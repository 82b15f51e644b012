------------------------------ MODULE MCPaiement ------------------------------
(***************************************************************************)
(* Instances of Paiement for TLC.                                          *)
(***************************************************************************)
EXTENDS Contrat, TLC

CONSTANTS r1, r2, t1, t2

SymetrieTaches == Permutations({t1, t2})

\* References are interchangeable too: nothing orders them but their opening.
Symetrie == SymetrieTaches \cup Permutations({r1, r2})
==============================================================================

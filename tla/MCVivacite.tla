------------------------------ MODULE MCVivacite ------------------------------
(***************************************************************************)
(* Instances for TLC of the components that promise an end: Paiement,      *)
(* Solde, Collecte and Partage.  They share no state: in a behaviour one   *)
(* of them moves, and the others stay as they started.  Their safety is    *)
(* checked elsewhere, on larger instances (MCPaiement, MCTresorerie).      *)
(***************************************************************************)
EXTENDS Paiement, Solde, Collecte, Partage, TLC

CONSTANTS r1, t1, t2, x1, x2, k1, k2, l1, l2

VARIABLE scene   \* the component that moves

\* Two people pay for both, each in their order, or for one.
DemandesMC == {<<1, 2>>, <<2, 1>>, <<1>>}

InitVivacite ==
  /\ scene \in {"paiement", "solde", "collecte", "partage"}
  /\ Init /\ InitSolde /\ InitPartage /\ InitCollecte
  /\ scene # "collecte" => profils = [p \in Appelables |-> {}]

NextVivacite ==
  /\ UNCHANGED scene
  /\ \/ scene = "paiement" /\ Next /\ UNCHANGED <<varsSolde, varsCollecte, varsPartage>>
     \/ scene = "solde" /\ NextSolde /\ UNCHANGED <<vars, varsCollecte, varsPartage>>
     \/ scene = "collecte" /\ NextCollecte /\ UNCHANGED <<vars, varsSolde, varsPartage>>
     \/ scene = "partage" /\ NextPartage /\ UNCHANGED <<vars, varsSolde, varsCollecte>>

\* The fairness of the specification of the component that moves.  Of the
\* others only Solde could move from where it started: the server of Paiement
\* has no request, Collecte no open contribution and Partage no lot.
EquiteVivacite ==
  /\ Equite
  /\ WF_varsSolde(scene = "solde" /\ LireSolde)
  /\ SF_varsSolde(scene = "solde" /\ ListerRetraits)
  /\ WF_varsSolde(scene = "solde" /\ LaisserPasser)
  /\ WF_varsSolde(scene = "solde" /\ Rapprocher)
  /\ WF_varsSolde(scene = "solde" /\ DenouerUn)
  /\ WF_varsSolde(scene = "solde" /\ AnnoterUn)
  /\ EquiteCollecte
  /\ EquitePartage

SpecVivacite ==
  /\ InitVivacite
  /\ [][NextVivacite]_<<scene, vars, varsSolde, varsCollecte, varsPartage>>
  /\ EquiteVivacite

\* What was started, or is owed, comes to an end: a payment that was identified
\* is settled, money that left is noted, the people a contribution aims at are
\* in it, crossed payments get their queues.
Aboutissements == AttenteFinit /\ SortieFiniConstatee /\ ViseFiniAppele /\ FilesAvancent
==============================================================================

------------------------------ MODULE MCCommande ------------------------------
(* Instances of Commande for TLC.                                          *)
EXTENDS Commande, TLC

CONSTANTS c1, c2, p1, v1, v2, q1, q2

\* One product sold in two sizes; the first order asks for both, the second for
\* one of them.
MCGrille == p1 :> {v1, v2}

MCPanier == (c1 :> <<[produit |-> p1, variante |-> v1], [produit |-> p1, variante |-> v2]>>)
         @@ (c2 :> <<[produit |-> p1, variante |-> v1]>>)

SymetrieRequetes == Permutations(Requetes)
==============================================================================

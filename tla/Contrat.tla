------------------------------- MODULE Contrat -------------------------------
(***************************************************************************)
(* Paiement as an implementation of Promesse: how the outcome of a payment *)
(* and what is about to be announced of it are read in the journal and in  *)
(* the handlers in flight.                                                 *)
(***************************************************************************)
EXTENDS Paiement

\* The outcomes handlers are about to carry to the domain.
EnRoute(r) ==
  {taches[t].issue : t \in {u \in Taches : taches[u].pc = "repercuter" /\ taches[u].ref = r}}

P == INSTANCE Promesse WITH
       Plafond   <- PlafondEffets,
       issue     <- [r \in References |-> journal[r].statut],
       paye      <- [r \in References |-> fapshi[r] = "SUCCESSFUL"],
       sure      <- [r \in References |-> age[r] < Expiree /\ demande[r] # "abandonnee"],
       aAnnoncer <- [r \in References |-> EnRoute(r)],
       entendu   <- effets

\* The journal, the webhooks, the cron passes and the return pages together keep
\* the promise of Promesse: whatever handlers look at a payment at once, the
\* domain hears only of outcomes that were decided, by whoever decided them, and
\* once of a final one; and a paid payment fails only when it is not final.
PromesseTenue == P!SpecPromesse
==============================================================================

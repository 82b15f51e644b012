------------------------------- MODULE Journal -------------------------------
(***************************************************************************)
(* The `transactions` table and the SQL statements of TransactionService.  *)
(*                                                                         *)
(* Every operation of the service is ONE conditional statement, so it is   *)
(* one atomic update here; what the callers do between two statements is   *)
(* modelled by the modules that extend this one.  An operation whose       *)
(* result the callers read (`affected === 1`) comes with a predicate       *)
(* XxxAffecte, true in the states where the statement changes a row.       *)
(***************************************************************************)
EXTENDS Naturals, FiniteSets

CONSTANT References      \* our payment references (the unique index)

ASSUME ReferencesAssumption == IsFiniteSet(References)

VARIABLE journal         \* the table: one row per reference

\* StatutPaiement, and "ABSENTE" for a reference that has no row yet.
Statuts == {"EN_ATTENTE", "COMPLETE", "ECHOUE"}

\* What the column `montant` holds: the amount asked of the payer, the amount
\* the treasury certified on a proof, or the amount the payer had declared.
Montants == {"annonce", "recu", "declare"}

\* A row: its status, whether reference_externe is set, and its amount.
Ligne == [statut : Statuts \cup {"ABSENTE"}, ext : BOOLEAN, montant : Montants]

LigneAbsente == [statut |-> "ABSENTE", ext |-> FALSE, montant |-> "annonce"]

JournalTypeOK == journal \in [References -> Ligne]

JournalInit == journal = [r \in References |-> LigneAbsente]

\* INSERT ... ON CONFLICT DO NOTHING: a second opening leaves the row alone.
Ouvrir(r) ==
  journal' = IF journal[r].statut = "ABSENTE"
             THEN [journal EXCEPT ![r] =
                     [LigneAbsente EXCEPT !.statut = "EN_ATTENTE"]]
             ELSE journal

\* Mutant: without `AND statut != :statut`, a replay changes the row again.
AppliquerAffecte_SansGarde(r, s) == journal[r].statut # "ABSENTE"

\* UPDATE ... SET statut = s WHERE reference = r AND statut != s.
AppliquerAffecte(r, s) == journal[r].statut \notin {"ABSENTE", s}

Appliquer(r, s) ==
  journal' = IF AppliquerAffecte(r, s)
             THEN [journal EXCEPT ![r].statut = s]
             ELSE journal

\* UPDATE ... SET statut = EN_ATTENTE, montant WHERE statut = COMPLETE.
RouvrirAffecte(r) == journal[r].statut = "COMPLETE"

Rouvrir(r, m) ==
  journal' = IF RouvrirAffecte(r)
             THEN [journal EXCEPT ![r].statut = "EN_ATTENTE", ![r].montant = m]
             ELSE journal

\* UPDATE ... SET montant, frais_prestataire = 0: no condition on the status.
Certifier(r, m) ==
  journal' = IF journal[r].statut = "ABSENTE"
             THEN journal
             ELSE [journal EXCEPT ![r].montant = m]

EnregistrerReferenceExterne(r) ==
  journal' = IF journal[r].statut = "ABSENTE"
             THEN journal
             ELSE [journal EXCEPT ![r].ext = TRUE]

\* Mutant: without `AND statut = :attente`, a paid row is given up too.
AbandonnerAffecte_SansGarde(r) == journal[r].statut # "ABSENTE" /\ ~journal[r].ext

\* UPDATE ... SET statut = ECHOUE WHERE EN_ATTENTE AND reference_externe IS NULL.
AbandonnerAffecte(r) == journal[r].statut = "EN_ATTENTE" /\ ~journal[r].ext

\* Mutant: a status outside the enumeration.
Abandonner_HorsEnum(r) ==
  journal' = IF AbandonnerAffecte(r)
             THEN [journal EXCEPT ![r].statut = "ABANDONNEE"]
             ELSE journal

Abandonner(r) ==
  journal' = IF AbandonnerAffecte(r)
             THEN [journal EXCEPT ![r].statut = "ECHOUE"]
             ELSE journal

\* The `taille` oldest rows still EN_ATTENTE among the candidates (those older
\* than the limit); rang gives the rows in created_at order.
EnAttenteAvant(candidats, rang, taille) ==
  LET attente == {r \in candidats : journal[r].statut = "EN_ATTENTE"}
  IN  {r \in attente : Cardinality({q \in attente : rang[q] < rang[r]}) < taille}

==============================================================================

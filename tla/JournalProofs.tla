---------------------------- MODULE JournalProofs ----------------------------
(***************************************************************************)
(* What the statements of Journal keep and change, for the modules that    *)
(* prove something of a component built on the journal.                    *)
(***************************************************************************)
EXTENDS Journal, TLAPS

\* Every statement of the journal keeps the rows well formed.
LEMMA JournalType ==
  ASSUME JournalTypeOK, NEW r \in References
  PROVE  /\ Ouvrir(r) => JournalTypeOK'
         /\ EnregistrerReferenceExterne(r) => JournalTypeOK'
         /\ Abandonner(r) => JournalTypeOK'
         /\ \A s \in Statuts : Appliquer(r, s) => JournalTypeOK'
         /\ \A m \in Montants : Rouvrir(r, m) \/ Certifier(r, m) => JournalTypeOK'
<1> USE DEF JournalTypeOK
<1>1. journal[r] \in Ligne  OBVIOUS
<1>2. Ouvrir(r) => JournalTypeOK'
  <2>1. [LigneAbsente EXCEPT !.statut = "EN_ATTENTE"] \in Ligne
    BY DEF LigneAbsente, Ligne, Statuts, Montants
  <2> QED  BY <2>1 DEF Ouvrir
<1>3. EnregistrerReferenceExterne(r) => JournalTypeOK'
  <2>1. [journal[r] EXCEPT !.ext = TRUE] \in Ligne  BY <1>1 DEF Ligne
  <2> QED  BY <2>1 DEF EnregistrerReferenceExterne
<1>4. \A s \in Statuts : [journal[r] EXCEPT !.statut = s] \in Ligne
  BY <1>1 DEF Ligne
<1>5. Abandonner(r) => JournalTypeOK'
  BY <1>4 DEF Abandonner, Statuts
<1>6. \A s \in Statuts : Appliquer(r, s) => JournalTypeOK'
  BY <1>4 DEF Appliquer
<1>7. ASSUME NEW m \in Montants, Rouvrir(r, m) \/ Certifier(r, m) PROVE JournalTypeOK'
  <2>1. [journal[r] EXCEPT !.montant = m] \in Ligne
    BY <1>1 DEF Ligne
  <2>2. [journal[r] EXCEPT !.statut = "EN_ATTENTE", !.montant = m] \in Ligne
    BY <1>1 DEF Ligne, Statuts
  <2> QED  BY <1>7, <2>1, <2>2 DEF Rouvrir, Certifier
<1> QED  BY <1>2, <1>3, <1>5, <1>6, <1>7

\* A statement names one row and leaves the others alone.
LEMMA JournalAilleurs ==
  ASSUME JournalTypeOK, NEW r \in References, NEW q \in References, q # r
  PROVE  /\ Ouvrir(r) => journal'[q] = journal[q]
         /\ EnregistrerReferenceExterne(r) => journal'[q] = journal[q]
         /\ Abandonner(r) => journal'[q] = journal[q]
         /\ \A s : Appliquer(r, s) => journal'[q] = journal[q]
         /\ \A m : Rouvrir(r, m) \/ Certifier(r, m) => journal'[q] = journal[q]
BY DEF JournalTypeOK, Ouvrir, EnregistrerReferenceExterne, Abandonner, Appliquer,
       Rouvrir, Certifier

\* What a statement makes of the status of the row it names.
LEMMA JournalStatut ==
  ASSUME JournalTypeOK, NEW r \in References
  PROVE  /\ Ouvrir(r) => journal'[r].statut = IF journal[r].statut = "ABSENTE"
                                              THEN "EN_ATTENTE" ELSE journal[r].statut
         /\ EnregistrerReferenceExterne(r) => journal'[r].statut = journal[r].statut
         /\ Abandonner(r) => journal'[r].statut = IF AbandonnerAffecte(r)
                                                  THEN "ECHOUE" ELSE journal[r].statut
         /\ \A s : Appliquer(r, s) => journal'[r].statut = IF AppliquerAffecte(r, s)
                                                           THEN s ELSE journal[r].statut
         /\ \A m : Rouvrir(r, m) => journal'[r].statut = IF RouvrirAffecte(r)
                                                         THEN "EN_ATTENTE" ELSE journal[r].statut
         /\ \A m : Certifier(r, m) => journal'[r].statut = journal[r].statut
<1>. USE DEF JournalTypeOK
<1>1. journal[r] \in Ligne
  OBVIOUS
<1>2. Ouvrir(r) => journal'[r].statut = IF journal[r].statut = "ABSENTE"
                                        THEN "EN_ATTENTE" ELSE journal[r].statut
  BY DEF Ouvrir, LigneAbsente
<1>. QED BY <1>1, <1>2 DEF EnregistrerReferenceExterne, Abandonner, Appliquer, Rouvrir,
                           Certifier, Ligne
=============================================================================

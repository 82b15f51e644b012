--------------------------------- MODULE Don ---------------------------------
(***************************************************************************)
(* Donations: DonService.                                                  *)
(*                                                                         *)
(* A donation is a payment without stock: a row, a transaction, and an     *)
(* issue that only the provider decides.  What makes it particular is that *)
(* nothing of the identity of an anonymous donor may be kept anywhere.     *)
(* Identity fields are a set: whose account, whose name, whose address.    *)
(***************************************************************************)
EXTENDS Naturals, FiniteSets

CONSTANTS Dons           \* references of donations

VARIABLES
  journalDon,  \* the table `transactions`
  dons,        \* the table `dons`
  fapshiDon,   \* what the provider knows
  demandesDon, \* the requests that create a donation
  issuesDon,   \* issues applied to the journal, whose effect is on its way
  traces,      \* what was written about the donor elsewhere: the row of the
               \* journal, the activity, the alert, the mail, the notification
  ecrasesDon   \* history: donations written over an attested issue

varsDon == <<journalDon, dons, fapshiDon, demandesDon, issuesDon, traces, ecrasesDon>>

J == INSTANCE Journal WITH journal <- journalDon, References <- Dons

------------------------------------------------------------------------------

\* What a form may hold: an account (the donor is logged in), a name, an
\* address, and whether the donor asks not to be known.
Identifiants == {"compte", "nom", "email"}
Formulaires == [anonyme : BOOLEAN, fournis : SUBSET Identifiants]

EtapesDon == {"repos", "ouvrir", "initier", "appele", "appliquer", "abandonner", "refermer", "fini"}

PasDeDon == [statut |-> "ABSENT", anonyme |-> FALSE, identite |-> {}]

TypeOKDon ==
  /\ J!JournalTypeOK
  /\ \A r \in Dons : /\ dons[r].statut \in J!Statuts \cup {"ABSENT"}
                     /\ dons[r].identite \subseteq Identifiants
  /\ fapshiDon \in [Dons -> {"INCONNU", "CREE", "REFUSE", "PAYE"}]
  /\ demandesDon \in [Dons -> EtapesDon]
  /\ issuesDon \subseteq Dons \X {"COMPLETE", "ECHOUE"}
  /\ traces \in [Dons -> SUBSET Identifiants]
  /\ ecrasesDon \subseteq Dons

InitDon ==
  /\ J!JournalInit
  /\ dons = [r \in Dons |-> PasDeDon]
  /\ fapshiDon = [r \in Dons |-> "INCONNU"]
  /\ demandesDon = [r \in Dons |-> "repos"]
  /\ issuesDon = {}
  /\ traces = [r \in Dons |-> {}]
  /\ ecrasesDon = {}

Etape(r, e) == demandesDon' = [demandesDon EXCEPT ![r] = e]

\* Mutant: the account of somebody who is logged in is kept all the same.
identite_AvecCompte(f) == IF f.anonyme THEN f.fournis \cap {"compte"} ELSE f.fournis

\* identite, and the account: nothing of an anonymous donation.
identite(f) == IF f.anonyme THEN {} ELSE f.fournis

------------------------------------------------------------------------------
(* creer.                                                                  *)

CreerDon(r, f) ==
  /\ demandesDon[r] = "repos"
  /\ dons' = [dons EXCEPT ![r] =
       [statut |-> "EN_ATTENTE", anonyme |-> f.anonyme, identite |-> identite(f)]]
  /\ Etape(r, "ouvrir")
  /\ UNCHANGED <<journalDon, fapshiDon, issuesDon, traces, ecrasesDon>>

\* The transaction takes the account of the row.
OuvrirDon(r) ==
  /\ demandesDon[r] = "ouvrir"
  /\ J!Ouvrir(r)
  /\ traces' = [traces EXCEPT ![r] = @ \cup (dons[r].identite \cap {"compte"})]
  /\ Etape(r, "initier")
  /\ UNCHANGED <<dons, fapshiDon, issuesDon, ecrasesDon>>

InitierDon(r) ==
  /\ demandesDon[r] = "initier"
  /\ \E etat \in {"INCONNU", "CREE", "REFUSE"} :
       /\ fapshiDon' = [fapshiDon EXCEPT ![r] = etat]
       /\ \/ etat # "INCONNU" /\ Etape(r, "appele")
          \/ etat # "REFUSE" /\ Etape(r, "abandonner")
  /\ UNCHANGED <<journalDon, dons, issuesDon, traces, ecrasesDon>>

ConclureDon(r) ==
  /\ demandesDon[r] = "appele"
  /\ J!EnregistrerReferenceExterne(r)
  /\ \/ fapshiDon[r] # "REFUSE" /\ Etape(r, "fini")
     \/ fapshiDon[r] = "PAYE" /\ Etape(r, "appliquer")
     \/ fapshiDon[r] = "REFUSE" /\ Etape(r, "abandonner")
  /\ UNCHANGED <<dons, fapshiDon, issuesDon, traces, ecrasesDon>>

AppliquerDon(r) ==
  /\ demandesDon[r] = "appliquer"
  /\ J!Appliquer(r, "COMPLETE")
  /\ issuesDon' = IF J!AppliquerAffecte(r, "COMPLETE")
                  THEN issuesDon \cup {<<r, "COMPLETE">>} ELSE issuesDon
  /\ Etape(r, "fini")
  /\ UNCHANGED <<dons, fapshiDon, traces, ecrasesDon>>

\* The catch: abandonner, then ECHOUE whatever the donation became.
AbandonnerDon(r) ==
  /\ demandesDon[r] = "abandonner"
  /\ J!Abandonner(r)
  /\ Etape(r, "refermer")
  /\ UNCHANGED <<dons, fapshiDon, issuesDon, traces, ecrasesDon>>

RefermerDon(r) ==
  /\ demandesDon[r] = "refermer"
  /\ dons' = [dons EXCEPT ![r].statut = "ECHOUE"]
  /\ ecrasesDon' = IF journalDon[r].statut = "COMPLETE"
                   THEN ecrasesDon \cup {r} ELSE ecrasesDon
  /\ Etape(r, "fini")
  /\ UNCHANGED <<journalDon, fapshiDon, issuesDon, traces>>

------------------------------------------------------------------------------
(* traiterIssue.                                                           *)

PayerDon(r) ==
  /\ fapshiDon[r] = "CREE"
  /\ fapshiDon' = [fapshiDon EXCEPT ![r] = "PAYE"]
  /\ UNCHANGED <<journalDon, dons, demandesDon, issuesDon, traces, ecrasesDon>>

RecevoirIssueDon(r, issue) ==
  /\ IF issue = "COMPLETE" THEN fapshiDon[r] = "PAYE"
     ELSE fapshiDon[r] # "PAYE" /\ journalDon[r].ext /\ journalDon[r].statut = "EN_ATTENTE"
  /\ J!AppliquerAffecte(r, issue)
  /\ J!Appliquer(r, issue)
  /\ issuesDon' = issuesDon \cup {<<r, issue>>}
  /\ UNCHANGED <<dons, fapshiDon, demandesDon, traces, ecrasesDon>>

\* UPDATE dons SET statut WHERE id AND statut != statut.
IssueAffecte(r, issue) == dons[r].statut # issue

\* apresReception tells the treasury and the activity who gave, and thanks the
\* account and the address; apresEchec tells the account only.
EffetDon(r, issue) ==
  /\ <<r, issue>> \in issuesDon
  /\ issuesDon' = issuesDon \ {<<r, issue>>}
  /\ IF IssueAffecte(r, issue)
     THEN /\ dons' = [dons EXCEPT ![r].statut = issue]
          /\ traces' = [traces EXCEPT ![r] = @ \cup
               (dons[r].identite \cap (IF issue = "COMPLETE" THEN Identifiants ELSE {"compte"}))]
          /\ ecrasesDon' = IF issue = "ECHOUE" /\ journalDon[r].statut = "COMPLETE"
                           THEN ecrasesDon \cup {r} ELSE ecrasesDon
     ELSE UNCHANGED <<dons, traces, ecrasesDon>>
  /\ UNCHANGED <<journalDon, fapshiDon, demandesDon>>

------------------------------------------------------------------------------

NextDon ==
  \E r \in Dons :
    \/ \E f \in Formulaires : CreerDon(r, f)
    \/ OuvrirDon(r) \/ InitierDon(r) \/ ConclureDon(r) \/ AppliquerDon(r)
    \/ AbandonnerDon(r) \/ RefermerDon(r) \/ PayerDon(r)
    \/ \E i \in {"COMPLETE", "ECHOUE"} : RecevoirIssueDon(r, i) \/ EffetDon(r, i)

SpecDon == InitDon /\ [][NextDon]_varsDon

------------------------------------------------------------------------------
(* Properties.                                                             *)

\* "L'anonymat est réel": of somebody who asked not to be known, no table, no
\* message and no log holds anything, logged in or not, received or failed.
AnonymatReel == \A r \in Dons : dons[r].anonyme => dons[r].identite \cup traces[r] = {}

\* A donation is counted as received exactly when the provider attests it, once
\* nothing about it is under way, unless the catch of its creation overwrote a
\* notification that came first.
DonSuitJournal ==
  \A r \in Dons \ ecrasesDon :
    (demandesDon[r] \in {"repos", "fini"} /\ \A i \in issuesDon : i[1] # r)
      => (dons[r].statut = "COMPLETE" <=> journalDon[r].statut = "COMPLETE")

\* What a donor is promised: not to be known if they ask, and to be counted when
\* they gave.
DonTenu == AnonymatReel /\ DonSuitJournal

==============================================================================

------------------------------ MODULE Partage ------------------------------
(***************************************************************************)
(* One payment for several people (CotisationService.payerPourPlusieurs).  *)
(*                                                                         *)
(* A lot holds one payment, a `reglement`, per person, under one row of    *)
(* the journal.  They are reserved while holding the in-memory queue of    *)
(* every participation, taken in order, and one after the other; then the  *)
(* provider is asked for their sum, and its answer is carried to each.     *)
(* A payment is the smallest amount accepted; every person owes DuPartage. *)
(***************************************************************************)
EXTENDS Integers, FiniteSets, SequencesExt

CONSTANTS Cotisants,  \* numbers: the order in which queues are taken
          Lots,       \* the requests
          Demandes,   \* the lists of people one may pay for
          Suivis,     \* the lots followed beyond their reservation (a bound)
          DuPartage   \* what each person owes

ASSUME PartageAssumption ==
  /\ Cotisants \subseteq Nat
  /\ \A d \in Demandes : d \in Seq(Cotisants) /\ d # << >> /\ IsInjective(d)
  /\ IsFiniteSet(Lots)
  /\ DuPartage \in Nat

VARIABLES
  journalPartage, \* the table `transactions`
  reglementsLot,  \* the payment of each person in each lot
  soldes,         \* montantRegle of each participation
  appelOuvert,    \* the contribution is open
  files,          \* the queue of each participation, its holder first
  lots,           \* the requests that create a lot
  fapshiLot,      \* what the provider knows
  suites,         \* issues on their way: the lot, the issue, people to go
  renoncements,   \* requests to give a lot up
  echoues,        \* history: lots whose payments were closed once
  meles           \* history: lots settled twice, or closed over an issue

varsPartage == <<journalPartage, reglementsLot, soldes, appelOuvert, files, lots,
                 fapshiLot, suites, renoncements, echoues, meles>>

JL == INSTANCE Journal WITH journal <- journalPartage, References <- Lots

Repos == [pc |-> "repos", pour |-> << >>, rang |-> 0]

EtapesLot == {"repos", "verrous", "lire", "ecrire", "defaire", "ouvrir", "initier", "appele",
              "appliquer", "abandonner", "refermer", "fini"}

TypeOKPartage ==
  /\ JL!JournalTypeOK
  /\ reglementsLot \in [Lots -> [Cotisants -> JL!Statuts \cup {"AUCUN"}]]
  /\ \A p \in Cotisants : soldes[p] \in Nat /\ IsInjective(files[p])
  /\ \A l \in Lots : lots[l].pc \in EtapesLot /\ lots[l].rang \in 0 .. Len(lots[l].pour)
  /\ \A s \in suites : s.pour # {} /\ s.issue \in {"COMPLETE", "ECHOUE"}

InitPartage ==
  /\ JL!JournalInit
  /\ reglementsLot = [l \in Lots |-> [p \in Cotisants |-> "AUCUN"]]
  /\ soldes = [p \in Cotisants |-> 0]
  /\ appelOuvert = TRUE
  /\ files = [p \in Cotisants |-> << >>]
  /\ lots = [l \in Lots |-> Repos]
  /\ fapshiLot = [l \in Lots |-> "INCONNU"]
  /\ suites = {}
  /\ renoncements = [l \in Lots |-> "repos"]
  /\ echoues = {} /\ meles = {}

Rangs(l) == {p \in Cotisants : reglementsLot[l][p] # "AUCUN"}

EnAttenteDe(p) == Cardinality({l \in Lots : reglementsLot[l][p] = "EN_ATTENTE"})

Allerlot(l, pc) == lots' = [lots EXCEPT ![l].pc = pc]

\* An issue of l is being carried, or l is being given up.
EnMouvement(l) == (\E s \in suites : s.lot = l) \/ renoncements[l] # "repos"

Meler(l, si) == meles' = IF si THEN meles \cup {l} ELSE meles

------------------------------------------------------------------------------
(* reserverLesReglements.                                                  *)

\* Mutant: the queues are taken in the order of the list.
Cles_DansLOrdreDonne(pour) == pour

\* avecVerrous sorts them: two crossed payments do not wait for each other.
Cles(pour) ==
  CHOOSE s \in [1 .. Len(pour) -> ToSet(pour)] : \A i, j \in 1 .. Len(pour) : i < j => s[i] < s[j]

Demander(l) == \E d \in Demandes :
  /\ lots[l] = Repos
  /\ lots' = [lots EXCEPT ![l] = [pc |-> "verrous", pour |-> d, rang |-> 1]]
  /\ files' = [files EXCEPT ![Cles(d)[1]] = Append(@, l)]
  /\ UNCHANGED <<journalPartage, reglementsLot, soldes, appelOuvert, fapshiLot, suites,
                 renoncements, echoues, meles>>

\* Holding the queue of the rang-th key, l enters that of the next one.
Obtenir(l) ==
  LET cles == Cles(lots[l].pour)
      rang == lots[l].rang
  IN  /\ lots[l].pc = "verrous"
      /\ Head(files[cles[rang]]) = l
      /\ IF rang < Len(cles)
         THEN /\ lots' = [lots EXCEPT ![l].rang = rang + 1]
              /\ files' = [files EXCEPT ![cles[rang + 1]] = Append(@, l)]
         ELSE /\ lots' = [lots EXCEPT ![l].rang = 1, ![l].pc = "lire"]
              /\ UNCHANGED files
      /\ UNCHANGED <<journalPartage, reglementsLot, soldes, appelOuvert, fapshiLot, suites,
                     renoncements, echoues, meles>>

\* Whoever held a queue leaves it to the next.
Rendues(l) ==
  [p \in Cotisants |-> IF files[p] # << >> /\ Head(files[p]) = l THEN Tail(files[p]) ELSE files[p]]

\* What is left to engage of a participation, in a contribution still open.
Reglable(p) == appelOuvert /\ soldes[p] + EnAttenteDe(p) < DuPartage

\* reserverUnReglement chooses the instalment, then writes the payment.
LireLigne(l) ==
  /\ lots[l].pc = "lire"
  /\ Allerlot(l, IF Reglable(lots[l].pour[lots[l].rang]) THEN "ecrire" ELSE "defaire")
  /\ UNCHANGED <<journalPartage, reglementsLot, soldes, appelOuvert, files, fapshiLot, suites,
                 renoncements, echoues, meles>>

EcrireLigne(l) ==
  LET rang == lots[l].rang
  IN  /\ lots[l].pc = "ecrire"
      /\ reglementsLot' = [reglementsLot EXCEPT ![l][lots[l].pour[rang]] = "EN_ATTENTE"]
      /\ IF rang < Len(lots[l].pour)
         THEN /\ lots' = [lots EXCEPT ![l].rang = rang + 1, ![l].pc = "lire"]
              /\ UNCHANGED files
         ELSE Allerlot(l, "ouvrir") /\ files' = Rendues(l)
      /\ UNCHANGED <<journalPartage, soldes, appelOuvert, fapshiLot, suites, renoncements, echoues, meles>>

\* Mutant: the refusal of one leaves the payments already written.
DefaireLot_Garde(l) ==
  /\ lots[l].pc = "defaire"
  /\ Allerlot(l, "fini")
  /\ files' = Rendues(l)
  /\ UNCHANGED <<journalPartage, reglementsLot, soldes, appelOuvert, fapshiLot, suites,
                 renoncements, echoues, meles>>

\* "Tout ou rien : un règlement déjà écrit ne doit pas rester seul."
DefaireLot(l) ==
  /\ lots[l].pc = "defaire"
  /\ reglementsLot' = [reglementsLot EXCEPT ![l] = [p \in Cotisants |-> "AUCUN"]]
  /\ Allerlot(l, "fini")
  /\ files' = Rendues(l)
  /\ UNCHANGED <<journalPartage, soldes, appelOuvert, fapshiLot, suites, renoncements, echoues, meles>>

------------------------------------------------------------------------------
(* The payment of the lot.                                                 *)

OuvrirLot(l) ==
  /\ lots[l].pc = "ouvrir" /\ l \in Suivis
  /\ JL!Ouvrir(l)
  /\ Allerlot(l, "initier")
  /\ UNCHANGED <<reglementsLot, soldes, appelOuvert, files, fapshiLot, suites, renoncements, echoues, meles>>

\* The call may fail although the provider created the payment.
InitierLot(l) ==
  /\ lots[l].pc = "initier"
  /\ \E etat \in {"INCONNU", "CREE", "REFUSE"} :
       /\ fapshiLot' = [fapshiLot EXCEPT ![l] = etat]
       /\ \/ etat # "INCONNU" /\ Allerlot(l, "appele")
          \/ etat # "REFUSE" /\ Allerlot(l, "abandonner")
  /\ UNCHANGED <<journalPartage, reglementsLot, soldes, appelOuvert, files, suites,
                 renoncements, echoues, meles>>

ConclureLot(l) ==
  /\ lots[l].pc = "appele"
  /\ JL!EnregistrerReferenceExterne(l)
  /\ \/ fapshiLot[l] # "REFUSE" /\ Allerlot(l, "fini")
     \/ fapshiLot[l] = "PAYE" /\ Allerlot(l, "appliquer")
     \/ fapshiLot[l] = "REFUSE" /\ Allerlot(l, "abandonner")
  /\ UNCHANGED <<reglementsLot, soldes, appelOuvert, files, fapshiLot, suites,
                 renoncements, echoues, meles>>

Porter(l, issue) ==
  suites' = IF JL!AppliquerAffecte(l, issue)
            THEN suites \cup {[lot |-> l, issue |-> issue, pour |-> Rangs(l)]} ELSE suites

AppliquerLot(l) ==
  /\ lots[l].pc = "appliquer"
  /\ JL!Appliquer(l, "COMPLETE")
  /\ Porter(l, "COMPLETE")
  /\ Meler(l, EnMouvement(l))
  /\ Allerlot(l, "fini")
  /\ UNCHANGED <<reglementsLot, soldes, appelOuvert, files, fapshiLot, renoncements, echoues>>

\* The catch: abandonner, then ECHOUE whatever each payment became.
AbandonnerLot(l) ==
  /\ lots[l].pc = "abandonner"
  /\ JL!Abandonner(l)
  /\ Allerlot(l, "refermer")
  /\ UNCHANGED <<reglementsLot, soldes, appelOuvert, files, fapshiLot, suites,
                 renoncements, echoues, meles>>

Refermes(l, quels) ==
  /\ reglementsLot' = [reglementsLot EXCEPT ![l] =
    [p \in Cotisants |-> IF p \in Rangs(l) /\ reglementsLot[l][p] \in quels
                         THEN "ECHOUE" ELSE reglementsLot[l][p]]]
  /\ echoues' = echoues \cup {l}

RefermerLot(l) ==
  /\ lots[l].pc = "refermer"
  /\ Refermes(l, JL!Statuts)
  /\ Meler(l, EnMouvement(l) \/ journalPartage[l].statut = "COMPLETE")
  /\ Allerlot(l, "fini")
  /\ UNCHANGED <<journalPartage, soldes, appelOuvert, files, fapshiLot, suites, renoncements>>

PayerLot(l) ==
  /\ fapshiLot[l] = "CREE"
  /\ fapshiLot' = [fapshiLot EXCEPT ![l] = "PAYE"]
  /\ UNCHANGED <<journalPartage, reglementsLot, soldes, appelOuvert, files, lots, suites,
                 renoncements, echoues, meles>>

\* A notification, or the pass: ECHOUE is said of a payment nobody made.
RecevoirIssueLot(l, issue) ==
  /\ IF issue = "COMPLETE" THEN fapshiLot[l] = "PAYE"
     ELSE fapshiLot[l] # "PAYE" /\ journalPartage[l].ext /\ journalPartage[l].statut = "EN_ATTENTE"
  /\ JL!AppliquerAffecte(l, issue)
  /\ JL!Appliquer(l, issue)
  /\ Porter(l, issue)
  /\ Meler(l, EnMouvement(l) \/ lots[l].pc \in {"abandonner", "refermer"})
  /\ UNCHANGED <<reglementsLot, soldes, appelOuvert, files, lots, fapshiLot, renoncements, echoues>>

\* traiterIssue takes the payments one by one; crediter and refuser write by id.
RepercuterLot(s) == \E p \in s.pour :
  /\ \A q \in s.pour : p <= q
  /\ reglementsLot' = [reglementsLot EXCEPT ![s.lot][p] = s.issue]
  /\ soldes' = IF s.issue = "COMPLETE" THEN [soldes EXCEPT ![p] = @ + 1] ELSE soldes
  /\ suites' = (suites \ {s}) \cup
                 (IF s.pour = {p} THEN {} ELSE {[s EXCEPT !.pour = @ \ {p}]})
  /\ echoues' = IF s.issue = "ECHOUE" THEN echoues \cup {s.lot} ELSE echoues
  /\ UNCHANGED <<journalPartage, appelOuvert, files, lots, fapshiLot, renoncements, meles>>

------------------------------------------------------------------------------
(* abandonnerReglement: "un paiement partagé s'abandonne en entier".       *)

Etaper(l, e) == renoncements' = [renoncements EXCEPT ![l] = e]

LireRenoncement(l) ==
  /\ renoncements[l] = "repos"
  /\ l \in Suivis /\ \E p \in Cotisants : reglementsLot[l][p] = "EN_ATTENTE"
  /\ Etaper(l, "expirer")
  /\ Meler(l, EnMouvement(l) \/ lots[l].pc # "fini")
  /\ UNCHANGED <<journalPartage, reglementsLot, soldes, appelOuvert, files, lots, fapshiLot, suites,
                 echoues>>

\* The provider closes its page, unless it was used, or does not answer.
ExpirerLot(l) ==
  /\ renoncements[l] = "expirer"
  /\ \/ /\ journalPartage[l].ext /\ fapshiLot[l] = "CREE"
        /\ fapshiLot' = [fapshiLot EXCEPT ![l] = "REFUSE"]
     \/ UNCHANGED fapshiLot
  /\ Etaper(l, "appliquer")
  /\ UNCHANGED <<journalPartage, reglementsLot, soldes, appelOuvert, files, lots, suites, echoues, meles>>

AppliquerRenoncement(l) ==
  /\ renoncements[l] = "appliquer"
  /\ JL!Appliquer(l, "ECHOUE")
  /\ Etaper(l, "refermer")
  /\ UNCHANGED <<reglementsLot, soldes, appelOuvert, files, lots, fapshiLot, suites, echoues, meles>>

\* Of a lot, those still pending; the payment of one person by its id.
RefermerRenoncement(l) ==
  /\ renoncements[l] = "refermer"
  /\ Refermes(l, IF Len(lots[l].pour) > 1 THEN {"EN_ATTENTE"} ELSE JL!Statuts)
  /\ Etaper(l, "repos")
  /\ UNCHANGED <<journalPartage, soldes, appelOuvert, files, lots, fapshiLot, suites, meles>>

CloreAppel ==
  /\ appelOuvert /\ appelOuvert' = FALSE
  /\ UNCHANGED <<journalPartage, reglementsLot, soldes, files, lots, fapshiLot, suites,
                 renoncements, echoues, meles>>

------------------------------------------------------------------------------

SousVerrous(l) == Obtenir(l) \/ LireLigne(l) \/ EcrireLigne(l) \/ DefaireLot(l)

NextPartage ==
  \/ CloreAppel
  \/ \E l \in Lots :
       \/ Demander(l) \/ SousVerrous(l)
       \/ OuvrirLot(l) \/ InitierLot(l) \/ ConclureLot(l) \/ AppliquerLot(l)
       \/ AbandonnerLot(l) \/ RefermerLot(l) \/ PayerLot(l)
       \/ \E i \in {"COMPLETE", "ECHOUE"} : RecevoirIssueLot(l, i)
       \/ LireRenoncement(l) \/ ExpirerLot(l) \/ AppliquerRenoncement(l)
       \/ RefermerRenoncement(l)
  \/ \E s \in suites : RepercuterLot(s)

\* A request under way goes on, unless it waits for another.
EquitePartage == \A l \in Lots : WF_varsPartage(SousVerrous(l))

SpecPartage == InitPartage /\ [][NextPartage]_varsPartage /\ EquitePartage

------------------------------------------------------------------------------
(* Properties.                                                             *)

EnCoursLot(l) ==
  EnMouvement(l) \/ lots[l].pc \in {"verrous", "lire", "ecrire", "defaire", "appliquer", "abandonner", "refermer"}

\* All or nothing: once nothing about a lot is under way, the payments of its
\* people are in one state, credited exactly when the journal says so, unless
\* it was settled by two requests at once.
LotEntier ==
  \A l \in Lots \ meles :
    ~EnCoursLot(l) => \A p \in ToSet(lots[l].pour) :
      /\ \A q \in ToSet(lots[l].pour) : reglementsLot[l][p] = reglementsLot[l][q]
      /\ reglementsLot[l][p] = "COMPLETE" <=> journalPartage[l].statut = "COMPLETE"

\* What is credited to a person is what lots credited, and two lots never engage
\* the same part of what they owe, unless one was given up or refused, and then
\* paid.
PartDeChacun ==
  meles = {} => \A p \in Cotisants :
    /\ soldes[p] = Cardinality({l \in Lots : reglementsLot[l][p] = "COMPLETE"})
    /\ (\A l \in echoues : p \in ToSet(lots[l].pour) => fapshiLot[l] # "PAYE")
         => soldes[p] + EnAttenteDe(p) <= DuPartage

PartageJuste == LotEntier /\ PartDeChacun

\* Crossed payments do not wait for each other: whoever asked for queues gets
\* them, and leaves them.
FilesAvancent ==
  \A l \in Lots : lots[l].pc = "verrous" ~> lots[l].pc \notin {"verrous", "lire", "ecrire", "defaire"}

==============================================================================

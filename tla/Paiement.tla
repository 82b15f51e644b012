------------------------------- MODULE Paiement -------------------------------
(***************************************************************************)
(* An online payment from its opening to its effect on the domain.         *)
(*                                                                         *)
(* The actors are the request that opens the payment (ouvrir, initier,     *)
(* enregistrerReferenceExterne, abandonner), the provider Fapshi, and the  *)
(* in-flight handlers of the server: a webhook, a pass of the              *)
(* reconciliation cron, or the check asked by the return page.  A handler  *)
(* is cut at each `await`: the question to the provider, the conditional   *)
(* UPDATE of the journal, the effect on the domain.  Between two cuts any  *)
(* other actor may act.  A restart drops every handler in flight.          *)
(***************************************************************************)
EXTENDS Journal

CONSTANTS Taches,        \* slots for handlers in flight
          ParPassage,    \* PAR_PASSAGE: rows examined by one cron pass
          MaxPannes      \* bound on restarts and on failing effects

ASSUME ParPassageAssumption == ParPassage \in Nat \ {0}
ASSUME MaxPannesAssumption  == MaxPannes \in Nat

VARIABLES
  rang,       \* created_at order of the rows, 0 for a row not opened
  age,        \* how old each row is, in thresholds of the code (see below)
  demande,    \* progress of the request that opens each payment
  fapshi,     \* what Fapshi knows of each reference
  acquitte,   \* Fapshi's notification of this reference was answered 200
  taches,     \* the handlers in flight
  effets,     \* how many times each issue reached the domain (saturating)
  pannes      \* restarts and failing effects so far

vars == <<journal, rang, age, demande, fapshi, acquitte, taches, effets, pannes>>

------------------------------------------------------------------------------
(* Time.  A row is compared with three thresholds only, so its age is the  *)
(* number of thresholds it has passed.                                     *)

Verifiable == 1      \* older than DELAI_VERIFICATION_MS (20 s)
Rattrapable == 2     \* older than PAIEMENT_DELAI_GRACE_MINUTES (3 min)
Expiree == 3         \* older than PAIEMENT_DELAI_EXPIRATION_MINUTES (30 min)

Ages == 0 .. Expiree

(* The provider.  CREATED and PENDING are the same answer, and so are      *)
(* FAILED and EXPIRED; "INCONNUE" when no payment was created.             *)
EtatsFapshi == {"INCONNUE", "PENDING", "SUCCESSFUL", "FAILED"}

\* Mutant: a payment created is taken for a payment made.
versStatut_Optimiste(e) == CASE e \in {"SUCCESSFUL", "PENDING"} -> "COMPLETE"
                             [] e = "FAILED"                   -> "ECHOUE"

versStatut(e) == CASE e = "SUCCESSFUL" -> "COMPLETE"
                   [] e = "PENDING"    -> "EN_ATTENTE"
                   [] e = "FAILED"     -> "ECHOUE"

(* The opening request: "attente" between ouvrir and the provider's        *)
(* answer, "acceptee" once it answered, "refusee" when the call raised;    *)
(* then "finie", "abandonnee", or "interrompue" by a restart.              *)
EnCours == {"attente", "acceptee", "refusee"}

EtatsDemande == EnCours \cup {"aucune", "finie", "abandonnee", "interrompue"}

(* A handler in flight: the row it is treating, and those left for it.     *)
Tache == [role  : {"webhook", "cron", "suivi"},
          pc    : {"verifier", "appliquer", "repercuter"},
          ref   : References,
          lot   : SUBSET References,
          issue : Statuts]

Libre == [pc |-> "libre"]

Issues == {"COMPLETE", "ECHOUE"}

PlafondEffets == 2       \* effects are counted up to two

TypeOK ==
  /\ JournalTypeOK
  /\ rang \in [References -> Nat]
  /\ age \in [References -> Ages]
  /\ demande \in [References -> EtatsDemande]
  /\ fapshi \in [References -> EtatsFapshi]
  /\ acquitte \in [References -> BOOLEAN]
  /\ taches \in [Taches -> Tache \cup {Libre}]
  /\ effets \in [References -> [Issues -> 0 .. PlafondEffets]]
  /\ pannes \in 0 .. MaxPannes

Init ==
  /\ JournalInit
  /\ rang = [r \in References |-> 0]
  /\ age = [r \in References |-> 0]
  /\ demande = [r \in References |-> "aucune"]
  /\ fapshi = [r \in References |-> "INCONNUE"]
  /\ acquitte = [r \in References |-> FALSE]
  /\ taches = [t \in Taches |-> Libre]
  /\ effets = [r \in References |-> [s \in Issues |-> 0]]
  /\ pannes = 0

------------------------------------------------------------------------------
(* The request that opens a payment.                                       *)

Ouvertes == {r \in References : rang[r] > 0}

Dater(r) == rang' = [rang EXCEPT ![r] = Cardinality(Ouvertes) + 1]

\* The row is created before the provider is called.
OuvrirEnLigne(r) ==
  /\ demande[r] = "aucune"
  /\ Ouvrir(r)
  /\ Dater(r)
  /\ demande' = [demande EXCEPT ![r] = "attente"]
  /\ UNCHANGED <<age, fapshi, acquitte, taches, effets, pannes>>

\* A payment announced off line: a row without any call to the provider.
OuvrirHorsLigne(r) ==
  /\ demande[r] = "aucune"
  /\ Ouvrir(r)
  /\ Dater(r)
  /\ demande' = [demande EXCEPT ![r] = "finie"]
  /\ UNCHANGED <<age, fapshi, acquitte, taches, effets, pannes>>

\* Fapshi creates the payment while our call is still open: the payer may pay
\* it, and its notification may arrive, before we have the answer.
FapshiCree(r) ==
  /\ demande[r] = "attente"
  /\ fapshi[r] = "INCONNUE"
  /\ fapshi' = [fapshi EXCEPT ![r] = "PENDING"]
  /\ UNCHANGED <<journal, rang, age, demande, acquitte, taches, effets, pannes>>

\* initier returns the provider's identifier.
InitierAccepte(r) ==
  /\ demande[r] = "attente"
  /\ fapshi[r] # "INCONNUE"
  /\ demande' = [demande EXCEPT ![r] = "acceptee"]
  /\ UNCHANGED <<journal, rang, age, fapshi, acquitte, taches, effets, pannes>>

\* initier raises: refused, or timed out on a payment that may exist.
InitierLeve(r) ==
  /\ demande[r] = "attente"
  /\ demande' = [demande EXCEPT ![r] = "refusee"]
  /\ UNCHANGED <<journal, rang, age, fapshi, acquitte, taches, effets, pannes>>

ConserverIdentifiant(r) ==
  /\ demande[r] = "acceptee"
  /\ EnregistrerReferenceExterne(r)
  /\ demande' = [demande EXCEPT ![r] = "finie"]
  /\ UNCHANGED <<rang, age, fapshi, acquitte, taches, effets, pannes>>

AbandonnerDemande(r) ==
  /\ demande[r] = "refusee"
  /\ Abandonner(r)
  /\ demande' = [demande EXCEPT ![r] = "abandonnee"]
  /\ UNCHANGED <<rang, age, fapshi, acquitte, taches, effets, pannes>>

------------------------------------------------------------------------------
(* The provider (external) and the clock.                                  *)

Payer(r) ==
  /\ fapshi[r] = "PENDING"
  /\ fapshi' = [fapshi EXCEPT ![r] = "SUCCESSFUL"]
  /\ UNCHANGED <<journal, rang, age, demande, acquitte, taches, effets, pannes>>

RefuserPaiement(r) ==
  /\ fapshi[r] = "PENDING"
  /\ fapshi' = [fapshi EXCEPT ![r] = "FAILED"]
  /\ UNCHANGED <<journal, rang, age, demande, acquitte, taches, effets, pannes>>

\* Rows age together: none passes a threshold before an older one.
Vieillir(r) ==
  /\ r \in Ouvertes
  /\ \A q \in Ouvertes : rang[q] < rang[r] => age[q] > age[r]
  /\ age[r] < Expiree
  /\ age' = [age EXCEPT ![r] = @ + 1]
  /\ UNCHANGED <<journal, rang, demande, fapshi, acquitte, taches, effets, pannes>>

------------------------------------------------------------------------------
(* The handlers.                                                           *)

\* The oldest row of a batch.
Premieres(lot) == {r \in lot : \A q \in lot : rang[r] <= rang[q]}

\* Slot t goes on with the oldest row of lot.
Traiter(t, role, lot) ==
  \E r \in Premieres(lot) :
    taches' = [taches EXCEPT ![t] = [role |-> role, pc |-> "verifier", ref |-> r,
                                     lot |-> lot \ {r}, issue |-> "EN_ATTENTE"]]

Commencer(t, role, lot) == taches[t] = Libre /\ Traiter(t, role, lot)

\* The handler is done with its row: it goes on to the next, or returns.
Suite(t) ==
  IF taches[t].lot = {}
  THEN taches' = [taches EXCEPT ![t] = Libre]
  ELSE Traiter(t, taches[t].role, taches[t].lot)

\* A webhook answers 200 when its handler returns.
Acquittement(t) ==
  acquitte' = IF taches[t].role = "webhook"
              THEN [acquitte EXCEPT ![taches[t].ref] = TRUE]
              ELSE acquitte

\* Fapshi notifies a final state, as many times as it likes.
RecevoirWebhook(t, r) ==
  /\ fapshi[r] \in {"SUCCESSFUL", "FAILED"}
  /\ Commencer(t, "webhook", {r})
  /\ UNCHANGED <<journal, rang, age, demande, fapshi, acquitte, effets, pannes>>

\* A cron pass reads its rows once, and then treats them one after the other.
\* The rows read without an external reference take a place and are skipped.
LotDuPassage ==
  LET anciennes == {r \in Ouvertes : age[r] >= Rattrapable}
  IN  {r \in EnAttenteAvant(anciennes, rang, ParPassage) : journal[r].ext}

Reconcilier(t) ==
  /\ Commencer(t, "cron", LotDuPassage)
  /\ UNCHANGED <<journal, rang, age, demande, fapshi, acquitte, effets, pannes>>

VerifierMaintenant(t, r) ==
  /\ journal[r].statut = "EN_ATTENTE"
  /\ journal[r].ext
  /\ age[r] >= Verifiable
  /\ Commencer(t, "suivi", {r})
  /\ UNCHANGED <<journal, rang, age, demande, fapshi, acquitte, effets, pannes>>

\* Mutant: expired as soon as the payment may be reconciled.
IssueRetenue_Pressee(t, r) ==
  LET statut == versStatut(fapshi[r])
  IN  IF taches[t].role \in {"cron", "suivi"} /\ statut = "EN_ATTENTE"
      THEN "ECHOUE"
      ELSE statut

\* The status a handler goes on with, from the provider's answer: a webhook
\* takes it as it is; the reconciliation turns a payment still pending after
\* the expiry delay into a failure, and otherwise waits (EN_ATTENTE).
IssueRetenue(t, r) ==
  LET statut == versStatut(fapshi[r])
  IN  IF /\ taches[t].role \in {"cron", "suivi"}
         /\ statut = "EN_ATTENTE"
         /\ age[r] >= Expiree
      THEN "ECHOUE"
      ELSE statut

\* The provider answers.
Verifier(t) ==
  /\ taches[t].pc = "verifier"
  /\ fapshi[taches[t].ref] # "INCONNUE"
  /\ LET issue == IssueRetenue(t, taches[t].ref)
     IN  IF taches[t].role # "webhook" /\ issue = "EN_ATTENTE"
         THEN Suite(t)
         ELSE taches' = [taches EXCEPT ![t].pc = "appliquer", ![t].issue = issue]
  /\ UNCHANGED <<journal, rang, age, demande, fapshi, acquitte, effets, pannes>>

\* Mutant: a webhook we could not check is answered 200.
VerifierLeve_Muet(t) ==
  /\ taches[t].pc = "verifier"
  /\ Suite(t)
  /\ Acquittement(t)
  /\ UNCHANGED <<journal, rang, age, demande, fapshi, effets, pannes>>

\* The provider cannot be reached: a webhook is answered by an error, the
\* reconciliation concludes nothing and goes on.
VerifierLeve(t) ==
  /\ taches[t].pc = "verifier"
  /\ Suite(t)
  /\ UNCHANGED <<journal, rang, age, demande, fapshi, acquitte, effets, pannes>>

\* The conditional UPDATE; the effect follows only if it changed the row.
AppliquerIssue(t) ==
  LET r == taches[t].ref
      s == taches[t].issue
  IN  /\ taches[t].pc = "appliquer"
      /\ Appliquer(r, s)
      /\ IF AppliquerAffecte(r, s)
         THEN /\ taches' = [taches EXCEPT ![t].pc = "repercuter"]
              /\ UNCHANGED acquitte
         ELSE Suite(t) /\ Acquittement(t)
      /\ UNCHANGED <<rang, age, demande, fapshi, effets, pannes>>

\* Mutant: the failure of a payment is not carried to the domain.
Repercuter_SansEchec(t) ==
  /\ taches[t].pc = "repercuter"
  /\ effets' = IF taches[t].issue = "COMPLETE"
               THEN [effets EXCEPT ![taches[t].ref]["COMPLETE"] = 1]
               ELSE effets
  /\ Suite(t)
  /\ Acquittement(t)
  /\ UNCHANGED <<journal, rang, age, demande, fapshi, pannes>>

Compter(n) == IF n < PlafondEffets THEN n + 1 ELSE n

\* Mutant: what reaches the domain is read again from the journal.
Repercuter_Relu(t) ==
  LET r == taches[t].ref
      s == journal[r].statut
  IN  /\ taches[t].pc = "repercuter"
      /\ effets' = IF s \in Issues
                   THEN [effets EXCEPT ![r][s] = Compter(@)]
                   ELSE effets
      /\ Suite(t)
      /\ Acquittement(t)
      /\ UNCHANGED <<journal, rang, age, demande, fapshi, pannes>>

\* repercuter reaches the domain: nothing for EN_ATTENTE.
Repercuter(t) ==
  LET r == taches[t].ref
      s == taches[t].issue
  IN  /\ taches[t].pc = "repercuter"
      /\ effets' = IF s \in Issues
                   THEN [effets EXCEPT ![r][s] = Compter(@)]
                   ELSE effets
      /\ Suite(t)
      /\ Acquittement(t)
      /\ UNCHANGED <<journal, rang, age, demande, fapshi, pannes>>

\* The effect raises: nothing catches it, so a webhook is answered by an error
\* and a cron pass stops there, leaving the rest of its batch.
RepercuterLeve(t) ==
  /\ taches[t].pc = "repercuter"
  /\ pannes < MaxPannes
  /\ pannes' = pannes + 1
  /\ taches' = [taches EXCEPT ![t] = Libre]
  /\ UNCHANGED <<journal, rang, age, demande, fapshi, acquitte, effets>>

\* The process stops (a redeployment, a crash): only the database remains.
Redemarrer ==
  /\ pannes < MaxPannes
  /\ pannes' = pannes + 1
  /\ taches' = [t \in Taches |-> Libre]
  /\ demande' = [r \in References |->
                   IF demande[r] \in EnCours THEN "interrompue" ELSE demande[r]]
  /\ UNCHANGED <<journal, rang, age, fapshi, acquitte, effets>>

------------------------------------------------------------------------------

Demande(r) == \/ OuvrirEnLigne(r) \/ OuvrirHorsLigne(r)
              \/ FapshiCree(r) \/ InitierAccepte(r) \/ InitierLeve(r)
              \/ ConserverIdentifiant(r) \/ AbandonnerDemande(r)

Etape(t) == \/ Verifier(t) \/ VerifierLeve(t)
            \/ AppliquerIssue(t) \/ Repercuter(t) \/ RepercuterLeve(t)

Next ==
  \/ \E r \in References : \/ Demande(r)
                           \/ Payer(r) \/ RefuserPaiement(r) \/ Vieillir(r)
  \/ \E t \in Taches : \/ Reconcilier(t)
                       \/ Etape(t)
                       \/ \E r \in References : \/ RecevoirWebhook(t, r)
                                                \/ VerifierMaintenant(t, r)
  \/ Redemarrer

Spec == Init /\ [][Next]_vars

(* Fairness.  The server runs the handlers it started, the clock runs, and *)
(* the cron fires again and again (strong fairness, because a pass needs a *)
(* free slot here and the real timer needs none).  The provider may fail   *)
(* to answer any number of times about a payment, but not for ever.        *)
EtapeVerifier(t) == Verifier(t) \/ VerifierLeve(t)

ReponseSur(r) ==
  \E t \in Taches : taches[t].pc = "verifier" /\ taches[t].ref = r /\ Verifier(t)

Equite ==
  /\ \A r \in References : WF_vars(Vieillir(r)) /\ SF_vars(ReponseSur(r))
  /\ \A t \in Taches : /\ WF_vars(EtapeVerifier(t))
                       /\ WF_vars(AppliquerIssue(t))
                       /\ WF_vars(Repercuter(t))
  /\ SF_vars(\E t \in Taches : Reconcilier(t))

FairSpec == Spec /\ Equite

\* Fapshi repeats a notification until it is answered 200.
Relance(r) == ~acquitte[r] /\ \E t \in Taches : RecevoirWebhook(t, r)

RelanceSpec == FairSpec /\ \A r \in References : SF_vars(Relance(r))

------------------------------------------------------------------------------
(* Safety.                                                                 *)

\* A payment is COMPLETE in the journal only if the provider says it was
\* paid: no timeout, restart or unreachable provider ever makes one.
CompleteAtteste ==
  \A r \in References :
    journal[r].statut = "COMPLETE" => fapshi[r] = "SUCCESSFUL"

\* Somebody who paid is recorded as failed only after the expiry delay, or if
\* the opening request itself was refused (TransactionService.abandonner).
PayeNonEchoueAvantDelai ==
  \A r \in References :
    /\ fapshi[r] = "SUCCESSFUL"
    /\ journal[r].statut = "ECHOUE"
    => age[r] = Expiree \/ demande[r] = "abandonnee"

\* Number of times the domain heard of an issue of r, COMPLETE or ECHOUE.
Entendu(r) == effets[r]["COMPLETE"] + effets[r]["ECHOUE"]

\* Before the expiry delay, however many webhooks, cron passes and return
\* pages look at a payment at once, the domain hears of one issue, once.
EffetUniqueAvantDelai ==
  \A r \in References : age[r] < Expiree => Entendu(r) <= 1

\* r has an effect decided in the journal and not yet carried to the domain.
EffetEnRoute(r) ==
  \E t \in Taches : taches[t].pc = "repercuter" /\ taches[t].ref = r

\* Without a failure, once no effect is on its way the domain has heard
\* exactly what the journal says, and nothing of a payment still pending.
AccordJournalDomaine ==
  \A r \in References :
    /\ pannes = 0
    /\ age[r] < Expiree
    /\ ~EffetEnRoute(r)
    => /\ effets[r]["COMPLETE"] = 1 <=> journal[r].statut = "COMPLETE"
       /\ effets[r]["ECHOUE"] = 1 => journal[r].statut = "ECHOUE"
       /\ journal[r].statut = "ECHOUE"
            => effets[r]["ECHOUE"] = 1 \/ demande[r] = "abandonnee"

\* An issue recorded before the expiry delay is final, except that the
\* provider may contradict a request we gave up (abandonner).
IssueFinaleAvantDelai ==
  [][\A r \in References :
       /\ journal[r].statut \in Issues
       /\ age[r] < Expiree
       /\ demande[r] # "abandonnee"
       => journal'[r].statut = journal[r].statut]_vars

------------------------------------------------------------------------------
(* The inductive invariant behind the safety properties: what a handler    *)
(* carries between two awaits still agrees with the provider, and before   *)
(* the expiry delay at most one handler carries an effect of a payment.    *)

TacheAttestee ==
  \A t \in Taches : taches[t].pc # "libre" =>
    LET r == taches[t].ref
    IN  /\ taches[t].role = "webhook" =>
             /\ fapshi[r] \in {"SUCCESSFUL", "FAILED"}
             /\ taches[t].lot = {}
        /\ taches[t].pc \in {"appliquer", "repercuter"} =>
             \/ taches[t].issue = "COMPLETE" /\ fapshi[r] = "SUCCESSFUL"
             \/ taches[t].issue = "ECHOUE" /\ (fapshi[r] = "FAILED" \/ age[r] = Expiree)

JournalAtteste ==
  \A r \in References :
    /\ journal[r].statut = "COMPLETE" => fapshi[r] = "SUCCESSFUL"
    /\ journal[r].statut = "ECHOUE" =>
         fapshi[r] = "FAILED" \/ age[r] = Expiree \/ demande[r] = "abandonnee"

EffetsSerialises ==
  \A r \in References : age[r] < Expiree =>
    /\ Entendu(r) > 0 \/ EffetEnRoute(r) =>
         \/ journal[r].statut = "COMPLETE" /\ fapshi[r] = "SUCCESSFUL"
         \/ journal[r].statut = "ECHOUE" /\ fapshi[r] = "FAILED"
    /\ Entendu(r) <= 1
    /\ Entendu(r) = 1 => ~EffetEnRoute(r)
    /\ \A t, u \in Taches :
         /\ taches[t].pc = "repercuter" /\ taches[t].ref = r
         /\ taches[u].pc = "repercuter" /\ taches[u].ref = r
         => t = u

IInv == TypeOK /\ TacheAttestee /\ JournalAtteste /\ EffetsSerialises

------------------------------------------------------------------------------
(* Liveness.                                                               *)

\* A payment the provider identified does not stay pending for ever, even if
\* every webhook is lost and whatever restarts happen.
AttenteFinit ==
  \A r \in References :
    (journal[r].statut = "EN_ATTENTE" /\ journal[r].ext)
      ~> journal[r].statut # "EN_ATTENTE"

\* Somebody who paid ends up confirmed in the domain, even when the expiry
\* delay or a refused opening got there first: provided that Fapshi repeats its
\* notification until it is answered 200, and that nothing stops the server.
PayeFinitConfirme ==
  (\A r \in References : SF_vars(Relance(r))) =>
    \A r \in References :
      fapshi[r] = "SUCCESSFUL" ~> effets[r]["COMPLETE"] >= 1 \/ pannes > 0

\* A payment the journal calls COMPLETE ends up confirmed in the domain.
CompleteFinitRepercute ==
  \A r \in References :
    journal[r].statut = "COMPLETE" ~> effets[r]["COMPLETE"] >= 1

==============================================================================

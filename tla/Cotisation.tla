------------------------------ MODULE Cotisation ------------------------------
(***************************************************************************)
(* What one person owes to one contribution, and how it gets paid          *)
(* (CotisationService), with the proofs of payments made off line that the *)
(* treasury accepts or refuses (JustificatifService).                      *)
(*                                                                         *)
(* A payment, a `reglement`, is credited to the person's balance when its  *)
(* row of the journal becomes COMPLETE: by the provider for an on-line     *)
(* one, by the treasury for a proof.  Requests are cut at their awaits.    *)
(* The in-memory queue of the participation (`exclusif`) covers the        *)
(* opening of a payment and the undoing of a credit, nothing else.         *)
(* Amounts count the smallest payment accepted; the schedule of the        *)
(* contribution is module Echeances, here only what is left to pay.        *)
(***************************************************************************)
EXTENDS Journal, FiniteSetsExt

CONSTANTS Preuves,       \* the proofs that may be submitted
          Taches,        \* slots for requests in flight
          Du,            \* montantDu
          Operations     \* the requests this instance makes (a bound)

ASSUME DuAssumption == Du \in Nat \ {0}

\* Requests in flight are finitely many; a proof is of some payment.
ASSUME TachesAssumption == IsFiniteSet(Taches)
ASSUME PreuvesAssumption == Preuves # {} => References # {}

VARIABLES
  certifies,      \* amount of a journal row the treasury wrote
  fapshi,         \* what the provider knows of each payment
  reglements,     \* the payments of this participation
  montantRegle,   \* the balance of the participation
  participation,  \* its status
  preuves,        \* the proofs
  taches          \* the requests in flight

vars == <<journal, certifies, fapshi, reglements, montantRegle, participation,
          preuves, taches>>

------------------------------------------------------------------------------

Requetes == {"payer", "rupture", "abandonner", "expiration", "issue",
             "justifier", "deposer", "valider", "refuser", "annuler"}

ASSUME OperationsAssumption == Operations \subseteq Requetes

EtatsFapshi == {"INCONNUE", "PENDING", "SUCCESSFUL", "FAILED"}

\* A payment: its mode, "AUCUN" for a reference not used yet.
Reglement == [mode : {"AUCUN", "EN_LIGNE", "JUSTIFICATIF"}, statut : Statuts,
              montant : Nat]

Preuve == [statut : {"ABSENTE", "EN_ATTENTE", "VALIDE", "REFUSE"},
           ref : References, declare : Nat, recu : Nat]

Libre == [pc |-> "libre"]

\* A request that reads the balance, one on a payment, one on a proof.
\* `montant` is an amount it carries from one step to the next.
Ouverture == [op : {"payer", "justifier"}, pc : {"engager"}, montant : Nat]
SurReglement ==
  [op : {"payer", "justifier", "deposer", "issue", "abandonner"},
   pc : {"ouvrir", "initier", "abandonner", "refermer", "controler", "deposer",
         "expirer", "appliquer", "lire", "crediter", "incrementer", "relire",
         "solder", "echouer"},
   ref : References, issue : Statuts, montant : Nat]
SurPreuve ==
  [op : {"valider", "refuser", "annuler"},
   pc : {"marquer", "certifier", "appliquer", "lire", "crediter", "incrementer",
         "relire", "solder", "echouer", "verifier", "defaire", "retirer",
         "rouvrir"},
   ref : References, issue : Statuts, montant : Nat, preuve : Preuves]

TypeOK ==
  /\ JournalTypeOK
  /\ certifies \in [References -> Nat]
  /\ fapshi \in [References -> EtatsFapshi]
  /\ reglements \in [References -> Reglement]
  /\ montantRegle \in Nat
  /\ participation \in {"EN_COURS", "SOLDEE"}
  /\ preuves \in [Preuves -> Preuve]
  /\ taches \in [Taches -> Ouverture \cup SurReglement \cup SurPreuve \cup {Libre}]

Init ==
  /\ JournalInit
  /\ certifies = [r \in References |-> 0]
  /\ fapshi = [r \in References |-> "INCONNUE"]
  /\ reglements = [r \in References |->
       [mode |-> "AUCUN", statut |-> "EN_ATTENTE", montant |-> 0]]
  /\ montantRegle = 0
  /\ participation = "EN_COURS"
  /\ preuves = [p \in Preuves |->
       [statut |-> "ABSENTE", ref |-> CHOOSE r \in References : TRUE,
        declare |-> 0, recu |-> 0]]
  /\ taches = [t \in Taches |-> Libre]

------------------------------------------------------------------------------

Utilisees == {r \in References : reglements[r].mode # "AUCUN"}

Total(statut) ==
  LET R == {r \in Utilisees : reglements[r].statut = statut}
  IN  MapThenSumSet(LAMBDA r : reglements[r].montant, R)

\* A request holds the queue of the participation.
Verrouillee == \E t \in Taches : taches[t].pc \in {"engager", "ouvrir", "retirer"}

Liberer(t) == taches' = [taches EXCEPT ![t] = Libre]

Aller(t, pc) == taches' = [taches EXCEPT ![t].pc = pc]

Marquer(r, statut) == reglements' = [reglements EXCEPT ![r].statut = statut]

\* The amount of the journal row of r.
MontantDe(r) ==
  IF journal[r].montant = "annonce" THEN reglements[r].montant ELSE certifies[r]

EnVol(op, pc, r, issue) ==
  [op |-> op, pc |-> pc, ref |-> r, issue |-> issue, montant |-> 0]

------------------------------------------------------------------------------
(* Opening a payment: payerEcheance and preparerJustificatif.  The balance *)
(* is read, then the payments still pending, then the new one is written.  *)

Commencer(t, op) ==
  /\ op \in Operations \cap {"payer", "justifier"}
  /\ taches[t] = Libre
  /\ ~Verrouillee
  /\ taches' = [taches EXCEPT ![t] =
                  [op |-> op, pc |-> "engager", montant |-> montantRegle]]
  /\ UNCHANGED <<journal, certifies, fapshi, reglements, montantRegle,
                 participation, preuves>>

\* echeanceChoisie: what is left, once what is pending is taken off.
Disponible(lu) == IF lu + Total("EN_ATTENTE") < Du
                  THEN Du - lu - Total("EN_ATTENTE") ELSE 0

Engager(t, r, m) ==
  LET mode == IF taches[t].op = "payer" THEN "EN_LIGNE" ELSE "JUSTIFICATIF"
  IN  /\ taches[t].pc = "engager"
      /\ reglements[r].mode = "AUCUN"
      /\ m \in 1 .. Disponible(taches[t].montant)
      /\ reglements' = [reglements EXCEPT ![r] =
           [mode |-> mode, statut |-> "EN_ATTENTE", montant |-> m]]
      /\ taches' = [taches EXCEPT ![t] =
                      EnVol(taches[t].op, "ouvrir", r, "EN_ATTENTE")]
      /\ UNCHANGED <<journal, certifies, fapshi, montantRegle, participation,
                     preuves>>

\* Nothing is left to pay: the request is refused.
EngagerRefuse(t) ==
  /\ taches[t].pc = "engager"
  /\ Disponible(taches[t].montant) = 0
  /\ Liberer(t)
  /\ UNCHANGED <<journal, certifies, fapshi, reglements, montantRegle,
                 participation, preuves>>

OuvrirReglement(t) ==
  /\ taches[t].pc = "ouvrir"
  /\ Ouvrir(taches[t].ref)
  /\ Aller(t, IF taches[t].op = "payer" THEN "initier" ELSE "controler")
  /\ UNCHANGED <<certifies, fapshi, reglements, montantRegle, participation,
                 preuves>>

\* The provider answers, outside the queue.
Initier(t) ==
  /\ taches[t].pc = "initier"
  /\ fapshi[taches[t].ref] # "INCONNUE"
  /\ EnregistrerReferenceExterne(taches[t].ref)
  /\ Liberer(t)
  /\ UNCHANGED <<certifies, fapshi, reglements, montantRegle, participation,
                 preuves>>

\* It refuses, or does not answer about a payment that may exist.
InitierLeve(t) ==
  /\ taches[t].pc = "initier"
  /\ fapshi[taches[t].ref] = "INCONNUE" \/ "rupture" \in Operations
  /\ Aller(t, "abandonner")
  /\ UNCHANGED <<journal, certifies, fapshi, reglements, montantRegle,
                 participation, preuves>>

AbandonnerDemande(t) ==
  /\ taches[t].pc = "abandonner"
  /\ Abandonner(taches[t].ref)
  /\ Aller(t, "refermer")
  /\ UNCHANGED <<certifies, fapshi, reglements, montantRegle, participation,
                 preuves>>

\* The payment is closed: whatever its status, except by annulerPreparation.
Refermer(t) ==
  LET r == taches[t].ref
  IN  /\ taches[t].pc = "refermer"
      /\ IF taches[t].op = "justifier" /\ reglements[r].statut # "EN_ATTENTE"
         THEN UNCHANGED reglements
         ELSE Marquer(r, "ECHOUE")
      /\ Liberer(t)
      /\ UNCHANGED <<journal, certifies, fapshi, montantRegle, participation,
                     preuves>>

------------------------------------------------------------------------------
(* abandonnerReglement: the payer gives up an on-line payment.             *)

\* Mutant: the status of the payment is not looked at.
AbandonnerReglement_SansGarde(t, r) ==
  /\ "abandonner" \in Operations
  /\ taches[t] = Libre
  /\ reglements[r].mode = "EN_LIGNE"
  /\ taches' = [taches EXCEPT ![t] = EnVol("abandonner", "expirer", r, "ECHOUE")]
  /\ UNCHANGED <<journal, certifies, fapshi, reglements, montantRegle,
                 participation, preuves>>

AbandonnerReglement(t, r) ==
  /\ "abandonner" \in Operations
  /\ taches[t] = Libre
  /\ reglements[r].mode = "EN_LIGNE"
  /\ reglements[r].statut = "EN_ATTENTE"
  /\ journal[r].statut # "ABSENTE"
  /\ taches' = [taches EXCEPT ![t] = EnVol("abandonner", "expirer", r, "ECHOUE")]
  /\ UNCHANGED <<journal, certifies, fapshi, reglements, montantRegle,
                 participation, preuves>>

\* The payment page is closed at the provider; a failing call is ignored.
Expirer(t) ==
  LET r == taches[t].ref
  IN  /\ taches[t].pc = "expirer"
      /\ \/ /\ journal[r].ext
            /\ fapshi[r] = "PENDING"
            /\ fapshi' = [fapshi EXCEPT ![r] = "FAILED"]
         \/ UNCHANGED fapshi
      /\ Aller(t, "appliquer")
      /\ UNCHANGED <<journal, certifies, reglements, montantRegle,
                     participation, preuves>>

------------------------------------------------------------------------------
(* An issue reaches the journal, then traiterIssue.                        *)

\* A webhook or the reconciliation.  With "expiration", a payment still pending
\* is given up after the delay.
RecevoirIssue(t, r, issue) ==
  /\ "issue" \in Operations
  /\ taches[t] = Libre
  /\ journal[r].statut # "ABSENTE"
  /\ \/ issue = "COMPLETE" /\ fapshi[r] = "SUCCESSFUL"
     \/ issue = "ECHOUE" /\ fapshi[r] = "FAILED"
     \/ /\ issue = "ECHOUE" /\ fapshi[r] = "PENDING" /\ journal[r].ext
        /\ journal[r].statut = "EN_ATTENTE" /\ "expiration" \in Operations
  /\ taches' = [taches EXCEPT ![t] = EnVol("issue", "appliquer", r, issue)]
  /\ UNCHANGED <<journal, certifies, fapshi, reglements, montantRegle,
                 participation, preuves>>

\* Whoever gives up a payment does not look at what changed in the journal;
\* the others stop if nothing did.
AppliquerIssue(t) ==
  LET r == taches[t].ref
      s == taches[t].issue
  IN  /\ taches[t].pc = "appliquer"
      /\ Appliquer(r, s)
      /\ IF taches[t].op = "abandonner" THEN Aller(t, "refermer")
         ELSE IF AppliquerAffecte(r, s) THEN Aller(t, "lire") ELSE Liberer(t)
      /\ UNCHANGED <<certifies, fapshi, reglements, montantRegle,
                     participation, preuves>>

\* crediter: the amount certified for a proof, that of the payment on line.
Lire(t) ==
  LET r == taches[t].ref
      credit == IF reglements[r].mode = "JUSTIFICATIF"
                THEN MontantDe(r) ELSE reglements[r].montant
  IN  /\ taches[t].pc = "lire"
      /\ IF taches[t].issue = "COMPLETE"
         THEN taches' = [taches EXCEPT ![t].pc = "crediter", ![t].montant = credit]
         ELSE Aller(t, "echouer")
      /\ UNCHANGED <<journal, certifies, fapshi, reglements, montantRegle,
                     participation, preuves>>

\* Mutant: the payment keeps the amount first announced.
Crediter_MontantAnnonce(t) ==
  /\ taches[t].pc = "crediter"
  /\ Marquer(taches[t].ref, "COMPLETE")
  /\ Aller(t, "incrementer")
  /\ UNCHANGED <<journal, certifies, fapshi, montantRegle, participation, preuves>>

Crediter(t) ==
  /\ taches[t].pc = "crediter"
  /\ reglements' = [reglements EXCEPT ![taches[t].ref].statut = "COMPLETE",
                                      ![taches[t].ref].montant = taches[t].montant]
  /\ Aller(t, "incrementer")
  /\ UNCHANGED <<journal, certifies, fapshi, montantRegle, participation, preuves>>

\* enregistrerReglement increments in the database.
Incrementer(t) ==
  /\ taches[t].pc = "incrementer"
  /\ montantRegle' = montantRegle + taches[t].montant
  /\ Aller(t, "relire")
  /\ UNCHANGED <<journal, certifies, fapshi, reglements, participation, preuves>>

\* The balance is read again, to know whether everything is paid.
Relire(t) ==
  /\ taches[t].pc = "relire"
  /\ IF montantRegle >= Du /\ participation = "EN_COURS"
     THEN Aller(t, "solder")
     ELSE Liberer(t)
  /\ UNCHANGED <<journal, certifies, fapshi, reglements, montantRegle,
                 participation, preuves>>

Solder(t) ==
  /\ taches[t].pc = "solder"
  /\ participation' = "SOLDEE"
  /\ Liberer(t)
  /\ UNCHANGED <<journal, certifies, fapshi, reglements, montantRegle, preuves>>

\* refuser: the payment failed.
Echouer(t) ==
  /\ taches[t].pc = "echouer"
  /\ Marquer(taches[t].ref, "ECHOUE")
  /\ Liberer(t)
  /\ UNCHANGED <<journal, certifies, fapshi, montantRegle, participation, preuves>>

------------------------------------------------------------------------------
(* JustificatifService: submitting a proof, then the treasury's decisions. *)

\* A proof given by its reference, for whatever payment of ours is pending.
Deposer(t, r) ==
  /\ "deposer" \in Operations
  /\ taches[t] = Libre
  /\ journal[r].statut = "EN_ATTENTE"
  /\ taches' = [taches EXCEPT ![t] = EnVol("deposer", "controler", r, "EN_ATTENTE")]
  /\ UNCHANGED <<journal, certifies, fapshi, reglements, montantRegle,
                 participation, preuves>>

Enregistrees == {p \in Preuves : preuves[p].statut # "ABSENTE"}

DejaUne(r) == \E p \in Enregistrees : preuves[p].ref = r /\ preuves[p].statut = "EN_ATTENTE"

\* One proof at a time waits for a decision.  The request may also be refused
\* for the file it names; what was prepared for it is then undone.
Controler(t) ==
  LET r == taches[t].ref
      renonce == IF taches[t].op = "justifier" THEN Aller(t, "abandonner")
                 ELSE Liberer(t)
  IN  /\ taches[t].pc = "controler"
      /\ \/ journal[r].statut = "EN_ATTENTE" /\ ~DejaUne(r) /\ Aller(t, "deposer")
         \/ renonce
      /\ UNCHANGED <<journal, certifies, fapshi, reglements, montantRegle,
                     participation, preuves>>

InsererPreuve(t, p) ==
  LET r == taches[t].ref
  IN  /\ taches[t].pc = "deposer"
      /\ preuves[p].statut = "ABSENTE"
      /\ preuves' = [preuves EXCEPT ![p] =
           [statut |-> "EN_ATTENTE", ref |-> r,
            declare |-> reglements[r].montant, recu |-> 0]]
      /\ Liberer(t)
      /\ UNCHANGED <<journal, certifies, fapshi, reglements, montantRegle,
                     participation>>

SurLaPreuve(op, pc, p, m) ==
  [op |-> op, pc |-> pc, ref |-> preuves[p].ref, montant |-> m, preuve |-> p,
   issue |-> IF op = "refuser" THEN "ECHOUE" ELSE "COMPLETE"]

\* enAttenteOuEchouer: the proof is read, nothing is reserved.  The treasury
\* accepts it for an amount of its own, or refuses it.
Decider(t, op, p, m) ==
  /\ op \in Operations \cap {"valider", "refuser"}
  /\ taches[t] = Libre
  /\ preuves[p].statut = "EN_ATTENTE"
  /\ taches' = [taches EXCEPT ![t] = SurLaPreuve(op, "marquer", p, m)]
  /\ UNCHANGED <<journal, certifies, fapshi, reglements, montantRegle,
                 participation, preuves>>

\* The decision is written, whatever the proof has become.
MarquerPreuve(t) ==
  LET p == taches[t].preuve
  IN  /\ taches[t].pc = "marquer"
      /\ CASE taches[t].op = "valider" ->
                /\ preuves' = [preuves EXCEPT ![p].statut = "VALIDE",
                                              ![p].recu = taches[t].montant]
                /\ Aller(t, "certifier")
           [] taches[t].op = "refuser" ->
                /\ preuves' = [preuves EXCEPT ![p].statut = "REFUSE"]
                /\ Aller(t, "appliquer")
           [] taches[t].op = "annuler" ->
                /\ preuves' = [preuves EXCEPT ![p].statut = "EN_ATTENTE",
                                              ![p].recu = 0]
                /\ Liberer(t)
      /\ UNCHANGED <<journal, certifies, fapshi, reglements, montantRegle,
                     participation>>

CertifierRecu(t) ==
  LET r == taches[t].ref
  IN  /\ taches[t].pc = "certifier"
      /\ Certifier(r, "recu")
      /\ certifies' = [certifies EXCEPT ![r] = taches[t].montant]
      /\ Aller(t, "appliquer")
      /\ UNCHANGED <<fapshi, reglements, montantRegle, participation, preuves>>

------------------------------------------------------------------------------
(* annulerValidation: one at a time for a proof, and only against itself.  *)

AnnulerValidation(t, p) ==
  /\ "annuler" \in Operations
  /\ taches[t] = Libre
  /\ preuves[p].statut = "VALIDE"
  /\ \A u \in Taches : taches[u] # Libre /\ taches[u].op = "annuler"
                          => taches[u].preuve # p
  /\ taches' = [taches EXCEPT ![t] = SurLaPreuve("annuler", "verifier", p, 0)]
  /\ UNCHANGED <<journal, certifies, fapshi, reglements, montantRegle,
                 participation, preuves>>

\* The provider must not attest the payment; silent, it prevents the undoing.
VerifierFapshi(t) ==
  LET r == taches[t].ref
  IN  /\ taches[t].pc = "verifier"
      /\ \/ /\ ~(journal[r].ext /\ fapshi[r] = "SUCCESSFUL")
            /\ Aller(t, "defaire")
         \/ /\ journal[r].ext
            /\ (fapshi[r] = "SUCCESSFUL" \/ "rupture" \in Operations)
            /\ Liberer(t)
      /\ UNCHANGED <<journal, certifies, fapshi, reglements, montantRegle,
                     participation, preuves>>

\* Mutant: an on-line payment does not stop the undoing.
Defaire_EnLigne(t) ==
  LET r == taches[t].ref
  IN  /\ taches[t].pc = "defaire"
      /\ ~Verrouillee
      /\ IF reglements[r].mode = "JUSTIFICATIF"
         THEN taches' = [taches EXCEPT ![t].pc = "retirer",
                                       ![t].montant = reglements[r].montant]
         ELSE Aller(t, "rouvrir")
      /\ UNCHANGED <<journal, certifies, fapshi, reglements, montantRegle,
                     participation, preuves>>

\* annulerReglementJustificatif waits for the queue, then reads the payment.
Defaire(t) ==
  LET r == taches[t].ref
  IN  /\ taches[t].pc = "defaire"
      /\ ~Verrouillee
      /\ IF reglements[r].mode = "JUSTIFICATIF"
         THEN taches' = [taches EXCEPT ![t].pc = "retirer",
                                       ![t].montant = reglements[r].montant]
         ELSE Liberer(t)
      /\ UNCHANGED <<journal, certifies, fapshi, reglements, montantRegle,
                     participation, preuves>>

\* Mutant: what was declared is taken back, and the balance is not looked at.
Retirer_MontantDeclare(t) ==
  LET r == taches[t].ref
      m == preuves[taches[t].preuve].declare
  IN  /\ taches[t].pc = "retirer"
      /\ reglements' = [reglements EXCEPT ![r].statut = "EN_ATTENTE", ![r].montant = m]
      /\ montantRegle' = montantRegle - m
      /\ Aller(t, "rouvrir")
      /\ UNCHANGED <<journal, certifies, fapshi, participation, preuves>>

\* The rest of its database transaction: all of it, or nothing when the balance
\* would be negative.  A payment that is not credited is left alone.
Retirer(t) ==
  LET r == taches[t].ref
      m == taches[t].montant
  IN  /\ taches[t].pc = "retirer"
      /\ CASE reglements[r].statut # "COMPLETE" ->
                /\ Aller(t, "rouvrir")
                /\ UNCHANGED <<reglements, montantRegle, participation>>
           [] reglements[r].statut = "COMPLETE" /\ m > montantRegle ->
                /\ Liberer(t)
                /\ UNCHANGED <<reglements, montantRegle, participation>>
           [] OTHER ->
                /\ reglements' = [reglements EXCEPT
                     ![r].statut = "EN_ATTENTE",
                     ![r].montant = preuves[taches[t].preuve].declare]
                /\ montantRegle' = montantRegle - m
                /\ participation' = IF montantRegle - m < Du THEN "EN_COURS"
                                    ELSE participation
                /\ Aller(t, "rouvrir")
      /\ UNCHANGED <<journal, certifies, fapshi, preuves>>

RouvrirTransaction(t) ==
  LET r == taches[t].ref
  IN  /\ taches[t].pc = "rouvrir"
      /\ Rouvrir(r, "declare")
      /\ certifies' = IF RouvrirAffecte(r)
                      THEN [certifies EXCEPT ![r] = preuves[taches[t].preuve].declare]
                      ELSE certifies
      /\ Aller(t, "marquer")
      /\ UNCHANGED <<fapshi, reglements, montantRegle, participation, preuves>>

------------------------------------------------------------------------------
(* The provider: a payment exists once asked for, then it is settled.      *)

FapshiCree(r) ==
  /\ fapshi[r] = "INCONNUE"
  /\ \E t \in Taches : taches[t].pc = "initier" /\ taches[t].ref = r
  /\ fapshi' = [fapshi EXCEPT ![r] = "PENDING"]
  /\ UNCHANGED <<journal, certifies, reglements, montantRegle, participation,
                 preuves, taches>>

FapshiTranche(r) ==
  /\ fapshi[r] = "PENDING"
  /\ \E e \in {"SUCCESSFUL", "FAILED"} : fapshi' = [fapshi EXCEPT ![r] = e]
  /\ UNCHANGED <<journal, certifies, reglements, montantRegle, participation,
                 preuves, taches>>

------------------------------------------------------------------------------

Engagement(t) ==
  \/ \E op \in {"payer", "justifier"} : Commencer(t, op)
  \/ \E r \in References, m \in 1 .. Du : Engager(t, r, m)
  \/ EngagerRefuse(t)
  \/ OuvrirReglement(t)
  \/ Initier(t)
  \/ InitierLeve(t)
  \/ AbandonnerDemande(t)
  \/ Refermer(t)

Issue(t) ==
  \/ \E r \in References : AbandonnerReglement(t, r)
  \/ Expirer(t)
  \/ \E r \in References, i \in {"COMPLETE", "ECHOUE"} : RecevoirIssue(t, r, i)
  \/ AppliquerIssue(t)
  \/ Lire(t)
  \/ Crediter(t)
  \/ Incrementer(t)
  \/ Relire(t)
  \/ Solder(t)
  \/ Echouer(t)

Justification(t) ==
  \/ \E r \in References : Deposer(t, r)
  \/ Controler(t)
  \/ \E p \in Preuves : InsererPreuve(t, p)
  \/ \E p \in Preuves, m \in 1 .. Du : Decider(t, "valider", p, m)
  \/ \E p \in Preuves : Decider(t, "refuser", p, 0)
  \/ MarquerPreuve(t)
  \/ CertifierRecu(t)
  \/ \E p \in Preuves : AnnulerValidation(t, p)
  \/ VerifierFapshi(t)
  \/ Defaire(t)
  \/ Retirer(t)
  \/ RouvrirTransaction(t)

Fapshi == \E r \in References : FapshiCree(r) \/ FapshiTranche(r)

Next ==
  \/ \E t \in Taches : Engagement(t) \/ Issue(t) \/ Justification(t)
  \/ Fapshi

Spec == Init /\ [][Next]_vars

------------------------------------------------------------------------------
(* Properties.                                                             *)

\* No request is in flight.
AuRepos == \A t \in Taches : taches[t] = Libre

\* A proof was deposited, by reference, on a payment made on line: the two then
\* settle one payment, each without looking at the other (see the README).
Croisee == \E p \in Enregistrees : reglements[preuves[p].ref].mode = "EN_LIGNE"

\* The balance is the sum of the payments that are credited: crediting, undoing
\* and crediting again never counts a payment twice, nor forgets one.
SoldeJuste == AuRepos /\ ~Croisee => montantRegle = Total("COMPLETE")

\* A participation is SOLDEE exactly when its balance covers what is due, also
\* after a validation was undone.
SoldeeSiReglee == AuRepos => (participation = "SOLDEE" <=> montantRegle >= Du)

\* The money of a participation is counted once, and its status follows it.
CreditsExacts == SoldeJuste /\ SoldeeSiReglee

\* A payment by proof is credited exactly when a proof of it is accepted, and
\* for the amount the treasury received.
PreuveAccordee ==
  AuRepos /\ ~Croisee =>
    \A r \in {q \in Utilisees : reglements[q].mode = "JUSTIFICATIF"} :
      reglements[r].statut = "COMPLETE" <=>
        \E p \in Enregistrees :
          /\ preuves[p].ref = r
          /\ preuves[p].statut = "VALIDE"
          /\ preuves[p].recu = reglements[r].montant

\* Nothing is credited on the word of the payer: the provider attests the
\* payment, or the treasury accepted a proof of it (and may since have undone
\* or refused it).
CreditAtteste ==
  \A r \in References :
    reglements[r].statut = "COMPLETE" =>
      \/ fapshi[r] = "SUCCESSFUL"
      \/ \E p \in Enregistrees : preuves[p].ref = r /\ preuves[p].statut = "VALIDE"

\* Whoever credits, provider or treasury, has something to show for it, and of
\* the amount that is credited.
CreditsProuves == PreuveAccordee /\ CreditAtteste

\* What is credited or pending never exceeds what is due, as long as the
\* treasury certifies what was declared.
EngagementBorne == AuRepos => montantRegle + Total("EN_ATTENTE") <= Du

\* A credited payment leaves this status only when its validation is undone; it
\* never becomes a failed one, since the balance keeps what it credited.
CreditJamaisEchoue ==
  [][\A r \in References : reglements[r].statut = "COMPLETE" /\ ~Croisee
                             => reglements'[r].statut # "ECHOUE"]_vars

==============================================================================

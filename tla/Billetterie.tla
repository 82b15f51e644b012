----------------------------- MODULE Billetterie -----------------------------
(***************************************************************************)
(* The places and the tickets of one published event (BilletterieService,  *)
(* with the two conditional UPDATEs of EvenementService on the counter).   *)
(*                                                                         *)
(* A ticket is found by its code, which is also the reference of its       *)
(* payment: References are the ticket slots.  A request is cut at every    *)
(* await that reads or writes a row another request may touch; the steps   *)
(* of the payment itself are those of Paiement, seen from here as an issue *)
(* the provider gave, applied to the journal and then to the ticket.  The  *)
(* stock of options (T-shirt sizes) is only the possibility that it is     *)
(* exhausted.  Tickets paid as a group are not in this module.             *)
(***************************************************************************)
EXTENDS Journal

CONSTANTS Personnes,     \* who may hold a ticket
          Aucun,         \* nobody: the holder of a slot without a row
          Taches,        \* slots for requests in flight
          Capacite,      \* capacite_max; 0 is unlimited
          Payants,       \* whether a ticket costs something: one or both
          Gestes,        \* what the office does: "remise", "transfert" (a bound)
          Horizon        \* the last moment reached (a bound)

ASSUME CapaciteAssumption == Capacite \in Nat
ASSUME AucunAssumption == Aucun \notin Personnes
ASSUME PayantsAssumption  == Payants \in (SUBSET BOOLEAN) \ {{}}

VARIABLES
  billets,    \* the table `inscriptions`
  places,     \* inscriptions_actuelles
  fapshi,     \* what the provider knows of each payment
  moment,     \* where the event stands
  taches,     \* the requests in flight
  signales,   \* payments the treasury was told to give back
  perimes     \* history: tickets overwritten from a stale reading

vars == <<journal, billets, places, fapshi, moment, taches, signales, perimes>>

------------------------------------------------------------------------------

\* StatutInscription, and a slot not used yet or whose row was deleted.
StatutsBillet == {"EN_ATTENTE", "CONFIRMEE", "UTILISEE", "ANNULEE"}
SansLigne == {"ABSENT", "SUPPRIME"}

STATUTS_ACTIFS == {"EN_ATTENTE", "CONFIRMEE", "UTILISEE"}

\* A ticket: rang is its creation order, remis that its prize was handed over.
Billet == [statut : StatutsBillet \cup SansLigne, paiement : Statuts,
           titulaire : Personnes \cup {Aucun}, payant : BOOLEAN,
           remis : BOOLEAN, rang : Nat]

EtatsFapshi == {"INCONNUE", "PENDING", "SUCCESSFUL", "FAILED"}

\* The doors open two hours before the start and outlast the end.
Moments == {"avant", "portes", "commence", "fini"}

Libre == [pc |-> "libre"]

\* A request that has no ticket yet, and one that works on a ticket: `qui` and
\* `lu` are the holder and the status it read there, `pour` the beneficiary of
\* a transfer (or the holder), `issue` the issue of the payment it carries.
SansBillet == [op : {"inscription"}, pc : {"reserver", "inserer", "rendre"},
               qui : Personnes]
Tache == [op : {"inscription", "annulation", "issue", "transfert", "remise"},
          pc : {"demander", "repondre", "terminer", "defaire", "supprimer",
                "verifier", "ecrire", "rendre", "expirer", "appliquer", "lire",
                "confirmer", "refermer", "controler", "reprendre", "rouvrir",
                "signaler", "transferer", "remettre"},
          qui : Personnes \cup {Aucun}, pour : Personnes \cup {Aucun},
          billet : References, lu : StatutsBillet, issue : Statuts]

\* A slot no ticket was written in.
Emplacement ==
  [statut |-> "ABSENT", paiement |-> "EN_ATTENTE", payant |-> FALSE,
   titulaire |-> Aucun, remis |-> FALSE, rang |-> 0]

TypeOK ==
  /\ JournalTypeOK
  /\ billets \in [References -> Billet]
  /\ places \in Nat
  /\ fapshi \in [References -> EtatsFapshi]
  /\ moment \in Moments
  /\ taches \in [Taches -> Tache \cup SansBillet \cup {Libre}]
  /\ signales \subseteq References
  /\ perimes \subseteq References

Init ==
  /\ JournalInit
  /\ billets = [b \in References |-> Emplacement]
  /\ places = 0
  /\ fapshi = [b \in References |-> "INCONNUE"]
  /\ moment = "avant"
  /\ taches = [t \in Taches |-> Libre]
  /\ signales = {}
  /\ perimes = {}

------------------------------------------------------------------------------
(* The two UPDATEs of the place counter, and what the reads look at.       *)

Existants == {b \in References : billets[b].statut \in StatutsBillet}

Occupants == {b \in References : billets[b].statut \in STATUTS_ACTIFS}

PlaceLibre == Capacite = 0 \/ places < Capacite

reserverUnePlace == PlaceLibre /\ places' = places + 1

\* Mutant: without `AND inscriptions_actuelles > 0`.
libererUnePlace_SansPlancher == places' = places - 1

libererUnePlace == places' = IF places > 0 THEN places - 1 ELSE places

\* Registration is open: the event has not begun.
Ouvert == moment \in {"avant", "portes"}

\* verifierPasDejaInscrit looks at the latest ticket of the person only.
DejaInscrit(p) ==
  LET siens == {b \in Existants : billets[b].titulaire = p}
  IN  \E b \in siens : /\ \A c \in siens : billets[c].rang <= billets[b].rang
                       /\ billets[b].statut \in STATUTS_ACTIFS

aUneAutreInscriptionActive(b) ==
  \E c \in Existants \ {b} : /\ billets[c].titulaire = billets[b].titulaire
                             /\ billets[c].statut # "ANNULEE"

Liberer(t) == taches' = [taches EXCEPT ![t] = Libre]

Aller(t, pc) == taches' = [taches EXCEPT ![t].pc = pc]

\* The row of ticket b gets a status, its other columns stay.
Marquer(b, s) == billets' = [billets EXCEPT ![b].statut = s]

\* Request t is about to overwrite a status it did not read.
NoterPerime(t) ==
  LET b == taches[t].billet
  IN  perimes' = IF billets[b].statut = taches[t].lu
                 THEN perimes ELSE perimes \cup {b}

\* A request starts on ticket b, of which it read the status.
Travail(op, pc, b, p, issue) ==
  [op |-> op, pc |-> pc, qui |-> billets[b].titulaire, pour |-> p, billet |-> b,
   lu |-> billets[b].statut, issue |-> issue]

------------------------------------------------------------------------------
(* sInscrire.                                                              *)

Inscrire(t, p) ==
  /\ taches[t] = Libre
  /\ Ouvert
  /\ ~DejaInscrit(p)
  /\ taches' = [taches EXCEPT ![t] =
                  [op |-> "inscription", pc |-> "reserver", qui |-> p]]
  /\ UNCHANGED <<journal, billets, places, fapshi, moment, signales, perimes>>

Reserver(t) ==
  /\ taches[t].pc = "reserver"
  /\ \/ reserverUnePlace /\ Aller(t, "inserer")
     \/ ~PlaceLibre /\ Liberer(t) /\ UNCHANGED places
  /\ UNCHANGED <<journal, billets, fapshi, moment, signales, perimes>>

\* enregistrerAvecStock: a free ticket is confirmed from the start.
Inserer(t, b, payant) ==
  LET statut == IF payant THEN "EN_ATTENTE" ELSE "CONFIRMEE"
  IN  /\ taches[t].pc = "inserer"
      /\ billets[b].statut = "ABSENT"
      /\ billets' = [billets EXCEPT ![b] =
           [statut |-> statut, titulaire |-> taches[t].qui, payant |-> payant,
            paiement |-> IF payant THEN "EN_ATTENTE" ELSE "COMPLETE",
            remis |-> FALSE,
            rang |-> Cardinality({c \in References : billets[c].rang > 0}) + 1]]
      /\ taches' = [taches EXCEPT ![t] =
           [op |-> "inscription", pc |-> IF payant THEN "demander" ELSE "terminer",
            qui |-> taches[t].qui, pour |-> taches[t].qui, billet |-> b,
            lu |-> statut, issue |-> "EN_ATTENTE"]]
      /\ UNCHANGED <<journal, places, fapshi, moment, signales, perimes>>

\* The chosen size is sold out, or the write fails: only the place is undone.
InsererLeve(t) ==
  /\ taches[t].pc = "inserer"
  /\ Aller(t, "rendre")
  /\ UNCHANGED <<journal, billets, places, fapshi, moment, signales, perimes>>

\* lancerPaiement opens the row before it calls the provider.
Demander(t) ==
  /\ taches[t].pc = "demander"
  /\ Ouvrir(taches[t].billet)
  /\ Aller(t, "repondre")
  /\ UNCHANGED <<billets, places, fapshi, moment, signales, perimes>>

\* Fapshi answers, and its identifier is kept before anything else.
Repondre(t) ==
  /\ taches[t].pc = "repondre"
  /\ fapshi[taches[t].billet] # "INCONNUE"
  /\ EnregistrerReferenceExterne(taches[t].billet)
  /\ Aller(t, "terminer")
  /\ UNCHANGED <<billets, places, fapshi, moment, signales, perimes>>

\* Notified and answered.
Terminer(t) ==
  /\ taches[t].pc = "terminer"
  /\ Liberer(t)
  /\ UNCHANGED <<journal, billets, places, fapshi, moment, signales, perimes>>

\* The provider refused or did not answer, or a later step raised.
InscriptionLeve(t) ==
  /\ taches[t].pc \in {"demander", "repondre", "terminer"}
  /\ Aller(t, "defaire")
  /\ UNCHANGED <<journal, billets, places, fapshi, moment, signales, perimes>>

Defaire(t) ==
  /\ taches[t].pc = "defaire"
  /\ Abandonner(taches[t].billet)
  /\ Aller(t, "supprimer")
  /\ UNCHANGED <<billets, places, fapshi, moment, signales, perimes>>

\* The row is deleted whatever became of it in the meantime.
Supprimer(t) ==
  LET b == taches[t].billet
  IN  /\ taches[t].pc = "supprimer"
      /\ billets' = [billets EXCEPT ![b] =
           [Emplacement EXCEPT !.statut = "SUPPRIME", !.rang = billets[b].rang]]
      /\ NoterPerime(t)
      /\ Aller(t, "rendre")
      /\ UNCHANGED <<journal, places, fapshi, moment, signales>>

\* The place is given back; what follows depends on who gives it back.
Rendre(t) ==
  /\ taches[t].pc = "rendre"
  /\ libererUnePlace
  /\ CASE taches[t].op = "annulation" -> Aller(t, "expirer")
       [] taches[t].op = "issue" /\ taches[t].issue = "COMPLETE" -> Aller(t, "signaler")
       [] OTHER -> Liberer(t)
  /\ UNCHANGED <<journal, billets, fapshi, moment, signales, perimes>>

------------------------------------------------------------------------------
(* annuler: what was read of the ticket is not checked again at the write. *)

Annuler(t, b) ==
  /\ taches[t] = Libre
  /\ billets[b].statut \in {"EN_ATTENTE", "CONFIRMEE"}
  /\ Ouvert
  /\ LET pc == IF billets[b].statut = "EN_ATTENTE" THEN "verifier" ELSE "ecrire"
     IN  taches' = [taches EXCEPT ![t] =
           Travail("annulation", pc, b, billets[b].titulaire, "EN_ATTENTE")]
  /\ UNCHANGED <<journal, billets, places, fapshi, moment, signales, perimes>>

\* Mutant: a payment that is still pending is taken for paid.
VerifierAvantAnnulation_Optimiste(t) ==
  LET b == taches[t].billet
  IN  /\ taches[t].pc = "verifier"
      /\ IF journal[b].ext /\ fapshi[b] # "FAILED"
         THEN /\ Appliquer(b, "COMPLETE")
              /\ taches' = [taches EXCEPT ![t].op = "issue", ![t].pc = "lire",
                                          ![t].issue = "COMPLETE"]
         ELSE Aller(t, "ecrire") /\ UNCHANGED journal
      /\ UNCHANGED <<billets, places, fapshi, moment, signales, perimes>>

\* verifierQueLePaiementNEstPasArrive: nothing to ask without an identifier.
\* A paid ticket is confirmed instead, whoever recorded the payment first.
VerifierAvantAnnulation(t) ==
  LET b == taches[t].billet
  IN  /\ taches[t].pc = "verifier"
      /\ IF journal[b].ext /\ fapshi[b] = "SUCCESSFUL"
         THEN /\ Appliquer(b, "COMPLETE")
              /\ taches' = [taches EXCEPT ![t].op = "issue", ![t].pc = "lire",
                                          ![t].issue = "COMPLETE"]
         ELSE Aller(t, "ecrire") /\ UNCHANGED journal
      /\ UNCHANGED <<billets, places, fapshi, moment, signales, perimes>>

\* The provider cannot be reached: the cancellation is refused.
VerifierAvantAnnulationLeve(t) ==
  /\ taches[t].pc = "verifier"
  /\ journal[taches[t].billet].ext
  /\ Liberer(t)
  /\ UNCHANGED <<journal, billets, places, fapshi, moment, signales, perimes>>

Ecrire(t) ==
  LET b == taches[t].billet
  IN  /\ taches[t].pc = "ecrire"
      /\ billets' = IF b \in Existants
                    THEN [billets EXCEPT ![b].statut = "ANNULEE"] ELSE billets
      /\ NoterPerime(t)
      /\ Aller(t, "rendre")
      /\ UNCHANGED <<journal, places, fapshi, moment, signales>>

\* expirerLePaiement closes the payment page; a failing call is swallowed.
Expirer(t) ==
  LET b == taches[t].billet
  IN  /\ taches[t].pc = "expirer"
      /\ \/ /\ journal[b].statut = "EN_ATTENTE" /\ journal[b].ext
            /\ fapshi[b] = "PENDING"
            /\ fapshi' = [fapshi EXCEPT ![b] = "FAILED"]
         \/ UNCHANGED fapshi
      /\ Liberer(t)
      /\ UNCHANGED <<journal, billets, places, moment, signales, perimes>>

------------------------------------------------------------------------------
(* An issue of payment: confirmerPaiement and echouerPaiement.             *)

\* A webhook or the reconciliation got this issue from the provider; pending
\* payments with an identifier end up expired, as a failure.
RecevoirIssue(t, b, issue) ==
  /\ taches[t] = Libre
  /\ journal[b].statut # "ABSENTE"
  /\ \/ issue = "COMPLETE" /\ fapshi[b] = "SUCCESSFUL"
     \/ issue = "ECHOUE" /\ fapshi[b] = "FAILED"
     \/ issue = "ECHOUE" /\ fapshi[b] = "PENDING" /\ journal[b].ext
  /\ b \in Existants \/ billets[b].statut = "SUPPRIME"
  /\ taches' = [taches EXCEPT ![t] =
       [Travail("issue", "appliquer", b, billets[b].titulaire, issue)
          EXCEPT !.lu = "EN_ATTENTE"]]
  /\ UNCHANGED <<journal, billets, places, fapshi, moment, signales, perimes>>

AppliquerIssue(t) ==
  LET b == taches[t].billet
      s == taches[t].issue
  IN  /\ taches[t].pc = "appliquer"
      /\ Appliquer(b, s)
      /\ IF AppliquerAffecte(b, s) THEN Aller(t, "lire") ELSE Liberer(t)
      /\ UNCHANGED <<billets, places, fapshi, moment, signales, perimes>>

\* billetsDuPaiement: a ticket deleted since then is unknown, and logged.
Lire(t) ==
  LET b == taches[t].billet
      echoue == taches[t].issue = "ECHOUE"
      annule == billets[b].statut = "ANNULEE"
  IN  /\ taches[t].pc = "lire"
      /\ \/ b \notin Existants /\ Liberer(t)
         \/ b \in Existants /\ echoue /\ Aller(t, "refermer")
         \/ b \in Existants /\ ~echoue /\ annule /\ Aller(t, "controler")
         \/ b \in Existants /\ ~echoue /\ ~annule /\ Aller(t, "confirmer")
      /\ UNCHANGED <<journal, billets, places, fapshi, moment, signales, perimes>>

\* Mutant: without `statut_paiement != :complete`, a replay confirms again.
Confirmer_Rejouable(t) ==
  LET b == taches[t].billet
  IN  /\ taches[t].pc = "confirmer"
      /\ billets' =
           IF b \in Existants /\ billets[b].statut # "ANNULEE"
           THEN [billets EXCEPT ![b].statut = "CONFIRMEE", ![b].paiement = "COMPLETE"]
           ELSE billets
      /\ Liberer(t)
      /\ UNCHANGED <<journal, places, fapshi, moment, signales, perimes>>

\* confirmerSiEnAttente: the condition is in the statement.
Confirmer(t) ==
  LET b == taches[t].billet
  IN  /\ taches[t].pc = "confirmer"
      /\ billets' =
           IF /\ b \in Existants
              /\ billets[b].paiement # "COMPLETE"
              /\ billets[b].statut # "ANNULEE"
           THEN [billets EXCEPT ![b].statut = "CONFIRMEE", ![b].paiement = "COMPLETE"]
           ELSE billets
      /\ Liberer(t)
      /\ UNCHANGED <<journal, places, fapshi, moment, signales, perimes>>

\* Mutant: the place is given back even if the ticket was already closed.
Refermer_RendToujours(t) ==
  LET b == taches[t].billet
  IN  /\ taches[t].pc = "refermer"
      /\ billets' = IF billets[b].statut = "EN_ATTENTE"
                    THEN [billets EXCEPT ![b].statut = "ANNULEE",
                                         ![b].paiement = "ECHOUE"]
                    ELSE billets
      /\ Aller(t, "rendre")
      /\ UNCHANGED <<journal, places, fapshi, moment, signales, perimes>>

\* refermerFauteDePaiement: the place is given back only if the row changed.
Refermer(t) ==
  LET b == taches[t].billet
  IN  /\ taches[t].pc = "refermer"
      /\ IF billets[b].statut = "EN_ATTENTE"
         THEN /\ billets' = [billets EXCEPT ![b].statut = "ANNULEE",
                                            ![b].paiement = "ECHOUE"]
              /\ Aller(t, "rendre")
         ELSE UNCHANGED billets /\ Liberer(t)
      /\ UNCHANGED <<journal, places, fapshi, moment, signales, perimes>>

\* rouvrirApresPaiement: the event is not over, the person has no other ticket,
\* a place is left, the size is not sold out, the ticket is still cancelled.
Controler(t) ==
  /\ taches[t].pc = "controler"
  /\ IF moment = "fini" \/ aUneAutreInscriptionActive(taches[t].billet)
     THEN Aller(t, "signaler")
     ELSE Aller(t, "reprendre")
  /\ UNCHANGED <<journal, billets, places, fapshi, moment, signales, perimes>>

Reprendre(t) ==
  /\ taches[t].pc = "reprendre"
  /\ \/ reserverUnePlace /\ Aller(t, "rouvrir")
     \/ ~PlaceLibre /\ Aller(t, "signaler") /\ UNCHANGED places
  /\ UNCHANGED <<journal, billets, fapshi, moment, signales, perimes>>

RouvrirBillet(t) ==
  LET b == taches[t].billet
  IN  /\ taches[t].pc = "rouvrir"
      /\ billets[b].statut = "ANNULEE"
      /\ billets' = [billets EXCEPT ![b].statut = "CONFIRMEE",
                                    ![b].paiement = "COMPLETE"]
      /\ Liberer(t)
      /\ UNCHANGED <<journal, places, fapshi, moment, signales, perimes>>

\* Sold out, or reopened by somebody else: the place is given back.
RouvrirBilletRefuse(t) ==
  /\ taches[t].pc = "rouvrir"
  /\ Aller(t, "rendre")
  /\ UNCHANGED <<journal, billets, places, fapshi, moment, signales, perimes>>

signalerARembourser(t) ==
  /\ taches[t].pc = "signaler"
  /\ signales' = signales \cup {taches[t].billet}
  /\ Liberer(t)
  /\ UNCHANGED <<journal, billets, places, fapshi, moment, perimes>>

------------------------------------------------------------------------------
(* The door, the prizes, the transfers.                                    *)

\* scanner: the UPDATE checks the status, so the scan is one step.
Scanner(b) ==
  /\ moment # "avant"
  /\ billets[b].statut = "CONFIRMEE"
  /\ Marquer(b, "UTILISEE")
  /\ UNCHANGED <<journal, places, fapshi, moment, taches, signales, perimes>>

\* remettre reads the status, and writes WHERE remis_le IS NULL only.
Presenter(t, b) ==
  /\ "remise" \in Gestes
  /\ taches[t] = Libre
  /\ billets[b].statut \in {"CONFIRMEE", "UTILISEE"}
  /\ ~billets[b].remis
  /\ taches' = [taches EXCEPT ![t] =
       Travail("remise", "remettre", b, billets[b].titulaire, "EN_ATTENTE")]
  /\ UNCHANGED <<journal, billets, places, fapshi, moment, signales, perimes>>

Remettre(t) ==
  LET b == taches[t].billet
  IN  /\ taches[t].pc = "remettre"
      /\ billets' = IF b \in Existants
                    THEN [billets EXCEPT ![b].remis = TRUE] ELSE billets
      /\ Liberer(t)
      /\ UNCHANGED <<journal, places, fapshi, moment, signales, perimes>>

\* transferer to p: checked, then a conditional UPDATE on holder and status.
Ceder(t, b, p) ==
  /\ "transfert" \in Gestes
  /\ taches[t] = Libre
  /\ billets[b].statut = "CONFIRMEE"
  /\ ~billets[b].remis
  /\ moment # "fini"
  /\ billets[b].titulaire # p
  /\ ~DejaInscrit(p)
  /\ taches' = [taches EXCEPT ![t] =
                  Travail("transfert", "transferer", b, p, "EN_ATTENTE")]
  /\ UNCHANGED <<journal, billets, places, fapshi, moment, signales, perimes>>

Transferer(t) ==
  LET b == taches[t].billet
  IN  /\ taches[t].pc = "transferer"
      /\ billets' = IF /\ billets[b].statut = "CONFIRMEE"
                       /\ billets[b].titulaire = taches[t].qui
                       /\ ~billets[b].remis
                    THEN [billets EXCEPT ![b].titulaire = taches[t].pour]
                    ELSE billets
      /\ Liberer(t)
      /\ UNCHANGED <<journal, places, fapshi, moment, signales, perimes>>

------------------------------------------------------------------------------
(* The provider and the clock.                                             *)

\* Fapshi creates the payment while our call is open.
FapshiCree(b) ==
  /\ fapshi[b] = "INCONNUE"
  /\ \E t \in Taches : taches[t].pc = "repondre" /\ taches[t].billet = b
  /\ fapshi' = [fapshi EXCEPT ![b] = "PENDING"]
  /\ UNCHANGED <<journal, billets, places, moment, taches, signales, perimes>>

Trancher(b, etat) ==
  /\ fapshi[b] = "PENDING"
  /\ fapshi' = [fapshi EXCEPT ![b] = etat]
  /\ UNCHANGED <<journal, billets, places, moment, taches, signales, perimes>>

Avancer ==
  /\ moment \notin {"fini", Horizon}
  /\ moment' = CASE moment = "avant"    -> "portes"
                 [] moment = "portes"   -> "commence"
                 [] moment = "commence" -> "fini"
  /\ UNCHANGED <<journal, billets, places, fapshi, taches, signales, perimes>>

------------------------------------------------------------------------------

Etape(t) ==
  \/ Reserver(t) \/ (\E b \in References, p \in Payants : Inserer(t, b, p))
  \/ InsererLeve(t) \/ Demander(t) \/ Repondre(t) \/ Terminer(t)
  \/ InscriptionLeve(t) \/ Defaire(t) \/ Supprimer(t) \/ Rendre(t)
  \/ VerifierAvantAnnulation(t) \/ VerifierAvantAnnulationLeve(t)
  \/ Ecrire(t) \/ Expirer(t)
  \/ AppliquerIssue(t) \/ Lire(t) \/ Confirmer(t) \/ Refermer(t)
  \/ Controler(t) \/ Reprendre(t) \/ RouvrirBillet(t) \/ RouvrirBilletRefuse(t)
  \/ signalerARembourser(t) \/ Remettre(t) \/ Transferer(t)

Next ==
  \/ \E t \in Taches :
       \/ Etape(t)
       \/ \E p \in Personnes : Inscrire(t, p)
       \/ \E b \in References :
            \/ Annuler(t, b) \/ Presenter(t, b)
            \/ \E p \in Personnes : Ceder(t, b, p)
            \/ \E s \in {"COMPLETE", "ECHOUE"} : RecevoirIssue(t, b, s)
  \/ \E b \in References :
       \/ Scanner(b) \/ FapshiCree(b)
       \/ \E e \in {"SUCCESSFUL", "FAILED"} : Trancher(b, e)
  \/ Avancer

Spec == Init /\ [][Next]_vars

------------------------------------------------------------------------------
(* Safety.                                                                 *)

\* Requests that hold a place not yet, or no longer, given to a ticket.
EnMain == {t \in Taches : taches[t].pc \in {"inserer", "rendre", "rouvrir"}}

\* The counter is exact: every place is held by an active ticket or by a
\* request about to use it or to give it back.  Only a request that overwrote
\* a status it had not read can make it drift.
CompteJuste ==
  perimes = {} => places = Cardinality(Occupants) + Cardinality(EnMain)

\* Nobody holds a valid ticket that costs something without having paid.
BilletPayeAtteste ==
  \A b \in References :
    /\ billets[b].payant
    /\ billets[b].statut \in {"CONFIRMEE", "UTILISEE"}
    => fapshi[b] = "SUCCESSFUL"

\* Who entered stays recorded as entered, whatever issue of payment, transfer
\* or prize arrives later; only a stale cancellation can undo it.
EntreeDefinitive ==
  [][\A b \in References :
       billets[b].statut = "UTILISEE"
         => billets'[b].statut = "UTILISEE" \/ b \in perimes']_vars

\* A ticket changes hands only while it is confirmed and its prize is still
\* there: "un scan ou une remise de lot qui passe en même temps ne se fait pas
\* écraser" (transferer).
TransfertSansEcraser ==
  [][\A b \in References :
       /\ b \in Existants /\ b \in Existants'
       /\ billets'[b].titulaire # billets[b].titulaire
       => billets[b].statut = "CONFIRMEE" /\ ~billets[b].remis]_vars

\* At the door, whatever arrives at the same time overwrites neither an entry,
\* nor a prize, nor the holder of a ticket.
PorteTenue == EntreeDefinitive /\ TransfertSansEcraser

------------------------------------------------------------------------------
(* What the counter is there for.                                          *)

\* The counter forbids selling the last place twice (reserverUnePlace).
PasDeSurreservation == Capacite > 0 => Cardinality(Occupants) <= Capacite
==============================================================================

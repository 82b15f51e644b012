------------------------------- MODULE Groupe -------------------------------
(***************************************************************************)
(* Registering several people to an event and paying for all of them at    *)
(* once (BilletterieService.inscrireGroupe), the size each of them chose   *)
(* and its stock (OptionsEvenementService, options.ts), and the edition of *)
(* the event (EvenementService).                                           *)
(*                                                                         *)
(* A request has one row of `inscriptions` per person it is for: a ticket  *)
(* is a pair of a request and a person, and the payment is that of the     *)
(* request.  There is one option, the size, which people must choose for   *)
(* themselves and may leave open for somebody else.  The cuts inside a     *)
(* cancellation and inside a reopening are those of Billetterie: here they *)
(* are one step.  No gateway in service completes a payment at the call.   *)
(***************************************************************************)
EXTENDS Naturals, FiniteSets

CONSTANTS Inscrits,       \* who may hold a ticket
          Payeurs,        \* who may pay (a bound)
          Listes,         \* the lists of participants asked for (a bound)
          Formules,       \* requests inscrireGroupe, one use each
          Choix,          \* the sizes
          SansChoix,      \* no size chosen yet
          Editions,       \* what the office may save: capacity and stocks
          GratuitsPossibles, \* for whom the event may be free: sets of people
          MaxGestes,      \* gestures beyond registering and paying (a bound)
          FinSaison       \* the last moment reached (a bound)

ASSUME SansChoixAssumption == SansChoix \notin Choix
ASSUME FinisAssumption == IsFiniteSet(Formules) /\ IsFiniteSet(Inscrits)

\* A request is for at least one person (ArrayMinSize of InscrireGroupeDto).
ASSUME ListesAssumption == Listes \subseteq (SUBSET Inscrits) \ {{}}

VARIABLES
  soiree,         \* the row of `evenements`
  lignes,         \* the table `inscriptions`
  journalGroupe,  \* the table `transactions`
  fapshiGroupe,   \* what the provider knows of each payment
  formules,       \* the requests in flight
  suites,         \* issues of payment on their way to a ticket
  modification,   \* one request modifierReponses
  edition,        \* one request of the office: saving or deleting the event
  croises,        \* history: people two requests dealt with at once, and people
                  \* registered anew behind a ticket the request did not see
  chevauche,      \* history: the event was saved during another request
  doubles,        \* history: places given back twice
  gestes          \* gestures made so far

varsGroupe == <<soiree, lignes, journalGroupe, fapshiGroupe, formules, suites,
                modification, edition, croises, chevauche, doubles, gestes>>

J == INSTANCE Journal WITH journal <- journalGroupe, References <- Formules

------------------------------------------------------------------------------

Tickets == Formules \X Inscrits

\* A stock that is never reached stands for none (`stock: null`).
Illimite == Cardinality(Tickets) + 1

\* The options of the event: the sizes offered, and the stock of each.
Options == [offerts : SUBSET Choix, stock : [Choix -> 0 .. Illimite]]

ASSUME EditionsAssumption ==
  \A e \in Editions : e.capacite \in Nat /\ e.options \in Options

Saisons == {"avant", "fige", "commence", "fini"}

SansTicket == [statut |-> "ABSENT", paye |-> FALSE, choix |-> SansChoix,
               remis |-> FALSE, rang |-> 0]

\* pour: who the request is for; voeux: their sizes; faites: the rows written;
\* pris: the places reserved; lus: the options as the request read them.
Formule(pc, payeur, pour, voeux, lus) ==
  [pc |-> pc, payeur |-> payeur, pour |-> pour, voeux |-> voeux,
   faites |-> {}, pris |-> 0, lus |-> lus]

Repos == [pc |-> "repos"]

Actifs == {t \in Tickets : lignes[t].statut \in {"EN_ATTENTE", "CONFIRMEE", "UTILISEE"}}

Ecrites == {t \in Tickets : lignes[t].statut \notin {"ABSENT", "SUPPRIME"}}

TypeOKGroupe ==
  /\ soiree.statut \in {"BROUILLON", "PUBLIE", "ARCHIVE", "SUPPRIME"}
  /\ soiree.options \in Options
  /\ soiree.capacite \in Nat /\ soiree.places \in 0 .. Cardinality(Tickets)
  /\ soiree.saison \in Saisons
  /\ J!JournalTypeOK
  /\ \A t \in Tickets : lignes[t].choix \in Choix \cup {SansChoix}
  /\ \A f \in Formules : formules[f].pc # "repos" =>
       formules[f].faites \subseteq formules[f].pour

InitGroupe ==
  /\ \E e \in Editions, g \in GratuitsPossibles :
       soiree = [statut |-> "BROUILLON", capacite |-> e.capacite, options |-> e.options,
                 places |-> 0, saison |-> "avant", gratuits |-> g]
  /\ lignes = [t \in Tickets |-> SansTicket]
  /\ J!JournalInit
  /\ fapshiGroupe = [f \in Formules |-> "INCONNU"]
  /\ formules = [f \in Formules |-> Repos]
  /\ suites = {}
  /\ modification = Repos /\ edition = Repos
  /\ croises = {} /\ chevauche = FALSE /\ doubles = {}
  /\ gestes = 0

------------------------------------------------------------------------------
(* Places, sizes, and who is registered.                                   *)

PlaceRestante ==
  /\ soiree.statut # "SUPPRIME"
  /\ soiree.capacite = 0 \/ soiree.places < soiree.capacite

PlacesRendues(n) == [soiree EXCEPT !.places = IF @ > n THEN @ - n ELSE 0]

\* lireUtilisations: the tickets that hold size c, but for ticket `sauf`.
Utilisations(c, sauf) ==
  {t \in Ecrites \ {sauf} : lignes[t].choix = c /\ lignes[t].statut # "ANNULEE"}

\* Mutant: only the paid tickets are counted.
StockSuffit_Payes(c, lus, sauf) ==
  c \in lus.offerts =>
  Cardinality({t \in Utilisations(c, sauf) : lignes[t].paye}) < lus.stock[c]

\* verifierStock, against the options the request read before the lock: it has
\* nothing to say of a size that is not offered.
StockSuffit(c, lus, sauf) ==
  c \in lus.offerts => Cardinality(Utilisations(c, sauf)) < lus.stock[c]

\* validerReponses, answers required: there is none to give to no question.
Repond(c, options) ==
  IF options.offerts = {} THEN c = SansChoix ELSE c \in options.offerts

\* conflitsAvecLesChoix: a size somebody holds is neither withdrawn nor given a
\* stock below what is taken.
SansConflit(options) ==
  \A c \in Choix : LET n == Cardinality(Utilisations(c, <<>>))
                   IN  n > 0 => c \in options.offerts /\ n <= options.stock[c]

Ouverte == soiree.statut = "PUBLIE" /\ soiree.saison \in {"avant", "fige"}

\* verifierPasDejaInscrit looks at the latest ticket of the person only.
Inscrit(p) ==
  LET siens == {t \in Ecrites : t[2] = p}
  IN  \E t \in siens : /\ \A u \in siens : lignes[u].rang <= lignes[t].rang
                       /\ t \in Actifs

\* An active ticket of p that it does not see, behind a closed one registered later.
Masque(p) ==
  \E t \in Actifs, u \in Ecrites \ Actifs :
    t[2] = p /\ u[2] = p /\ lignes[u].rang > lignes[t].rang

ARegler(f) == formules[f].pour \ soiree.gratuits

\* The reference of the payment is the code of the ticket when people pay for
\* themselves only, and that of the group otherwise.
Propre(f) == ARegler(f) = {formules[f].payeur}

\* Requests that looked at the tickets of p, and have not written theirs.
EnCours(p) ==
  {f \in Formules : /\ formules[f].pc \in {"reserver", "inserer"}
                    /\ p \in formules[f].pour \ formules[f].faites}

\* A gesture that is counted: a step that fails, or what a holder or the office
\* does.
Geste == gestes < MaxGestes /\ gestes' = gestes + 1

Passer(f, pc) == formules' = [formules EXCEPT ![f].pc = pc]

\* Somebody else's request to save the event is between its reading and its write.
Noter == chevauche' = (chevauche \/ edition.pc # "repos")

------------------------------------------------------------------------------
(* inscrireGroupe.                                                         *)

InscrireGroupe(f, payeur, pour, voeux) ==
  /\ formules[f].pc = "repos"
  /\ Ouverte
  /\ \A p \in pour : ~Inscrit(p)
  /\ payeur \in pour => Repond(voeux[payeur], soiree.options)
  /\ \A p \in pour : voeux[p] \in soiree.options.offerts \cup {SansChoix}
  /\ formules' = [formules EXCEPT ![f] =
                    Formule("reserver", payeur, pour, voeux, soiree.options)]
  /\ croises' = croises \cup {p \in pour : EnCours(p) # {} \/ Masque(p)}
  /\ UNCHANGED <<soiree, lignes, journalGroupe, fapshiGroupe, suites, modification,
                 edition, chevauche, doubles, gestes>>

\* reserverDesPlaces, one conditional UPDATE per person.
ReserverPlace(f) ==
  LET q == formules[f]
  IN  /\ q.pc = "reserver" /\ PlaceRestante
      /\ soiree' = [soiree EXCEPT !.places = @ + 1]
      /\ formules' = [formules EXCEPT ![f].pris = @ + 1, ![f].pc =
                        IF q.pris + 1 = Cardinality(q.pour) THEN "inserer" ELSE @]
      /\ UNCHANGED <<lignes, journalGroupe, fapshiGroupe, suites, modification, edition,
                     croises, chevauche, doubles, gestes>>

\* One place is missing: those reserved are given back, all of them.
ReserverComplet(f) ==
  /\ formules[f].pc = "reserver" /\ ~PlaceRestante
  /\ soiree' = PlacesRendues(formules[f].pris)
  /\ Passer(f, "refusee")
  /\ UNCHANGED <<lignes, journalGroupe, fapshiGroupe, suites, modification, edition,
                 croises, chevauche, doubles, gestes>>

\* creerPour: the row is written if the size is not sold out, under the lock.
InsererBillet(f, p) ==
  LET q == formules[f]
      gratuit == p \in soiree.gratuits
  IN  /\ q.pc = "inserer" /\ p \in q.pour \ q.faites
      /\ soiree.statut # "SUPPRIME"
      /\ StockSuffit(q.voeux[p], q.lus, <<>>)
      /\ lignes' = [lignes EXCEPT ![<<f, p>>] =
           [statut |-> IF gratuit THEN "CONFIRMEE" ELSE "EN_ATTENTE", paye |-> gratuit,
            choix |-> q.voeux[p], remis |-> FALSE,
            rang |-> Cardinality({t \in Tickets : lignes[t].rang > 0}) + 1]]
      /\ formules' = [formules EXCEPT ![f].faites = @ \cup {p}, ![f].pc =
           IF q.faites \cup {p} # q.pour THEN @
           ELSE IF ARegler(f) = {} THEN "conclure" ELSE "ouvrir"]
      /\ Noter
      /\ UNCHANGED <<soiree, journalGroupe, fapshiGroupe, suites, modification, edition,
                     croises, doubles, gestes>>

\* lancerPaiementGroupe, lancerPaiement: the row of the journal comes first.
OuvrirPaiement(f) ==
  /\ formules[f].pc = "ouvrir"
  /\ J!Ouvrir(f)
  /\ Passer(f, "initier")
  /\ UNCHANGED <<soiree, lignes, fapshiGroupe, suites, modification, edition, croises,
                 chevauche, doubles, gestes>>

\* The provider takes the payment, or it will be made off line.
InitierPaiement(f) ==
  /\ formules[f].pc = "initier"
  /\ \/ /\ J!EnregistrerReferenceExterne(f)
        /\ fapshiGroupe' = [fapshiGroupe EXCEPT ![f] = "CREE"]
     \/ UNCHANGED <<journalGroupe, fapshiGroupe>>
  /\ Passer(f, "conclure")
  /\ UNCHANGED <<soiree, lignes, suites, modification, edition, croises, chevauche,
                 doubles, gestes>>

\* The link is kept, people are told, and the request answers.
Conclure(f) ==
  /\ formules[f].pc = "conclure"
  /\ Passer(f, "faite")
  /\ UNCHANGED <<soiree, lignes, journalGroupe, fapshiGroupe, suites, modification,
                 edition, croises, chevauche, doubles, gestes>>

\* A size is sold out, the provider refuses, or any of the steps raises.
LeverGroupe(f) ==
  /\ formules[f].pc \in {"inserer", "ouvrir", "initier", "conclure"}
  /\ Geste
  /\ Passer(f, "defaire")
  /\ UNCHANGED <<soiree, lignes, journalGroupe, fapshiGroupe, suites, modification,
                 edition, croises, chevauche, doubles>>

\* defaireLeGroupe deletes the rows one by one, whatever became of them: the
\* place of a ticket closed in the meantime was already given back.
DefaireBillet(f, p) ==
  /\ formules[f].pc = "defaire" /\ p \in formules[f].faites
  /\ IF Propre(f) THEN J!Abandonner(f) ELSE UNCHANGED journalGroupe
  /\ lignes' = [lignes EXCEPT ![<<f, p>>].statut = "SUPPRIME"]
  /\ formules' = [formules EXCEPT ![f].faites = @ \ {p}]
  /\ doubles' = IF <<f, p>> \in Actifs THEN doubles ELSE doubles \cup {<<f, p>>}
  /\ UNCHANGED <<soiree, fapshiGroupe, suites, modification, edition, croises, chevauche, gestes>>

\* Mutant: as many places as rows that were written.
RendreGroupe_Ecrites(f) ==
  /\ formules[f].pc = "defaire" /\ formules[f].faites = {}
  /\ J!Abandonner(f)
  /\ soiree' = PlacesRendues(Cardinality({p \in Inscrits : lignes[<<f, p>>].statut = "SUPPRIME"}))
  /\ Passer(f, "refusee")
  /\ UNCHANGED <<lignes, fapshiGroupe, suites, modification, edition, croises, chevauche,
                 doubles, gestes>>

RendreGroupe(f) ==
  /\ formules[f].pc = "defaire" /\ formules[f].faites = {}
  /\ J!Abandonner(f)
  /\ soiree' = PlacesRendues(Cardinality(formules[f].pour))
  /\ Passer(f, "refusee")
  /\ UNCHANGED <<lignes, fapshiGroupe, suites, modification, edition, croises, chevauche,
                 doubles, gestes>>

------------------------------------------------------------------------------
(* Issues of payment.                                                      *)

PayerGroupe(f, etat) ==
  /\ fapshiGroupe[f] = "CREE"
  /\ fapshiGroupe' = [fapshiGroupe EXCEPT ![f] = etat]
  /\ UNCHANGED <<soiree, lignes, journalGroupe, formules, suites, modification, edition,
                 croises, chevauche, doubles, gestes>>

\* billetsDuPaiement: the tickets and the event are read once, for all of them.
Suites(f, issue) ==
  {[ticket |-> <<f, p>>, issue |-> issue, options |-> soiree.options,
    annule |-> lignes[<<f, p>>].statut = "ANNULEE"] :
     p \in {q \in ARegler(f) : <<f, q>> \in Ecrites}}

\* A notification, a pass of the reconciliation, or an accepted proof.
TrancherGroupe(f, issue) ==
  /\ \/ issue = "COMPLETE" /\ fapshiGroupe[f] = "PAYE"
     \/ issue = "ECHOUE" /\ fapshiGroupe[f] = "REFUSE"
     \/ /\ formules[f].pc = "faite"
        /\ issue = "COMPLETE" /\ journalGroupe[f].statut = "EN_ATTENTE"
        /\ ~journalGroupe[f].ext
  /\ J!AppliquerAffecte(f, issue)
  /\ J!Appliquer(f, issue)
  /\ suites' = suites \cup Suites(f, issue)
  /\ UNCHANGED <<soiree, lignes, fapshiGroupe, formules, modification, edition, croises,
                 chevauche, doubles, gestes>>

Valider(t) == lignes' = [lignes EXCEPT ![t].statut = "CONFIRMEE", ![t].paye = TRUE]

ConfirmerBillet(s) ==
  LET l == lignes[s.ticket]
  IN  /\ s.issue = "COMPLETE" /\ ~s.annule
      /\ suites' = suites \ {s}
      /\ IF l.statut \notin {"SUPPRIME", "ANNULEE"} /\ ~l.paye
         THEN Valider(s.ticket) ELSE UNCHANGED lignes
      /\ UNCHANGED <<soiree, journalGroupe, fapshiGroupe, formules, modification, edition,
                     croises, chevauche, doubles, gestes>>

\* Mutant: without looking for another ticket of the person.
Rouvrable_SansControle(s) ==
  /\ soiree.statut # "ARCHIVE" /\ soiree.saison # "fini"
  /\ PlaceRestante
  /\ StockSuffit(lignes[s.ticket].choix, s.options, s.ticket)
  /\ lignes[s.ticket].statut = "ANNULEE"

\* rouvrirApresPaiement: nothing is taken from anybody.
Rouvrable(s) ==
  /\ soiree.statut # "ARCHIVE" /\ soiree.saison # "fini"
  /\ \A t \in Actifs : t[2] = s.ticket[2] => t = s.ticket
  /\ PlaceRestante
  /\ StockSuffit(lignes[s.ticket].choix, s.options, s.ticket)
  /\ lignes[s.ticket].statut = "ANNULEE"

\* Otherwise the treasury is told to give the money back.
RouvrirBilletPaye(s) ==
  /\ s.issue = "COMPLETE" /\ s.annule
  /\ suites' = suites \ {s}
  /\ IF Rouvrable(s)
     THEN /\ Valider(s.ticket)
          /\ soiree' = [soiree EXCEPT !.places = @ + 1]
          /\ croises' = croises \cup {p \in {s.ticket[2]} : EnCours(p) # {}}
          /\ Noter
     ELSE UNCHANGED <<lignes, soiree, croises, chevauche>>
  /\ UNCHANGED <<journalGroupe, fapshiGroupe, formules, modification, edition, doubles, gestes>>

RefermerBillet(s) ==
  /\ s.issue = "ECHOUE"
  /\ suites' = suites \ {s}
  /\ IF lignes[s.ticket].statut = "EN_ATTENTE"
     THEN /\ lignes' = [lignes EXCEPT ![s.ticket].statut = "ANNULEE"]
          /\ soiree' = PlacesRendues(1)
     ELSE UNCHANGED <<lignes, soiree>>
  /\ UNCHANGED <<journalGroupe, fapshiGroupe, formules, modification, edition, croises,
                 chevauche, doubles, gestes>>

\* annulerConfirmationHorsLigne looks for a ticket by its code: it finds the one
\* people paid for themselves, and none of a group.
DefairePreuve(f) ==
  /\ formules[f].pc = "faite" /\ Geste
  /\ journalGroupe[f].statut = "COMPLETE" /\ ~journalGroupe[f].ext
  /\ LET t == <<f, formules[f].payeur>>
     IN  IF Propre(f) /\ t \in Ecrites
         THEN /\ lignes[t].statut \notin {"UTILISEE", "ANNULEE"}
              /\ lignes' = [lignes EXCEPT ![t].statut = "EN_ATTENTE", ![t].paye = FALSE]
         ELSE UNCHANGED lignes
  /\ J!Rouvrir(f, "declare")
  /\ UNCHANGED <<soiree, fapshiGroupe, formules, suites, modification, edition, croises,
                 chevauche, doubles>>

------------------------------------------------------------------------------
(* The life of a ticket.                                                   *)

AnnulerBillet(t) ==
  /\ Geste
  /\ lignes[t].statut \in {"EN_ATTENTE", "CONFIRMEE"}
  /\ soiree.saison \in {"avant", "fige"}
  /\ lignes' = [lignes EXCEPT ![t].statut = "ANNULEE"]
  /\ soiree' = PlacesRendues(1)
  /\ UNCHANGED <<journalGroupe, fapshiGroupe, formules, suites, modification, edition,
                 croises, chevauche, doubles>>

\* scanner and remettre.
Accueillir(t) ==
  /\ Geste
  /\ \/ /\ lignes[t].statut = "CONFIRMEE"
        /\ lignes' = [lignes EXCEPT ![t].statut = "UTILISEE"]
     \/ /\ lignes[t].statut \in {"CONFIRMEE", "UTILISEE"} /\ ~lignes[t].remis
        /\ lignes' = [lignes EXCEPT ![t].remis = TRUE]
  /\ UNCHANGED <<soiree, journalGroupe, fapshiGroupe, formules, suites, modification,
                 edition, croises, chevauche, doubles>>

\* modifierReponses reads the ticket and the event...
LireReponses(t, c) ==
  /\ Geste
  /\ modification.pc = "repos"
  /\ lignes[t].statut \in {"EN_ATTENTE", "CONFIRMEE"} /\ ~lignes[t].remis
  /\ soiree.saison = "avant"
  /\ Repond(c, soiree.options)
  /\ modification' = [pc |-> "ecrire", ticket |-> t, choix |-> c, lus |-> soiree.options]
  /\ UNCHANGED <<soiree, lignes, journalGroupe, fapshiGroupe, formules, suites, edition,
                 croises, chevauche, doubles>>

\* ... and writes the answer under the lock if the size is not sold out, by id.
EcrireReponses ==
  LET m == modification
  IN  /\ m.pc = "ecrire"
      /\ modification' = Repos
      /\ IF StockSuffit(m.choix, m.lus, m.ticket) /\ m.ticket \in Ecrites
         THEN lignes' = [lignes EXCEPT ![m.ticket].choix = m.choix] /\ Noter
         ELSE UNCHANGED <<lignes, chevauche>>
      /\ UNCHANGED <<soiree, journalGroupe, fapshiGroupe, formules, suites, edition,
                     croises, doubles, gestes>>

------------------------------------------------------------------------------
(* EvenementService.                                                       *)

Publier ==
  /\ soiree.statut = "BROUILLON" /\ soiree.saison \in {"avant", "fige"}
  /\ soiree' = [soiree EXCEPT !.statut = "PUBLIE"]
  /\ UNCHANGED <<lignes, journalGroupe, fapshiGroupe, formules, suites, modification,
                 edition, croises, chevauche, doubles, gestes>>

Archiver ==
  /\ Geste
  /\ soiree.statut \in {"BROUILLON", "PUBLIE"}
  /\ soiree' = [soiree EXCEPT !.statut = "ARCHIVE"]
  /\ UNCHANGED <<lignes, journalGroupe, fapshiGroupe, formules, suites, modification,
                 edition, croises, chevauche, doubles>>

\* mettreAJour checks what it read: the counter, then the sizes taken.
LireEdition(e) ==
  /\ Geste
  /\ edition.pc = "repos" /\ soiree.statut # "SUPPRIME"
  /\ e.capacite = 0 \/ e.capacite >= soiree.places
  /\ SansConflit(e.options)
  /\ edition' = [pc |-> "editer", capacite |-> e.capacite, options |-> e.options]
  /\ UNCHANGED <<soiree, lignes, journalGroupe, fapshiGroupe, formules, suites,
                 modification, croises, chevauche, doubles>>

\* Requests that still rely on the options or the places as they were.
SurLAncien ==
  \/ \E f \in Formules : formules[f].pc \in {"reserver", "inserer"}
  \/ modification.pc # "repos"
  \/ \E s \in suites : s.annule

EcrireEdition ==
  /\ edition.pc = "editer"
  /\ edition' = Repos
  /\ soiree' = IF soiree.statut = "SUPPRIME" THEN soiree
               ELSE [soiree EXCEPT !.capacite = edition.capacite,
                                   !.options = edition.options]
  /\ chevauche' = (chevauche \/ SurLAncien)
  /\ UNCHANGED <<lignes, journalGroupe, fapshiGroupe, formules, suites, modification,
                 croises, doubles, gestes>>

\* supprimer: refused while the counter it read is not zero.
LireSuppression ==
  /\ Geste
  /\ edition.pc = "repos" /\ soiree.statut # "SUPPRIME" /\ soiree.places = 0
  /\ edition' = [pc |-> "supprimer"]
  /\ UNCHANGED <<soiree, lignes, journalGroupe, fapshiGroupe, formules, suites,
                 modification, croises, chevauche, doubles>>

\* The rows go with the event, by the cascade.
SupprimerEvenement ==
  /\ edition.pc = "supprimer"
  /\ edition' = Repos
  /\ soiree' = [soiree EXCEPT !.statut = "SUPPRIME"]
  /\ lignes' = [t \in Tickets |-> IF t \in Ecrites
                                  THEN [lignes[t] EXCEPT !.statut = "SUPPRIME"] ELSE lignes[t]]
  /\ chevauche' = (chevauche \/ soiree.places > 0)
  /\ UNCHANGED <<journalGroupe, fapshiGroupe, formules, suites, modification, croises,
                 doubles, gestes>>

Passe ==
  /\ soiree.saison # FinSaison
  /\ soiree' = [soiree EXCEPT !.saison =
       CASE @ = "avant" -> "fige" [] @ = "fige" -> "commence" [] OTHER -> "fini"]
  /\ UNCHANGED <<lignes, journalGroupe, fapshiGroupe, formules, suites, modification,
                 edition, croises, chevauche, doubles, gestes>>

------------------------------------------------------------------------------

NextGroupe ==
  \/ \E f \in Formules :
       \/ \E payeur \in Payeurs, pour \in Listes :
            \E voeux \in [pour -> Choix \cup {SansChoix}] : InscrireGroupe(f, payeur, pour, voeux)
       \/ ReserverPlace(f) \/ ReserverComplet(f)
       \/ \E p \in Inscrits : InsererBillet(f, p) \/ DefaireBillet(f, p)
       \/ OuvrirPaiement(f) \/ InitierPaiement(f) \/ Conclure(f) \/ LeverGroupe(f)
       \/ RendreGroupe(f) \/ DefairePreuve(f)
       \/ \E e \in {"PAYE", "REFUSE"} : PayerGroupe(f, e)
       \/ \E s \in {"COMPLETE", "ECHOUE"} : TrancherGroupe(f, s)
  \/ \E s \in suites : ConfirmerBillet(s) \/ RouvrirBilletPaye(s) \/ RefermerBillet(s)
  \/ \E t \in Tickets : \/ AnnulerBillet(t) \/ Accueillir(t)
                        \/ \E c \in Choix \cup {SansChoix} : LireReponses(t, c)
  \/ EcrireReponses
  \/ Publier \/ Archiver \/ Passe
  \/ \E e \in Editions : LireEdition(e)
  \/ EcrireEdition \/ LireSuppression \/ SupprimerEvenement

SpecGroupe == InitGroupe /\ [][NextGroupe]_varsGroupe

------------------------------------------------------------------------------
(* Safety.                                                                 *)

\* No size is given more often than its stock: "deux inscriptions simultanées
\* pourraient dépasser le stock" (enregistrerAvecStock), whatever registrations,
\* changes of mind and reopenings meet, unless the event itself was saved during
\* one of them.
TaillesTenues ==
  ~chevauche =>
    \A c \in soiree.options.offerts :
      Cardinality(Utilisations(c, <<>>)) <= soiree.options.stock[c]

\* One person has one active ticket, whoever registered them, unless two
\* requests looked at their tickets at the same time, or the person came back
\* while a ticket they had cancelled was reopened behind one they cancelled
\* later (verifierPasDejaInscrit looks at the latest only,
\* aUneAutreInscriptionActive at all of them).
UnBilletParPersonne ==
  \A p \in Inscrits \ croises : Cardinality({t \in Actifs : t[2] = p}) <= 1

\* "Tout ou rien" (inscrireGroupe): once the request is over everybody has their
\* row or nobody does, and the places counted are the active tickets and those
\* requests hold, unless a ticket was closed while its group was being undone.
ToutOuRien ==
  soiree.statut # "SUPPRIME" =>
    /\ \A f \in Formules :
         /\ formules[f].pc = "faite" => \A p \in formules[f].pour : <<f, p>> \in Ecrites
         /\ formules[f].pc = "refusee" => \A p \in Inscrits : <<f, p>> \notin Ecrites

EnMainDe(f) ==
  CASE formules[f].pc = "reserver" -> formules[f].pris
    [] formules[f].pc = "inserer" -> Cardinality(formules[f].pour \ formules[f].faites)
    [] formules[f].pc = "defaire" -> Cardinality(formules[f].pour \ formules[f].faites)
    [] OTHER -> 0

CompteGroupe ==
  soiree.statut # "SUPPRIME" /\ doubles = {} =>
    soiree.places = Cardinality(Actifs) +
      Cardinality({h \in Formules \X (1 .. Cardinality(Inscrits)) : h[2] <= EnMainDe(h[1])})

GroupeEntier == ToutOuRien /\ CompteGroupe
==============================================================================

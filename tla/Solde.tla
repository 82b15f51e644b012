-------------------------------- MODULE Solde --------------------------------
(***************************************************************************)
(* The balance of the account at the provider and what lowered it:         *)
(* SoldeService.                                                           *)
(*                                                                         *)
(* Money moves at the provider whether we look or not.  A reading asks for *)
(* the balance, then for the withdrawals, then adds up our own tables, and *)
(* takes what is missing for a withdrawal nobody told of once it has been  *)
(* missing for DELAI_CONSTAT_MS.  Anything may move between these steps.   *)
(* Amounts are in units of which SEUIL_CONSTAT is a number; of dates, only *)
(* whether the delay has passed is kept.                                   *)
(***************************************************************************)
EXTENDS Integers, FiniteSetsExt

CONSTANTS MontantsSolde,     \* amounts of a payment, a withdrawal or a transfer
          SEUIL_CONSTAT,
          Payouts,      \* withdrawals made through the service
          MaxCredits, \* bound: payments
          MaxSorties    \* bound: transfers nobody tells us of

ASSUME SoldeAssumption ==
  /\ MontantsSolde \subseteq Nat \ {0}
  /\ SEUIL_CONSTAT \in Nat \ {0}
  /\ IsFiniteSet(Payouts)
  /\ {MaxCredits, MaxSorties} \subseteq Nat

VARIABLES
  compte,    \* the provider: the balance, and its withdrawals
  credits,   \* payments on their way: how many were made, what is credited at
             \* the provider and not confirmed here, and the reverse
  sorties,   \* transfers at the provider that no call lists: number and sum
  encaisse,  \* transactions COMPLETE that went through the provider, net
  releves,  \* the table: the withdrawals found, and the sum of those we noted
  notes,\* a request of the office that saves a withdrawal it has read
  depuis,    \* manqueDepuis of the last reading, and whether it is DELAI old
  lecture,   \* the reading in progress
  deranges   \* history: readings that added up figures of different
             \* moments: none, one, more

varsSolde == <<compte, credits, sorties, encaisse, releves, notes,
               depuis, lecture, deranges>>

StatutsRetrait == {"EN_COURS", "REUSSI", "ECHOUE"}
SansRetrait == [statut |-> "INCONNU", montant |-> 0]
\* Bound: the office notes a withdrawal once.
Annote == [statut |-> "ANNOTE", montant |-> 0]

Depuis == {"jamais", "recent", "mur"}
AuRepos == [pc |-> "repos", solde |-> 0, payouts |-> [p \in Payouts |-> SansRetrait], manque |-> 0]
EtapesLecture == {"repos", "lister", "enregistrer", "comparer", "constater"}

TypeOKSolde ==
  /\ compte.solde \in Int
  /\ \A p \in Payouts : {compte.payouts[p].statut, releves.payouts[p].statut}
                          \subseteq StatutsRetrait \cup {"INCONNU"}
  /\ {credits.nombre, credits.aConfirmer, credits.aCrediter, sorties.somme,
      encaisse, releves.constates} \subseteq Nat
  /\ depuis \in Depuis
  /\ lecture.pc \in EtapesLecture

InitSolde ==
  /\ compte = [solde |-> 0, payouts |-> [p \in Payouts |-> SansRetrait]]
  /\ credits = [nombre |-> 0, aConfirmer |-> 0, aCrediter |-> 0]
  /\ sorties = [nombre |-> 0, somme |-> 0]
  /\ encaisse = 0
  /\ releves = [payouts |-> [p \in Payouts |-> SansRetrait], constates |-> 0]
  /\ notes = [p \in Payouts |-> SansRetrait]
  /\ depuis = "jamais"
  /\ lecture = AuRepos
  /\ deranges = 0

------------------------------------------------------------------------------
(* The provider, and our confirmations.                                    *)

NousSansChangement == UNCHANGED <<releves, notes, depuis, lecture, deranges>>

\* The provider credits a payment before or after we are told of it.
CrediterCompte(m) ==
  /\ credits.nombre < MaxCredits
  /\ credits' = [credits EXCEPT !.nombre = @ + 1, !.aConfirmer = @ + m]
  /\ compte' = [compte EXCEPT !.solde = @ + m]
  /\ UNCHANGED <<sorties, encaisse>>
  /\ NousSansChangement

ConfirmerPaiement(m) ==
  /\ credits.aConfirmer >= m
  /\ credits' = [credits EXCEPT !.aConfirmer = @ - m]
  /\ encaisse' = encaisse + m
  /\ UNCHANGED <<compte, sorties>>
  /\ NousSansChangement

ConfirmerAvantCredit(m) ==
  /\ credits.nombre < MaxCredits
  /\ credits' = [credits EXCEPT !.nombre = @ + 1, !.aCrediter = @ + m]
  /\ encaisse' = encaisse + m
  /\ UNCHANGED <<compte, sorties>>
  /\ NousSansChangement

CrediterEnRetard(m) ==
  /\ credits.aCrediter >= m
  /\ credits' = [credits EXCEPT !.aCrediter = @ - m]
  /\ compte' = [compte EXCEPT !.solde = @ + m]
  /\ UNCHANGED <<sorties, encaisse>>
  /\ NousSansChangement

\* A withdrawal leaves the balance at once, and comes back to it if it fails.
RetirerDuCompte(p, m) ==
  /\ compte.payouts[p] = SansRetrait
  /\ m <= compte.solde
  /\ compte' = [compte EXCEPT !.solde = @ - m,
                              !.payouts[p] = [statut |-> "EN_COURS", montant |-> m]]
  /\ UNCHANGED <<credits, sorties, encaisse>>
  /\ NousSansChangement

Denouer(p, statut) ==
  /\ compte.payouts[p].statut = "EN_COURS"
  /\ compte' = [compte EXCEPT !.payouts[p].statut = statut,
       !.solde = IF statut = "ECHOUE" THEN @ + compte.payouts[p].montant ELSE @]
  /\ UNCHANGED <<credits, sorties, encaisse>>
  /\ NousSansChangement

\* A transfer from the service to the main account: no call shows it.
TransfererSansTrace(m) ==
  /\ sorties.nombre < MaxSorties
  /\ m <= compte.solde
  /\ compte' = [compte EXCEPT !.solde = @ - m]
  /\ sorties' = [nombre |-> sorties.nombre + 1, somme |-> sorties.somme + m]
  /\ UNCHANGED <<credits, encaisse>>
  /\ NousSansChangement

\* The delay goes by.
LaisserPasser ==
  /\ depuis = "recent"
  /\ depuis' = "mur"
  /\ UNCHANGED <<compte, credits, sorties, encaisse, releves, notes,
                 lecture, deranges>>

------------------------------------------------------------------------------
(* SoldeService.                                                           *)

PrestataireInchange == UNCHANGED <<compte, credits, sorties, encaisse>>

\* synchroniser: one reading at a time, which simultaneous calls share.
Synchroniser ==
  /\ lecture.pc = "repos"
  /\ lecture' = [lecture EXCEPT !.pc = "lister", !.solde = compte.solde]
  /\ UNCHANGED <<releves, notes, depuis, deranges>>
  /\ PrestataireInchange

\* The provider does not answer: the reading is dropped, and nothing written.
PasDeReponse ==
  /\ lecture.pc = "lister"
  /\ lecture' = AuRepos
  /\ UNCHANGED <<releves, notes, depuis, deranges>>
  /\ PrestataireInchange

\* listerRetraits: the window reaches back to whatever is still under way.
ListerRetraits ==
  /\ lecture.pc = "lister"
  /\ lecture' = [lecture EXCEPT !.pc = "enregistrer", !.payouts = compte.payouts]
  /\ UNCHANGED <<releves, notes, depuis, deranges>>
  /\ PrestataireInchange

EnregistrerRetraits ==
  /\ lecture.pc = "enregistrer"
  /\ releves' = [releves EXCEPT !.payouts = lecture.payouts]
  /\ lecture' = [lecture EXCEPT !.pc = "comparer", !.payouts = AuRepos.payouts]
  /\ UNCHANGED <<notes, depuis, deranges>>
  /\ PrestataireInchange

sommeRetraits(statut) ==
  MapThenSumSet(LAMBDA p : releves.payouts[p].montant,
                {p \in Payouts : releves.payouts[p].statut = statut})

\* Mutant: a withdrawal under way is still expected in the balance.
manque_SansEnCours(solde) ==
  encaisse - (sommeRetraits("REUSSI") + releves.constates) - solde

manque(solde) ==
  encaisse - (sommeRetraits("REUSSI") + releves.constates)
    - sommeRetraits("EN_COURS") - solde

Manquant(m) == m >= SEUIL_CONSTAT

\* History: the figures of the reading tell what happened, for they are all of
\* one moment.
Actifs(payouts) ==
  MapThenSumSet(LAMBDA p : payouts[p].montant,
                {p \in Payouts : payouts[p].statut \in {"EN_COURS", "REUSSI"}})

Coherente ==
  /\ Actifs(releves.payouts) = Actifs(compte.payouts)
  /\ lecture.solde = encaisse - Actifs(compte.payouts) - sorties.somme

\* encaisseNet, the sums of the withdrawals, and what is missing: the moment it
\* was first seen is kept while it lasts, and forgotten by a reading that misses
\* nothing; it is noted when maintenant - manqueDepuis >= DELAI_CONSTAT_MS.
ComparerSolde ==
  LET m == manque(lecture.solde)
  IN  /\ lecture.pc = "comparer"
      /\ IF Manquant(m) /\ depuis = "mur"
         THEN /\ lecture' = [lecture EXCEPT !.pc = "constater", !.manque = m]
              /\ UNCHANGED depuis
         ELSE /\ lecture' = AuRepos
              /\ depuis' = IF ~Manquant(m) THEN "jamais"
                           ELSE IF depuis = "jamais" THEN "recent" ELSE depuis
      /\ deranges' = IF Coherente \/ deranges = 2 THEN deranges ELSE deranges + 1
      /\ UNCHANGED <<releves, notes>>
      /\ PrestataireInchange

\* What is missing is noted as a withdrawal, and the photograph forgets it.
constater ==
  /\ lecture.pc = "constater"
  /\ releves' = [releves EXCEPT !.constates = @ + lecture.manque]
  /\ depuis' = "jamais"
  /\ lecture' = AuRepos
  /\ UNCHANGED <<notes, deranges>>
  /\ PrestataireInchange

\* annoter and attribuerRetrait read a withdrawal and save it whole: the status
\* of the reading comes back with the note.
LireRetrait(p) ==
  /\ releves.payouts[p] # SansRetrait
  /\ notes[p] = SansRetrait
  /\ notes' = [notes EXCEPT ![p] = releves.payouts[p]]
  /\ UNCHANGED <<releves, depuis, lecture, deranges>>
  /\ PrestataireInchange

AnnoterRetrait(p) ==
  /\ notes[p] \notin {SansRetrait, Annote}
  /\ releves' = [releves EXCEPT !.payouts[p] = notes[p]]
  /\ notes' = [notes EXCEPT ![p] = Annote]
  /\ UNCHANGED <<depuis, lecture, deranges>>
  /\ PrestataireInchange

------------------------------------------------------------------------------

LireSolde == Synchroniser \/ ListerRetraits \/ EnregistrerRetraits \/ ComparerSolde \/ constater

NextSolde ==
  \/ \E m \in MontantsSolde :
       \/ CrediterCompte(m) \/ ConfirmerPaiement(m) \/ ConfirmerAvantCredit(m)
       \/ CrediterEnRetard(m) \/ TransfererSansTrace(m)
       \/ \E p \in Payouts : RetirerDuCompte(p, m)
  \/ \E p \in Payouts, s \in {"REUSSI", "ECHOUE"} : Denouer(p, s)
  \/ \E p \in Payouts : LireRetrait(p) \/ AnnoterRetrait(p)
  \/ LaisserPasser \/ LireSolde \/ PasDeReponse

\* A payment credited ends up confirmed here, and the reverse (module Paiement).
Rapprocher == \E m \in MontantsSolde : ConfirmerPaiement(m) \/ CrediterEnRetard(m)
DenouerUn == \E p \in Payouts, s \in {"REUSSI", "ECHOUE"} : Denouer(p, s)
AnnoterUn == \E p \in Payouts : AnnoterRetrait(p)

\* The cron starts a reading every ten minutes, a reading goes on, and the
\* provider ends up answering; time passes; requests and withdrawals end.
SpecSolde ==
  /\ InitSolde
  /\ [][NextSolde]_varsSolde
  /\ WF_varsSolde(LireSolde) /\ SF_varsSolde(ListerRetraits)
  /\ WF_varsSolde(LaisserPasser) /\ WF_varsSolde(Rapprocher)
  /\ WF_varsSolde(DenouerUn) /\ WF_varsSolde(AnnoterUn)

------------------------------------------------------------------------------
(* Properties.                                                             *)

\* While no reading mixed figures of different moments, what is noted as gone is
\* what left, and nothing of it is noted twice.
ConstatJuste == deranges = 0 => releves.constates <= sorties.somme

\* One reading taken between a confirmation and its credit invents no outflow:
\* that is what DELAI_CONSTAT_MS is for, says the service.
UnEcartNInventeRien == deranges <= 1 => releves.constates <= sorties.somme

\* Money that left without a withdrawal ends up noted, whoever looks or not,
\* once enough of it is missing.
SortieFiniConstatee ==
  sorties.somme - releves.constates >= SEUIL_CONSTAT
    ~> sorties.somme - releves.constates < SEUIL_CONSTAT

==============================================================================

-------------------------------- MODULE Fonds --------------------------------
(***************************************************************************)
(* Where the money of the office is: FondsService and calculerPoches.      *)
(*                                                                         *)
(* A pocket is never stored: it is what the register of movements, the     *)
(* accepted proofs and the withdrawals at the provider say a member holds. *)
(* Declarations wait for their turn in one queue (`exclusif`); the issue   *)
(* of a deposit, its abandonment, the attribution of a withdrawal and the  *)
(* undoing of a proof happen outside it.  Handlers are cut at every await. *)
(* Deposits are payments of the journal; how their issue is found is       *)
(* module Paiement.                                                        *)
(***************************************************************************)
EXTENDS Journal, Integers, FiniteSetsExt, Bags

CONSTANTS Membres,        \* members of the office who hold money
          Sommes,         \* the amounts people declare
          Preuves,        \* proofs of payment
          Retraits,       \* withdrawals at the provider
          Demandeurs,     \* declarations that may be waiting at once
          Personne,       \* no member
          MaxMouvements   \* bound: validated movements

ASSUME FondsAssumption ==
  /\ Personne \notin Membres
  /\ Sommes \subseteq Nat \ {0}
  /\ MaxMouvements \in Nat

\* The tables of proofs and of withdrawals are finite.
ASSUME TablesAssumption == IsFiniteSet(Preuves) /\ IsFiniteSet(Retraits)

VARIABLES
  mouvements,  \* the table, but for the deposits: a bag of validated movements
  depots,      \* the deposits of the same table, by reference
  preuves,     \* justificatifs_paiement: who received how much
  retraits,    \* retraits: how much, and in whose hands
  declarations,\* the requests in the queue
  issues,      \* issues applied to the journal whose effect is on its way
  abandons,    \* the requests that give a deposit up
  fapshi,      \* what the provider knows of a deposit
  contestes,   \* history: members who lost an entry after the fact
  ecrases      \* history: deposits written from a stale reading

varsFonds == <<journal, mouvements, depots, preuves, retraits, declarations,
               issues, abandons, fapshi, contestes, ecrases>>

------------------------------------------------------------------------------

SORTIES == {"TRANSFERT", "DEPOT_PLATEFORME", "REMBOURSEMENT", "DEPENSE"}
TypesMouvement == SORTIES \cup {"RECEPTION"}

\* A declaration: only a transfer has a counterpart, another member.
Declarations ==
  {d \in [type : TypesMouvement, membre : Membres,
          contrepartie : Membres \cup {Personne}, montant : Sommes] :
     /\ d.contrepartie # d.membre
     /\ d.type = "TRANSFERT" <=> d.contrepartie # Personne}

StatutsDepot == {"ABSENT", "EN_ATTENTE", "VALIDE", "ECHOUE"}

\* The provider: a payment it never heard of, created, refused, paid.
EtatsFapshi == {"INCONNU", "CREE", "REFUSE", "PAYE"}

PasDeDepot == [statut |-> "ABSENT", membre |-> Personne, montant |-> 0]
PasDePreuve == [membre |-> Personne, montant |-> 0]
PasDeRetrait == [reussi |-> FALSE, detenteur |-> Personne, montant |-> 0]
Dehors == [pc |-> "dehors"]

TypeOKFonds ==
  /\ JournalTypeOK
  /\ BagToSet(mouvements) \subseteq Declarations
  /\ \A r \in References : depots[r].statut \in StatutsDepot
  /\ \A w \in Retraits : retraits[w].detenteur \in Membres \cup {Personne}
  /\ issues \subseteq References \X {"COMPLETE", "ECHOUE"}
  /\ fapshi \in [References -> EtatsFapshi]
  /\ contestes \subseteq Membres
  /\ ecrases \subseteq References

InitFonds ==
  /\ JournalInit
  /\ mouvements = EmptyBag
  /\ depots = [r \in References |-> PasDeDepot]
  /\ preuves = [p \in Preuves |-> PasDePreuve]
  /\ retraits = [w \in Retraits |-> PasDeRetrait]
  /\ declarations = [q \in Demandeurs |-> Dehors]
  /\ issues = {}
  /\ abandons = {}
  /\ fapshi = [r \in References |-> "INCONNU"]
  /\ contestes = {}
  /\ ecrases = {}

------------------------------------------------------------------------------
(* calculerPoches.                                                         *)

\* The sum of the movements of the register that are like one of ds.
TotalMouvements(ds) == MapThenSumSet(LAMBDA d : d.montant * mouvements[d], ds)

Registre == BagToSet(mouvements)

TotalDepots(m, statut) ==
  MapThenSumSet(LAMBDA r : depots[r].montant,
                {r \in References : depots[r].membre = m /\ depots[r].statut = statut})

recu(m) ==
  TotalMouvements({d \in Registre : d.type = "RECEPTION" /\ d.membre = m})
  + MapThenSumSet(LAMBDA p : preuves[p].montant, {p \in Preuves : preuves[p].membre = m})

retire(m) ==
  MapThenSumSet(LAMBDA w : retraits[w].montant,
                {w \in Retraits : retraits[w].reussi /\ retraits[w].detenteur = m})

transfertsRecus(m) == TotalMouvements({d \in Registre : d.contrepartie = m})

sorti(m) ==
  TotalMouvements({d \in Registre : d.type \in SORTIES /\ d.membre = m}) + TotalDepots(m, "VALIDE")

enRoute(m) == TotalDepots(m, "EN_ATTENTE")

detient(m) == recu(m) + retire(m) + transfertsRecus(m) - sorti(m)

\* Mutant: what is on its way is not set aside.
disponible_SansReserve(m) == detient(m)

disponible(m) == detient(m) - enRoute(m)

------------------------------------------------------------------------------
(* declarer.                                                               *)

EnFile == {q \in Demandeurs : declarations[q] # Dehors}

\* exclusif: a declaration starts when the one before it is over, failed or not.
SonTour(q) == EnFile = {}

Avancer(q, pc) == declarations' = [declarations EXCEPT ![q].pc = pc]
Sortir(q) == declarations' = [declarations EXCEPT ![q] = Dehors]

RegistreInchange == UNCHANGED <<mouvements, preuves, retraits>>
ResteInchange == UNCHANGED <<preuves, retraits, issues, abandons, contestes>>

\* contrepartie, then verifierQuIlDetient: a way out of a pocket is accepted
\* only if the pocket holds it, less what is on its way.
Declarer(q, d) ==
  /\ SonTour(q)
  /\ BagCardinality(mouvements) < MaxMouvements
  /\ d.type \in SORTIES => d.montant <= disponible(d.membre)
  /\ declarations' = [declarations EXCEPT ![q] =
       [pc |-> IF d.type = "DEPOT_PLATEFORME" THEN "deposer" ELSE "enregistrer",
        d |-> d, ref |-> Personne]]
  /\ UNCHANGED <<journal, depots, fapshi, ecrases>>
  /\ RegistreInchange
  /\ UNCHANGED <<issues, abandons, contestes>>

EnregistrerMouvement(q) ==
  /\ declarations[q].pc = "enregistrer"
  /\ mouvements' = mouvements (+) SetToBag({declarations[q].d})
  /\ Sortir(q)
  /\ UNCHANGED <<journal, depots, fapshi, ecrases>>
  /\ ResteInchange

\* deposer: the movement, then the row of the journal, then the provider.
EnregistrerDepot(q, r) ==
  /\ declarations[q].pc = "deposer"
  /\ depots[r] = PasDeDepot
  /\ depots' = [depots EXCEPT ![r] =
       [statut |-> "EN_ATTENTE", membre |-> declarations[q].d.membre,
        montant |-> declarations[q].d.montant]]
  /\ declarations' = [declarations EXCEPT ![q].pc = "ouvrir", ![q].ref = r]
  /\ UNCHANGED <<journal, mouvements, fapshi, ecrases>>
  /\ ResteInchange

OuvrirDepot(q) ==
  /\ declarations[q].pc = "ouvrir"
  /\ Ouvrir(declarations[q].ref)
  /\ Avancer(q, "initier")
  /\ UNCHANGED <<mouvements, depots, fapshi, ecrases>>
  /\ ResteInchange

\* initier: the provider creates the payment or refuses it, or the call fails,
\* whether the provider created the payment or not.
InitierDepot(q) ==
  LET r == declarations[q].ref
  IN  /\ declarations[q].pc = "initier"
      /\ \E etat \in {"INCONNU", "CREE", "REFUSE"} :
           /\ fapshi' = [fapshi EXCEPT ![r] = etat]
           /\ \/ etat # "INCONNU" /\ Avancer(q, "appele")
              \/ etat # "REFUSE" /\ Avancer(q, "renoncer")
      /\ UNCHANGED <<journal, mouvements, depots, ecrases>>
      /\ ResteInchange

\* The identifier of the provider is kept; a payment already made is applied
\* here, a refused one is an error.
ConclureDepot(q) ==
  LET r == declarations[q].ref
  IN  /\ declarations[q].pc = "appele"
      /\ EnregistrerReferenceExterne(r)
      /\ \/ fapshi[r] # "REFUSE" /\ Avancer(q, "lancer")
         \/ fapshi[r] = "PAYE" /\ Avancer(q, "appliquer")
         \/ fapshi[r] = "REFUSE" /\ Avancer(q, "renoncer")
      /\ UNCHANGED <<mouvements, depots, fapshi, ecrases>>
      /\ ResteInchange

\* The payment page is kept, and the request ends.
LancerDepot(q) ==
  /\ declarations[q].pc = "lancer"
  /\ Sortir(q)
  /\ UNCHANGED <<journal, mouvements, depots, fapshi, ecrases>>
  /\ ResteInchange

AppliquerDepot(q) ==
  LET r == declarations[q].ref
  IN  /\ declarations[q].pc = "appliquer"
      /\ Appliquer(r, "COMPLETE")
      /\ issues' = IF AppliquerAffecte(r, "COMPLETE")
                   THEN issues \cup {<<r, "COMPLETE">>} ELSE issues
      /\ Sortir(q)
      /\ UNCHANGED <<depots, fapshi, ecrases, abandons, contestes>>
      /\ RegistreInchange

\* The catch: the transaction is given up if the provider never answered, and
\* the movement fails, whatever a notification has just written on it.
RenoncerDepot(q) ==
  LET r == declarations[q].ref
  IN  /\ declarations[q].pc = "renoncer"
      /\ Abandonner(r)
      /\ Avancer(q, "refermer")
      /\ UNCHANGED <<mouvements, depots, fapshi, ecrases>>
      /\ ResteInchange

\* A write of ECHOUE over a deposit the provider attests.
Ecrase(r) == IF journal[r].statut = "COMPLETE" THEN ecrases \cup {r} ELSE ecrases

RefermerDepot(q) ==
  LET r == declarations[q].ref
  IN  /\ declarations[q].pc = "refermer"
      /\ depots' = [depots EXCEPT ![r].statut = "ECHOUE"]
      /\ ecrases' = Ecrase(r)
      /\ Sortir(q)
      /\ UNCHANGED <<journal, mouvements, fapshi>>
      /\ ResteInchange

------------------------------------------------------------------------------
(* traiterIssue, abandonnerDepot.                                          *)

\* The payer pays, in the page of the provider.
PayerDepot(r) ==
  /\ fapshi[r] = "CREE"
  /\ fapshi' = [fapshi EXCEPT ![r] = "PAYE"]
  /\ UNCHANGED <<journal, depots, declarations, ecrases, issues, abandons, contestes>>
  /\ RegistreInchange

\* The journal changes (webhook, pass or return page) and the effect follows; a
\* pass asks the provider about pending rows it has an identifier for.
RecevoirIssueDepot(r, issue) ==
  /\ IF issue = "COMPLETE" THEN fapshi[r] = "PAYE"
     ELSE fapshi[r] # "PAYE" /\ journal[r].ext /\ journal[r].statut = "EN_ATTENTE"
  /\ AppliquerAffecte(r, issue)
  /\ Appliquer(r, issue)
  /\ issues' = issues \cup {<<r, issue>>}
  /\ UNCHANGED <<depots, declarations, fapshi, ecrases, abandons, contestes>>
  /\ RegistreInchange

\* The effect is written whatever the movement became: a deposit given up, its
\* money spent again, then comes out of the pocket after all.
traiterIssue(r, issue) ==
  /\ <<r, issue>> \in issues
  /\ issues' = issues \ {<<r, issue>>}
  /\ depots' = [depots EXCEPT ![r].statut =
       IF issue = "COMPLETE" THEN "VALIDE" ELSE "ECHOUE"]
  /\ contestes' = IF issue = "COMPLETE" /\ depots[r].statut = "ECHOUE"
                  THEN contestes \cup {depots[r].membre} ELSE contestes
  /\ ecrases' = IF issue = "ECHOUE" THEN Ecrase(r) ELSE ecrases
  /\ UNCHANGED <<journal, declarations, fapshi, abandons>>
  /\ RegistreInchange

\* abandonnerDepot reads the movement, gives the transaction up, then saves the
\* movement it read.
LireAbandon(r) ==
  /\ depots[r].statut = "EN_ATTENTE"
  /\ abandons' = abandons \cup {r}
  /\ Abandonner(r)
  /\ UNCHANGED <<depots, declarations, issues, fapshi, contestes, ecrases>>
  /\ RegistreInchange

AbandonnerDepot(r) ==
  /\ r \in abandons
  /\ abandons' = abandons \ {r}
  /\ depots' = [depots EXCEPT ![r].statut = "ECHOUE"]
  /\ ecrases' = Ecrase(r)
  /\ UNCHANGED <<journal, declarations, issues, fapshi, contestes>>
  /\ RegistreInchange

------------------------------------------------------------------------------
(* What feeds the pockets from outside the register.                       *)

HorsRegistre == UNCHANGED <<journal, mouvements, depots, declarations, issues,
                            abandons, fapshi, ecrases>>

\* A proof is accepted, recuPar being who received the money, or undone.
AccepterPreuve(p, m, montant) ==
  /\ preuves[p] = PasDePreuve
  /\ preuves' = [preuves EXCEPT ![p] = [membre |-> m, montant |-> montant]]
  /\ UNCHANGED <<retraits, contestes>>
  /\ HorsRegistre

DefairePreuve(p) ==
  /\ preuves[p] # PasDePreuve
  /\ preuves' = [preuves EXCEPT ![p] = PasDePreuve]
  /\ contestes' = contestes \cup {preuves[p].membre}
  /\ UNCHANGED retraits
  /\ HorsRegistre

\* SoldeService finds a withdrawal that succeeded.
ReleverRetrait(w, montant) ==
  /\ ~retraits[w].reussi
  /\ retraits' = [retraits EXCEPT ![w].reussi = TRUE, ![w].montant = montant]
  /\ UNCHANGED <<preuves, contestes>>
  /\ HorsRegistre

\* attribuerRetrait: to a member, to another one, or to nobody.
attribuerRetrait(w, m) ==
  /\ retraits[w].reussi
  /\ retraits' = [retraits EXCEPT ![w].detenteur = m]
  /\ contestes' = contestes \cup ({retraits[w].detenteur} \ {m, Personne})
  /\ UNCHANGED preuves
  /\ HorsRegistre

------------------------------------------------------------------------------

NextFonds ==
  \/ \E q \in Demandeurs :
       \/ \E d \in Declarations : Declarer(q, d)
       \/ \E r \in References : EnregistrerDepot(q, r)
       \/ EnregistrerMouvement(q) \/ OuvrirDepot(q) \/ InitierDepot(q)
       \/ ConclureDepot(q) \/ LancerDepot(q) \/ AppliquerDepot(q)
       \/ RenoncerDepot(q) \/ RefermerDepot(q)
  \/ \E r \in References :
       \/ PayerDepot(r) \/ LireAbandon(r) \/ AbandonnerDepot(r)
       \/ \E i \in {"COMPLETE", "ECHOUE"} : RecevoirIssueDepot(r, i) \/ traiterIssue(r, i)
  \/ \E m \in Membres, s \in Sommes :
       \/ \E p \in Preuves : AccepterPreuve(p, m, s)
       \/ \E w \in Retraits : ReleverRetrait(w, s)
  \/ \E p \in Preuves : DefairePreuve(p)
  \/ \E w \in Retraits, m \in Membres \cup {Personne} : attribuerRetrait(w, m)

SpecFonds == InitFonds /\ [][NextFonds]_varsFonds

------------------------------------------------------------------------------
(* Properties.                                                             *)

\* What a pocket holds covers what is on its way out of it: no money is spent
\* twice, by two declarations at once or while a deposit is pending, unless
\* something the member had received was taken back, or a deposit given up came
\* in after all (what FondsService.suivi then shows as a negative pocket).
PocheSuffit == \A m \in Membres \ contestes : disponible(m) >= 0

\* Once its issues are written, a deposit left a pocket exactly when the journal
\* says it reached the platform, whatever order its issue, its abandonment and
\* the answer of the provider came in and whoever still deals with it, unless
\* ECHOUE was written over an attested deposit.
DepotSuitJournal ==
  \A r \in References \ ecrases :
    (\A i \in issues : i[1] # r)
    => (depots[r].statut = "VALIDE" <=> journal[r].statut = "COMPLETE")

\* The pockets and the deposits out of them agree with the journal.
FondsJustes == PocheSuffit /\ DepotSuitJournal

==============================================================================

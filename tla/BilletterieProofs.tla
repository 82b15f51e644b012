-------------------------- MODULE BilletterieProofs --------------------------
(***************************************************************************)
(* Proofs about Billetterie and Groupe, for any number of tickets, of      *)
(* people, of requests in flight and of gestures of the organisers, any    *)
(* sizes and any capacity.                                                 *)
(***************************************************************************)
EXTENDS Billetterie, Groupe, JournalProofs, FiniteSetTheorems, TLAPS

------------------------------------------------------------------------------
(* The inductive invariant.                                                *)

\* The steps that lead a request to delete a ticket or to cancel it, and those
\* that lead an issue of payment to a ticket.
VersLaFin == {"demander", "repondre", "terminer", "defaire", "supprimer",
              "verifier", "ecrire"}
VersLeBillet == {"appliquer", "lire", "confirmer", "controler", "reprendre", "rouvrir"}

\* A request about to delete or cancel a ticket read it before the door; one that
\* carries an issue got it from the prestataire, and goes on towards a confirmation
\* with a paid one only.
Sincere(x, prestataire) ==
  /\ x.pc \in VersLaFin => x.lu \in {"EN_ATTENTE", "CONFIRMEE"}
  /\ x.pc \in VersLeBillet =>
       /\ x.issue \in {"COMPLETE", "ECHOUE"}
       /\ x.issue = "COMPLETE" => prestataire[x.billet] = "SUCCESSFUL"
  /\ x.pc \in VersLeBillet \ {"appliquer", "lire"} => x.issue = "COMPLETE"

TacheSincere == \A t \in Taches : Sincere(taches[t], fapshi)

\* A ticket is confirmed with its payment.
ConfirmeRegle ==
  \A b \in References :
    billets[b].statut \in {"CONFIRMEE", "UTILISEE"} => billets[b].paiement = "COMPLETE"

IInv == TypeOK /\ TacheSincere /\ ConfirmeRegle /\ BilletPayeAtteste

------------------------------------------------------------------------------
(* The requests in flight.                                                 *)

Etats == Tache \cup SansBillet \cup {Libre}

\* Where a request is says whether it has a ticket yet.
LEMMA TacheSurBillet ==
  ASSUME TypeOK, NEW t \in Taches,
         taches[t].pc \notin {"libre", "reserver", "inserer", "rendre"}
  PROVE  taches[t] \in Tache
BY DEF TypeOK, Libre, SansBillet

LEMMA TacheSansBillet ==
  ASSUME TypeOK, NEW t \in Taches, taches[t].pc \in {"reserver", "inserer"}
  PROVE  taches[t] \in SansBillet
BY DEF TypeOK, Libre, Tache

\* A request on a ticket stays one when it moves, or ends.
LEMMA SuiteType ==
  ASSUME TypeOK, NEW t \in Taches,
         \/ Liberer(t)
         \/ /\ taches[t] \in Tache
            /\ \E pc \in {"repondre", "terminer", "defaire", "supprimer", "rendre", "ecrire",
                          "lire", "expirer", "signaler", "confirmer", "refermer", "controler",
                          "reprendre", "rouvrir"} : Aller(t, pc)
         \/ taches[t] \in SansBillet /\ (Aller(t, "inserer") \/ Aller(t, "rendre"))
  PROVE  taches' \in [Taches -> Etats]
<1>1. CASE Liberer(t)
  BY <1>1 DEF Liberer, TypeOK, Etats
<1>2. ASSUME taches[t] \in Tache,
             NEW pc \in {"repondre", "terminer", "defaire", "supprimer", "rendre", "ecrire",
                         "lire", "expirer", "signaler", "confirmer", "refermer", "controler",
                         "reprendre", "rouvrir"},
             Aller(t, pc)
      PROVE  taches' \in [Taches -> Etats]
  <2>1. [taches[t] EXCEPT !.pc = pc] \in Tache
    BY <1>2 DEF Tache
  <2>. QED BY <1>2, <2>1 DEF Aller, TypeOK, Etats
<1>3. ASSUME taches[t] \in SansBillet, NEW pc \in {"inserer", "rendre"}, Aller(t, pc)
      PROVE  taches' \in [Taches -> Etats]
  <2>1. [taches[t] EXCEPT !.pc = pc] \in SansBillet
    BY <1>3 DEF SansBillet
  <2>. QED BY <1>3, <2>1 DEF Aller, TypeOK, Etats
<1>. QED BY <1>1, <1>2, <1>3

\* A request that starts on a ticket.
LEMMA TravailType ==
  ASSUME TypeOK, NEW t \in Taches, NEW b \in References, b \in Existants,
         NEW p \in Personnes \cup {Aucun}, NEW issue \in Statuts,
         NEW op \in {"annulation", "issue", "transfert", "remise"},
         NEW pc \in {"verifier", "ecrire", "appliquer", "transferer", "remettre"}
  PROVE  Travail(op, pc, b, p, issue) \in Tache
BY DEF TypeOK, Billet, Existants, Travail, Tache

\* The statements that write a ticket keep it a ticket.
LEMMA BilletType ==
  ASSUME TypeOK, NEW b \in References,
         \/ \E s \in StatutsBillet : billets' = [billets EXCEPT ![b].statut = s]
         \/ \E s \in StatutsBillet, p \in Statuts :
              billets' = [billets EXCEPT ![b].statut = s, ![b].paiement = p]
         \/ billets' = [billets EXCEPT ![b].remis = TRUE]
         \/ \E p \in Personnes \cup {Aucun} : billets' = [billets EXCEPT ![b].titulaire = p]
         \/ billets' = [billets EXCEPT ![b] =
              [Emplacement EXCEPT !.statut = "SUPPRIME", !.rang = billets[b].rang]]
         \/ billets' = billets
  PROVE  billets' \in [References -> Billet]
<1>1. billets[b] \in Billet /\ billets \in [References -> Billet]
  BY DEF TypeOK
<1>2. Emplacement \in Billet
  BY DEF Emplacement, Billet, StatutsBillet, SansLigne, Statuts
<1>3. /\ \A s \in StatutsBillet : [billets[b] EXCEPT !.statut = s] \in Billet
      /\ \A s \in StatutsBillet, p \in Statuts :
           [billets[b] EXCEPT !.statut = s, !.paiement = p] \in Billet
      /\ [billets[b] EXCEPT !.remis = TRUE] \in Billet
      /\ \A p \in Personnes \cup {Aucun} : [billets[b] EXCEPT !.titulaire = p] \in Billet
  BY <1>1 DEF Billet
<1>4. [Emplacement EXCEPT !.statut = "SUPPRIME", !.rang = billets[b].rang] \in Billet
  BY <1>1, <1>2 DEF Billet, SansLigne
<1>5. ASSUME NEW x \in Billet, billets' = [billets EXCEPT ![b] = x]
      PROVE  billets' \in [References -> Billet]
  BY <1>1, <1>5
<1>. QED BY <1>1, <1>3, <1>4, <1>5

\* The order given to a new ticket is a number.
LEMMA RangType == Cardinality({c \in References : billets[c].rang > 0}) \in Nat
BY ReferencesAssumption, FS_Subset, FS_CardinalityType

\* Type correctness: tickets, journal and requests keep the shape the code gives
\* them, the counter of places never goes below zero.
THEOREM TypeCorrect == Spec => []TypeOK
<1>1. Init => TypeOK
  BY DEF Init, TypeOK, JournalInit, JournalTypeOK, Ligne, LigneAbsente, Montants, Statuts,
         Emplacement, Billet, SansLigne, EtatsFapshi, Moments
<1>2. TypeOK /\ [Next]_vars => TypeOK'
  <2>. SUFFICES ASSUME TypeOK, [Next]_vars PROVE TypeOK'
    OBVIOUS
  <2>1. ASSUME NEW t \in Taches, NEW p \in Personnes, Inscrire(t, p) PROVE TypeOK'
    <3>1. [op |-> "inscription", pc |-> "reserver", qui |-> p] \in SansBillet
      BY DEF SansBillet
    <3>. QED BY <2>1, <3>1 DEF Inscrire, TypeOK, JournalTypeOK
  <2>2. ASSUME NEW t \in Taches, Reserver(t) \/ InsererLeve(t) PROVE TypeOK'
    <3>1. taches' \in [Taches -> Etats]
      BY <2>2, SuiteType, TacheSansBillet DEF Reserver, InsererLeve
    <3>. QED BY <2>2, <3>1 DEF Reserver, reserverUnePlace, InsererLeve, TypeOK, JournalTypeOK, Etats
  <2>3. ASSUME NEW t \in Taches, NEW b \in References, NEW p \in Payants, Inserer(t, b, p)
        PROVE  TypeOK'
    <3>1. taches[t] \in SansBillet
      BY <2>3, TacheSansBillet DEF Inserer
    <3>2. p \in BOOLEAN
      BY PayantsAssumption
    <3>3. billets' \in [References -> Billet]
      BY <2>3, <3>1, <3>2, RangType
         DEF Inserer, TypeOK, SansBillet, Billet, StatutsBillet, Statuts
    <3>4. taches' \in [Taches -> Etats]
      BY <2>3, <3>1 DEF Inserer, TypeOK, SansBillet, Etats, Tache, StatutsBillet, Statuts
    <3>. QED BY <2>3, <3>3, <3>4 DEF Inserer, TypeOK, JournalTypeOK, Etats
  <2>4. ASSUME NEW t \in Taches,
               \/ Demander(t) \/ Repondre(t) \/ Terminer(t) \/ InscriptionLeve(t) \/ Defaire(t)
        PROVE  TypeOK'
    <3>1. taches[t] \in Tache
      BY <2>4, TacheSurBillet DEF Demander, Repondre, Terminer, InscriptionLeve, Defaire
    <3>2. JournalTypeOK'
      BY <2>4, <3>1, JournalType
         DEF Demander, Repondre, Terminer, InscriptionLeve, Defaire, TypeOK, Tache, JournalTypeOK
    <3>3. taches' \in [Taches -> Etats]
      BY <2>4, <3>1, SuiteType DEF Demander, Repondre, Terminer, InscriptionLeve, Defaire
    <3>. QED BY <2>4, <3>2, <3>3
             DEF Demander, Repondre, Terminer, InscriptionLeve, Defaire, TypeOK, Etats
  <2>5. ASSUME NEW t \in Taches, Supprimer(t) \/ Ecrire(t) PROVE TypeOK'
    <3>1. taches[t] \in Tache
      BY <2>5, TacheSurBillet DEF Supprimer, Ecrire
    <3>2. billets' \in [References -> Billet]
      BY <2>5, <3>1, BilletType DEF Supprimer, Ecrire, Tache, StatutsBillet
    <3>4. perimes' \subseteq References
      BY <2>5, <3>1 DEF Supprimer, Ecrire, NoterPerime, TypeOK, Tache
    <3>3. taches' \in [Taches -> Etats]
      BY <2>5, <3>1, SuiteType DEF Supprimer, Ecrire
    <3>. QED BY <2>5, <3>2, <3>3, <3>4 DEF Supprimer, Ecrire, TypeOK, JournalTypeOK, Etats
  <2>6. ASSUME NEW t \in Taches, Rendre(t) PROVE TypeOK'
    <3>1. taches[t] \in Tache \cup SansBillet
      BY <2>6 DEF Rendre, TypeOK, Libre
    <3>2. taches' \in [Taches -> Etats]
      BY <2>6, <3>1, SuiteType DEF Rendre, SansBillet
    <3>. QED BY <2>6, <3>2 DEF Rendre, libererUnePlace, TypeOK, JournalTypeOK, Etats
  <2>7. ASSUME NEW t \in Taches, NEW b \in References,
               \/ Annuler(t, b) \/ Presenter(t, b) \/ \E p \in Personnes : Ceder(t, b, p)
        PROVE  TypeOK'
    <3>1. b \in Existants /\ billets[b].titulaire \in Personnes \cup {Aucun}
      BY <2>7 DEF Annuler, Presenter, Ceder, Existants, StatutsBillet, TypeOK, Billet
    <3>2. taches' \in [Taches -> Etats]
      BY <2>7, <3>1, TravailType DEF Annuler, Presenter, Ceder, TypeOK, Etats, Statuts
    <3>. QED BY <2>7, <3>2 DEF Annuler, Presenter, Ceder, TypeOK, JournalTypeOK, Etats
  <2>8. ASSUME NEW t \in Taches, VerifierAvantAnnulation(t) \/ VerifierAvantAnnulationLeve(t)
        PROVE  TypeOK'
    <3>1. taches[t] \in Tache
      BY <2>8, TacheSurBillet DEF VerifierAvantAnnulation, VerifierAvantAnnulationLeve
    <3>2. JournalTypeOK'
      BY <2>8, <3>1, JournalType
         DEF VerifierAvantAnnulation, VerifierAvantAnnulationLeve, TypeOK, Tache, Statuts, JournalTypeOK
    <3>3. [taches[t] EXCEPT !.op = "issue", !.pc = "lire", !.issue = "COMPLETE"] \in Tache
      BY <3>1 DEF Tache, Statuts
    <3>4. taches' \in [Taches -> Etats]
      BY <2>8, <3>1, <3>3, SuiteType
         DEF VerifierAvantAnnulation, VerifierAvantAnnulationLeve, TypeOK, Etats
    <3>. QED BY <2>8, <3>2, <3>4 DEF VerifierAvantAnnulation, VerifierAvantAnnulationLeve, TypeOK, Etats
  <2>9. ASSUME NEW t \in Taches, Expirer(t) PROVE TypeOK'
    <3>1. taches' \in [Taches -> Etats]
      BY <2>9, SuiteType DEF Expirer
    <3>. QED BY <2>9, <3>1 DEF Expirer, TypeOK, JournalTypeOK, EtatsFapshi, Etats
  <2>10. ASSUME NEW t \in Taches, NEW b \in References, NEW s \in {"COMPLETE", "ECHOUE"},
                RecevoirIssue(t, b, s)
         PROVE  TypeOK'
    <3>1. [Travail("issue", "appliquer", b, billets[b].titulaire, s)
             EXCEPT !.lu = "EN_ATTENTE"] \in Tache
      BY DEF Travail, Tache, TypeOK, Billet, StatutsBillet, Statuts
    <3>. QED BY <2>10, <3>1 DEF RecevoirIssue, TypeOK, JournalTypeOK
  <2>11. ASSUME NEW t \in Taches, AppliquerIssue(t) PROVE TypeOK'
    <3>1. taches[t] \in Tache
      BY <2>11, TacheSurBillet DEF AppliquerIssue
    <3>2. JournalTypeOK'
      BY <2>11, <3>1, JournalType DEF AppliquerIssue, TypeOK, Tache
    <3>3. taches' \in [Taches -> Etats]
      BY <2>11, <3>1, SuiteType DEF AppliquerIssue
    <3>. QED BY <2>11, <3>2, <3>3 DEF AppliquerIssue, TypeOK, Etats
  <2>12. ASSUME NEW t \in Taches, Lire(t) \/ Controler(t) \/ RouvrirBilletRefuse(t) PROVE TypeOK'
    <3>1. taches[t] \in Tache
      BY <2>12, TacheSurBillet DEF Lire, Controler, RouvrirBilletRefuse
    <3>2. taches' \in [Taches -> Etats]
      BY <2>12, <3>1, SuiteType DEF Lire, Controler, RouvrirBilletRefuse
    <3>. QED BY <2>12, <3>2 DEF Lire, Controler, RouvrirBilletRefuse, TypeOK, JournalTypeOK, Etats
  <2>13. ASSUME NEW t \in Taches,
                \/ Confirmer(t) \/ Refermer(t) \/ RouvrirBillet(t) \/ Remettre(t) \/ Transferer(t)
         PROVE  TypeOK'
    <3>1. taches[t] \in Tache
      BY <2>13, TacheSurBillet DEF Confirmer, Refermer, RouvrirBillet, Remettre, Transferer
    <3>2. billets' \in [References -> Billet]
      BY <2>13, <3>1, BilletType
         DEF Confirmer, Refermer, RouvrirBillet, Remettre, Transferer, Tache, StatutsBillet, Statuts
    <3>3. taches' \in [Taches -> Etats]
      BY <2>13, <3>1, SuiteType DEF Confirmer, Refermer, RouvrirBillet, Remettre, Transferer
    <3>. QED BY <2>13, <3>2, <3>3
             DEF Confirmer, Refermer, RouvrirBillet, Remettre, Transferer, TypeOK, JournalTypeOK, Etats
  <2>14. ASSUME NEW t \in Taches, Reprendre(t) \/ signalerARembourser(t) PROVE TypeOK'
    <3>1. taches[t] \in Tache
      BY <2>14, TacheSurBillet DEF Reprendre, signalerARembourser
    <3>2. taches' \in [Taches -> Etats]
      BY <2>14, <3>1, SuiteType DEF Reprendre, signalerARembourser
    <3>. QED BY <2>14, <3>1, <3>2
             DEF Reprendre, signalerARembourser, reserverUnePlace, TypeOK, JournalTypeOK, Etats, Tache
  <2>15. ASSUME NEW b \in References,
                Scanner(b) \/ FapshiCree(b) \/ \E e \in {"SUCCESSFUL", "FAILED"} : Trancher(b, e)
         PROVE  TypeOK'
    <3>1. billets' \in [References -> Billet]
      BY <2>15, BilletType DEF Scanner, FapshiCree, Trancher, Marquer, StatutsBillet
    <3>. QED BY <2>15, <3>1 DEF Scanner, FapshiCree, Trancher, TypeOK, JournalTypeOK, EtatsFapshi
  <2>16. CASE Avancer
    BY <2>16 DEF Avancer, TypeOK, JournalTypeOK, Moments
  <2>17. CASE UNCHANGED vars
    BY <2>17 DEF vars, TypeOK, JournalTypeOK
  <2>. QED BY <2>1, <2>2, <2>3, <2>4, <2>5, <2>6, <2>7, <2>8, <2>9, <2>10, <2>11, <2>12, <2>13,
              <2>14, <2>15, <2>16, <2>17 DEF Next, Etape
<1>. QED BY <1>1, <1>2, PTL DEF Spec

------------------------------------------------------------------------------
(* The invariant is kept by every step.                                    *)

\* A payment the prestataire attests stays attested.
LEMMA AttesteReste ==
  ASSUME TypeOK, [Next]_vars
  PROVE  \A b \in References : fapshi[b] = "SUCCESSFUL" => fapshi'[b] = "SUCCESSFUL"
<1>1. UNCHANGED fapshi \/ \E b \in References, e \in EtatsFapshi :
                            /\ fapshi[b] # "SUCCESSFUL"
                            /\ fapshi' = [fapshi EXCEPT ![b] = e]
  <2>1. ASSUME NEW t \in Taches, Etape(t), ~Expirer(t) PROVE UNCHANGED fapshi
    BY <2>1 DEF Etape, Reserver, Inserer, InsererLeve, Demander, Repondre, Terminer,
       InscriptionLeve, Defaire, Supprimer, Rendre, VerifierAvantAnnulation,
       VerifierAvantAnnulationLeve, Ecrire, AppliquerIssue, Lire, Confirmer, Refermer, Controler,
       Reprendre, RouvrirBillet, RouvrirBilletRefuse, signalerARembourser, Remettre, Transferer
  <2>2. ASSUME NEW t \in Taches, Expirer(t), fapshi' # fapshi
        PROVE  \E b \in References, e \in EtatsFapshi :
                 fapshi[b] # "SUCCESSFUL" /\ fapshi' = [fapshi EXCEPT ![b] = e]
    <3>1. taches[t].billet \in References
      BY <2>2, TacheSurBillet DEF Expirer, Tache
    <3>. QED BY <2>2, <3>1 DEF Expirer, EtatsFapshi
  <2>3. ASSUME NEW t \in Taches,
               \/ \E p \in Personnes : Inscrire(t, p)
               \/ \E b \in References :
                    \/ Annuler(t, b) \/ Presenter(t, b)
                    \/ \E p \in Personnes : Ceder(t, b, p)
                    \/ \E s \in {"COMPLETE", "ECHOUE"} : RecevoirIssue(t, b, s)
        PROVE  UNCHANGED fapshi
    BY <2>3 DEF Inscrire, Annuler, Presenter, Ceder, RecevoirIssue
  <2>4. ASSUME NEW b \in References,
               FapshiCree(b) \/ \E e \in {"SUCCESSFUL", "FAILED"} : Trancher(b, e)
        PROVE  \E e \in EtatsFapshi :
                 fapshi[b] # "SUCCESSFUL" /\ fapshi' = [fapshi EXCEPT ![b] = e]
    BY <2>4 DEF FapshiCree, Trancher, EtatsFapshi
  <2>. QED BY <2>1, <2>2, <2>3, <2>4 DEF Next, Scanner, Avancer, vars
<1>. QED BY <1>1 DEF TypeOK

\* One request moves, and stays sincere.
LEMMA UneTacheSincere ==
  ASSUME TypeOK, TacheSincere, [Next]_vars, NEW t \in Taches, NEW x,
         taches' = [taches EXCEPT ![t] = x], Sincere(x, fapshi')
  PROVE  TacheSincere'
<1>1. ASSUME NEW u \in Taches, u # t PROVE Sincere(taches'[u], fapshi')
  <2>1. taches'[u] = taches[u] /\ Sincere(taches[u], fapshi)
    BY <1>1 DEF TypeOK, TacheSincere
  <2>2. taches[u].pc \in VersLeBillet => taches[u].billet \in References
    BY TacheSurBillet DEF VersLeBillet, Tache
  <2>. QED BY <2>1, <2>2, AttesteReste DEF Sincere
<1>2. taches'[t] = x
  BY DEF TypeOK
<1>. QED BY <1>1, <1>2 DEF TacheSincere

\* A request that ends, or waits for something else than a ticket, is sincere.
LEMMA AilleursSincere ==
  ASSUME NEW x, x.pc \notin VersLaFin \cup VersLeBillet
  PROVE  Sincere(x, fapshi')
BY DEF Sincere

\* A request that moves along one of the two ways, leaves it, or ends.
LEMMA AllerSincere ==
  ASSUME TypeOK, TacheSincere, [Next]_vars, NEW t \in Taches,
         \/ Liberer(t)
         \/ /\ taches[t] \in Tache \cup SansBillet
            /\ \E pc : pc \notin VersLaFin \cup VersLeBillet /\ Aller(t, pc)
         \/ taches[t].pc \in VersLaFin /\ \E pc \in VersLaFin : Aller(t, pc)
         \/ /\ taches[t].pc \in VersLeBillet
            /\ \E pc \in VersLeBillet :
                 Aller(t, pc) /\ (pc \in {"appliquer", "lire"} \/ taches[t].issue = "COMPLETE")
  PROVE  TacheSincere'
<1>1. CASE Liberer(t)
  <2>1. Sincere(Libre, fapshi')
    BY AilleursSincere DEF Libre, VersLaFin, VersLeBillet
  <2>. QED BY <1>1, <2>1, UneTacheSincere DEF Liberer
<1>2. ASSUME taches[t] \in Tache \cup SansBillet, NEW pc, Aller(t, pc),
             pc \notin VersLaFin \cup VersLeBillet
      PROVE  TacheSincere'
  <2>. DEFINE x == [taches[t] EXCEPT !.pc = pc]
  <2>1. x.pc = pc /\ taches' = [taches EXCEPT ![t] = x]
    BY <1>2 DEF Aller, Tache, SansBillet
  <2>2. Sincere(x, fapshi')
    BY <1>2, <2>1, AilleursSincere
  <2>. QED BY <2>1, <2>2, UneTacheSincere
<1>3. ASSUME taches[t].pc \in VersLaFin, NEW pc \in VersLaFin, Aller(t, pc)
      PROVE  TacheSincere'
  <2>. DEFINE x == [taches[t] EXCEPT !.pc = pc]
  <2>1. taches[t] \in Tache /\ pc \notin VersLeBillet
    BY <1>3, TacheSurBillet DEF VersLaFin, VersLeBillet
  <2>2. x.pc = pc /\ x.lu = taches[t].lu /\ taches' = [taches EXCEPT ![t] = x]
    BY <1>3, <2>1 DEF Aller, Tache
  <2>3. taches[t].lu \in {"EN_ATTENTE", "CONFIRMEE"}
    BY <1>3 DEF TacheSincere, Sincere
  <2>4. Sincere(x, fapshi')
    BY <2>1, <2>2, <2>3 DEF Sincere
  <2>. QED BY <2>2, <2>4, UneTacheSincere
<1>4. ASSUME taches[t].pc \in VersLeBillet, NEW pc \in VersLeBillet, Aller(t, pc),
             pc \in {"appliquer", "lire"} \/ taches[t].issue = "COMPLETE"
      PROVE  TacheSincere'
  <2>. DEFINE x == [taches[t] EXCEPT !.pc = pc]
  <2>1. taches[t] \in Tache /\ pc \notin VersLaFin
    BY <1>4, TacheSurBillet DEF VersLaFin, VersLeBillet
  <2>2. /\ x.pc = pc /\ x.issue = taches[t].issue /\ x.billet = taches[t].billet
        /\ taches' = [taches EXCEPT ![t] = x]
    BY <1>4, <2>1 DEF Aller, Tache
  <2>3. /\ taches[t].issue \in {"COMPLETE", "ECHOUE"}
        /\ taches[t].issue = "COMPLETE" => fapshi'[taches[t].billet] = "SUCCESSFUL"
    <3>1. taches[t].billet \in References
      BY <2>1 DEF Tache
    <3>. QED BY <1>4, <3>1, AttesteReste DEF TacheSincere, Sincere
  <2>4. Sincere(x, fapshi')
    BY <1>4, <2>1, <2>2, <2>3 DEF Sincere
  <2>. QED BY <2>2, <2>4, UneTacheSincere
<1>. QED BY <1>1, <1>2, <1>3, <1>4

\* The requests stay sincere.
LEMMA SincerePreserve ==
  ASSUME TypeOK, TacheSincere, [Next]_vars
  PROVE  TacheSincere'
<1>1. ASSUME NEW t \in Taches, NEW p \in Personnes, Inscrire(t, p) PROVE TacheSincere'
  <2>1. Sincere([op |-> "inscription", pc |-> "reserver", qui |-> p], fapshi')
    BY AilleursSincere DEF VersLaFin, VersLeBillet
  <2>. QED BY <1>1, <2>1, UneTacheSincere DEF Inscrire
<1>2. ASSUME NEW t \in Taches, Reserver(t) \/ InsererLeve(t) PROVE TacheSincere'
  BY <1>2, AllerSincere, TacheSansBillet DEF Reserver, InsererLeve, VersLaFin, VersLeBillet
<1>3. ASSUME NEW t \in Taches, NEW b \in References, NEW p \in Payants, Inserer(t, b, p)
      PROVE  TacheSincere'
  <2>. DEFINE x == [op |-> "inscription", pc |-> IF p THEN "demander" ELSE "terminer",
                    qui |-> taches[t].qui, pour |-> taches[t].qui, billet |-> b,
                    lu |-> IF p THEN "EN_ATTENTE" ELSE "CONFIRMEE", issue |-> "EN_ATTENTE"]
  <2>1. taches' = [taches EXCEPT ![t] = x]
    BY <1>3 DEF Inserer
  <2>2. Sincere(x, fapshi')
    BY DEF Sincere, VersLaFin, VersLeBillet
  <2>. QED BY <2>1, <2>2, UneTacheSincere
<1>4. ASSUME NEW t \in Taches,
             \/ Demander(t) \/ Repondre(t) \/ Terminer(t) \/ InscriptionLeve(t) \/ Defaire(t)
      PROVE  TacheSincere'
  BY <1>4, AllerSincere
     DEF Demander, Repondre, Terminer, InscriptionLeve, Defaire, VersLaFin
<1>5. ASSUME NEW t \in Taches, Supprimer(t) \/ Ecrire(t) PROVE TacheSincere'
  BY <1>5, AllerSincere, TacheSurBillet DEF Supprimer, Ecrire, VersLaFin, VersLeBillet
<1>6. ASSUME NEW t \in Taches, Rendre(t) PROVE TacheSincere'
  <2>1. taches[t] \in Tache \cup SansBillet
    BY <1>6 DEF Rendre, TypeOK, Libre
  <2>. QED BY <1>6, <2>1, AllerSincere DEF Rendre, VersLaFin, VersLeBillet
<1>7. ASSUME NEW t \in Taches, NEW b \in References,
             \/ Annuler(t, b) \/ Presenter(t, b) \/ \E p \in Personnes : Ceder(t, b, p)
      PROVE  TacheSincere'
  <2>1. PICK op, pc, p : /\ taches' = [taches EXCEPT ![t] = Travail(op, pc, b, p, "EN_ATTENTE")]
                         /\ \/ pc \in VersLaFin /\ billets[b].statut \in {"EN_ATTENTE", "CONFIRMEE"}
                            \/ pc \in {"remettre", "transferer"}
    BY <1>7 DEF Annuler, Presenter, Ceder, VersLaFin
  <2>. DEFINE x == Travail(op, pc, b, p, "EN_ATTENTE")
  <2>2. x.pc = pc /\ x.lu = billets[b].statut
    BY DEF Travail
  <2>3. Sincere(x, fapshi')
    BY <2>1, <2>2 DEF Sincere, VersLaFin, VersLeBillet
  <2>. QED BY <2>1, <2>3, UneTacheSincere
<1>8. ASSUME NEW t \in Taches, VerifierAvantAnnulation(t) \/ VerifierAvantAnnulationLeve(t)
      PROVE  TacheSincere'
  <2>1. taches[t] \in Tache
    BY <1>8, TacheSurBillet DEF VerifierAvantAnnulation, VerifierAvantAnnulationLeve
  <2>2. CASE Liberer(t) \/ Aller(t, "ecrire")
    BY <1>8, <2>2, AllerSincere
       DEF VerifierAvantAnnulation, VerifierAvantAnnulationLeve, VersLaFin
  <2>3. CASE ~(Liberer(t) \/ Aller(t, "ecrire"))
    <3>. DEFINE x == [taches[t] EXCEPT !.op = "issue", !.pc = "lire", !.issue = "COMPLETE"]
    <3>1. /\ taches' = [taches EXCEPT ![t] = x]
          /\ fapshi'[taches[t].billet] = "SUCCESSFUL"
      BY <1>8, <2>3 DEF VerifierAvantAnnulation, VerifierAvantAnnulationLeve
    <3>2. x.pc = "lire" /\ x.issue = "COMPLETE" /\ x.billet = taches[t].billet
      BY <2>1 DEF Tache
    <3>3. Sincere(x, fapshi')
      BY <3>1, <3>2 DEF Sincere, VersLaFin, VersLeBillet
    <3>. QED BY <3>1, <3>3, UneTacheSincere
  <2>. QED BY <2>2, <2>3
<1>9. ASSUME NEW t \in Taches, Expirer(t) PROVE TacheSincere'
  BY <1>9, AllerSincere DEF Expirer
<1>10. ASSUME NEW t \in Taches, NEW b \in References, NEW s \in {"COMPLETE", "ECHOUE"},
              RecevoirIssue(t, b, s)
       PROVE  TacheSincere'
  <2>. DEFINE x == [Travail("issue", "appliquer", b, billets[b].titulaire, s)
                      EXCEPT !.lu = "EN_ATTENTE"]
  <2>1. taches' = [taches EXCEPT ![t] = x] /\ (s = "COMPLETE" => fapshi'[b] = "SUCCESSFUL")
    BY <1>10 DEF RecevoirIssue
  <2>2. x.pc = "appliquer" /\ x.issue = s /\ x.billet = b
    BY DEF Travail
  <2>3. Sincere(x, fapshi')
    BY <2>1, <2>2 DEF Sincere, VersLaFin
  <2>. QED BY <2>1, <2>3, UneTacheSincere
<1>11. ASSUME NEW t \in Taches, AppliquerIssue(t) PROVE TacheSincere'
  BY <1>11, AllerSincere DEF AppliquerIssue, VersLeBillet
<1>12. ASSUME NEW t \in Taches, Lire(t) PROVE TacheSincere'
  <2>1. taches[t] \in Tache /\ taches[t].issue \in {"COMPLETE", "ECHOUE"}
    BY <1>12, TacheSurBillet DEF Lire, TacheSincere, Sincere, VersLeBillet
  <2>2. \/ Liberer(t)
        \/ Aller(t, "refermer")
        \/ taches[t].issue = "COMPLETE" /\ (Aller(t, "controler") \/ Aller(t, "confirmer"))
    BY <1>12, <2>1 DEF Lire
  <2>3. taches[t].pc \in VersLeBillet
    BY <1>12 DEF Lire, VersLeBillet
  <2>. QED BY <2>1, <2>2, <2>3, AllerSincere DEF VersLaFin, VersLeBillet
<1>13. ASSUME NEW t \in Taches,
              \/ Confirmer(t) \/ RouvrirBillet(t) \/ signalerARembourser(t)
              \/ Remettre(t) \/ Transferer(t)
       PROVE  TacheSincere'
  BY <1>13, AllerSincere DEF Confirmer, RouvrirBillet, signalerARembourser, Remettre, Transferer
<1>14. ASSUME NEW t \in Taches, Refermer(t) \/ RouvrirBilletRefuse(t) PROVE TacheSincere'
  BY <1>14, AllerSincere, TacheSurBillet
     DEF Refermer, RouvrirBilletRefuse, VersLaFin, VersLeBillet
<1>15. ASSUME NEW t \in Taches, Controler(t) \/ Reprendre(t) PROVE TacheSincere'
  <2>1. taches[t] \in Tache /\ taches[t].issue = "COMPLETE"
    BY <1>15, TacheSurBillet DEF Controler, Reprendre, TacheSincere, Sincere, VersLeBillet
  <2>. QED BY <1>15, <2>1, AllerSincere DEF Controler, Reprendre, VersLaFin, VersLeBillet
<1>16. ASSUME UNCHANGED taches PROVE TacheSincere'
  <2>1. ASSUME NEW t \in Taches PROVE Sincere(taches'[t], fapshi')
    <3>1. taches[t].pc \in VersLeBillet => taches[t].billet \in References
      BY TacheSurBillet DEF VersLeBillet, Tache
    <3>. QED BY <1>16, <3>1, AttesteReste DEF TacheSincere, Sincere
  <2>. QED BY <2>1 DEF TacheSincere
<1>17. Avancer \/ UNCHANGED vars \/ (\E b \in References :
         Scanner(b) \/ FapshiCree(b) \/ \E e \in {"SUCCESSFUL", "FAILED"} : Trancher(b, e))
       => UNCHANGED taches
  BY DEF Avancer, vars, Scanner, FapshiCree, Trancher
<1>. QED BY <1>1, <1>2, <1>3, <1>4, <1>5, <1>6, <1>7, <1>8, <1>9, <1>10, <1>11, <1>12, <1>13,
            <1>14, <1>15, <1>16, <1>17 DEF Next, Etape

\* Only nine actions write a ticket.
LEMMA AutresSansBillet ==
  ASSUME [Next]_vars,
         ~\E t \in Taches :
             \/ \E b \in References, p \in Payants : Inserer(t, b, p)
             \/ Supprimer(t) \/ Ecrire(t) \/ Refermer(t) \/ Confirmer(t) \/ RouvrirBillet(t)
             \/ Remettre(t) \/ Transferer(t),
         ~\E b \in References : Scanner(b)
  PROVE  UNCHANGED billets
<1>1. ASSUME NEW t \in Taches,
             \/ Reserver(t) \/ InsererLeve(t) \/ Demander(t) \/ Repondre(t) \/ Terminer(t)
             \/ InscriptionLeve(t) \/ Defaire(t) \/ Rendre(t) \/ VerifierAvantAnnulation(t)
             \/ VerifierAvantAnnulationLeve(t) \/ Expirer(t) \/ AppliquerIssue(t) \/ Lire(t)
             \/ Controler(t) \/ Reprendre(t) \/ RouvrirBilletRefuse(t) \/ signalerARembourser(t)
      PROVE  UNCHANGED billets
  BY <1>1 DEF Reserver, InsererLeve, Demander, Repondre, Terminer, InscriptionLeve, Defaire,
     Rendre, VerifierAvantAnnulation, VerifierAvantAnnulationLeve, Expirer, AppliquerIssue, Lire,
     Controler, Reprendre, RouvrirBilletRefuse, signalerARembourser
<1>2. ASSUME NEW t \in Taches,
             \/ \E p \in Personnes : Inscrire(t, p)
             \/ \E b \in References :
                  \/ Annuler(t, b) \/ Presenter(t, b)
                  \/ \E p \in Personnes : Ceder(t, b, p)
                  \/ \E s \in {"COMPLETE", "ECHOUE"} : RecevoirIssue(t, b, s)
      PROVE  UNCHANGED billets
  BY <1>2 DEF Inscrire, Annuler, Presenter, Ceder, RecevoirIssue
<1>3. ASSUME Avancer \/ UNCHANGED vars \/ \E b \in References :
                FapshiCree(b) \/ \E e \in {"SUCCESSFUL", "FAILED"} : Trancher(b, e)
       PROVE  UNCHANGED billets
  BY <1>3 DEF Avancer, vars, FapshiCree, Trancher
<1>. QED BY <1>1, <1>2, <1>3 DEF Next, Etape

\* A ticket is confirmed by its payment, if it costs something.
LEMMA BilletsPreserve ==
  ASSUME IInv, [Next]_vars
  PROVE  ConfirmeRegle' /\ BilletPayeAtteste'
<1>. USE DEF IInv
<1>0. ASSUME NEW b \in References,
             \/ billets'[b].statut \notin {"CONFIRMEE", "UTILISEE"}
             \/ /\ billets'[b].paiement = billets[b].paiement
                /\ billets'[b].payant = billets[b].payant
                /\ billets[b].statut \in {"CONFIRMEE", "UTILISEE"}
             \/ /\ billets'[b].paiement = "COMPLETE"
                /\ billets'[b].payant => fapshi'[b] = "SUCCESSFUL"
      PROVE  /\ billets'[b].statut \in {"CONFIRMEE", "UTILISEE"} => billets'[b].paiement = "COMPLETE"
             /\ /\ billets'[b].payant
                /\ billets'[b].statut \in {"CONFIRMEE", "UTILISEE"}
                => fapshi'[b] = "SUCCESSFUL"
  BY <1>0, AttesteReste DEF ConfirmeRegle, BilletPayeAtteste
<1>1. ASSUME NEW b \in References, billets'[b] = billets[b]
      PROVE  /\ billets'[b].statut \in {"CONFIRMEE", "UTILISEE"} => billets'[b].paiement = "COMPLETE"
             /\ /\ billets'[b].payant
                /\ billets'[b].statut \in {"CONFIRMEE", "UTILISEE"}
                => fapshi'[b] = "SUCCESSFUL"
  BY <1>0, <1>1
<1>2. ASSUME NEW b \in References, NEW x, billets' = [billets EXCEPT ![b] = x],
             \/ x.statut \notin {"CONFIRMEE", "UTILISEE"}
             \/ /\ x.paiement = billets[b].paiement
                /\ x.payant = billets[b].payant
                /\ billets[b].statut \in {"CONFIRMEE", "UTILISEE"}
             \/ x.paiement = "COMPLETE" /\ (x.payant => fapshi'[b] = "SUCCESSFUL")
      PROVE  ConfirmeRegle' /\ BilletPayeAtteste'
  <2>1. billets'[b] = x /\ \A c \in References : c # b => billets'[c] = billets[c]
    BY <1>2 DEF TypeOK
  <2>. QED BY <1>0, <1>1, <1>2, <2>1 DEF ConfirmeRegle, BilletPayeAtteste
<1>3. CASE UNCHANGED billets
  BY <1>1, <1>3 DEF ConfirmeRegle, BilletPayeAtteste
<1>4. \A b \in References : billets[b] \in Billet
  BY DEF TypeOK
<1>5. ASSUME NEW t \in Taches, NEW b \in References, NEW p \in Payants, Inserer(t, b, p)
      PROVE  ConfirmeRegle' /\ BilletPayeAtteste'
  <2>. DEFINE x == [statut |-> IF p THEN "EN_ATTENTE" ELSE "CONFIRMEE",
                    titulaire |-> taches[t].qui, payant |-> p,
                    paiement |-> IF p THEN "EN_ATTENTE" ELSE "COMPLETE", remis |-> FALSE,
                    rang |-> Cardinality({c \in References : billets[c].rang > 0}) + 1]
  <2>1. billets' = [billets EXCEPT ![b] = x]
    BY <1>5 DEF Inserer
  <2>2. p \in BOOLEAN
    BY PayantsAssumption
  <2>3. \/ x.statut \notin {"CONFIRMEE", "UTILISEE"}
        \/ x.paiement = "COMPLETE" /\ ~x.payant
    BY <2>2
  <2>. QED BY <1>2, <2>1, <2>3
<1>6. ASSUME NEW t \in Taches,
             Supprimer(t) \/ Ecrire(t) \/ Refermer(t) \/ Confirmer(t) \/ RouvrirBillet(t)
             \/ Remettre(t) \/ Transferer(t)
      PROVE  ConfirmeRegle' /\ BilletPayeAtteste'
  <2>. DEFINE b == taches[t].billet
  <2>1. taches[t] \in Tache /\ b \in References
    BY <1>6, TacheSurBillet
       DEF Supprimer, Ecrire, Refermer, Confirmer, RouvrirBillet, Remettre, Transferer, Tache
  <2>2. billets[b] \in Billet
    BY <1>4, <2>1
  <2>3. CASE Supprimer(t)
    BY <1>2, <2>1, <2>3 DEF Supprimer, Emplacement
  <2>4. CASE Ecrire(t) \/ Refermer(t)
    <3>1. \/ UNCHANGED billets
          \/ billets' = [billets EXCEPT ![b] = [billets[b] EXCEPT !.statut = "ANNULEE"]]
          \/ billets' = [billets EXCEPT ![b] = [billets[b] EXCEPT !.statut = "ANNULEE", !.paiement = "ECHOUE"]]
      BY <2>4 DEF Ecrire, Refermer
    <3>2. /\ [billets[b] EXCEPT !.statut = "ANNULEE"].statut = "ANNULEE"
          /\ [billets[b] EXCEPT !.statut = "ANNULEE", !.paiement = "ECHOUE"].statut = "ANNULEE"
      BY <2>2 DEF Billet
    <3>. QED BY <1>2, <1>3, <2>1, <3>1, <3>2
  <2>5. CASE Confirmer(t) \/ RouvrirBillet(t)
    <3>. DEFINE x == [billets[b] EXCEPT !.statut = "CONFIRMEE", !.paiement = "COMPLETE"]
    <3>1. UNCHANGED billets \/ billets' = [billets EXCEPT ![b] = x]
      BY <2>5 DEF Confirmer, RouvrirBillet
    <3>2. x.paiement = "COMPLETE"
      BY <2>2 DEF Billet
    <3>3. fapshi[b] = "SUCCESSFUL" /\ fapshi' = fapshi
      BY <2>5 DEF Confirmer, RouvrirBillet, TacheSincere, Sincere, VersLeBillet
    <3>. QED BY <1>2, <1>3, <2>1, <3>1, <3>2, <3>3
  <2>6. CASE Remettre(t) \/ Transferer(t)
    <3>1. PICK x : /\ UNCHANGED billets \/ billets' = [billets EXCEPT ![b] = x]
                   /\ x.paiement = billets[b].paiement /\ x.payant = billets[b].payant
                   /\ x.statut = billets[b].statut
      <4>1. PICK p : \/ UNCHANGED billets
                     \/ billets' = [billets EXCEPT ![b] = [billets[b] EXCEPT !.remis = TRUE]]
                     \/ billets' = [billets EXCEPT ![b] = [billets[b] EXCEPT !.titulaire = p]]
        BY <2>6 DEF Remettre, Transferer
      <4>. QED BY <2>2, <4>1 DEF Billet
    <3>. QED BY <1>2, <1>3, <2>1, <3>1
  <2>. QED BY <1>6, <2>3, <2>4, <2>5, <2>6
<1>7. ASSUME NEW b \in References, Scanner(b)
      PROVE  ConfirmeRegle' /\ BilletPayeAtteste'
  <2>. DEFINE x == [billets[b] EXCEPT !.statut = "UTILISEE"]
  <2>1. billets' = [billets EXCEPT ![b] = x] /\ billets[b].statut = "CONFIRMEE"
    BY <1>7 DEF Scanner, Marquer
  <2>2. x.paiement = billets[b].paiement /\ x.payant = billets[b].payant
    BY <1>4 DEF Billet
  <2>. QED BY <1>2, <2>1, <2>2
<1>. QED BY <1>3, <1>5, <1>6, <1>7, AutresSansBillet DEF Next, Etape

\* What requests carry and what tickets show agree in every reachable state.
THEOREM Invariant == Spec => []IInv
<1>1. Init => IInv
  <2>1. Init => TacheSincere
    BY DEF Init, TacheSincere, Sincere, Libre, VersLaFin, VersLeBillet
  <2>2. Init => ConfirmeRegle /\ BilletPayeAtteste
    BY DEF Init, ConfirmeRegle, BilletPayeAtteste, Emplacement
  <2>3. Init => TypeOK
    BY DEF Init, TypeOK, JournalInit, JournalTypeOK, Ligne, LigneAbsente, Montants, Statuts,
           Emplacement, Billet, SansLigne, EtatsFapshi, Moments
  <2>. QED BY <2>1, <2>2, <2>3 DEF IInv
<1>2. IInv /\ TypeOK' /\ [Next]_vars => IInv'
  BY SincerePreserve, BilletsPreserve DEF IInv
<1>. QED BY <1>1, <1>2, TypeCorrect, PTL DEF Spec

\* Nobody holds a valid ticket that costs something without having paid, whatever
\* issues, cancellations, reopenings and transfers cross.
THEOREM BilletToujoursAtteste == Spec => []BilletPayeAtteste
BY Invariant, PTL DEF IInv

------------------------------------------------------------------------------
(* The door.                                                               *)

\* What a step may do to an entered ticket, and to the holder of a ticket.
PorteTenueParUnPas ==
  \A b \in References :
    /\ billets[b].statut = "UTILISEE" => billets'[b].statut = "UTILISEE" \/ b \in perimes'
    /\ b \in Existants /\ b \in Existants' /\ billets'[b].titulaire # billets[b].titulaire
         => billets[b].statut = "CONFIRMEE" /\ ~billets[b].remis

LEMMA PasALaPorte ==
  ASSUME IInv, [Next]_vars
  PROVE  PorteTenueParUnPas
<1>. USE DEF IInv
<1>0. \A b \in References : billets[b] \in Billet
  BY DEF TypeOK
<1>1. CASE UNCHANGED billets
  BY <1>1 DEF PorteTenueParUnPas
<1>2. ASSUME NEW t \in Taches, NEW b \in References, NEW p \in Payants, Inserer(t, b, p)
      PROVE  PorteTenueParUnPas
  BY <1>2 DEF Inserer, PorteTenueParUnPas, Existants, TypeOK, StatutsBillet
<1>3. ASSUME NEW t \in Taches, Supprimer(t) \/ Ecrire(t) PROVE PorteTenueParUnPas
  <2>. DEFINE b == taches[t].billet
  <2>1. b \in References /\ taches[t].lu # "UTILISEE"
    BY <1>3, TacheSurBillet DEF Supprimer, Ecrire, Tache, TacheSincere, Sincere, VersLaFin
  <2>2. billets[b].statut = "UTILISEE" => b \in perimes'
    BY <1>3, <2>1 DEF Supprimer, Ecrire, NoterPerime
  <2>3. \A c \in References : c # b => billets'[c] = billets[c]
    BY <1>3, <2>1 DEF Supprimer, Ecrire, TypeOK
  <2>4. b \in Existants' => billets'[b].titulaire = billets[b].titulaire
    <3>1. CASE Supprimer(t)
      <4>1. billets'[b].statut = "SUPPRIME"
        BY <2>1, <3>1 DEF Supprimer, Emplacement, TypeOK
      <4>. QED BY <4>1 DEF Existants, StatutsBillet
    <3>2. CASE Ecrire(t)
      BY <1>0, <2>1, <3>2 DEF Ecrire, TypeOK, Billet
    <3>. QED BY <1>3, <3>1, <3>2
  <2>. QED BY <2>1, <2>2, <2>3, <2>4 DEF PorteTenueParUnPas
<1>4. ASSUME NEW t \in Taches, Confirmer(t) \/ Refermer(t) \/ RouvrirBillet(t)
      PROVE  PorteTenueParUnPas
  <2>. DEFINE b == taches[t].billet
  <2>1. b \in References
    BY <1>4, TacheSurBillet DEF Confirmer, Refermer, RouvrirBillet, Tache
  <2>2. billets[b].statut = "UTILISEE" => billets' = billets
    BY <1>4, <2>1 DEF Confirmer, Refermer, RouvrirBillet, ConfirmeRegle
  <2>3. \A c \in References : c # b => billets'[c] = billets[c]
    BY <1>4, <2>1 DEF Confirmer, Refermer, RouvrirBillet, TypeOK
  <2>4. billets'[b].titulaire = billets[b].titulaire
    BY <1>0, <1>4, <2>1 DEF Confirmer, Refermer, RouvrirBillet, TypeOK, Billet
  <2>. QED BY <2>1, <2>2, <2>3, <2>4 DEF PorteTenueParUnPas
<1>5. ASSUME NEW t \in Taches, Remettre(t) \/ Transferer(t) PROVE PorteTenueParUnPas
  <2>. DEFINE b == taches[t].billet
  <2>1. b \in References
    BY <1>5, TacheSurBillet DEF Remettre, Transferer, Tache
  <2>2. \A c \in References : c # b => billets'[c] = billets[c]
    BY <1>5, <2>1 DEF Remettre, Transferer, TypeOK
  <2>3. billets'[b].statut = billets[b].statut
    BY <1>0, <1>5, <2>1 DEF Remettre, Transferer, TypeOK, Billet
  <2>4. billets'[b].titulaire # billets[b].titulaire
          => billets[b].statut = "CONFIRMEE" /\ ~billets[b].remis
    BY <1>0, <1>5, <2>1 DEF Remettre, Transferer, TypeOK, Billet
  <2>. QED BY <2>1, <2>2, <2>3, <2>4 DEF PorteTenueParUnPas
<1>6. ASSUME NEW b \in References, Scanner(b) PROVE PorteTenueParUnPas
  <2>1. \A c \in References : /\ billets'[c].titulaire = billets[c].titulaire
                              /\ billets[c].statut = "UTILISEE" => billets'[c].statut = "UTILISEE"
    BY <1>0, <1>6 DEF Scanner, Marquer, TypeOK, Billet
  <2>. QED BY <2>1 DEF PorteTenueParUnPas
<1>. QED BY <1>1, <1>2, <1>3, <1>4, <1>5, <1>6, AutresSansBillet DEF Next, Etape

\* Whatever arrives at the door at the same time - issue of payment, transfer,
\* prize, cancellation - overwrites neither an entry that was not read, nor the
\* holder of a ticket that is used or whose prize is gone.
THEOREM PorteToujoursTenue == Spec => PorteTenue
<1>1. IInv /\ [Next]_vars => [PorteTenueParUnPas]_vars
  BY PasALaPorte
<1>2. PorteTenueParUnPas =>
        /\ \A b \in References :
             billets[b].statut = "UTILISEE" => billets'[b].statut = "UTILISEE" \/ b \in perimes'
        /\ \A b \in References :
             /\ b \in Existants /\ b \in Existants'
             /\ billets'[b].titulaire # billets[b].titulaire
             => billets[b].statut = "CONFIRMEE" /\ ~billets[b].remis
  BY DEF PorteTenueParUnPas
<1>. QED BY <1>1, <1>2, Invariant, PTL DEF Spec, PorteTenue, EntreeDefinitive, TransfertSansEcraser

------------------------------------------------------------------------------
(* The counter of places.                                                  *)

\* The steps at which a request holds a place.
Mains == {"inserer", "rendre", "rouvrir"}

\* One ticket is written: it takes a place, leaves one, or neither.
LEMMA UnOccupant ==
  ASSUME TypeOK, NEW b \in References, NEW x, billets' = [billets EXCEPT ![b] = x]
  PROVE  /\ Cardinality(Occupants) \in Nat
         /\ (b \in Occupants <=> x.statut \in STATUTS_ACTIFS)
              => Cardinality(Occupants') = Cardinality(Occupants)
         /\ b \notin Occupants /\ x.statut \in STATUTS_ACTIFS
              => Cardinality(Occupants') = Cardinality(Occupants) + 1
         /\ b \in Occupants /\ x.statut \notin STATUTS_ACTIFS
              => Cardinality(Occupants') = Cardinality(Occupants) - 1
<1>1. IsFiniteSet(Occupants) /\ Cardinality(Occupants) \in Nat
  BY ReferencesAssumption, FS_Subset, FS_CardinalityType DEF Occupants
<1>2. billets'[b] = x /\ \A c \in References : c # b => billets'[c] = billets[c]
  BY DEF TypeOK
<1>3. x.statut \in STATUTS_ACTIFS => Occupants' = Occupants \cup {b}
  BY <1>2 DEF Occupants
<1>4. x.statut \notin STATUTS_ACTIFS => Occupants' = Occupants \ {b}
  BY <1>2 DEF Occupants
<1>5. /\ Cardinality(Occupants \cup {b}) = IF b \in Occupants THEN Cardinality(Occupants)
                                                              ELSE Cardinality(Occupants) + 1
      /\ Cardinality(Occupants \ {b}) = IF b \in Occupants THEN Cardinality(Occupants) - 1
                                                           ELSE Cardinality(Occupants)
  BY <1>1, FS_AddElement, FS_RemoveElement
<1>. QED BY <1>1, <1>3, <1>4, <1>5

\* One request moves: it takes a place in hand, lets it go, or neither.
LEMMA UneMain ==
  ASSUME TypeOK, IsFiniteSet(EnMain), NEW t \in Taches, NEW x,
         taches' = [taches EXCEPT ![t] = x]
  PROVE  /\ IsFiniteSet(EnMain') /\ Cardinality(EnMain) \in Nat
         /\ (taches[t].pc \in Mains <=> x.pc \in Mains)
              => Cardinality(EnMain') = Cardinality(EnMain)
         /\ taches[t].pc \notin Mains /\ x.pc \in Mains
              => Cardinality(EnMain') = Cardinality(EnMain) + 1
         /\ taches[t].pc \in Mains /\ x.pc \notin Mains
              => Cardinality(EnMain') = Cardinality(EnMain) - 1
         /\ taches[t].pc \in Mains => Cardinality(EnMain) > 0
<1>1. Cardinality(EnMain) \in Nat
  BY FS_CardinalityType
<1>2. taches'[t] = x /\ \A u \in Taches : u # t => taches'[u] = taches[u]
  BY DEF TypeOK
<1>3. x.pc \in Mains => EnMain' = EnMain \cup {t}
  BY <1>2 DEF EnMain, Mains
<1>4. x.pc \notin Mains => EnMain' = EnMain \ {t}
  BY <1>2 DEF EnMain, Mains
<1>5. t \in EnMain <=> taches[t].pc \in Mains
  BY DEF EnMain, Mains
<1>6. /\ IsFiniteSet(EnMain \cup {t}) /\ IsFiniteSet(EnMain \ {t})
      /\ Cardinality(EnMain \cup {t}) = IF t \in EnMain THEN Cardinality(EnMain)
                                                        ELSE Cardinality(EnMain) + 1
      /\ Cardinality(EnMain \ {t}) = IF t \in EnMain THEN Cardinality(EnMain) - 1
                                                     ELSE Cardinality(EnMain)
  BY FS_AddElement, FS_RemoveElement
<1>7. t \in EnMain => Cardinality(EnMain) > 0
  BY <1>1, FS_EmptySet
<1>. QED BY <1>1, <1>3, <1>4, <1>5, <1>6, <1>7

\* Where a request is after the operators that move it.
LEMMA UneMainAller ==
  ASSUME TypeOK, NEW t \in Taches
  PROVE  /\ Liberer(t) => \E x : x.pc = "libre" /\ taches' = [taches EXCEPT ![t] = x]
         /\ \A pc : /\ taches[t] \in Tache \cup SansBillet
                   /\ Aller(t, pc)
                   => \E x : x.pc = pc /\ taches' = [taches EXCEPT ![t] = x]
<1>1. Libre.pc = "libre"
  BY DEF Libre
<1>2. ASSUME taches[t] \in Tache \cup SansBillet, NEW pc, Aller(t, pc)
      PROVE  \E x : x.pc = pc /\ taches' = [taches EXCEPT ![t] = x]
  <2>. DEFINE x == [taches[t] EXCEPT !.pc = pc]
  <2>1. x.pc = pc /\ taches' = [taches EXCEPT ![t] = x]
    BY <1>2 DEF Aller, Tache, SansBillet
  <2>. QED BY <2>1
<1>. QED BY <1>1, <1>2 DEF Liberer

CompteTenu == IsFiniteSet(EnMain) /\ CompteJuste

\* A step that moves no place: the request neither had one in hand nor takes one.
LEMMA SansMouvement ==
  ASSUME TypeOK, CompteTenu, NEW t \in Taches, NEW x, taches' = [taches EXCEPT ![t] = x],
         taches[t].pc \in Mains <=> x.pc \in Mains,
         UNCHANGED <<billets, places, perimes>>
  PROVE  CompteTenu'
<1>1. Occupants' = Occupants
  BY DEF Occupants
<1>. QED BY <1>1, UneMain DEF CompteTenu, CompteJuste

\* Every step counts the places it moves.
LEMMA ComptePreserve ==
  ASSUME IInv, CompteTenu, [Next]_vars
  PROVE  CompteTenu'
<1>. USE DEF IInv
<1>0. places \in Nat /\ \A b \in References : billets[b] \in Billet
  BY DEF TypeOK
<1>1. ASSUME NEW t \in Taches, Reserver(t) PROVE CompteTenu'
  <2>1. taches[t] \in SansBillet /\ taches[t].pc \notin Mains
    BY <1>1, TacheSansBillet DEF Reserver, Mains
  <2>2. CASE reserverUnePlace /\ Aller(t, "inserer")
    <3>1. PICK x : x.pc = "inserer" /\ taches' = [taches EXCEPT ![t] = x]
      BY <2>1, <2>2, UneMainAller
    <3>2. Occupants' = Occupants /\ perimes' = perimes
      BY <1>1 DEF Reserver, Occupants
    <3>3. Cardinality(Occupants) \in Nat
      BY ReferencesAssumption, FS_Subset, FS_CardinalityType DEF Occupants
    <3>4. /\ IsFiniteSet(EnMain') /\ Cardinality(EnMain) \in Nat
          /\ Cardinality(EnMain') = Cardinality(EnMain) + 1
      BY <2>1, <3>1, UneMain DEF CompteTenu, Mains
    <3>. QED BY <1>0, <2>2, <3>2, <3>3, <3>4 DEF CompteTenu, CompteJuste, reserverUnePlace
  <2>3. CASE Liberer(t) /\ UNCHANGED places
    <3>1. PICK x : x.pc = "libre" /\ taches' = [taches EXCEPT ![t] = x]
      BY <2>3, UneMainAller
    <3>. QED BY <1>1, <2>1, <2>3, <3>1, SansMouvement DEF Reserver, Mains
  <2>. QED BY <1>1, <2>2, <2>3 DEF Reserver
<1>2. ASSUME NEW t \in Taches, NEW b \in References, NEW p \in Payants, Inserer(t, b, p)
      PROVE  CompteTenu'
  <2>. DEFINE statut == IF p THEN "EN_ATTENTE" ELSE "CONFIRMEE"
              x == [statut |-> statut, titulaire |-> taches[t].qui, payant |-> p,
                    paiement |-> IF p THEN "EN_ATTENTE" ELSE "COMPLETE", remis |-> FALSE,
                    rang |-> Cardinality({c \in References : billets[c].rang > 0}) + 1]
              y == [op |-> "inscription", pc |-> IF p THEN "demander" ELSE "terminer",
                    qui |-> taches[t].qui, pour |-> taches[t].qui, billet |-> b,
                    lu |-> statut, issue |-> "EN_ATTENTE"]
  <2>1. billets' = [billets EXCEPT ![b] = x] /\ x.statut \in {"EN_ATTENTE", "CONFIRMEE"}
    BY <1>2 DEF Inserer
  <2>2. taches' = [taches EXCEPT ![t] = y] /\ y.pc \in {"demander", "terminer"}
    BY <1>2 DEF Inserer
  <2>. HIDE DEF x, y
  <2>3. Cardinality(Occupants') = Cardinality(Occupants) + 1 /\ Cardinality(Occupants) \in Nat
    BY <1>2, <2>1, UnOccupant DEF Inserer, Occupants, STATUTS_ACTIFS
  <2>4. /\ IsFiniteSet(EnMain') /\ Cardinality(EnMain) \in Nat
        /\ Cardinality(EnMain') = Cardinality(EnMain) - 1
    BY <1>2, <2>2, UneMain DEF Inserer, CompteTenu, Mains
  <2>. QED BY <1>2, <2>3, <2>4 DEF Inserer, CompteTenu, CompteJuste
<1>3. ASSUME NEW t \in Taches, InsererLeve(t) \/ RouvrirBilletRefuse(t) PROVE CompteTenu'
  <2>1. taches[t] \in Tache \cup SansBillet /\ taches[t].pc \in Mains
    BY <1>3, TacheSansBillet, TacheSurBillet DEF InsererLeve, RouvrirBilletRefuse, Mains
  <2>2. PICK x : x.pc = "rendre" /\ taches' = [taches EXCEPT ![t] = x]
    BY <1>3, <2>1, UneMainAller DEF InsererLeve, RouvrirBilletRefuse
  <2>. QED BY <1>3, <2>1, <2>2, SansMouvement DEF InsererLeve, RouvrirBilletRefuse, Mains
<1>4. ASSUME NEW t \in Taches, Supprimer(t) \/ Ecrire(t) PROVE CompteTenu'
  <2>. DEFINE b == taches[t].billet
  <2>1. taches[t] \in Tache /\ b \in References /\ taches[t].pc \notin Mains
    BY <1>4, TacheSurBillet DEF Supprimer, Ecrire, Tache, Mains
  <2>2. PICK y : y.pc = "rendre" /\ taches' = [taches EXCEPT ![t] = y]
    BY <1>4, <2>1, UneMainAller DEF Supprimer, Ecrire
  <2>3. /\ IsFiniteSet(EnMain') /\ Cardinality(EnMain) \in Nat
        /\ Cardinality(EnMain') = Cardinality(EnMain) + 1
    BY <2>1, <2>2, UneMain DEF CompteTenu, Mains
  <2>4. ASSUME perimes' = {} PROVE places' = Cardinality(Occupants') + Cardinality(EnMain')
    <3>1. perimes = {} /\ b \in Occupants
      BY <1>4, <2>1, <2>4
         DEF Supprimer, Ecrire, NoterPerime, TacheSincere, Sincere, VersLaFin, Occupants, STATUTS_ACTIFS
    <3>2. PICK x : /\ x.statut \notin STATUTS_ACTIFS
                   /\ billets' = [billets EXCEPT ![b] = x]
      <4>1. CASE Supprimer(t)
        BY <4>1 DEF Supprimer, Emplacement, STATUTS_ACTIFS
      <4>2. CASE Ecrire(t)
        <5>1. billets' = [billets EXCEPT ![b] = [billets[b] EXCEPT !.statut = "ANNULEE"]]
          BY <3>1, <4>2 DEF Ecrire, Existants, Occupants, STATUTS_ACTIFS, StatutsBillet
        <5>2. [billets[b] EXCEPT !.statut = "ANNULEE"].statut \notin STATUTS_ACTIFS
          BY <1>0, <2>1 DEF Billet, STATUTS_ACTIFS
        <5>. QED BY <5>1, <5>2
      <4>. QED BY <1>4, <4>1, <4>2
    <3>3. Cardinality(Occupants') = Cardinality(Occupants) - 1 /\ Cardinality(Occupants) \in Nat
      BY <2>1, <3>1, <3>2, UnOccupant
    <3>4. places' = places
      BY <1>4 DEF Supprimer, Ecrire
    <3>. QED BY <2>3, <3>1, <3>3, <3>4 DEF CompteTenu, CompteJuste
  <2>. QED BY <2>3, <2>4 DEF CompteTenu, CompteJuste
<1>5. ASSUME NEW t \in Taches, Rendre(t) PROVE CompteTenu'
  <2>1. taches[t] \in Tache \cup SansBillet /\ taches[t].pc \in Mains
    BY <1>5 DEF Rendre, TypeOK, Libre, Mains
  <2>2. PICK x : x.pc \in {"libre", "expirer", "signaler"} /\ taches' = [taches EXCEPT ![t] = x]
    BY <1>5, <2>1, UneMainAller DEF Rendre
  <2>3. /\ IsFiniteSet(EnMain') /\ Cardinality(EnMain) \in Nat /\ Cardinality(EnMain) > 0
        /\ Cardinality(EnMain') = Cardinality(EnMain) - 1
    BY <2>1, <2>2, UneMain DEF CompteTenu, Mains
  <2>4. Occupants' = Occupants /\ perimes' = perimes /\ libererUnePlace
    BY <1>5 DEF Rendre, Occupants
  <2>5. Cardinality(Occupants) \in Nat
    BY ReferencesAssumption, FS_Subset, FS_CardinalityType DEF Occupants
  <2>. QED BY <1>0, <2>3, <2>4, <2>5 DEF CompteTenu, CompteJuste, libererUnePlace
<1>6. ASSUME NEW t \in Taches, Confirmer(t) \/ Remettre(t) \/ Transferer(t) PROVE CompteTenu'
  <2>. DEFINE b == taches[t].billet
  <2>1. b \in References /\ taches[t].pc \notin Mains
    BY <1>6, TacheSurBillet DEF Confirmer, Remettre, Transferer, Tache, Mains
  <2>2. PICK y : y.pc = "libre" /\ taches' = [taches EXCEPT ![t] = y]
    BY <1>6, UneMainAller DEF Confirmer, Remettre, Transferer
  <2>3. Occupants' = Occupants
    <3>1. \A c \in References : c # b => billets'[c] = billets[c]
      BY <1>6, <2>1 DEF Confirmer, Remettre, Transferer, TypeOK
    <3>2. billets'[b].statut = billets[b].statut
          \/ (billets[b].statut \in STATUTS_ACTIFS /\ billets'[b].statut = "CONFIRMEE")
      <4>1. CASE Confirmer(t)
        BY <1>0, <2>1, <4>1 DEF Confirmer, Existants, StatutsBillet, STATUTS_ACTIFS, TypeOK, Billet
      <4>2. CASE Remettre(t) \/ Transferer(t)
        BY <1>0, <2>1, <4>2 DEF Remettre, Transferer, TypeOK, Billet
      <4>. QED BY <1>6, <4>1, <4>2
    <3>. QED BY <2>1, <3>1, <3>2 DEF Occupants, STATUTS_ACTIFS
  <2>4. IsFiniteSet(EnMain') /\ Cardinality(EnMain') = Cardinality(EnMain)
    BY <2>1, <2>2, UneMain DEF CompteTenu, Mains
  <2>. QED BY <1>6, <2>3, <2>4 DEF Confirmer, Remettre, Transferer, CompteTenu, CompteJuste
<1>7. ASSUME NEW t \in Taches, Refermer(t) PROVE CompteTenu'
  <2>. DEFINE b == taches[t].billet
  <2>1. taches[t] \in Tache /\ b \in References /\ taches[t].pc \notin Mains
    BY <1>7, TacheSurBillet DEF Refermer, Tache, Mains
  <2>2. CASE billets[b].statut = "EN_ATTENTE"
    <3>. DEFINE x == [billets[b] EXCEPT !.statut = "ANNULEE", !.paiement = "ECHOUE"]
    <3>1. billets' = [billets EXCEPT ![b] = x] /\ Aller(t, "rendre")
      BY <1>7, <2>2 DEF Refermer
    <3>2. x.statut \notin STATUTS_ACTIFS /\ b \in Occupants
      BY <1>0, <2>1, <2>2 DEF Billet, STATUTS_ACTIFS, Occupants
    <3>3. PICK y : y.pc = "rendre" /\ taches' = [taches EXCEPT ![t] = y]
      BY <2>1, <3>1, UneMainAller
    <3>4. Cardinality(Occupants') = Cardinality(Occupants) - 1 /\ Cardinality(Occupants) \in Nat
      BY <2>1, <3>1, <3>2, UnOccupant
    <3>5. /\ IsFiniteSet(EnMain') /\ Cardinality(EnMain) \in Nat
          /\ Cardinality(EnMain') = Cardinality(EnMain) + 1
      BY <2>1, <3>3, UneMain DEF CompteTenu, Mains
    <3>. QED BY <1>7, <3>4, <3>5 DEF Refermer, CompteTenu, CompteJuste
  <2>3. CASE billets[b].statut # "EN_ATTENTE"
    <3>1. Liberer(t) /\ UNCHANGED <<billets, places, perimes>>
      BY <1>7, <2>3 DEF Refermer
    <3>2. PICK y : y.pc = "libre" /\ taches' = [taches EXCEPT ![t] = y]
      BY <3>1, UneMainAller
    <3>. QED BY <2>1, <3>1, <3>2, SansMouvement DEF Mains
  <2>. QED BY <2>2, <2>3
<1>8. ASSUME NEW t \in Taches, Reprendre(t) PROVE CompteTenu'
  <2>1. taches[t] \in Tache /\ taches[t].pc \notin Mains
    BY <1>8, TacheSurBillet DEF Reprendre, Mains
  <2>2. CASE reserverUnePlace /\ Aller(t, "rouvrir")
    <3>1. PICK x : x.pc = "rouvrir" /\ taches' = [taches EXCEPT ![t] = x]
      BY <2>1, <2>2, UneMainAller
    <3>2. Occupants' = Occupants /\ perimes' = perimes
      BY <1>8 DEF Reprendre, Occupants
    <3>3. Cardinality(Occupants) \in Nat
      BY ReferencesAssumption, FS_Subset, FS_CardinalityType DEF Occupants
    <3>4. /\ IsFiniteSet(EnMain') /\ Cardinality(EnMain) \in Nat
          /\ Cardinality(EnMain') = Cardinality(EnMain) + 1
      BY <2>1, <3>1, UneMain DEF CompteTenu, Mains
    <3>. QED BY <1>0, <2>2, <3>2, <3>3, <3>4 DEF CompteTenu, CompteJuste, reserverUnePlace
  <2>3. CASE Aller(t, "signaler") /\ UNCHANGED places
    <3>1. PICK x : x.pc = "signaler" /\ taches' = [taches EXCEPT ![t] = x]
      BY <2>1, <2>3, UneMainAller
    <3>. QED BY <1>8, <2>1, <2>3, <3>1, SansMouvement DEF Reprendre, Mains
  <2>. QED BY <1>8, <2>2, <2>3 DEF Reprendre
<1>9. ASSUME NEW t \in Taches, RouvrirBillet(t) PROVE CompteTenu'
  <2>. DEFINE b == taches[t].billet
              x == [billets[b] EXCEPT !.statut = "CONFIRMEE", !.paiement = "COMPLETE"]
  <2>1. b \in References /\ taches[t].pc \in Mains
    BY <1>9, TacheSurBillet DEF RouvrirBillet, Tache, Mains
  <2>2. billets' = [billets EXCEPT ![b] = x] /\ b \notin Occupants
    BY <1>9 DEF RouvrirBillet, Occupants, STATUTS_ACTIFS
  <2>3. x.statut \in STATUTS_ACTIFS
    BY <1>0, <2>1 DEF Billet, STATUTS_ACTIFS
  <2>4. Cardinality(Occupants') = Cardinality(Occupants) + 1 /\ Cardinality(Occupants) \in Nat
    BY <2>1, <2>2, <2>3, UnOccupant
  <2>5. PICK y : y.pc = "libre" /\ taches' = [taches EXCEPT ![t] = y]
    BY <1>9, UneMainAller DEF RouvrirBillet
  <2>6. /\ IsFiniteSet(EnMain') /\ Cardinality(EnMain) \in Nat
        /\ Cardinality(EnMain') = Cardinality(EnMain) - 1
    BY <2>1, <2>5, UneMain DEF CompteTenu, Mains
  <2>. QED BY <1>9, <2>4, <2>6 DEF RouvrirBillet, CompteTenu, CompteJuste
<1>10. ASSUME NEW b \in References, Scanner(b) PROVE CompteTenu'
  <2>1. Occupants' = Occupants
    BY <1>0, <1>10 DEF Scanner, Marquer, Occupants, STATUTS_ACTIFS, TypeOK, Billet
  <2>2. EnMain' = EnMain
    BY <1>10 DEF Scanner, EnMain
  <2>. QED BY <1>10, <2>1, <2>2 DEF Scanner, CompteTenu, CompteJuste
<1>11. ASSUME NEW t \in Taches,
              \/ Demander(t) \/ Repondre(t) \/ Terminer(t) \/ InscriptionLeve(t) \/ Defaire(t)
              \/ VerifierAvantAnnulation(t) \/ VerifierAvantAnnulationLeve(t) \/ Expirer(t)
              \/ AppliquerIssue(t) \/ Lire(t) \/ Controler(t) \/ signalerARembourser(t)
       PROVE  CompteTenu'
  <2>1. /\ taches[t].pc \notin Mains \cup {"libre", "reserver"}
        /\ UNCHANGED <<billets, places, perimes>>
    BY <1>11 DEF Demander, Repondre, Terminer, InscriptionLeve, Defaire, VerifierAvantAnnulation,
       VerifierAvantAnnulationLeve, Expirer, AppliquerIssue, Lire, Controler, signalerARembourser, Mains
  <2>2. taches[t] \in Tache
    BY <2>1, TacheSurBillet DEF Mains
  <2>3. \/ Liberer(t) \/ \E pc : pc \notin Mains /\ Aller(t, pc)
        \/ taches' = [taches EXCEPT ![t] = [taches[t] EXCEPT !.op = "issue", !.pc = "lire",
                                                            !.issue = "COMPLETE"]]
    BY <1>11 DEF Demander, Repondre, Terminer, InscriptionLeve, Defaire, VerifierAvantAnnulation,
       VerifierAvantAnnulationLeve, Expirer, AppliquerIssue, Lire, Controler, signalerARembourser, Mains
  <2>4. [taches[t] EXCEPT !.op = "issue", !.pc = "lire", !.issue = "COMPLETE"].pc = "lire"
    BY <2>2 DEF Tache
  <2>5. \E x : x.pc \notin Mains /\ taches' = [taches EXCEPT ![t] = x]
    <3>1. CASE Liberer(t)
      BY <3>1, UneMainAller DEF Mains
    <3>2. ASSUME NEW pc, pc \notin Mains, Aller(t, pc)
          PROVE  \E x : x.pc \notin Mains /\ taches' = [taches EXCEPT ![t] = x]
      <4>1. PICK x : x.pc = pc /\ taches' = [taches EXCEPT ![t] = x]
        BY <2>2, <3>2, UneMainAller
      <4>. QED BY <3>2, <4>1
    <3>3. "lire" \notin Mains
      BY DEF Mains
    <3>. QED BY <2>3, <2>4, <3>1, <3>2, <3>3
  <2>. QED BY <2>1, <2>5, SansMouvement
<1>12. ASSUME NEW t \in Taches,
              \/ \E p \in Personnes : Inscrire(t, p)
              \/ \E b \in References :
                   \/ Annuler(t, b) \/ Presenter(t, b)
                   \/ \E p \in Personnes : Ceder(t, b, p)
                   \/ \E s \in {"COMPLETE", "ECHOUE"} : RecevoirIssue(t, b, s)
       PROVE  CompteTenu'
  <2>1. taches[t] = Libre /\ UNCHANGED <<billets, places, perimes>>
    BY <1>12 DEF Inscrire, Annuler, Presenter, Ceder, RecevoirIssue
  <2>2. PICK x : x.pc \notin Mains /\ taches' = [taches EXCEPT ![t] = x]
    BY <1>12 DEF Inscrire, Annuler, Presenter, Ceder, RecevoirIssue, Travail, Mains
  <2>3. taches[t].pc \notin Mains
    BY <2>1 DEF Libre, Mains
  <2>. QED BY <2>1, <2>2, <2>3, SansMouvement
<1>13. ASSUME Avancer \/ UNCHANGED vars \/ \E b \in References :
                FapshiCree(b) \/ \E e \in {"SUCCESSFUL", "FAILED"} : Trancher(b, e)
       PROVE  CompteTenu'
  <2>1. UNCHANGED <<billets, taches, places, perimes>>
    BY <1>13 DEF Avancer, vars, FapshiCree, Trancher
  <2>. QED BY <2>1 DEF CompteTenu, CompteJuste, Occupants, EnMain
<1>. QED BY <1>1, <1>2, <1>3, <1>4, <1>5, <1>6, <1>7, <1>8, <1>9, <1>10, <1>11, <1>12, <1>13
         DEF Next, Etape

\* The counter of places is exact in every reachable state no request overwrote
\* a status it had not read: every place is held by an active ticket or by a
\* request about to use it or to give it back.
THEOREM CompteToujoursJuste == Spec => []CompteJuste
<1>1. Init => CompteTenu
  <2>. SUFFICES ASSUME Init PROVE CompteTenu
    OBVIOUS
  <2>1. Occupants = {} /\ EnMain = {} /\ places = 0
    BY DEF Init, Occupants, EnMain, Emplacement, Libre, STATUTS_ACTIFS
  <2>. QED BY <2>1, FS_EmptySet DEF CompteTenu, CompteJuste
<1>2. IInv /\ CompteTenu /\ [Next]_vars => CompteTenu'
  BY ComptePreserve
<1>. QED BY <1>1, <1>2, Invariant, PTL DEF Spec, CompteTenu

------------------------------------------------------------------------------
(* Groupe: the inductive invariant.                                        *)

\* A row of `inscriptions`.
LigneGroupe == [statut : {"ABSENT", "SUPPRIME", "EN_ATTENTE", "CONFIRMEE", "UTILISEE", "ANNULEE"},
                paye : BOOLEAN, choix : Choix \cup {SansChoix}, remis : BOOLEAN, rang : Nat]

\* The row of `evenements`.
Evenement == [statut : {"BROUILLON", "PUBLIE", "ARCHIVE", "SUPPRIME"}, capacite : Nat,
              options : Options, places : Nat, saison : Saisons, gratuits : GratuitsPossibles]

\* A request inscrireGroupe, which has written everybody's row past "inserer".
PasEcrits == {"ouvrir", "initier", "conclure", "faite"}
PasGroupe == {"reserver", "inserer", "defaire", "refusee"} \cup PasEcrits

Demande == [pc : PasGroupe, payeur : Payeurs, pour : Listes,
            voeux : UNION {[l -> Choix \cup {SansChoix}] : l \in Listes},
            faites : SUBSET Inscrits, pris : Nat, lus : Options]

\* How far a request is says how many places and which rows it has.
Coherente(q) ==
  /\ q.faites \subseteq q.pour
  /\ q.voeux \in [q.pour -> Choix \cup {SansChoix}]
  /\ q.pc = "reserver" => q.faites = {} /\ q.pris < Cardinality(q.pour)
  /\ q.pc = "inserer" => q.faites # q.pour
  /\ q.pc \in PasEcrits => q.faites = q.pour
  /\ q.pc = "refusee" => q.faites = {}

TypeGroupe ==
  /\ soiree \in Evenement
  /\ lignes \in [Tickets -> LigneGroupe]
  /\ formules \in [Formules -> Demande \cup {Repos}]
  /\ \A f \in Formules : formules[f].pc # "repos" => Coherente(formules[f])
  /\ \A s \in suites : s.ticket \in Tickets /\ lignes[s.ticket].statut # "ABSENT"
  /\ modification.pc \in {"repos", "ecrire"}
  /\ modification.pc = "ecrire" =>
       modification.ticket \in Tickets /\ modification.choix \in Choix \cup {SansChoix}
  /\ edition.pc \in {"repos", "editer", "supprimer"}
  /\ edition.pc = "editer" => edition.capacite \in Nat /\ edition.options \in Options

\* As long as the event is there, the rows of a request are those it wrote.
LignesDesDemandes ==
  soiree.statut # "SUPPRIME" =>
    \A f \in Formules, p \in Inscrits :
      <<f, p>> \in Ecrites <=> formules[f].pc # "repos" /\ p \in formules[f].faites

\* What people rely on is the event as it is, and what the office is about to
\* save fits the tickets there are.
OptionsLues ==
  ~chevauche =>
    /\ \A f \in Formules :
         formules[f].pc \in {"reserver", "inserer"} => formules[f].lus = soiree.options
    /\ modification.pc = "ecrire" => modification.lus = soiree.options
    /\ \A s \in suites : s.annule => s.options = soiree.options
    /\ edition.pc = "editer" => SansConflit(edition.options)

\* Somebody no two requests dealt with at once has one ticket, or one request
\* about to write it.
UneDemande ==
  \A p \in Inscrits \ croises :
    /\ \A t, u \in Actifs : t[2] = p /\ u[2] = p => t = u
    /\ \A f, g \in EnCours(p) : f = g
    /\ EnCours(p) # {} => \A t \in Actifs : t[2] # p

IInvGroupe ==
  TypeGroupe /\ LignesDesDemandes /\ OptionsLues /\ TaillesTenues /\ CompteGroupe /\ UneDemande

------------------------------------------------------------------------------
(* Rows and requests keep their shape.                                     *)

\* A row is written in place.
LEMMA LigneEcrite ==
  ASSUME TypeGroupe, NEW t \in Tickets,
         \/ UNCHANGED lignes
         \/ \E s \in {"SUPPRIME", "EN_ATTENTE", "CONFIRMEE", "UTILISEE", "ANNULEE"} :
              lignes' = [lignes EXCEPT ![t].statut = s]
         \/ \E s \in {"EN_ATTENTE", "CONFIRMEE"}, b \in BOOLEAN :
              lignes' = [lignes EXCEPT ![t].statut = s, ![t].paye = b]
         \/ lignes' = [lignes EXCEPT ![t].remis = TRUE]
         \/ \E c \in Choix \cup {SansChoix} :
              lignes' = [lignes EXCEPT ![t].choix = c]
         \/ \E x \in LigneGroupe : x.statut # "ABSENT" /\ lignes' = [lignes EXCEPT ![t] = x]
  PROVE  /\ lignes' \in [Tickets -> LigneGroupe]
         /\ \A u \in Tickets : lignes[u].statut # "ABSENT" => lignes'[u].statut # "ABSENT"
<1>1. lignes \in [Tickets -> LigneGroupe] /\ lignes[t] \in LigneGroupe
  BY DEF TypeGroupe
<1>2. ASSUME NEW s \in {"SUPPRIME", "EN_ATTENTE", "CONFIRMEE", "UTILISEE", "ANNULEE"}
      PROVE  [lignes[t] EXCEPT !.statut = s] \in LigneGroupe
  BY <1>1 DEF LigneGroupe
<1>3. ASSUME NEW s \in {"EN_ATTENTE", "CONFIRMEE"}, NEW b \in BOOLEAN
      PROVE  [lignes[t] EXCEPT !.statut = s, !.paye = b] \in LigneGroupe
  BY <1>1 DEF LigneGroupe
<1>4. [lignes[t] EXCEPT !.remis = TRUE] \in LigneGroupe
  BY <1>1 DEF LigneGroupe
<1>5. ASSUME NEW c \in Choix \cup {SansChoix}
      PROVE  [lignes[t] EXCEPT !.choix = c] \in LigneGroupe
  BY <1>1 DEF LigneGroupe
<1>6. ASSUME NEW x \in LigneGroupe, lignes[t].statut # "ABSENT" => x.statut # "ABSENT",
             lignes' = [lignes EXCEPT ![t] = x]
      PROVE  /\ lignes' \in [Tickets -> LigneGroupe]
             /\ \A u \in Tickets : lignes[u].statut # "ABSENT" => lignes'[u].statut # "ABSENT"
  BY <1>1, <1>6
<1>7. CASE \E s \in {"SUPPRIME", "EN_ATTENTE", "CONFIRMEE", "UTILISEE", "ANNULEE"} :
             lignes' = [lignes EXCEPT ![t].statut = s]
  <2>1. PICK s \in {"SUPPRIME", "EN_ATTENTE", "CONFIRMEE", "UTILISEE", "ANNULEE"} :
          lignes' = [lignes EXCEPT ![t].statut = s]
    BY <1>7
  <2>2. [lignes[t] EXCEPT !.statut = s].statut = s
    BY <1>1 DEF LigneGroupe
  <2>. QED BY <2>1, <2>2, <1>2, <1>6
<1>8. CASE \E s \in {"EN_ATTENTE", "CONFIRMEE"}, b \in BOOLEAN :
             lignes' = [lignes EXCEPT ![t].statut = s, ![t].paye = b]
  <2>1. PICK s \in {"EN_ATTENTE", "CONFIRMEE"}, b \in BOOLEAN :
          lignes' = [lignes EXCEPT ![t].statut = s, ![t].paye = b]
    BY <1>8
  <2>2. [lignes[t] EXCEPT !.statut = s, !.paye = b].statut = s
    BY <1>1 DEF LigneGroupe
  <2>3. lignes' = [lignes EXCEPT ![t] = [lignes[t] EXCEPT !.statut = s, !.paye = b]]
    BY <2>1
  <2>. QED BY <2>3, <2>2, <1>3, <1>6
<1>9. CASE \E c \in Choix \cup {SansChoix} : lignes' = [lignes EXCEPT ![t].choix = c]
  <2>1. PICK c \in Choix \cup {SansChoix} : lignes' = [lignes EXCEPT ![t].choix = c]
    BY <1>9
  <2>2. [lignes[t] EXCEPT !.choix = c].statut = lignes[t].statut
    BY <1>1 DEF LigneGroupe
  <2>. QED BY <2>1, <2>2, <1>5, <1>6
<1>10. CASE lignes' = [lignes EXCEPT ![t].remis = TRUE]
  <2>2. [lignes[t] EXCEPT !.remis = TRUE].statut = lignes[t].statut
    BY <1>1 DEF LigneGroupe
  <2>. QED BY <1>10, <2>2, <1>4, <1>6
<1>. QED BY <1>1, <1>6, <1>7, <1>8, <1>9, <1>10

\* A request moves on.
LEMMA DemandeEcrite ==
  ASSUME TypeGroupe, NEW f \in Formules, NEW q \in Demande, Coherente(q),
         formules' = [formules EXCEPT ![f] = q]
  PROVE  /\ formules' \in [Formules -> Demande \cup {Repos}]
         /\ \A g \in Formules : formules'[g].pc # "repos" => Coherente(formules'[g])
BY DEF TypeGroupe

LEMMA DemandePasse ==
  ASSUME TypeGroupe, NEW f \in Formules, formules[f].pc # "repos",
         NEW pc \in PasGroupe, Passer(f, pc),
         \/ pc = "defaire"
         \/ pc = "refusee" /\ (formules[f].pc = "reserver" \/ formules[f].faites = {})
         \/ pc \in PasEcrits /\ formules[f].pc \in PasEcrits
  PROVE  /\ formules' \in [Formules -> Demande \cup {Repos}]
         /\ \A g \in Formules : formules'[g].pc # "repos" => Coherente(formules'[g])
<1>. DEFINE q == [formules[f] EXCEPT !.pc = pc]
<1>1. formules[f] \in Demande /\ Coherente(formules[f])
  BY DEF TypeGroupe, Repos
<1>2. q \in Demande /\ q.pc = pc /\ q.faites = formules[f].faites /\ q.pour = formules[f].pour
      /\ q.voeux = formules[f].voeux /\ q.pris = formules[f].pris
  BY <1>1 DEF Demande
<1>3. Coherente(q)
  BY <1>1, <1>2 DEF Coherente, PasEcrits
<1>. QED BY <1>2, <1>3, DemandeEcrite DEF Passer

\* The places given back leave a number of places.
LEMMA PlacesType ==
  ASSUME soiree \in Evenement, NEW n \in Nat, soiree' = PlacesRendues(n)
  PROVE  /\ soiree' \in Evenement
         /\ soiree'.statut = soiree.statut /\ soiree'.options = soiree.options
         /\ soiree'.places = IF soiree.places > n THEN soiree.places - n ELSE 0
BY DEF PlacesRendues, Evenement

LEMMA TicketsFinis == IsFiniteSet(Tickets) /\ Cardinality(Tickets) \in Nat /\ Illimite \in Nat
<1>1. IsFiniteSet(Tickets)
  BY FinisAssumption, FS_Product DEF Tickets
<1>. QED BY <1>1, FS_CardinalityType DEF Illimite

\* Every row keeps a status once it has one.
LignesDurent == \A u \in Tickets : lignes[u].statut # "ABSENT" => lignes'[u].statut # "ABSENT"

LEMMA TypeGroupePreserve == TypeGroupe /\ [NextGroupe]_varsGroupe => TypeGroupe'
<1>. SUFFICES ASSUME TypeGroupe, [NextGroupe]_varsGroupe PROVE TypeGroupe'
  OBVIOUS
<1>. DEFINE FormulesTypees ==
              /\ formules' \in [Formules -> Demande \cup {Repos}]
              /\ \A g \in Formules : formules'[g].pc # "repos" => Coherente(formules'[g])
<1>0. ASSUME soiree' \in Evenement, lignes' \in [Tickets -> LigneGroupe], LignesDurent,
             UNCHANGED formules \/ FormulesTypees,
             \A s \in suites' : s \in suites \/ /\ s.ticket \in Tickets
                                                /\ lignes'[s.ticket].statut # "ABSENT",
             UNCHANGED modification, UNCHANGED edition
      PROVE  TypeGroupe'
  BY <1>0 DEF TypeGroupe, LignesDurent
<1>1. ASSUME UNCHANGED lignes
      PROVE  lignes' \in [Tickets -> LigneGroupe] /\ LignesDurent
  BY <1>1 DEF TypeGroupe, LignesDurent
<1>2. soiree \in Evenement
  BY DEF TypeGroupe
<1>3. ASSUME NEW f \in Formules, formules[f].pc # "repos"
      PROVE  formules[f] \in Demande /\ Coherente(formules[f])
  BY <1>3 DEF TypeGroupe, Repos
<1>4. ASSUME NEW f \in Formules, NEW payeur \in Payeurs, NEW pour \in Listes,
             NEW voeux \in [pour -> Choix \cup {SansChoix}], InscrireGroupe(f, payeur, pour, voeux)
      PROVE  TypeGroupe'
  <2>. DEFINE q == Formule("reserver", payeur, pour, voeux, soiree.options)
  <2>1. pour \subseteq Inscrits /\ pour # {} /\ IsFiniteSet(pour)
    BY ListesAssumption, FinisAssumption, FS_Subset
  <2>2. Cardinality(pour) \in Nat /\ 0 < Cardinality(pour)
    BY <2>1, FS_CardinalityType, FS_EmptySet
  <2>3. q \in Demande /\ Coherente(q)
    BY <1>2, <2>2 DEF Formule, Demande, Coherente, PasGroupe, PasEcrits, Evenement
  <2>4. FormulesTypees
    BY <1>4, <2>3, DemandeEcrite DEF InscrireGroupe
  <2>. QED BY <1>0, <1>1, <1>2, <1>4, <2>4 DEF InscrireGroupe
<1>5. ASSUME NEW f \in Formules, ReserverPlace(f) PROVE TypeGroupe'
  <2>. DEFINE pc == IF formules[f].pris + 1 = Cardinality(formules[f].pour)
                    THEN "inserer" ELSE formules[f].pc
              q == [formules[f] EXCEPT !.pris = @ + 1, !.pc = pc]
  <2>1. formules[f] \in Demande /\ Coherente(formules[f]) /\ formules[f].pc = "reserver"
    BY <1>3, <1>5 DEF ReserverPlace
  <2>2. formules[f].pour \subseteq Inscrits /\ formules[f].pour # {}
        /\ Cardinality(formules[f].pour) \in Nat
    BY <2>1, ListesAssumption, FinisAssumption, FS_Subset, FS_CardinalityType DEF Demande
  <2>0. pc \in PasGroupe /\ formules[f].pris \in Nat /\ formules[f].pris + 1 \in Nat
    BY <2>1 DEF Demande, PasGroupe
  <2>3. /\ q.pc = pc /\ q.pris = formules[f].pris + 1 /\ q.faites = formules[f].faites
        /\ q.pour = formules[f].pour /\ q.voeux = formules[f].voeux
        /\ q \in Demande
    BY <2>0, <2>1 DEF Demande
  <2>4. pc \in {"reserver", "inserer"}
        /\ (pc = "reserver" => formules[f].pris + 1 < Cardinality(formules[f].pour))
    BY <2>0, <2>1, <2>2, <2>3 DEF Coherente
  <2>5. Coherente(q)
    BY <2>1, <2>2, <2>3, <2>4 DEF Coherente, PasEcrits
  <2>6. formules' = [formules EXCEPT ![f] = q]
    BY <1>5 DEF ReserverPlace
  <2>7. FormulesTypees
    BY <2>3, <2>5, <2>6, DemandeEcrite
  <2>8. soiree' \in Evenement
    BY <1>2, <1>5 DEF ReserverPlace, Evenement
  <2>. QED BY <1>0, <1>1, <1>5, <2>7, <2>8 DEF ReserverPlace
<1>6. ASSUME NEW f \in Formules, ReserverComplet(f) PROVE TypeGroupe'
  <2>1. FormulesTypees
    BY <1>6, DemandePasse DEF ReserverComplet, PasGroupe
  <2>2. formules[f].pris \in Nat
    BY <1>3, <1>6 DEF ReserverComplet, Demande
  <2>3. soiree' \in Evenement
    BY <1>2, <1>6, <2>2, PlacesType DEF ReserverComplet
  <2>. QED BY <1>0, <1>1, <1>6, <2>1, <2>3 DEF ReserverComplet
<1>7. ASSUME NEW f \in Formules, NEW p \in Inscrits, InsererBillet(f, p) PROVE TypeGroupe'
  <2>. DEFINE r == formules[f]
              pc == IF r.faites \cup {p} # r.pour THEN r.pc
                    ELSE IF ARegler(f) = {} THEN "conclure" ELSE "ouvrir"
              q == [r EXCEPT !.faites = @ \cup {p}, !.pc = pc]
  <2>1. r \in Demande /\ Coherente(r) /\ r.pc = "inserer" /\ p \in r.pour
    BY <1>3, <1>7 DEF InsererBillet
  <2>2. /\ q.pc = pc /\ q.faites = r.faites \cup {p} /\ q.pour = r.pour /\ q.voeux = r.voeux
        /\ q \in Demande
    BY <2>1 DEF Demande, PasGroupe, PasEcrits
  <2>3. Coherente(q)
    BY <2>1, <2>2 DEF Coherente, PasEcrits
  <2>4. formules' = [formules EXCEPT ![f] = q]
    BY <1>7 DEF InsererBillet
  <2>5. FormulesTypees
    BY <2>2, <2>3, <2>4, DemandeEcrite
  <2>6. r.voeux[p] \in Choix \cup {SansChoix}
    BY <2>1 DEF Coherente
  <2>7. Cardinality({t \in Tickets : lignes[t].rang > 0}) \in Nat
    BY TicketsFinis, FS_Subset, FS_CardinalityType
  <2>. DEFINE gratuit == p \in soiree.gratuits
              x == [statut |-> IF gratuit THEN "CONFIRMEE" ELSE "EN_ATTENTE", paye |-> gratuit,
                    choix |-> r.voeux[p], remis |-> FALSE,
                    rang |-> Cardinality({t \in Tickets : lignes[t].rang > 0}) + 1]
  <2>8. x \in LigneGroupe /\ x.statut # "ABSENT"
    BY <2>6, <2>7 DEF LigneGroupe
  <2>9. lignes' = [lignes EXCEPT ![<<f, p>>] = x] /\ <<f, p>> \in Tickets
    BY <1>7 DEF InsererBillet, Tickets
  <2>10. lignes' \in [Tickets -> LigneGroupe] /\ LignesDurent
    BY <2>8, <2>9, LigneEcrite DEF LignesDurent
  <2>. QED BY <1>0, <1>2, <1>7, <2>5, <2>10 DEF InsererBillet
<1>8. ASSUME NEW f \in Formules,
             OuvrirPaiement(f) \/ InitierPaiement(f) \/ Conclure(f) \/ LeverGroupe(f)
      PROVE  TypeGroupe'
  <2>1. FormulesTypees
    BY <1>8, DemandePasse DEF OuvrirPaiement, InitierPaiement, Conclure, LeverGroupe, PasGroupe,
                              PasEcrits
  <2>. QED BY <1>0, <1>1, <1>2, <1>8, <2>1 DEF OuvrirPaiement, InitierPaiement, Conclure, LeverGroupe
<1>9. ASSUME NEW f \in Formules, NEW p \in Inscrits, DefaireBillet(f, p) PROVE TypeGroupe'
  <2>. DEFINE r == formules[f]
              q == [r EXCEPT !.faites = @ \ {p}]
  <2>1. r \in Demande /\ Coherente(r) /\ r.pc = "defaire"
    BY <1>3, <1>9 DEF DefaireBillet
  <2>2. /\ q.pc = "defaire" /\ q.faites = r.faites \ {p} /\ q.pour = r.pour /\ q.voeux = r.voeux
        /\ q \in Demande
    BY <2>1 DEF Demande
  <2>3. Coherente(q)
    BY <2>1, <2>2 DEF Coherente, PasEcrits
  <2>4. FormulesTypees
    BY <1>9, <2>2, <2>3, DemandeEcrite DEF DefaireBillet
  <2>5. <<f, p>> \in Tickets /\ lignes' = [lignes EXCEPT ![<<f, p>>].statut = "SUPPRIME"]
    BY <1>9 DEF DefaireBillet, Tickets
  <2>6. lignes' \in [Tickets -> LigneGroupe] /\ LignesDurent
    BY <2>5, LigneEcrite DEF LignesDurent
  <2>. QED BY <1>0, <1>2, <1>9, <2>4, <2>6 DEF DefaireBillet
<1>10. ASSUME NEW f \in Formules, RendreGroupe(f) PROVE TypeGroupe'
  <2>1. FormulesTypees
    BY <1>10, DemandePasse DEF RendreGroupe, PasGroupe
  <2>2. formules[f].pour \subseteq Inscrits
    BY <1>3, <1>10, ListesAssumption DEF RendreGroupe, Demande
  <2>3. Cardinality(formules[f].pour) \in Nat
    BY <2>2, FinisAssumption, FS_Subset, FS_CardinalityType
  <2>4. soiree' \in Evenement
    BY <1>2, <1>10, <2>3, PlacesType DEF RendreGroupe
  <2>. QED BY <1>0, <1>1, <1>10, <2>1, <2>4 DEF RendreGroupe
<1>11. ASSUME NEW f \in Formules, NEW e \in {"PAYE", "REFUSE"}, PayerGroupe(f, e)
       PROVE  TypeGroupe'
  BY <1>0, <1>1, <1>2, <1>11 DEF PayerGroupe
<1>12. ASSUME NEW f \in Formules, NEW e \in {"COMPLETE", "ECHOUE"}, TrancherGroupe(f, e)
       PROVE  TypeGroupe'
  <2>1. ASSUME NEW s \in Suites(f, e)
        PROVE  s.ticket \in Tickets /\ lignes[s.ticket].statut # "ABSENT"
    <3>1. PICK q \in {q \in ARegler(f) : <<f, q>> \in Ecrites} :
            s = [ticket |-> <<f, q>>, issue |-> e, options |-> soiree.options,
                 annule |-> lignes[<<f, q>>].statut = "ANNULEE"]
      BY DEF Suites
    <3>2. s.ticket \in Ecrites
      BY <3>1
    <3>. QED BY <3>2 DEF Ecrites
  <2>. QED BY <1>0, <1>1, <1>2, <1>12, <2>1 DEF TrancherGroupe
<1>13. ASSUME NEW s \in suites, ConfirmerBillet(s) PROVE TypeGroupe'
  <2>1. s.ticket \in Tickets
    BY DEF TypeGroupe
  <2>2. lignes' \in [Tickets -> LigneGroupe] /\ LignesDurent
    BY <1>1, <1>13, <2>1, LigneEcrite DEF ConfirmerBillet, Valider, LignesDurent
  <2>. QED BY <1>0, <1>2, <1>13, <2>2 DEF ConfirmerBillet
<1>14. ASSUME NEW s \in suites, RouvrirBilletPaye(s) PROVE TypeGroupe'
  <2>1. s.ticket \in Tickets
    BY DEF TypeGroupe
  <2>2. lignes' \in [Tickets -> LigneGroupe] /\ LignesDurent
    BY <1>1, <1>14, <2>1, LigneEcrite DEF RouvrirBilletPaye, Valider, LignesDurent
  <2>3. soiree' \in Evenement
    BY <1>2, <1>14 DEF RouvrirBilletPaye, Evenement
  <2>. QED BY <1>0, <1>14, <2>2, <2>3 DEF RouvrirBilletPaye
<1>15. ASSUME NEW s \in suites, RefermerBillet(s) PROVE TypeGroupe'
  <2>1. s.ticket \in Tickets
    BY DEF TypeGroupe
  <2>2. lignes' \in [Tickets -> LigneGroupe] /\ LignesDurent
    BY <1>1, <1>15, <2>1, LigneEcrite DEF RefermerBillet, LignesDurent
  <2>3. soiree' \in Evenement
    BY <1>2, <1>15, PlacesType DEF RefermerBillet
  <2>. QED BY <1>0, <1>15, <2>2, <2>3 DEF RefermerBillet
<1>16. ASSUME NEW f \in Formules, DefairePreuve(f) PROVE TypeGroupe'
  <2>1. Propre(f) => <<f, formules[f].payeur>> \in Tickets
    <3>1. formules[f] \in Demande
      BY <1>3, <1>16 DEF DefairePreuve
    <3>. QED BY <3>1, ListesAssumption DEF Propre, ARegler, Demande, Tickets
  <2>2. lignes' \in [Tickets -> LigneGroupe] /\ LignesDurent
    BY <1>1, <1>16, <2>1, LigneEcrite DEF DefairePreuve, LignesDurent
  <2>. QED BY <1>0, <1>2, <1>16, <2>2 DEF DefairePreuve
<1>17. ASSUME NEW t \in Tickets, AnnulerBillet(t) PROVE TypeGroupe'
  <2>1. lignes' \in [Tickets -> LigneGroupe] /\ LignesDurent
    BY <1>17, LigneEcrite DEF AnnulerBillet, LignesDurent
  <2>2. soiree' \in Evenement
    BY <1>2, <1>17, PlacesType DEF AnnulerBillet
  <2>. QED BY <1>0, <1>17, <2>1, <2>2 DEF AnnulerBillet
<1>18. ASSUME NEW t \in Tickets, Accueillir(t) PROVE TypeGroupe'
  <2>1. lignes' \in [Tickets -> LigneGroupe] /\ LignesDurent
    BY <1>18, LigneEcrite DEF Accueillir, LignesDurent
  <2>. QED BY <1>0, <1>2, <1>18, <2>1 DEF Accueillir
<1>19. ASSUME NEW t \in Tickets, NEW c \in Choix \cup {SansChoix}, LireReponses(t, c)
       PROVE  TypeGroupe'
  BY <1>19 DEF LireReponses, TypeGroupe
<1>20. CASE EcrireReponses
  <2>1. modification.ticket \in Tickets /\ modification.choix \in Choix \cup {SansChoix}
    BY <1>20 DEF EcrireReponses, TypeGroupe
  <2>2. lignes' \in [Tickets -> LigneGroupe] /\ LignesDurent
    BY <1>1, <1>20, <2>1, LigneEcrite DEF EcrireReponses, LignesDurent
  <2>. QED BY <1>20, <2>2 DEF EcrireReponses, TypeGroupe, LignesDurent, Repos
<1>21. CASE Publier \/ Archiver \/ Passe
  <2>1. soiree' \in Evenement
    BY <1>2, <1>21 DEF Publier, Archiver, Passe, Evenement, Saisons
  <2>. QED BY <1>0, <1>1, <1>21, <2>1 DEF Publier, Archiver, Passe
<1>22. ASSUME NEW e \in Editions, LireEdition(e) PROVE TypeGroupe'
  BY <1>22, EditionsAssumption DEF LireEdition, TypeGroupe
<1>23. CASE EcrireEdition
  <2>1. soiree' \in Evenement
    BY <1>2, <1>23 DEF EcrireEdition, Evenement, TypeGroupe
  <2>. QED BY <1>23, <2>1 DEF EcrireEdition, TypeGroupe, Repos
<1>24. CASE LireSuppression
  BY <1>24 DEF LireSuppression, TypeGroupe
<1>25. CASE SupprimerEvenement
  <2>1. soiree' \in Evenement
    BY <1>2, <1>25 DEF SupprimerEvenement, Evenement
  <2>2. \A t \in Tickets : [lignes[t] EXCEPT !.statut = "SUPPRIME"] \in LigneGroupe
    BY DEF TypeGroupe, LigneGroupe
  <2>3. lignes' \in [Tickets -> LigneGroupe] /\ LignesDurent
    BY <1>25, <2>2 DEF SupprimerEvenement, TypeGroupe, LignesDurent, Ecrites, LigneGroupe
  <2>. QED BY <1>25, <2>1, <2>3 DEF SupprimerEvenement, TypeGroupe, LignesDurent, Repos
<1>26. CASE UNCHANGED varsGroupe
  BY <1>26 DEF varsGroupe, TypeGroupe
<1>. QED BY <1>4, <1>5, <1>6, <1>7, <1>8, <1>9, <1>10, <1>11, <1>12, <1>13, <1>14, <1>15, <1>16,
            <1>17, <1>18, <1>19, <1>20, <1>21, <1>22, <1>23, <1>24, <1>25, <1>26 DEF NextGroupe

------------------------------------------------------------------------------
(* What a step does to the rows of the tickets.                            *)

LEMMA StatutEcrit ==
  ASSUME TypeGroupe, NEW t \in Tickets, NEW s,
         \/ lignes' = [lignes EXCEPT ![t].statut = s]
         \/ \E b : lignes' = [lignes EXCEPT ![t].statut = s, ![t].paye = b]
  PROVE  \A u \in Tickets :
           /\ lignes'[u].statut = IF u = t THEN s ELSE lignes[u].statut
           /\ lignes'[u].choix = lignes[u].choix
BY DEF TypeGroupe, LigneGroupe

\* No ticket becomes active, none changes size; the rows there stay there.
LignesCalmes ==
  \A t \in Tickets : lignes'[t].choix = lignes[t].choix /\ (t \in Actifs' => t \in Actifs)
EcritesMemes == \A t \in Tickets : t \in Ecrites' <=> t \in Ecrites

\* The steps that write a new ticket, reopen one or change a size.
Ajouts ==
  \/ \E f \in Formules, p \in Inscrits : InsererBillet(f, p)
  \/ \E s \in suites : RouvrirBilletPaye(s) /\ s.annule /\ Rouvrable(s)
  \/ EcrireReponses

LEMMA EffetCalme ==
  ASSUME TypeGroupe, [NextGroupe]_varsGroupe, ~Ajouts
  PROVE  /\ LignesCalmes
         /\ (~SupprimerEvenement /\ \A f \in Formules, p \in Inscrits : ~DefaireBillet(f, p))
              => EcritesMemes
<1>. USE DEF LignesCalmes, EcritesMemes
<1>1. ASSUME UNCHANGED lignes PROVE LignesCalmes /\ EcritesMemes
  BY <1>1 DEF Actifs, Ecrites
<1>2. ASSUME NEW f \in Formules, NEW p \in Inscrits, DefaireBillet(f, p) PROVE LignesCalmes
  <2>1. <<f, p>> \in Tickets /\ lignes' = [lignes EXCEPT ![<<f, p>>].statut = "SUPPRIME"]
    BY <1>2 DEF DefaireBillet, Tickets
  <2>2. \A u \in Tickets : /\ lignes'[u].statut = IF u = <<f, p>> THEN "SUPPRIME" ELSE lignes[u].statut
                           /\ lignes'[u].choix = lignes[u].choix
    BY <2>1, StatutEcrit
  <2>. QED BY <2>2 DEF Actifs
<1>3. ASSUME NEW t \in Tickets, NEW s,
             \A u \in Tickets : /\ lignes'[u].statut = IF u = t THEN s ELSE lignes[u].statut
                                /\ lignes'[u].choix = lignes[u].choix,
             \/ s \in {"EN_ATTENTE", "CONFIRMEE", "UTILISEE"} /\ t \in Actifs
             \/ s = "ANNULEE" /\ t \in Ecrites
      PROVE  LignesCalmes /\ EcritesMemes
  BY <1>3 DEF Actifs, Ecrites
<1>4. ASSUME NEW s \in suites, ConfirmerBillet(s) PROVE LignesCalmes /\ EcritesMemes
  <2>1. s.ticket \in Tickets /\ lignes[s.ticket].statut # "ABSENT" /\ lignes[s.ticket] \in LigneGroupe
    BY DEF TypeGroupe
  <2>2. CASE UNCHANGED lignes
    BY <1>1, <2>2
  <2>3. CASE lignes[s.ticket].statut \notin {"SUPPRIME", "ANNULEE"} /\ Valider(s.ticket)
    <3>1. s.ticket \in Actifs
      BY <2>1, <2>3 DEF Actifs, LigneGroupe
    <3>2. \A u \in Tickets :
             /\ lignes'[u].statut = IF u = s.ticket THEN "CONFIRMEE" ELSE lignes[u].statut
             /\ lignes'[u].choix = lignes[u].choix
      BY <2>1, <2>3, StatutEcrit DEF Valider
    <3>. QED BY <1>3, <2>1, <3>1, <3>2
  <2>. QED BY <1>4, <2>2, <2>3 DEF ConfirmerBillet
<1>5. ASSUME NEW s \in suites, RouvrirBilletPaye(s), ~(s.annule /\ Rouvrable(s))
      PROVE  LignesCalmes /\ EcritesMemes
  BY <1>1, <1>5 DEF RouvrirBilletPaye
<1>6. ASSUME NEW s \in suites, RefermerBillet(s) PROVE LignesCalmes /\ EcritesMemes
  <2>1. s.ticket \in Tickets
    BY DEF TypeGroupe
  <2>2. CASE UNCHANGED lignes
    BY <1>1, <2>2
  <2>3. CASE lignes[s.ticket].statut = "EN_ATTENTE"
             /\ lignes' = [lignes EXCEPT ![s.ticket].statut = "ANNULEE"]
    <3>1. s.ticket \in Ecrites
      BY <2>1, <2>3 DEF Ecrites
    <3>2. \A u \in Tickets :
             /\ lignes'[u].statut = IF u = s.ticket THEN "ANNULEE" ELSE lignes[u].statut
             /\ lignes'[u].choix = lignes[u].choix
      BY <2>1, <2>3, StatutEcrit
    <3>. QED BY <1>3, <2>1, <3>1, <3>2
  <2>. QED BY <1>6, <2>2, <2>3 DEF RefermerBillet
<1>7. ASSUME NEW f \in Formules, DefairePreuve(f) PROVE LignesCalmes /\ EcritesMemes
  <2>. DEFINE t == <<f, formules[f].payeur>>
  <2>2. CASE UNCHANGED lignes
    BY <1>1, <2>2
  <2>3. CASE /\ t \in Ecrites /\ lignes[t].statut \notin {"UTILISEE", "ANNULEE"}
             /\ lignes' = [lignes EXCEPT ![t].statut = "EN_ATTENTE", ![t].paye = FALSE]
    <3>0. t \in Tickets
      BY <2>3 DEF Ecrites
    <3>1. t \in Actifs
      BY <2>3, <3>0 DEF Actifs, Ecrites, TypeGroupe, LigneGroupe
    <3>2. \A u \in Tickets :
             /\ lignes'[u].statut = IF u = t THEN "EN_ATTENTE" ELSE lignes[u].statut
             /\ lignes'[u].choix = lignes[u].choix
      BY <2>3, <3>0, StatutEcrit
    <3>. QED BY <1>3, <3>0, <3>1, <3>2
  <2>. QED BY <1>7, <2>2, <2>3 DEF DefairePreuve
<1>8. ASSUME NEW t \in Tickets, AnnulerBillet(t) PROVE LignesCalmes /\ EcritesMemes
  <2>1. t \in Ecrites
    BY <1>8 DEF Ecrites, AnnulerBillet
  <2>2. \A u \in Tickets :
           /\ lignes'[u].statut = IF u = t THEN "ANNULEE" ELSE lignes[u].statut
           /\ lignes'[u].choix = lignes[u].choix
    BY <1>8, StatutEcrit DEF AnnulerBillet
  <2>. QED BY <1>3, <2>1, <2>2
<1>9. ASSUME NEW t \in Tickets, Accueillir(t) PROVE LignesCalmes /\ EcritesMemes
  <2>1. CASE lignes[t].statut = "CONFIRMEE" /\ lignes' = [lignes EXCEPT ![t].statut = "UTILISEE"]
    <3>1. t \in Actifs
      BY <2>1 DEF Actifs
    <3>2. \A u \in Tickets :
             /\ lignes'[u].statut = IF u = t THEN "UTILISEE" ELSE lignes[u].statut
             /\ lignes'[u].choix = lignes[u].choix
      BY <2>1, StatutEcrit
    <3>. QED BY <1>3, <3>1, <3>2
  <2>2. CASE lignes' = [lignes EXCEPT ![t].remis = TRUE]
    <3>1. \A u \in Tickets : /\ lignes'[u].statut = lignes[u].statut
                             /\ lignes'[u].choix = lignes[u].choix
      BY <2>2 DEF TypeGroupe, LigneGroupe
    <3>. QED BY <3>1 DEF Actifs, Ecrites
  <2>. QED BY <1>9, <2>1, <2>2 DEF Accueillir
<1>10. CASE SupprimerEvenement
  <2>1. \A u \in Tickets :
          /\ lignes'[u].statut = IF u \in Ecrites THEN "SUPPRIME" ELSE lignes[u].statut
          /\ lignes'[u].choix = lignes[u].choix
    BY <1>10 DEF SupprimerEvenement, TypeGroupe, LigneGroupe
  <2>. QED BY <1>10, <2>1 DEF Actifs
<1>11. ASSUME NEW f \in Formules,
              \/ \E payeur \in Payeurs, pour \in Listes :
                   \E voeux \in [pour -> Choix \cup {SansChoix}] :
                     InscrireGroupe(f, payeur, pour, voeux)
              \/ ReserverPlace(f) \/ ReserverComplet(f)
              \/ OuvrirPaiement(f) \/ InitierPaiement(f) \/ Conclure(f) \/ LeverGroupe(f)
              \/ RendreGroupe(f)
              \/ \E e \in {"PAYE", "REFUSE"} : PayerGroupe(f, e)
              \/ \E s \in {"COMPLETE", "ECHOUE"} : TrancherGroupe(f, s)
       PROVE  UNCHANGED lignes
  BY <1>11 DEF InscrireGroupe, ReserverPlace, ReserverComplet, OuvrirPaiement, InitierPaiement,
     Conclure, LeverGroupe, RendreGroupe, PayerGroupe, TrancherGroupe
<1>12. ASSUME \/ \E t \in Tickets : \E c \in Choix \cup {SansChoix} : LireReponses(t, c)
              \/ Publier \/ Archiver \/ Passe
              \/ \E e \in Editions : LireEdition(e)
              \/ EcrireEdition \/ LireSuppression \/ UNCHANGED varsGroupe
       PROVE  UNCHANGED lignes
  BY <1>12 DEF LireReponses, Publier, Archiver, Passe, LireEdition, EcrireEdition,
     LireSuppression, varsGroupe
<1>. QED BY <1>1, <1>2, <1>4, <1>5, <1>6, <1>7, <1>8, <1>9, <1>10, <1>11, <1>12
         DEF NextGroupe, Ajouts

------------------------------------------------------------------------------
(* What a step does to the requests.                                       *)

\* A request that only moves on.
LEMMA PasSeul ==
  ASSUME TypeGroupe, NEW f \in Formules, formules[f].pc # "repos", NEW pc, Passer(f, pc)
  PROVE  /\ \A g \in Formules : g # f => formules'[g] = formules[g]
         /\ formules'[f].pc = pc
         /\ formules'[f].faites = formules[f].faites
         /\ formules'[f].pour = formules[f].pour
         /\ formules'[f].pris = formules[f].pris
         /\ formules'[f].lus = formules[f].lus
<1>1. formules[f] \in Demande
  BY DEF TypeGroupe, Repos
<1>. QED BY <1>1 DEF TypeGroupe, Passer, Demande

\* The steps after which a request wrote or deleted a row, or holds another place.
Inscription ==
  \E f \in Formules, payeur \in Payeurs, pour \in Listes :
    \E voeux \in [pour -> Choix \cup {SansChoix}] : InscrireGroupe(f, payeur, pour, voeux)
Ecriture == \E f \in Formules, p \in Inscrits : InsererBillet(f, p) \/ DefaireBillet(f, p)

\* The others leave the requests alone, or move one on.
LEMMA EffetFormules ==
  ASSUME TypeGroupe, [NextGroupe]_varsGroupe, ~Inscription, ~Ecriture,
         \A f \in Formules : ~ReserverPlace(f)
  PROVE  \/ UNCHANGED formules
         \/ \E f \in Formules, pc \in PasGroupe :
              /\ Passer(f, pc) /\ formules[f].pc \in PasGroupe
              /\ \/ ReserverComplet(f) /\ formules[f].pc = "reserver" /\ pc = "refusee"
                 \/ ~ReserverComplet(f) /\ ~RendreGroupe(f)
                    /\ formules[f].pc \in PasEcrits /\ pc \in PasEcrits /\ UNCHANGED soiree
                 \/ ~ReserverComplet(f) /\ ~RendreGroupe(f)
                    /\ formules[f].pc \in {"inserer"} \cup PasEcrits /\ pc = "defaire"
                    /\ UNCHANGED soiree
                 \/ RendreGroupe(f) /\ formules[f].pc = "defaire" /\ pc = "refusee"
<1>1. ASSUME NEW f \in Formules, ReserverComplet(f)
      PROVE  formules[f].pc = "reserver" /\ Passer(f, "refusee")
  BY <1>1 DEF ReserverComplet
<1>2. ASSUME NEW f \in Formules, OuvrirPaiement(f) \/ InitierPaiement(f) \/ Conclure(f)
      PROVE  /\ formules[f].pc \in PasEcrits /\ UNCHANGED soiree
             /\ \E pc \in PasEcrits : Passer(f, pc)
             /\ ~ReserverComplet(f) /\ ~RendreGroupe(f)
  BY <1>2 DEF OuvrirPaiement, InitierPaiement, Conclure, PasEcrits, ReserverComplet, RendreGroupe
<1>3. ASSUME NEW f \in Formules, LeverGroupe(f)
      PROVE  /\ formules[f].pc \in {"inserer"} \cup PasEcrits /\ UNCHANGED soiree
             /\ Passer(f, "defaire")
             /\ ~ReserverComplet(f) /\ ~RendreGroupe(f)
  BY <1>3 DEF LeverGroupe, PasEcrits, ReserverComplet, RendreGroupe
<1>4. ASSUME NEW f \in Formules, RendreGroupe(f)
      PROVE  formules[f].pc = "defaire" /\ Passer(f, "refusee")
  BY <1>4 DEF RendreGroupe
<1>5. ASSUME \/ \E f \in Formules :
                  \/ DefairePreuve(f)
                  \/ \E e \in {"PAYE", "REFUSE"} : PayerGroupe(f, e)
                  \/ \E s \in {"COMPLETE", "ECHOUE"} : TrancherGroupe(f, s)
             \/ \E s \in suites : ConfirmerBillet(s) \/ RouvrirBilletPaye(s) \/ RefermerBillet(s)
             \/ \E t \in Tickets : \/ AnnulerBillet(t) \/ Accueillir(t)
                                   \/ \E c \in Choix \cup {SansChoix} : LireReponses(t, c)
             \/ EcrireReponses
             \/ Publier \/ Archiver \/ Passe
             \/ \E e \in Editions : LireEdition(e)
             \/ EcrireEdition \/ LireSuppression \/ SupprimerEvenement
             \/ UNCHANGED varsGroupe
      PROVE  UNCHANGED formules
  BY <1>5 DEF DefairePreuve, PayerGroupe, TrancherGroupe, ConfirmerBillet, RouvrirBilletPaye,
     RefermerBillet, AnnulerBillet, Accueillir, LireReponses, EcrireReponses, Publier, Archiver,
     Passe, LireEdition, EcrireEdition, LireSuppression, SupprimerEvenement, varsGroupe
<1>. QED BY <1>1, <1>2, <1>3, <1>4, <1>5 DEF NextGroupe, Inscription, Ecriture, PasGroupe, PasEcrits

\* A deleted event stays deleted, and only a save changes what it offers.
LEMMA EffetEvenement ==
  ASSUME TypeGroupe, [NextGroupe]_varsGroupe
  PROVE  /\ soiree.statut = "SUPPRIME" => soiree'.statut = "SUPPRIME"
         /\ ~EcrireEdition => soiree'.options = soiree.options
<1>1. soiree \in Evenement
  BY DEF TypeGroupe
<1>2. ASSUME NEW f \in Formules PROVE formules[f].pc # "repos" => formules[f] \in Demande
  BY DEF TypeGroupe, Repos
<1>3. ASSUME \E n : soiree' = PlacesRendues(n)
      PROVE  soiree'.statut = soiree.statut /\ soiree'.options = soiree.options
  BY <1>1, <1>3 DEF PlacesRendues, Evenement
<1>4. ASSUME NEW f \in Formules, ReserverComplet(f) \/ RendreGroupe(f)
      PROVE  \E n : soiree' = PlacesRendues(n)
  BY <1>4 DEF ReserverComplet, RendreGroupe
<1>5. ASSUME NEW s \in suites, RefermerBillet(s)
      PROVE  UNCHANGED soiree \/ \E n : soiree' = PlacesRendues(n)
  BY <1>5 DEF RefermerBillet
<1>6. ASSUME NEW t \in Tickets, AnnulerBillet(t)
      PROVE  \E n : soiree' = PlacesRendues(n)
  BY <1>6 DEF AnnulerBillet
<1>7. ASSUME \/ \E f \in Formules : ReserverPlace(f)
             \/ \E s \in suites : RouvrirBilletPaye(s)
             \/ Passe
      PROVE  soiree'.statut = soiree.statut /\ soiree'.options = soiree.options
  BY <1>1, <1>7 DEF ReserverPlace, RouvrirBilletPaye, Passe, Evenement
<1>8. ASSUME Publier \/ Archiver \/ SupprimerEvenement
      PROVE  /\ soiree.statut = "SUPPRIME" => soiree'.statut = "SUPPRIME"
             /\ soiree'.options = soiree.options
  BY <1>1, <1>8 DEF Publier, Archiver, SupprimerEvenement, Evenement
<1>9. ASSUME EcrireEdition PROVE soiree.statut = "SUPPRIME" => soiree'.statut = "SUPPRIME"
  BY <1>9 DEF EcrireEdition
<1>10. ASSUME \/ Inscription \/ Ecriture
              \/ \E f \in Formules :
                   \/ OuvrirPaiement(f) \/ InitierPaiement(f) \/ Conclure(f) \/ LeverGroupe(f)
                   \/ DefairePreuve(f)
                   \/ \E e \in {"PAYE", "REFUSE"} : PayerGroupe(f, e)
                   \/ \E s \in {"COMPLETE", "ECHOUE"} : TrancherGroupe(f, s)
              \/ \E s \in suites : ConfirmerBillet(s)
              \/ \E t \in Tickets : \/ Accueillir(t)
                                    \/ \E c \in Choix \cup {SansChoix} : LireReponses(t, c)
              \/ EcrireReponses
              \/ \E e \in Editions : LireEdition(e)
              \/ LireSuppression
              \/ UNCHANGED varsGroupe
       PROVE  UNCHANGED soiree
  BY <1>10 DEF Inscription, Ecriture, InscrireGroupe, InsererBillet, DefaireBillet, OuvrirPaiement,
     InitierPaiement, Conclure, LeverGroupe, DefairePreuve, PayerGroupe, TrancherGroupe,
     ConfirmerBillet, Accueillir, LireReponses, EcrireReponses, LireEdition, LireSuppression, varsGroupe
<1>. QED BY <1>3, <1>4, <1>5, <1>6, <1>7, <1>8, <1>9, <1>10 DEF NextGroupe, Inscription, Ecriture

\* A new request, its two writes, and one more place.
LEMMA EffetInscription ==
  ASSUME TypeGroupe, NEW f \in Formules, NEW payeur \in Payeurs, NEW pour \in Listes,
         NEW voeux \in [pour -> Choix \cup {SansChoix}], InscrireGroupe(f, payeur, pour, voeux)
  PROVE  /\ formules[f].pc = "repos"
         /\ \A g \in Formules : g # f => formules'[g] = formules[g]
         /\ formules'[f] = Formule("reserver", payeur, pour, voeux, soiree.options)
         /\ UNCHANGED <<soiree, lignes, suites, modification, edition, chevauche, doubles>>
BY DEF InscrireGroupe, TypeGroupe

LEMMA EffetInsertion ==
  ASSUME TypeGroupe, NEW f \in Formules, NEW p \in Inscrits, InsererBillet(f, p)
  PROVE  /\ \A g \in Formules : g # f => formules'[g] = formules[g]
         /\ formules[f].pc = "inserer" /\ p \in formules[f].pour \ formules[f].faites
         /\ formules'[f].faites = formules[f].faites \cup {p}
         /\ formules'[f].pour = formules[f].pour /\ formules'[f].lus = formules[f].lus
         /\ IF formules[f].faites \cup {p} # formules[f].pour
            THEN formules'[f].pc = "inserer"
            ELSE formules'[f].pc \in {"ouvrir", "conclure"}
         /\ <<f, p>> \in Actifs' /\ lignes'[<<f, p>>].choix = formules[f].voeux[p]
         /\ \A t \in Tickets : t # <<f, p>> => lignes'[t] = lignes[t]
         /\ UNCHANGED <<soiree, suites, modification, edition, croises, doubles>>
<1>1. formules[f].pc = "inserer"
  BY DEF InsererBillet
<1>2. formules[f] \in Demande
  BY <1>1 DEF TypeGroupe, Repos
<1>3. /\ \A g \in Formules : g # f => formules'[g] = formules[g]
      /\ formules[f].pc = "inserer" /\ p \in formules[f].pour \ formules[f].faites
      /\ formules'[f].faites = formules[f].faites \cup {p}
      /\ formules'[f].pour = formules[f].pour /\ formules'[f].lus = formules[f].lus
      /\ IF formules[f].faites \cup {p} # formules[f].pour
         THEN formules'[f].pc = "inserer"
         ELSE formules'[f].pc \in {"ouvrir", "conclure"}
  BY <1>1, <1>2 DEF InsererBillet, TypeGroupe, Demande
<1>4. <<f, p>> \in Tickets
  BY DEF Tickets
<1>5. /\ <<f, p>> \in Actifs' /\ lignes'[<<f, p>>].choix = formules[f].voeux[p]
      /\ \A t \in Tickets : t # <<f, p>> => lignes'[t] = lignes[t]
  BY <1>4 DEF InsererBillet, TypeGroupe, Actifs
<1>. QED BY <1>3, <1>5 DEF InsererBillet

LEMMA EffetDefaite ==
  ASSUME TypeGroupe, NEW f \in Formules, NEW p \in Inscrits, DefaireBillet(f, p)
  PROVE  /\ \A g \in Formules : g # f => formules'[g] = formules[g]
         /\ formules[f].pc = "defaire" /\ p \in formules[f].faites
         /\ formules'[f].pc = "defaire"
         /\ formules'[f].faites = formules[f].faites \ {p}
         /\ formules'[f].pour = formules[f].pour
         /\ \A t \in Tickets :
              lignes'[t].statut = IF t = <<f, p>> THEN "SUPPRIME" ELSE lignes[t].statut
         /\ doubles' = IF <<f, p>> \in Actifs THEN doubles ELSE doubles \cup {<<f, p>>}
         /\ UNCHANGED <<soiree, suites, modification, edition, croises, chevauche>>
<1>1. formules[f].pc = "defaire"
  BY DEF DefaireBillet
<1>2. formules[f] \in Demande
  BY <1>1 DEF TypeGroupe, Repos
<1>3. /\ \A g \in Formules : g # f => formules'[g] = formules[g]
      /\ formules[f].pc = "defaire" /\ p \in formules[f].faites
      /\ formules'[f].pc = "defaire"
      /\ formules'[f].faites = formules[f].faites \ {p}
      /\ formules'[f].pour = formules[f].pour
  BY <1>1, <1>2 DEF DefaireBillet, TypeGroupe, Demande
<1>4. <<f, p>> \in Tickets /\ lignes' = [lignes EXCEPT ![<<f, p>>].statut = "SUPPRIME"]
  BY DEF Tickets, DefaireBillet
<1>5. \A t \in Tickets :
        /\ lignes'[t].statut = IF t = <<f, p>> THEN "SUPPRIME" ELSE lignes[t].statut
        /\ lignes'[t].choix = lignes[t].choix
  BY <1>4, StatutEcrit
<1>. QED BY <1>3, <1>5 DEF DefaireBillet

LEMMA EffetPlace ==
  ASSUME TypeGroupe, NEW f \in Formules, ReserverPlace(f)
  PROVE  /\ \A g \in Formules : g # f => formules'[g] = formules[g]
         /\ formules[f].pc = "reserver"
         /\ formules'[f].faites = formules[f].faites
         /\ formules'[f].pour = formules[f].pour /\ formules'[f].lus = formules[f].lus
         /\ formules'[f].pris = formules[f].pris + 1
         /\ IF formules[f].pris + 1 = Cardinality(formules[f].pour)
            THEN formules'[f].pc = "inserer" ELSE formules'[f].pc = "reserver"
         /\ soiree'.places = soiree.places + 1 /\ soiree'.statut = soiree.statut
         /\ soiree'.options = soiree.options
         /\ UNCHANGED <<lignes, suites, modification, edition, croises, chevauche, doubles>>
<1>1. formules[f].pc = "reserver"
  BY DEF ReserverPlace
<1>2. formules[f] \in Demande
  BY <1>1 DEF TypeGroupe, Repos
<1>3. /\ \A g \in Formules : g # f => formules'[g] = formules[g]
      /\ formules'[f].faites = formules[f].faites
      /\ formules'[f].pour = formules[f].pour /\ formules'[f].lus = formules[f].lus
      /\ formules'[f].pris = formules[f].pris + 1
      /\ IF formules[f].pris + 1 = Cardinality(formules[f].pour)
         THEN formules'[f].pc = "inserer" ELSE formules'[f].pc = "reserver"
  BY <1>1, <1>2 DEF ReserverPlace, TypeGroupe, Demande
<1>4. soiree'.places = soiree.places + 1 /\ soiree'.statut = soiree.statut
      /\ soiree'.options = soiree.options
  BY DEF ReserverPlace, TypeGroupe, Evenement
<1>. QED BY <1>1, <1>3, <1>4 DEF ReserverPlace

------------------------------------------------------------------------------
(* The rows are those the requests wrote.                                  *)

LEMMA LignesPreserve ==
  ASSUME TypeGroupe, LignesDesDemandes, [NextGroupe]_varsGroupe
  PROVE  LignesDesDemandes'
<1>. SUFFICES ASSUME soiree.statut # "SUPPRIME", soiree'.statut # "SUPPRIME",
                     NEW f \in Formules, NEW p \in Inscrits
              PROVE  <<f, p>> \in Ecrites' <=> formules'[f].pc # "repos" /\ p \in formules'[f].faites
  BY EffetEvenement DEF LignesDesDemandes
<1>0. /\ <<f, p>> \in Tickets
      /\ <<f, p>> \in Ecrites <=> formules[f].pc # "repos" /\ p \in formules[f].faites
  BY DEF LignesDesDemandes, Tickets
<1>1. CASE Inscription
  <2>1. PICK g \in Formules, payeur \in Payeurs, pour \in Listes :
          \E voeux \in [pour -> Choix \cup {SansChoix}] : InscrireGroupe(g, payeur, pour, voeux)
    BY <1>1 DEF Inscription
  <2>2. PICK voeux \in [pour -> Choix \cup {SansChoix}] : InscrireGroupe(g, payeur, pour, voeux)
    BY <2>1
  <2>4. /\ formules[g].pc = "repos"
        /\ \A h \in Formules : h # g => formules'[h] = formules[h]
        /\ formules'[g] = Formule("reserver", payeur, pour, voeux, soiree.options)
        /\ UNCHANGED <<soiree, lignes, suites, modification, edition, chevauche, doubles>>
    BY <2>2, EffetInscription
  <2>3. formules'[g].faites = {}
    BY <2>4 DEF Formule
  <2>. QED BY <1>0, <2>3, <2>4 DEF Ecrites
<1>2. ASSUME NEW g \in Formules, NEW q \in Inscrits, InsererBillet(g, q)
      PROVE  <<f, p>> \in Ecrites' <=> formules'[f].pc # "repos" /\ p \in formules'[f].faites
  <2>1. /\ \A h \in Formules : h # g => formules'[h] = formules[h]
        /\ formules[g].pc = "inserer"
        /\ formules'[g].faites = formules[g].faites \cup {q}
        /\ formules'[g].pc # "repos"
        /\ <<g, q>> \in Actifs'
        /\ \A t \in Tickets : t # <<g, q>> => lignes'[t] = lignes[t]
    BY <1>2, EffetInsertion
  <2>2. <<g, q>> \in Ecrites'
    BY <2>1 DEF Actifs, Ecrites
  <2>3. CASE <<f, p>> = <<g, q>>
    BY <2>1, <2>2, <2>3
  <2>4. CASE <<f, p>> # <<g, q>>
    <3>1. <<f, p>> \in Ecrites' <=> <<f, p>> \in Ecrites
      BY <1>0, <2>1, <2>4 DEF Ecrites
    <3>. QED BY <1>0, <2>1, <2>4, <3>1
  <2>. QED BY <2>3, <2>4
<1>3. ASSUME NEW g \in Formules, NEW q \in Inscrits, DefaireBillet(g, q)
      PROVE  <<f, p>> \in Ecrites' <=> formules'[f].pc # "repos" /\ p \in formules'[f].faites
  <2>1. /\ \A h \in Formules : h # g => formules'[h] = formules[h]
        /\ formules[g].pc = "defaire"
        /\ formules'[g].faites = formules[g].faites \ {q}
        /\ formules'[g].pc = "defaire"
        /\ \A t \in Tickets :
             lignes'[t].statut = IF t = <<g, q>> THEN "SUPPRIME" ELSE lignes[t].statut
    BY <1>3, EffetDefaite
  <2>3. CASE <<f, p>> = <<g, q>>
    BY <1>0, <2>1, <2>3 DEF Ecrites
  <2>4. CASE <<f, p>> # <<g, q>>
    <3>1. <<f, p>> \in Ecrites' <=> <<f, p>> \in Ecrites
      BY <1>0, <2>1, <2>4 DEF Ecrites
    <3>. QED BY <1>0, <2>1, <2>4, <3>1
  <2>. QED BY <2>3, <2>4
<1>4. ASSUME NEW g \in Formules, ReserverPlace(g)
      PROVE  <<f, p>> \in Ecrites' <=> formules'[f].pc # "repos" /\ p \in formules'[f].faites
  <2>1. /\ \A h \in Formules : h # g => formules'[h] = formules[h]
        /\ formules[g].pc = "reserver"
        /\ formules'[g].faites = formules[g].faites
        /\ formules'[g].pc # "repos"
        /\ UNCHANGED lignes
    BY <1>4, EffetPlace
  <2>. QED BY <1>0, <2>1 DEF Ecrites
<1>5. CASE ~Inscription /\ ~Ecriture /\ \A g \in Formules : ~ReserverPlace(g)
  <2>1. formules'[f].faites = formules[f].faites \/ formules'[f] = formules[f]
    BY <1>5, EffetFormules, PasSeul DEF PasGroupe, PasEcrits
  <2>2. formules'[f].pc # "repos" <=> formules[f].pc # "repos"
    BY <1>5, EffetFormules, PasSeul DEF PasGroupe, PasEcrits
  <2>3. ~SupprimerEvenement
    BY DEF SupprimerEvenement, TypeGroupe, Evenement
  <2>4. <<f, p>> \in Ecrites' <=> <<f, p>> \in Ecrites
    <3>1. CASE ~Ajouts
      BY <1>0, <1>5, <2>3, <3>1, EffetCalme DEF EcritesMemes, Ecriture
    <3>2. CASE EcrireReponses
      <4>1. modification.ticket \in Tickets \/ UNCHANGED lignes
        BY <3>2 DEF EcrireReponses, Ecrites
      <4>2. lignes'[<<f, p>>].statut = lignes[<<f, p>>].statut
        BY <1>0, <3>2, <4>1 DEF EcrireReponses, TypeGroupe, LigneGroupe
      <4>. QED BY <1>0, <4>2 DEF Ecrites
    <3>3. ASSUME NEW s \in suites, RouvrirBilletPaye(s), s.annule, Rouvrable(s)
          PROVE  <<f, p>> \in Ecrites' <=> <<f, p>> \in Ecrites
      <4>1. s.ticket \in Tickets /\ lignes[s.ticket].statut = "ANNULEE" /\ Valider(s.ticket)
        BY <3>3 DEF TypeGroupe, RouvrirBilletPaye, Rouvrable
      <4>2. lignes'[<<f, p>>].statut = IF <<f, p>> = s.ticket THEN "CONFIRMEE"
                                       ELSE lignes[<<f, p>>].statut
        BY <1>0, <4>1, StatutEcrit DEF Valider
      <4>. QED BY <1>0, <4>1, <4>2 DEF Ecrites
    <3>. QED BY <1>5, <3>1, <3>2, <3>3 DEF Ajouts, Ecriture
  <2>. QED BY <1>0, <2>1, <2>2, <2>4
<1>. QED BY <1>1, <1>2, <1>3, <1>4, <1>5 DEF Ecriture

------------------------------------------------------------------------------
(* One person, one ticket.                                                 *)

LEMMA UneDemandeStable ==
  ASSUME UneDemande, croises \subseteq croises', Actifs' \subseteq Actifs,
         \A p \in Inscrits : EnCours(p)' \subseteq EnCours(p)
  PROVE  UneDemande'
<1>. SUFFICES ASSUME NEW p \in Inscrits, p \notin croises'
              PROVE  /\ \A t, u \in Actifs' : t[2] = p /\ u[2] = p => t = u
                     /\ \A f, g \in EnCours(p)' : f = g
                     /\ EnCours(p)' # {} => \A t \in Actifs' : t[2] # p
  BY DEF UneDemande
<1>1. /\ \A t, u \in Actifs : t[2] = p /\ u[2] = p => t = u
      /\ \A f, g \in EnCours(p) : f = g
      /\ EnCours(p) # {} => \A t \in Actifs : t[2] # p
  BY DEF UneDemande
<1>2. Actifs' \subseteq Actifs /\ EnCours(p)' \subseteq EnCours(p)
  OBVIOUS
<1>. QED BY <1>1, <1>2

\* History is never forgotten.
LEMMA CroisesCroit == [NextGroupe]_varsGroupe => croises \subseteq croises'
<1>. SUFFICES ASSUME [NextGroupe]_varsGroupe PROVE croises \subseteq croises'
  OBVIOUS
<1>3. ASSUME NEW f \in Formules, NEW payeur, NEW pour, NEW voeux,
             InscrireGroupe(f, payeur, pour, voeux)
      PROVE  croises \subseteq croises'
  BY <1>3 DEF InscrireGroupe
<1>1. ASSUME \/ \E f \in Formules :
                  \/ ReserverPlace(f) \/ ReserverComplet(f)
                  \/ \E p \in Inscrits : InsererBillet(f, p) \/ DefaireBillet(f, p)
                  \/ OuvrirPaiement(f) \/ InitierPaiement(f) \/ Conclure(f) \/ LeverGroupe(f)
                  \/ RendreGroupe(f) \/ DefairePreuve(f)
                  \/ \E e \in {"PAYE", "REFUSE"} : PayerGroupe(f, e)
                  \/ \E s \in {"COMPLETE", "ECHOUE"} : TrancherGroupe(f, s)
      PROVE  croises' = croises
  BY <1>1 DEF ReserverPlace, ReserverComplet, InsererBillet, DefaireBillet,
     OuvrirPaiement, InitierPaiement, Conclure, LeverGroupe, RendreGroupe, DefairePreuve,
     PayerGroupe, TrancherGroupe
<1>2. ASSUME \/ \E s \in suites : ConfirmerBillet(s) \/ RouvrirBilletPaye(s) \/ RefermerBillet(s)
             \/ \E t \in Tickets : \/ AnnulerBillet(t) \/ Accueillir(t)
                                   \/ \E c \in Choix \cup {SansChoix} : LireReponses(t, c)
             \/ EcrireReponses
             \/ Publier \/ Archiver \/ Passe
             \/ \E e \in Editions : LireEdition(e)
             \/ EcrireEdition \/ LireSuppression \/ SupprimerEvenement
             \/ UNCHANGED varsGroupe
      PROVE  croises \subseteq croises'
  BY <1>2 DEF ConfirmerBillet, RouvrirBilletPaye, RefermerBillet, AnnulerBillet, Accueillir,
     LireReponses, EcrireReponses, Publier, Archiver, Passe, LireEdition, EcrireEdition,
     LireSuppression, SupprimerEvenement, varsGroupe
<1>. QED BY <1>1, <1>2, <1>3 DEF NextGroupe

\* A request that sees no active ticket of somebody, and none is hidden from it.
LEMMA PasInscrit ==
  ASSUME TypeGroupe, UneDemande, NEW p \in Inscrits \ croises, ~Inscrit(p), ~Masque(p)
  PROVE  \A t \in Actifs : t[2] # p
<1>. SUFFICES ASSUME NEW t \in Actifs, t[2] = p PROVE FALSE
  OBVIOUS
<1>1. t \in Ecrites /\ t \in Tickets
  BY DEF Actifs, Ecrites
<1>2. PICK u \in Ecrites : u[2] = p /\ ~(lignes[u].rang <= lignes[t].rang)
  BY <1>1 DEF Inscrit
<1>3. lignes[u].rang \in Nat /\ lignes[t].rang \in Nat
  BY <1>1 DEF TypeGroupe, LigneGroupe, Ecrites
<1>4. lignes[u].rang > lignes[t].rang /\ u # t
  BY <1>2, <1>3
<1>5. u \in Ecrites \ Actifs
  BY <1>2, <1>4 DEF UneDemande
<1>. QED BY <1>2, <1>4, <1>5 DEF Masque

LEMMA UneDemandePreserve ==
  ASSUME TypeGroupe, LignesDesDemandes, UneDemande, [NextGroupe]_varsGroupe
  PROVE  UneDemande'
<1>0. croises \subseteq croises'
  BY CroisesCroit
<1>1. ASSUME NEW g \in Formules, NEW payeur \in Payeurs, NEW pour \in Listes,
             NEW voeux \in [pour -> Choix \cup {SansChoix}], InscrireGroupe(g, payeur, pour, voeux)
      PROVE  UneDemande'
  <2>1. /\ formules[g].pc = "repos"
        /\ \A h \in Formules : h # g => formules'[h] = formules[h]
        /\ formules'[g] = Formule("reserver", payeur, pour, voeux, soiree.options)
        /\ UNCHANGED <<soiree, lignes, suites, modification, edition, chevauche, doubles>>
    BY <1>1, EffetInscription
  <2>2. /\ formules'[g].pc = "reserver" /\ formules'[g].pour = pour /\ formules'[g].faites = {}
    BY <2>1 DEF Formule
  <2>3. Actifs' = Actifs
    BY <2>1 DEF Actifs
  <2>. SUFFICES ASSUME NEW p \in Inscrits, p \notin croises'
                PROVE  /\ \A t, u \in Actifs' : t[2] = p /\ u[2] = p => t = u
                       /\ \A f, h \in EnCours(p)' : f = h
                       /\ EnCours(p)' # {} => \A t \in Actifs' : t[2] # p
    BY DEF UneDemande
  <2>4. /\ \A t, u \in Actifs : t[2] = p /\ u[2] = p => t = u
        /\ \A f, h \in EnCours(p) : f = h
        /\ EnCours(p) # {} => \A t \in Actifs : t[2] # p
    BY <1>0 DEF UneDemande
  <2>5. \A h \in EnCours(p)' : (h = g /\ p \in pour) \/ h \in EnCours(p)
    BY <2>1, <2>2 DEF EnCours
  <2>6. CASE p \in pour
    <3>1. ~Inscrit(p) /\ ~Masque(p) /\ EnCours(p) = {}
      BY <1>1, <2>6 DEF InscrireGroupe
    <3>2. \A t \in Actifs : t[2] # p
      BY <1>0, <3>1, PasInscrit
    <3>. QED BY <2>3, <2>5, <3>1, <3>2
  <2>7. CASE p \notin pour
    BY <2>3, <2>4, <2>5, <2>7
  <2>. QED BY <2>6, <2>7
<1>2. ASSUME NEW g \in Formules, NEW q \in Inscrits, InsererBillet(g, q)
      PROVE  UneDemande'
  <2>1. /\ \A h \in Formules : h # g => formules'[h] = formules[h]
        /\ formules[g].pc = "inserer" /\ q \in formules[g].pour \ formules[g].faites
        /\ formules'[g].faites = formules[g].faites \cup {q}
        /\ formules'[g].pour = formules[g].pour
        /\ \A t \in Tickets : t # <<g, q>> => lignes'[t] = lignes[t]
        /\ croises' = croises
    BY <1>2, EffetInsertion
  <2>2. \A t \in Actifs' : t = <<g, q>> \/ t \in Actifs
    BY <2>1 DEF Actifs
  <2>3. g \in EnCours(q)
    BY <2>1 DEF EnCours
  <2>4. \A p : EnCours(p)' \subseteq EnCours(p) /\ g \notin EnCours(q)'
    BY <2>1 DEF EnCours
  <2>. SUFFICES ASSUME NEW p \in Inscrits, p \notin croises
                PROVE  /\ \A t, u \in Actifs' : t[2] = p /\ u[2] = p => t = u
                       /\ \A f, h \in EnCours(p)' : f = h
                       /\ EnCours(p)' # {} => \A t \in Actifs' : t[2] # p
    BY <2>1 DEF UneDemande
  <2>5. /\ \A t, u \in Actifs : t[2] = p /\ u[2] = p => t = u
        /\ \A f, h \in EnCours(p) : f = h
        /\ EnCours(p) # {} => \A t \in Actifs : t[2] # p
    BY DEF UneDemande
  <2>6. CASE p = q
    <3>1. \A t \in Actifs' : t[2] = p => t = <<g, q>>
      BY <2>2, <2>3, <2>5, <2>6
    <3>2. EnCours(p)' = {}
      BY <2>3, <2>4, <2>5, <2>6
    <3>. QED BY <3>1, <3>2
  <2>7. CASE p # q
    <3>1. \A t \in Actifs' : t[2] = p => t \in Actifs
      BY <2>2, <2>7
    <3>. QED BY <2>4, <2>5, <3>1
  <2>. QED BY <2>6, <2>7
<1>3. ASSUME NEW g \in Formules, NEW q \in Inscrits, DefaireBillet(g, q)
      PROVE  UneDemande'
  <2>1. /\ \A h \in Formules : h # g => formules'[h] = formules[h]
        /\ formules'[g].pc = "defaire"
        /\ \A t \in Tickets :
             lignes'[t].statut = IF t = <<g, q>> THEN "SUPPRIME" ELSE lignes[t].statut
    BY <1>3, EffetDefaite
  <2>2. Actifs' \subseteq Actifs
    BY <2>1 DEF Actifs
  <2>3. \A p \in Inscrits : EnCours(p)' \subseteq EnCours(p)
    BY <2>1 DEF EnCours
  <2>. QED BY <1>0, <2>2, <2>3, UneDemandeStable
<1>4. ASSUME NEW g \in Formules, ReserverPlace(g) PROVE UneDemande'
  <2>1. /\ \A h \in Formules : h # g => formules'[h] = formules[h]
        /\ formules[g].pc = "reserver"
        /\ formules'[g].faites = formules[g].faites
        /\ formules'[g].pour = formules[g].pour
        /\ UNCHANGED lignes
    BY <1>4, EffetPlace
  <2>2. Actifs' \subseteq Actifs
    BY <2>1 DEF Actifs
  <2>3. \A p \in Inscrits : EnCours(p)' \subseteq EnCours(p)
    BY <2>1 DEF EnCours
  <2>. QED BY <1>0, <2>2, <2>3, UneDemandeStable
<1>5. CASE ~Inscription /\ ~Ecriture /\ \A g \in Formules : ~ReserverPlace(g)
  <2>1. \A f \in Formules : \/ formules'[f] = formules[f]
                            \/ formules'[f].pc \in PasEcrits \cup {"defaire", "refusee"}
    BY <1>5, EffetFormules, PasSeul DEF PasGroupe, PasEcrits
  <2>2. \A p \in Inscrits : EnCours(p)' \subseteq EnCours(p)
    BY <2>1 DEF EnCours, PasEcrits
  <2>3. CASE ~Ajouts
    <3>1. Actifs' \subseteq Actifs
      BY <2>3, EffetCalme DEF LignesCalmes, Actifs
    <3>. QED BY <1>0, <2>2, <3>1, UneDemandeStable
  <2>4. CASE EcrireReponses
    <3>1. modification.ticket \in Tickets \/ UNCHANGED lignes
      BY <2>4 DEF EcrireReponses, Ecrites
    <3>2. \A t \in Tickets : lignes'[t].statut = lignes[t].statut
      BY <2>4, <3>1 DEF EcrireReponses, TypeGroupe, LigneGroupe
    <3>3. Actifs' \subseteq Actifs
      BY <3>2 DEF Actifs
    <3>. QED BY <1>0, <2>2, <3>3, UneDemandeStable
  <2>5. ASSUME NEW s \in suites, RouvrirBilletPaye(s), s.annule, Rouvrable(s)
        PROVE  UneDemande'
    <3>1. s.ticket \in Tickets /\ Valider(s.ticket) /\ UNCHANGED formules
          /\ croises' = croises \cup {p \in {s.ticket[2]} : EnCours(p) # {}}
      BY <2>5 DEF TypeGroupe, RouvrirBilletPaye
    <3>2. \A u \in Tickets :
             /\ lignes'[u].statut = IF u = s.ticket THEN "CONFIRMEE" ELSE lignes[u].statut
             /\ lignes'[u].choix = lignes[u].choix
      BY <3>1, StatutEcrit DEF Valider
    <3>3. \A t \in Actifs' : t = s.ticket \/ t \in Actifs
      BY <3>2 DEF Actifs
    <3>4. \A p : EnCours(p)' = EnCours(p)
      BY <3>1 DEF EnCours
    <3>5. \A t \in Actifs : t[2] = s.ticket[2] => t = s.ticket
      BY <2>5 DEF Rouvrable
    <3>. SUFFICES ASSUME NEW p \in Inscrits, p \notin croises'
                  PROVE  /\ \A t, u \in Actifs' : t[2] = p /\ u[2] = p => t = u
                         /\ \A f, h \in EnCours(p)' : f = h
                         /\ EnCours(p)' # {} => \A t \in Actifs' : t[2] # p
      BY DEF UneDemande
    <3>6. /\ \A t, u \in Actifs : t[2] = p /\ u[2] = p => t = u
          /\ \A f, h \in EnCours(p) : f = h
          /\ EnCours(p) # {} => \A t \in Actifs : t[2] # p
      BY <1>0 DEF UneDemande
    <3>7. CASE p = s.ticket[2]
      <4>1. EnCours(p) = {}
        BY <3>1, <3>7
      <4>2. \A t \in Actifs' : t[2] = p => t = s.ticket
        BY <3>3, <3>5, <3>7
      <4>. QED BY <3>4, <4>1, <4>2
    <3>8. CASE p # s.ticket[2]
      BY <3>3, <3>4, <3>6, <3>8
    <3>. QED BY <3>7, <3>8
  <2>. QED BY <1>5, <2>3, <2>4, <2>5 DEF Ajouts, Ecriture
<1>. QED BY <1>1, <1>2, <1>3, <1>4, <1>5 DEF Ecriture, Inscription

------------------------------------------------------------------------------
(* The stock of the sizes.                                                 *)

\* The tickets of one size.
DeTaille(c) == {t \in Actifs : lignes[t].choix = c}

LEMMA UtilisationsActives ==
  ASSUME TypeGroupe, NEW c
  PROVE  /\ Utilisations(c, <<>>) = DeTaille(c)
         /\ \A t \in Tickets : Utilisations(c, t) = DeTaille(c) \ {t}
         /\ IsFiniteSet(DeTaille(c)) /\ Cardinality(DeTaille(c)) \in Nat
<1>1. \A t \in Tickets : t \in DeTaille(c) <=> /\ t \in Ecrites /\ lignes[t].choix = c
                                               /\ lignes[t].statut # "ANNULEE"
  BY DEF DeTaille, Actifs, Ecrites, TypeGroupe, LigneGroupe
<1>2. DeTaille(c) \subseteq Tickets /\ Ecrites \subseteq Tickets
  BY DEF DeTaille, Actifs, Ecrites
<1>3. \A t \in Tickets : t # <<>>
  BY DEF Tickets
<1>4. Utilisations(c, <<>>) = DeTaille(c)
  BY <1>1, <1>2, <1>3 DEF Utilisations
<1>5. \A t \in Tickets : Utilisations(c, t) = DeTaille(c) \ {t}
  BY <1>1, <1>2 DEF Utilisations
<1>6. IsFiniteSet(DeTaille(c))
  BY <1>2, TicketsFinis, FS_Subset
<1>. QED BY <1>4, <1>5, <1>6, FS_CardinalityType

LEMMA UtilisationsActivesPrime ==
  ASSUME TypeGroupe', NEW c
  PROVE  /\ Utilisations(c, <<>>)' = DeTaille(c)'
         /\ IsFiniteSet(DeTaille(c)') /\ Cardinality(DeTaille(c)') \in Nat
<1>1. \A t \in Tickets : t \in DeTaille(c)' <=> /\ t \in Ecrites' /\ lignes'[t].choix = c
                                                /\ lignes'[t].statut # "ANNULEE"
  BY DEF DeTaille, Actifs, Ecrites, TypeGroupe, LigneGroupe
<1>2. DeTaille(c)' \subseteq Tickets /\ Ecrites' \subseteq Tickets
  BY DEF DeTaille, Actifs, Ecrites
<1>3. \A t \in Tickets : t # <<>>
  BY DEF Tickets
<1>4. Utilisations(c, <<>>)' = DeTaille(c)'
  BY <1>1, <1>2, <1>3 DEF Utilisations
<1>. QED BY <1>2, <1>4, TicketsFinis, FS_Subset, FS_CardinalityType

\* Fewer tickets of each size: what fitted still fits.
LEMMA MoinsDeTickets ==
  ASSUME TypeGroupe, TypeGroupe', NEW c, DeTaille(c)' \subseteq DeTaille(c)
  PROVE  Cardinality(Utilisations(c, <<>>)') <= Cardinality(Utilisations(c, <<>>))
<1>1. Utilisations(c, <<>>) = DeTaille(c) /\ IsFiniteSet(DeTaille(c))
  BY UtilisationsActives
<1>2. Utilisations(c, <<>>)' = DeTaille(c)'
  BY UtilisationsActivesPrime
<1>. QED BY <1>1, <1>2, FS_Subset

\* One ticket more of a size that is not sold out.
LEMMA UnTicketDePlus ==
  ASSUME TypeGroupe, TypeGroupe', NEW t \in Tickets, NEW c, NEW options,
         StockSuffit(lignes'[t].choix, options, <<>>) \/ StockSuffit(lignes'[t].choix, options, t),
         options = soiree.options, soiree'.options = soiree.options,
         TaillesTenues, ~chevauche,
         \A u \in Actifs' : u # t => u \in Actifs /\ lignes'[u].choix = lignes[u].choix,
         c \in soiree.options.offerts
  PROVE  Cardinality(Utilisations(c, <<>>)') <= soiree.options.stock[c]
<1>1. /\ Utilisations(c, <<>>) = DeTaille(c) /\ Utilisations(c, t) = DeTaille(c) \ {t}
      /\ IsFiniteSet(DeTaille(c)) /\ Cardinality(DeTaille(c)) \in Nat
  BY UtilisationsActives
<1>2. Cardinality(DeTaille(c)) <= soiree.options.stock[c]
  BY <1>1 DEF TaillesTenues
<1>3. soiree.options.stock[c] \in Nat
  BY TicketsFinis DEF TypeGroupe, Evenement, Options
<1>4. CASE lignes'[t].choix # c
  <2>1. DeTaille(c)' \subseteq DeTaille(c)
    BY <1>4 DEF DeTaille
  <2>2. Cardinality(Utilisations(c, <<>>)') <= Cardinality(Utilisations(c, <<>>))
    BY <2>1, MoinsDeTickets
  <2>3. IsFiniteSet(DeTaille(c)') /\ Cardinality(DeTaille(c)') \in Nat
        /\ Cardinality(Utilisations(c, <<>>)') = Cardinality(DeTaille(c)')
    BY UtilisationsActivesPrime
  <2>. QED BY <1>1, <1>2, <1>3, <2>2, <2>3
<1>5. CASE lignes'[t].choix = c
  <2>1. Cardinality(DeTaille(c) \ {t}) < soiree.options.stock[c]
    <3>1. IsFiniteSet(DeTaille(c) \ {t}) /\ Cardinality(DeTaille(c) \ {t}) <= Cardinality(DeTaille(c))
      BY <1>1, FS_Subset
    <3>2. Cardinality(DeTaille(c) \ {t}) \in Nat
      BY <3>1, FS_CardinalityType
    <3>3. StockSuffit(c, soiree.options, <<>>) \/ StockSuffit(c, soiree.options, t)
      BY <1>5
    <3>4. \/ Cardinality(Utilisations(c, <<>>)) < soiree.options.stock[c]
          \/ Cardinality(Utilisations(c, t)) < soiree.options.stock[c]
      BY <3>3 DEF StockSuffit
    <3>5. \/ Cardinality(DeTaille(c)) < soiree.options.stock[c]
          \/ Cardinality(DeTaille(c) \ {t}) < soiree.options.stock[c]
      BY <1>1, <3>4
    <3>. QED BY <1>1, <1>3, <3>1, <3>2, <3>5
  <2>2. DeTaille(c)' \subseteq (DeTaille(c) \ {t}) \cup {t}
    BY DEF DeTaille
  <2>3. IsFiniteSet(DeTaille(c) \ {t})
    BY <1>1, FS_Subset
  <2>4. /\ IsFiniteSet((DeTaille(c) \ {t}) \cup {t})
        /\ Cardinality((DeTaille(c) \ {t}) \cup {t}) = Cardinality(DeTaille(c) \ {t}) + 1
    BY <2>3, FS_AddElement
  <2>5. Cardinality(DeTaille(c)') <= Cardinality(DeTaille(c) \ {t}) + 1
        /\ Cardinality(DeTaille(c)') \in Nat /\ Cardinality(DeTaille(c) \ {t}) \in Nat
    BY <2>2, <2>3, <2>4, FS_Subset, FS_CardinalityType
  <2>6. Utilisations(c, <<>>)' = DeTaille(c)'
    BY UtilisationsActivesPrime
  <2>. QED BY <1>3, <2>1, <2>5, <2>6
<1>. QED BY <1>4, <1>5

\* The history of saves is never forgotten.
LEMMA ChevaucheReste == [NextGroupe]_varsGroupe /\ ~chevauche' => ~chevauche
<1>. SUFFICES ASSUME [NextGroupe]_varsGroupe, chevauche PROVE chevauche'
  OBVIOUS
<1>1. ASSUME \/ \E f \in Formules : \E p \in Inscrits : InsererBillet(f, p)
             \/ \E s \in suites : RouvrirBilletPaye(s)
             \/ EcrireReponses \/ EcrireEdition \/ SupprimerEvenement
      PROVE  chevauche'
  BY <1>1 DEF InsererBillet, RouvrirBilletPaye, EcrireReponses, EcrireEdition, SupprimerEvenement,
     Noter
<1>2. ASSUME \/ \E f \in Formules :
                  \/ \E payeur \in Payeurs, pour \in Listes :
                       \E voeux \in [pour -> Choix \cup {SansChoix}] :
                         InscrireGroupe(f, payeur, pour, voeux)
                  \/ ReserverPlace(f) \/ ReserverComplet(f)
                  \/ \E p \in Inscrits : DefaireBillet(f, p)
                  \/ OuvrirPaiement(f) \/ InitierPaiement(f) \/ Conclure(f) \/ LeverGroupe(f)
                  \/ RendreGroupe(f) \/ DefairePreuve(f)
                  \/ \E e \in {"PAYE", "REFUSE"} : PayerGroupe(f, e)
                  \/ \E s \in {"COMPLETE", "ECHOUE"} : TrancherGroupe(f, s)
             \/ \E s \in suites : ConfirmerBillet(s) \/ RefermerBillet(s)
             \/ \E t \in Tickets : \/ AnnulerBillet(t) \/ Accueillir(t)
                                   \/ \E c \in Choix \cup {SansChoix} : LireReponses(t, c)
             \/ Publier \/ Archiver \/ Passe
             \/ \E e \in Editions : LireEdition(e)
             \/ LireSuppression
             \/ UNCHANGED varsGroupe
      PROVE  chevauche' = chevauche
  BY <1>2 DEF InscrireGroupe, ReserverPlace, ReserverComplet, DefaireBillet,
     OuvrirPaiement, InitierPaiement, Conclure, LeverGroupe, RendreGroupe, DefairePreuve,
     PayerGroupe, TrancherGroupe, ConfirmerBillet, RefermerBillet, AnnulerBillet, Accueillir,
     LireReponses, Publier, Archiver, Passe, LireEdition, LireSuppression, varsGroupe
<1>. QED BY <1>1, <1>2 DEF NextGroupe

\* What a step that adds a ticket or changes a size does, when nobody is saving.
LEMMA EffetAjout ==
  ASSUME TypeGroupe, OptionsLues, ~chevauche, ~chevauche', Ajouts, [NextGroupe]_varsGroupe
  PROVE  \/ LignesCalmes
         \/ /\ edition.pc = "repos" /\ UNCHANGED edition
            /\ \E t \in Tickets :
                 /\ \A u \in Actifs' : u # t => u \in Actifs /\ lignes'[u].choix = lignes[u].choix
                 /\ \/ StockSuffit(lignes'[t].choix, soiree.options, <<>>)
                    \/ StockSuffit(lignes'[t].choix, soiree.options, t)
<1>1. ASSUME NEW f \in Formules, NEW p \in Inscrits, InsererBillet(f, p)
      PROVE  /\ edition.pc = "repos" /\ UNCHANGED edition
             /\ <<f, p>> \in Tickets
             /\ \A u \in Actifs' : u # <<f, p>> => u \in Actifs /\ lignes'[u].choix = lignes[u].choix
             /\ StockSuffit(lignes'[<<f, p>>].choix, soiree.options, <<>>)
  <2>1. /\ \A g \in Formules : g # f => formules'[g] = formules[g]
        /\ lignes'[<<f, p>>].choix = formules[f].voeux[p]
        /\ \A t \in Tickets : t # <<f, p>> => lignes'[t] = lignes[t]
        /\ UNCHANGED edition
    BY <1>1, EffetInsertion
  <2>2. formules[f].lus = soiree.options /\ edition.pc = "repos"
        /\ StockSuffit(formules[f].voeux[p], formules[f].lus, <<>>)
    BY <1>1 DEF InsererBillet, OptionsLues, Noter
  <2>. QED BY <2>1, <2>2 DEF Actifs, Tickets
<1>2. ASSUME NEW s \in suites, RouvrirBilletPaye(s), s.annule, Rouvrable(s)
      PROVE  /\ edition.pc = "repos" /\ UNCHANGED edition
             /\ s.ticket \in Tickets
             /\ \A u \in Actifs' : u # s.ticket => u \in Actifs /\ lignes'[u].choix = lignes[u].choix
             /\ StockSuffit(lignes'[s.ticket].choix, soiree.options, s.ticket)
  <2>1. s.ticket \in Tickets /\ Valider(s.ticket) /\ edition.pc = "repos" /\ UNCHANGED edition
    BY <1>2 DEF TypeGroupe, RouvrirBilletPaye, Noter
  <2>2. \A u \in Tickets :
           /\ lignes'[u].statut = IF u = s.ticket THEN "CONFIRMEE" ELSE lignes[u].statut
           /\ lignes'[u].choix = lignes[u].choix
    BY <2>1, StatutEcrit DEF Valider
  <2>3. StockSuffit(lignes[s.ticket].choix, s.options, s.ticket) /\ s.options = soiree.options
    BY <1>2 DEF Rouvrable, OptionsLues
  <2>. QED BY <2>1, <2>2, <2>3 DEF Actifs
<1>3. ASSUME EcrireReponses, ~LignesCalmes
      PROVE  /\ edition.pc = "repos" /\ UNCHANGED edition
             /\ modification.ticket \in Tickets
             /\ \A u \in Actifs' :
                  u # modification.ticket => u \in Actifs /\ lignes'[u].choix = lignes[u].choix
             /\ StockSuffit(lignes'[modification.ticket].choix, soiree.options, modification.ticket)
  <2>1. lignes' # lignes
    BY <1>3 DEF LignesCalmes, Actifs
  <2>2. /\ modification.pc = "ecrire" /\ modification.ticket \in Tickets
        /\ StockSuffit(modification.choix, modification.lus, modification.ticket)
        /\ lignes' = [lignes EXCEPT ![modification.ticket].choix = modification.choix]
        /\ edition.pc = "repos" /\ UNCHANGED edition
    BY <1>3, <2>1 DEF EcrireReponses, Noter, TypeGroupe
  <2>3. \A u \in Tickets :
          /\ lignes'[u].statut = lignes[u].statut
          /\ lignes'[u].choix = IF u = modification.ticket THEN modification.choix
                                ELSE lignes[u].choix
    BY <2>2 DEF TypeGroupe, LigneGroupe
  <2>4. modification.lus = soiree.options
    BY <2>2 DEF OptionsLues
  <2>. QED BY <2>2, <2>3, <2>4 DEF Actifs
<1>. QED BY <1>1, <1>2, <1>3 DEF Ajouts

LEMMA TaillesPreserve ==
  ASSUME TypeGroupe, TypeGroupe', OptionsLues, TaillesTenues, [NextGroupe]_varsGroupe
  PROVE  TaillesTenues'
<1>. SUFFICES ASSUME ~chevauche', NEW c \in soiree'.options.offerts
              PROVE  Cardinality(Utilisations(c, <<>>)') <= soiree'.options.stock[c]
  BY DEF TaillesTenues
<1>1. ~chevauche
  BY ChevaucheReste
<1>2. /\ Utilisations(c, <<>>) = DeTaille(c)
      /\ IsFiniteSet(DeTaille(c)) /\ Cardinality(DeTaille(c)) \in Nat
  BY UtilisationsActives
<1>3. /\ Utilisations(c, <<>>)' = DeTaille(c)'
      /\ IsFiniteSet(DeTaille(c)') /\ Cardinality(DeTaille(c)') \in Nat
  BY UtilisationsActivesPrime
<1>4. soiree'.options.stock[c] \in Nat
  BY TicketsFinis DEF TypeGroupe, Evenement, Options
<1>5. ASSUME LignesCalmes
      PROVE  Cardinality(Utilisations(c, <<>>)') <= Cardinality(Utilisations(c, <<>>))
  <2>1. DeTaille(c)' \subseteq DeTaille(c)
    BY <1>5 DEF DeTaille, LignesCalmes, Actifs
  <2>. QED BY <2>1, MoinsDeTickets
<1>6. CASE EcrireEdition
  <2>1. LignesCalmes
    BY <1>6 DEF EcrireEdition, LignesCalmes, Actifs
  <2>2. Cardinality(Utilisations(c, <<>>)') <= Cardinality(Utilisations(c, <<>>))
    BY <1>5, <2>1
  <2>3. CASE soiree'.options = soiree.options
    <3>1. Cardinality(Utilisations(c, <<>>)) <= soiree.options.stock[c]
      BY <1>1, <2>3 DEF TaillesTenues
    <3>. QED BY <1>2, <1>3, <1>4, <2>2, <2>3, <3>1
  <2>4. CASE soiree'.options # soiree.options
    <3>1. edition.pc = "editer" /\ soiree'.options = edition.options
      BY <1>6, <2>4 DEF EcrireEdition, TypeGroupe, Evenement
    <3>2. SansConflit(edition.options)
      BY <1>1, <3>1 DEF OptionsLues
    <3>3. c \in Choix
      BY <3>1 DEF TypeGroupe, Options
    <3>4. Cardinality(DeTaille(c)) > 0 => Cardinality(DeTaille(c)) <= edition.options.stock[c]
      BY <1>2, <3>2, <3>3 DEF SansConflit
    <3>. QED BY <1>2, <1>3, <1>4, <2>2, <3>1, <3>4
  <2>. QED BY <2>3, <2>4
<1>7. CASE ~EcrireEdition
  <2>1. soiree'.options = soiree.options
    BY <1>7, EffetEvenement
  <2>2. Cardinality(Utilisations(c, <<>>)) <= soiree.options.stock[c]
    BY <1>1, <2>1 DEF TaillesTenues
  <2>3. CASE LignesCalmes
    BY <1>2, <1>3, <1>4, <1>5, <2>1, <2>2, <2>3
  <2>4. CASE ~LignesCalmes
    <3>1. Ajouts
      BY <2>4, EffetCalme
    <3>2. PICK t \in Tickets :
             /\ \A u \in Actifs' : u # t => u \in Actifs /\ lignes'[u].choix = lignes[u].choix
             /\ \/ StockSuffit(lignes'[t].choix, soiree.options, <<>>)
                \/ StockSuffit(lignes'[t].choix, soiree.options, t)
      BY <1>1, <2>4, <3>1, EffetAjout
    <3>. QED BY <1>1, <2>1, <3>2, UnTicketDePlus
  <2>. QED BY <2>3, <2>4
<1>. QED BY <1>6, <1>7

\* What the office may save still may be.
LEMMA SansConflitStable ==
  ASSUME TypeGroupe, TypeGroupe', LignesCalmes, NEW o \in Options, SansConflit(o)
  PROVE  SansConflit(o)'
<1>. SUFFICES ASSUME NEW c \in Choix, Cardinality(Utilisations(c, <<>>)') > 0
              PROVE  c \in o.offerts /\ Cardinality(Utilisations(c, <<>>)') <= o.stock[c]
  BY DEF SansConflit
<1>1. DeTaille(c)' \subseteq DeTaille(c)
  BY DEF DeTaille, LignesCalmes, Actifs
<1>2. Cardinality(Utilisations(c, <<>>)') <= Cardinality(Utilisations(c, <<>>))
  BY <1>1, MoinsDeTickets
<1>3. Utilisations(c, <<>>) = DeTaille(c) /\ Cardinality(DeTaille(c)) \in Nat
  BY UtilisationsActives
<1>4. Utilisations(c, <<>>)' = DeTaille(c)' /\ Cardinality(DeTaille(c)') \in Nat
  BY UtilisationsActivesPrime
<1>5. o.stock[c] \in Nat
  BY TicketsFinis DEF Options
<1>6. c \in o.offerts /\ Cardinality(Utilisations(c, <<>>)) <= o.stock[c]
  BY <1>2, <1>3, <1>4 DEF SansConflit
<1>. QED BY <1>2, <1>3, <1>4, <1>5, <1>6

\* Who reads the options of the event, and who is done with them.
LEMMA LecteursPreserve ==
  ASSUME TypeGroupe, OptionsLues, ~chevauche, ~chevauche', [NextGroupe]_varsGroupe
  PROVE  /\ \A f \in Formules :
              formules'[f].pc \in {"reserver", "inserer"} => formules'[f].lus = soiree'.options
         /\ modification'.pc = "ecrire" => modification'.lus = soiree'.options
         /\ \A s \in suites' : s.annule => s.options = soiree'.options
<1>. USE DEF OptionsLues
<1>1. CASE EcrireEdition
  <2>1. UNCHANGED <<formules, modification, suites>> /\ ~SurLAncien
    BY <1>1 DEF EcrireEdition
  <2>. QED BY <2>1 DEF SurLAncien, TypeGroupe
<1>2. CASE ~EcrireEdition
  <2>0. soiree'.options = soiree.options
    BY <1>2, EffetEvenement
  <2>1. ASSUME NEW f \in Formules, formules'[f].pc \in {"reserver", "inserer"}
        PROVE  formules'[f].lus = soiree.options
    <3>1. CASE Inscription
      <4>1. PICK g \in Formules, payeur \in Payeurs, pour \in Listes :
              \E voeux \in [pour -> Choix \cup {SansChoix}] : InscrireGroupe(g, payeur, pour, voeux)
        BY <3>1 DEF Inscription
      <4>2. PICK voeux \in [pour -> Choix \cup {SansChoix}] : InscrireGroupe(g, payeur, pour, voeux)
        BY <4>1
      <4>3. /\ formules[g].pc = "repos"
            /\ \A h \in Formules : h # g => formules'[h] = formules[h]
            /\ formules'[g] = Formule("reserver", payeur, pour, voeux, soiree.options)
            /\ UNCHANGED <<soiree, lignes, suites, modification, edition, chevauche, doubles>>
        BY <4>2, EffetInscription
      <4>. QED BY <2>1, <4>3 DEF Formule
    <3>2. ASSUME NEW g \in Formules, NEW q \in Inscrits, InsererBillet(g, q)
          PROVE  formules'[f].lus = soiree.options
      <4>1. /\ \A h \in Formules : h # g => formules'[h] = formules[h]
            /\ formules[g].pc = "inserer" /\ formules'[g].lus = formules[g].lus
        BY <3>2, EffetInsertion
      <4>. QED BY <2>1, <4>1
    <3>3. ASSUME NEW g \in Formules, NEW q \in Inscrits, DefaireBillet(g, q)
          PROVE  formules'[f].lus = soiree.options
      <4>1. /\ \A h \in Formules : h # g => formules'[h] = formules[h]
            /\ formules'[g].pc = "defaire"
        BY <3>3, EffetDefaite
      <4>. QED BY <2>1, <4>1
    <3>4. ASSUME NEW g \in Formules, ReserverPlace(g)
          PROVE  formules'[f].lus = soiree.options
      <4>1. /\ \A h \in Formules : h # g => formules'[h] = formules[h]
            /\ formules[g].pc = "reserver" /\ formules'[g].lus = formules[g].lus
        BY <3>4, EffetPlace
      <4>. QED BY <2>1, <4>1
    <3>5. CASE ~Inscription /\ ~Ecriture /\ \A g \in Formules : ~ReserverPlace(g)
      <4>1. \/ formules'[f] = formules[f]
            \/ formules'[f].pc \in PasEcrits \cup {"defaire", "refusee"}
        BY <3>5, EffetFormules, PasSeul DEF PasGroupe, PasEcrits
      <4>. QED BY <2>1, <4>1 DEF PasEcrits
    <3>. QED BY <3>1, <3>2, <3>3, <3>4, <3>5 DEF Ecriture
  <2>2. \/ UNCHANGED modification
        \/ modification'.pc = "repos"
        \/ modification'.lus = soiree.options
    <3>1. ASSUME NEW t \in Tickets, NEW c \in Choix \cup {SansChoix}, LireReponses(t, c)
          PROVE  modification'.lus = soiree.options
      BY <3>1 DEF LireReponses
    <3>2. CASE EcrireReponses
      BY <3>2 DEF EcrireReponses, Repos
    <3>3. ASSUME \/ \E f \in Formules :
                      \/ \E payeur \in Payeurs, pour \in Listes :
                           \E voeux \in [pour -> Choix \cup {SansChoix}] :
                             InscrireGroupe(f, payeur, pour, voeux)
                      \/ ReserverPlace(f) \/ ReserverComplet(f)
                      \/ \E p \in Inscrits : InsererBillet(f, p) \/ DefaireBillet(f, p)
                      \/ OuvrirPaiement(f) \/ InitierPaiement(f) \/ Conclure(f) \/ LeverGroupe(f)
                      \/ RendreGroupe(f) \/ DefairePreuve(f)
                      \/ \E e \in {"PAYE", "REFUSE"} : PayerGroupe(f, e)
                      \/ \E s \in {"COMPLETE", "ECHOUE"} : TrancherGroupe(f, s)
                 \/ \E s \in suites : ConfirmerBillet(s) \/ RouvrirBilletPaye(s) \/ RefermerBillet(s)
                 \/ \E t \in Tickets : AnnulerBillet(t) \/ Accueillir(t)
                 \/ Publier \/ Archiver \/ Passe
                 \/ \E e \in Editions : LireEdition(e)
                 \/ LireSuppression \/ SupprimerEvenement
                 \/ UNCHANGED varsGroupe
          PROVE  UNCHANGED modification
      BY <3>3 DEF InscrireGroupe, ReserverPlace, ReserverComplet, InsererBillet, DefaireBillet,
         OuvrirPaiement, InitierPaiement, Conclure, LeverGroupe, RendreGroupe, DefairePreuve,
         PayerGroupe, TrancherGroupe, ConfirmerBillet, RouvrirBilletPaye, RefermerBillet,
         AnnulerBillet, Accueillir, Publier, Archiver, Passe, LireEdition, LireSuppression,
         SupprimerEvenement, varsGroupe
    <3>. QED BY <1>2, <3>1, <3>2, <3>3 DEF NextGroupe
  <2>3. ASSUME NEW s \in suites', s.annule PROVE s \in suites \/ s.options = soiree.options
    <3>1. ASSUME NEW f \in Formules, NEW e \in {"COMPLETE", "ECHOUE"}, TrancherGroupe(f, e)
          PROVE  s \in suites \/ s.options = soiree.options
      <4>1. CASE s \in Suites(f, e)
        <5>1. PICK q \in {q \in ARegler(f) : <<f, q>> \in Ecrites} :
                s = [ticket |-> <<f, q>>, issue |-> e, options |-> soiree.options,
                     annule |-> lignes[<<f, q>>].statut = "ANNULEE"]
          BY <4>1 DEF Suites
        <5>. QED BY <5>1
      <4>. QED BY <3>1, <4>1 DEF TrancherGroupe
    <3>2. ASSUME NEW x \in suites, ConfirmerBillet(x) \/ RouvrirBilletPaye(x) \/ RefermerBillet(x)
          PROVE  s \in suites
      BY <3>2 DEF ConfirmerBillet, RouvrirBilletPaye, RefermerBillet
    <3>3. ASSUME \/ \E f \in Formules :
                      \/ \E payeur \in Payeurs, pour \in Listes :
                           \E voeux \in [pour -> Choix \cup {SansChoix}] :
                             InscrireGroupe(f, payeur, pour, voeux)
                      \/ ReserverPlace(f) \/ ReserverComplet(f)
                      \/ \E p \in Inscrits : InsererBillet(f, p) \/ DefaireBillet(f, p)
                      \/ OuvrirPaiement(f) \/ InitierPaiement(f) \/ Conclure(f) \/ LeverGroupe(f)
                      \/ RendreGroupe(f) \/ DefairePreuve(f)
                      \/ \E e \in {"PAYE", "REFUSE"} : PayerGroupe(f, e)
                 \/ \E t \in Tickets : \/ AnnulerBillet(t) \/ Accueillir(t)
                                       \/ \E c \in Choix \cup {SansChoix} : LireReponses(t, c)
                 \/ EcrireReponses
                 \/ Publier \/ Archiver \/ Passe
                 \/ \E e \in Editions : LireEdition(e)
                 \/ LireSuppression \/ SupprimerEvenement
                 \/ UNCHANGED varsGroupe
          PROVE  UNCHANGED suites
      BY <3>3 DEF InscrireGroupe, ReserverPlace, ReserverComplet, InsererBillet, DefaireBillet,
         OuvrirPaiement, InitierPaiement, Conclure, LeverGroupe, RendreGroupe, DefairePreuve,
         PayerGroupe, AnnulerBillet, Accueillir, LireReponses, EcrireReponses, Publier, Archiver,
         Passe, LireEdition, LireSuppression, SupprimerEvenement, varsGroupe
    <3>. QED BY <1>2, <3>1, <3>2, <3>3 DEF NextGroupe
  <2>. QED BY <2>0, <2>1, <2>2, <2>3
<1>. QED BY <1>1, <1>2

\* What the office is about to save fits, or somebody got in between.
LEMMA EditionPreserve ==
  ASSUME TypeGroupe, TypeGroupe', OptionsLues, ~chevauche, ~chevauche', [NextGroupe]_varsGroupe,
         edition'.pc = "editer"
  PROVE  SansConflit(edition.options)'
<1>1. ASSUME NEW e \in Editions, LireEdition(e)
      PROVE  SansConflit(edition.options)'
  <2>1. edition'.options = e.options /\ SansConflit(e.options) /\ e.options \in Options
        /\ UNCHANGED lignes
    BY <1>1, EditionsAssumption DEF LireEdition
  <2>2. LignesCalmes
    BY <2>1 DEF LignesCalmes, Actifs
  <2>3. SansConflit(e.options)'
    BY <2>1, <2>2, SansConflitStable
  <2>. QED BY <2>1, <2>3 DEF SansConflit
<1>2. ASSUME UNCHANGED edition PROVE SansConflit(edition.options)'
  <2>1. edition.pc = "editer" /\ edition.options \in Options /\ SansConflit(edition.options)
    BY <1>2 DEF OptionsLues, TypeGroupe
  <2>2. LignesCalmes
    BY <2>1, EffetCalme, EffetAjout
  <2>3. PICK o \in Options : o = edition.options
    BY <2>1
  <2>4. SansConflit(o)'
    BY <2>1, <2>2, <2>3, SansConflitStable
  <2>. QED BY <1>2, <2>3, <2>4 DEF SansConflit
<1>3. ASSUME EcrireEdition \/ LireSuppression \/ SupprimerEvenement PROVE FALSE
  BY <1>3 DEF EcrireEdition, LireSuppression, SupprimerEvenement, Repos
<1>4. ASSUME \/ \E f \in Formules :
                  \/ \E payeur \in Payeurs, pour \in Listes :
                       \E voeux \in [pour -> Choix \cup {SansChoix}] :
                         InscrireGroupe(f, payeur, pour, voeux)
                  \/ ReserverPlace(f) \/ ReserverComplet(f)
                  \/ \E p \in Inscrits : InsererBillet(f, p) \/ DefaireBillet(f, p)
                  \/ OuvrirPaiement(f) \/ InitierPaiement(f) \/ Conclure(f) \/ LeverGroupe(f)
                  \/ RendreGroupe(f) \/ DefairePreuve(f)
                  \/ \E e \in {"PAYE", "REFUSE"} : PayerGroupe(f, e)
                  \/ \E s \in {"COMPLETE", "ECHOUE"} : TrancherGroupe(f, s)
             \/ \E s \in suites : ConfirmerBillet(s) \/ RouvrirBilletPaye(s) \/ RefermerBillet(s)
             \/ \E t \in Tickets : \/ AnnulerBillet(t) \/ Accueillir(t)
                                   \/ \E c \in Choix \cup {SansChoix} : LireReponses(t, c)
             \/ EcrireReponses
             \/ Publier \/ Archiver \/ Passe
             \/ UNCHANGED varsGroupe
      PROVE  UNCHANGED edition
  BY <1>4 DEF InscrireGroupe, ReserverPlace, ReserverComplet, InsererBillet, DefaireBillet,
     OuvrirPaiement, InitierPaiement, Conclure, LeverGroupe, RendreGroupe, DefairePreuve,
     PayerGroupe, TrancherGroupe, ConfirmerBillet, RouvrirBilletPaye, RefermerBillet,
     AnnulerBillet, Accueillir, LireReponses, EcrireReponses, Publier, Archiver, Passe, varsGroupe
<1>. QED BY <1>1, <1>2, <1>3, <1>4 DEF NextGroupe

LEMMA OptionsPreserve ==
  ASSUME TypeGroupe, TypeGroupe', OptionsLues, [NextGroupe]_varsGroupe
  PROVE  OptionsLues'
<1>. SUFFICES ASSUME ~chevauche'
              PROVE  /\ \A f \in Formules :
                          formules'[f].pc \in {"reserver", "inserer"} =>
                            formules'[f].lus = soiree'.options
                     /\ modification'.pc = "ecrire" => modification'.lus = soiree'.options
                     /\ \A s \in suites' : s.annule => s.options = soiree'.options
                     /\ edition'.pc = "editer" => SansConflit(edition.options)'
  BY DEF OptionsLues
<1>1. ~chevauche
  BY ChevaucheReste
<1>. QED BY <1>1, LecteursPreserve, EditionPreserve

------------------------------------------------------------------------------
(* The places.                                                             *)

\* The places in the hands of requests, numbered.
MainsDuGroupe == {h \in Formules \X (1 .. Cardinality(Inscrits)) : h[2] <= EnMainDe(h[1])}

LEMMA InscritsFinis == IsFiniteSet(Inscrits) /\ Cardinality(Inscrits) \in Nat
BY FinisAssumption, FS_CardinalityType

\* How many places a request holds.
LEMMA EnMainValeur ==
  ASSUME TypeGroupe, NEW f \in Formules
  PROVE  /\ EnMainDe(f) \in 0 .. Cardinality(Inscrits)
         /\ formules[f].pc = "reserver" => EnMainDe(f) = formules[f].pris
         /\ formules[f].pc \in {"inserer", "defaire"} =>
              EnMainDe(f) = Cardinality(formules[f].pour \ formules[f].faites)
         /\ formules[f].pc \notin {"reserver", "inserer", "defaire"} => EnMainDe(f) = 0
         /\ formules[f].pc # "repos" =>
              /\ formules[f].pour \subseteq Inscrits /\ IsFiniteSet(formules[f].pour)
              /\ Cardinality(formules[f].pour) \in Nat
              /\ Cardinality(formules[f].pour) <= Cardinality(Inscrits)
<1>1. ASSUME formules[f].pc # "repos"
      PROVE  /\ formules[f].pour \subseteq Inscrits /\ IsFiniteSet(formules[f].pour)
             /\ Cardinality(formules[f].pour) \in Nat
             /\ Cardinality(formules[f].pour) <= Cardinality(Inscrits)
             /\ formules[f] \in Demande /\ Coherente(formules[f])
  <2>1. formules[f] \in Demande /\ Coherente(formules[f])
    BY <1>1 DEF TypeGroupe, Repos
  <2>2. formules[f].pour \subseteq Inscrits
    BY <2>1, ListesAssumption DEF Demande
  <2>. QED BY <2>1, <2>2, InscritsFinis, FS_Subset, FS_CardinalityType
<1>2. CASE formules[f].pc = "reserver"
  BY <1>1, <1>2, InscritsFinis DEF EnMainDe, Coherente, Demande
<1>3. CASE formules[f].pc \in {"inserer", "defaire"}
  <2>1. formules[f].pour \ formules[f].faites \subseteq Inscrits
    BY <1>1, <1>3
  <2>2. Cardinality(formules[f].pour \ formules[f].faites) \in 0 .. Cardinality(Inscrits)
    BY <2>1, InscritsFinis, FS_Subset, FS_CardinalityType
  <2>. QED BY <1>1, <1>3, <2>2 DEF EnMainDe
<1>4. CASE formules[f].pc \notin {"reserver", "inserer", "defaire"}
  BY <1>1, <1>4, InscritsFinis DEF EnMainDe
<1>. QED BY <1>1, <1>2, <1>3, <1>4

\* What a request holds is counted once each.
LEMMA Tenues ==
  ASSUME NEW f \in Formules, NEW k \in 0 .. Cardinality(Inscrits), NEW A, IsFiniteSet(A),
         \A h \in A : h[1] # f
  PROVE  /\ IsFiniteSet(A \cup ({f} \X (1 .. k)))
         /\ Cardinality(A \cup ({f} \X (1 .. k))) = Cardinality(A) + k
<1>0. k \in Nat
  BY InscritsFinis
<1>1. IsFiniteSet(1 .. k) /\ Cardinality(1 .. k) = k
  BY <1>0, FS_Interval
<1>2. IsFiniteSet({f}) /\ Cardinality({f}) = 1
  BY FS_Singleton
<1>3. IsFiniteSet({f} \X (1 .. k)) /\ Cardinality({f} \X (1 .. k)) = 1 * k
  BY <1>1, <1>2, FS_Product
<1>4. A \cap ({f} \X (1 .. k)) = {}
  OBVIOUS
<1>5. Cardinality(A \cap ({f} \X (1 .. k))) = 0
  BY <1>4, FS_EmptySet
<1>6. Cardinality(A) \in Nat
  BY FS_CardinalityType
<1>7. /\ IsFiniteSet(A \cup ({f} \X (1 .. k)))
      /\ Cardinality(A \cup ({f} \X (1 .. k))) =
           Cardinality(A) + Cardinality({f} \X (1 .. k)) - Cardinality(A \cap ({f} \X (1 .. k)))
  BY <1>3, FS_Union
<1>. QED BY <1>0, <1>3, <1>5, <1>6, <1>7

LEMMA UneMainGroupe ==
  ASSUME TypeGroupe, TypeGroupe', NEW f \in Formules,
         \A g \in Formules : g # f => formules'[g] = formules[g]
  PROVE  /\ Cardinality(MainsDuGroupe) \in Nat /\ EnMainDe(f) \in Nat /\ EnMainDe(f)' \in Nat
         /\ EnMainDe(f) <= Cardinality(MainsDuGroupe)
         /\ Cardinality(MainsDuGroupe') = Cardinality(MainsDuGroupe) + EnMainDe(f)' - EnMainDe(f)
<1>. DEFINE A == {h \in Formules \X (1 .. Cardinality(Inscrits)) :
                    h[1] # f /\ h[2] <= EnMainDe(h[1])}
<1>1. EnMainDe(f) \in 0 .. Cardinality(Inscrits)
  BY EnMainValeur
<1>2. EnMainDe(f)' \in 0 .. Cardinality(Inscrits)
  <2>1. (EnMainDe(f) \in 0 .. Cardinality(Inscrits))'
    BY EnMainValeur, PTL
  <2>. QED BY <2>1
<1>3. IsFiniteSet(A)
  <2>1. IsFiniteSet(1 .. Cardinality(Inscrits))
    BY InscritsFinis, FS_Interval
  <2>2. IsFiniteSet(Formules \X (1 .. Cardinality(Inscrits)))
    BY <2>1, FinisAssumption, FS_Product
  <2>. QED BY <2>2, FS_Subset
<1>4. MainsDuGroupe = A \cup ({f} \X (1 .. EnMainDe(f)))
  BY <1>1, InscritsFinis DEF MainsDuGroupe
<1>5. \A g \in Formules : g # f => EnMainDe(g)' = EnMainDe(g)
  BY DEF EnMainDe
<1>6. MainsDuGroupe' = A \cup ({f} \X (1 .. EnMainDe(f)'))
  BY <1>2, <1>5, InscritsFinis DEF MainsDuGroupe
<1>7. Cardinality(A) \in Nat
  BY <1>3, FS_CardinalityType
<1>8. Cardinality(MainsDuGroupe) = Cardinality(A) + EnMainDe(f)
  BY <1>1, <1>3, <1>4, Tenues
<1>9. Cardinality(MainsDuGroupe') = Cardinality(A) + EnMainDe(f)'
  BY <1>2, <1>3, <1>6, Tenues
<1>. QED BY <1>1, <1>2, <1>7, <1>8, <1>9, InscritsFinis

LEMMA ActifsFinis == IsFiniteSet(Actifs) /\ Cardinality(Actifs) \in Nat
<1>1. IsFiniteSet(Actifs)
  BY TicketsFinis, FS_Subset DEF Actifs
<1>. QED BY <1>1, FS_CardinalityType

\* One ticket more is active, or one less.
LEMMA UnActif ==
  ASSUME NEW t \in Tickets
  PROVE  /\ t \notin Actifs /\ Actifs' = Actifs \cup {t} =>
              Cardinality(Actifs') = Cardinality(Actifs) + 1
         /\ t \in Actifs /\ Actifs' = Actifs \ {t} =>
              Cardinality(Actifs') = Cardinality(Actifs) - 1 /\ Cardinality(Actifs) >= 1
<1>1. IsFiniteSet(Actifs) /\ Cardinality(Actifs) \in Nat
  BY ActifsFinis
<1>2. t \notin Actifs => Cardinality(Actifs \cup {t}) = Cardinality(Actifs) + 1
  BY <1>1, FS_AddElement
<1>3. t \in Actifs => Cardinality(Actifs \ {t}) = Cardinality(Actifs) - 1
  BY <1>1, FS_RemoveElement
<1>4. t \in Actifs => Cardinality(Actifs) # 0
  BY <1>1, FS_EmptySet
<1>5. ASSUME t \notin Actifs, Actifs' = Actifs \cup {t}
      PROVE  Cardinality(Actifs') = Cardinality(Actifs) + 1
  BY <1>2, <1>5
<1>6. ASSUME t \in Actifs, Actifs' = Actifs \ {t}
      PROVE  Cardinality(Actifs') = Cardinality(Actifs) - 1 /\ Cardinality(Actifs) >= 1
  <2>1. Cardinality(Actifs') = Cardinality(Actifs) - 1
    BY <1>3, <1>6
  <2>2. Cardinality(Actifs) >= 1
    BY <1>1, <1>4, <1>6
  <2>. QED BY <2>1, <2>2
<1>. QED BY <1>5, <1>6

\* The steps that let an active ticket be.
LEMMA ActifsMemes ==
  ASSUME TypeGroupe,
         \/ \E s \in suites : ConfirmerBillet(s)
         \/ \E f \in Formules : DefairePreuve(f)
         \/ \E t \in Tickets : Accueillir(t)
         \/ EcrireReponses
  PROVE  Actifs' = Actifs
<1>1. ASSUME NEW t \in Actifs, NEW s \in {"EN_ATTENTE", "CONFIRMEE", "UTILISEE"},
             \A u \in Tickets : /\ lignes'[u].statut = IF u = t THEN s ELSE lignes[u].statut
                                /\ lignes'[u].choix = lignes[u].choix
      PROVE  Actifs' = Actifs
  BY <1>1 DEF Actifs
<1>2. ASSUME NEW s \in suites, ConfirmerBillet(s) PROVE Actifs' = Actifs
  <2>1. s.ticket \in Tickets /\ lignes[s.ticket].statut # "ABSENT" /\ lignes[s.ticket] \in LigneGroupe
    BY DEF TypeGroupe
  <2>2. CASE UNCHANGED lignes
    BY <2>2 DEF Actifs
  <2>3. CASE lignes[s.ticket].statut \notin {"SUPPRIME", "ANNULEE"} /\ Valider(s.ticket)
    <3>1. s.ticket \in Actifs
      BY <2>1, <2>3 DEF Actifs, LigneGroupe
    <3>2. \A u \in Tickets :
             /\ lignes'[u].statut = IF u = s.ticket THEN "CONFIRMEE" ELSE lignes[u].statut
             /\ lignes'[u].choix = lignes[u].choix
      BY <2>1, <2>3, StatutEcrit DEF Valider
    <3>. QED BY <1>1, <3>1, <3>2
  <2>. QED BY <1>2, <2>2, <2>3 DEF ConfirmerBillet
<1>3. ASSUME NEW f \in Formules, DefairePreuve(f) PROVE Actifs' = Actifs
  <2>. DEFINE t == <<f, formules[f].payeur>>
  <2>2. CASE UNCHANGED lignes
    BY <2>2 DEF Actifs
  <2>3. CASE /\ t \in Ecrites /\ lignes[t].statut \notin {"UTILISEE", "ANNULEE"}
             /\ lignes' = [lignes EXCEPT ![t].statut = "EN_ATTENTE", ![t].paye = FALSE]
    <3>0. t \in Tickets
      BY <2>3 DEF Ecrites
    <3>1. t \in Actifs
      BY <2>3, <3>0 DEF Actifs, Ecrites, TypeGroupe, LigneGroupe
    <3>2. \A u \in Tickets :
             /\ lignes'[u].statut = IF u = t THEN "EN_ATTENTE" ELSE lignes[u].statut
             /\ lignes'[u].choix = lignes[u].choix
      BY <2>3, <3>0, StatutEcrit
    <3>. QED BY <1>1, <3>1, <3>2
  <2>. QED BY <1>3, <2>2, <2>3 DEF DefairePreuve
<1>4. ASSUME NEW t \in Tickets, Accueillir(t) PROVE Actifs' = Actifs
  <2>1. CASE lignes[t].statut = "CONFIRMEE" /\ lignes' = [lignes EXCEPT ![t].statut = "UTILISEE"]
    <3>1. t \in Actifs
      BY <2>1 DEF Actifs
    <3>2. \A u \in Tickets :
             /\ lignes'[u].statut = IF u = t THEN "UTILISEE" ELSE lignes[u].statut
             /\ lignes'[u].choix = lignes[u].choix
      BY <2>1, StatutEcrit
    <3>. QED BY <1>1, <3>1, <3>2
  <2>2. CASE lignes' = [lignes EXCEPT ![t].remis = TRUE]
    <3>1. \A u \in Tickets : lignes'[u].statut = lignes[u].statut
      BY <2>2 DEF TypeGroupe, LigneGroupe
    <3>. QED BY <3>1 DEF Actifs
  <2>. QED BY <1>4, <2>1, <2>2 DEF Accueillir
<1>5. CASE EcrireReponses
  <2>1. modification.ticket \in Tickets \/ UNCHANGED lignes
    BY <1>5 DEF EcrireReponses, Ecrites
  <2>2. \A u \in Tickets : lignes'[u].statut = lignes[u].statut
    BY <1>5, <2>1 DEF EcrireReponses, TypeGroupe, LigneGroupe
  <2>. QED BY <2>2 DEF Actifs
<1>. QED BY <1>2, <1>3, <1>4, <1>5

LEMMA CompteGroupePreserve ==
  ASSUME TypeGroupe, TypeGroupe', LignesDesDemandes, CompteGroupe, [NextGroupe]_varsGroupe
  PROVE  CompteGroupe'
<1>. DEFINE N == Cardinality(Actifs)
            M == Cardinality(MainsDuGroupe)
<1>. SUFFICES ASSUME soiree'.statut # "SUPPRIME", doubles' = {}
              PROVE  soiree'.places = N' + M'
  BY DEF CompteGroupe, MainsDuGroupe
<1>0. soiree.statut # "SUPPRIME"
  BY EffetEvenement
<1>1. doubles = {} => soiree.places = N + M
  BY <1>0 DEF CompteGroupe, MainsDuGroupe
<1>2. N \in Nat
  BY ActifsFinis
<1>3. M \in Nat /\ M' \in Nat
  <2>1. IsFiniteSet(1 .. Cardinality(Inscrits))
    BY InscritsFinis, FS_Interval
  <2>2. IsFiniteSet(Formules \X (1 .. Cardinality(Inscrits)))
    BY <2>1, FinisAssumption, FS_Product
  <2>3. IsFiniteSet(MainsDuGroupe) /\ IsFiniteSet(MainsDuGroupe')
    BY <2>2, FS_Subset DEF MainsDuGroupe
  <2>. QED BY <2>3, FS_CardinalityType
<1>4. soiree \in Evenement /\ soiree.places \in Nat
  BY DEF TypeGroupe, Evenement
<1>5. ASSUME UNCHANGED formules PROVE M' = M
  BY <1>5 DEF MainsDuGroupe, EnMainDe
<1>6. ASSUME UNCHANGED lignes PROVE N' = N
  BY <1>6 DEF Actifs
<1>7. ASSUME NEW g \in Formules, NEW payeur \in Payeurs, NEW pour \in Listes,
             NEW voeux \in [pour -> Choix \cup {SansChoix}], InscrireGroupe(g, payeur, pour, voeux)
      PROVE  soiree'.places = N' + M'
  <2>1. /\ formules[g].pc = "repos"
        /\ \A h \in Formules : h # g => formules'[h] = formules[h]
        /\ formules'[g] = Formule("reserver", payeur, pour, voeux, soiree.options)
        /\ UNCHANGED <<soiree, lignes, suites, modification, edition, chevauche, doubles>>
    BY <1>7, EffetInscription
  <2>2. EnMainDe(g) = 0
    BY <2>1 DEF EnMainDe
  <2>3. EnMainDe(g)' = 0
    BY <2>1 DEF EnMainDe, Formule
  <2>4. M' = M + EnMainDe(g)' - EnMainDe(g)
    BY <2>1, UneMainGroupe
  <2>. QED BY <1>1, <1>3, <1>6, <2>1, <2>2, <2>3, <2>4
<1>8. ASSUME NEW g \in Formules, ReserverPlace(g) PROVE soiree'.places = N' + M'
  <2>1. /\ \A h \in Formules : h # g => formules'[h] = formules[h]
        /\ formules[g].pc = "reserver"
        /\ formules'[g].faites = formules[g].faites
        /\ formules'[g].pour = formules[g].pour /\ formules'[g].lus = formules[g].lus
        /\ formules'[g].pris = formules[g].pris + 1
        /\ IF formules[g].pris + 1 = Cardinality(formules[g].pour)
           THEN formules'[g].pc = "inserer" ELSE formules'[g].pc = "reserver"
        /\ soiree'.places = soiree.places + 1 /\ soiree'.statut = soiree.statut
        /\ soiree'.options = soiree.options
        /\ UNCHANGED <<lignes, suites, modification, edition, croises, chevauche, doubles>>
    BY <1>8, EffetPlace
  <2>2. EnMainDe(g) = formules[g].pris
    BY <2>1 DEF EnMainDe
  <2>3. formules[g].faites = {}
    BY <2>1 DEF TypeGroupe, Coherente
  <2>4. EnMainDe(g)' = formules[g].pris + 1
    <3>1. formules'[g].pour \ formules'[g].faites = formules[g].pour
      BY <2>1, <2>3
    <3>. QED BY <2>1, <3>1 DEF EnMainDe
  <2>5. M' = M + EnMainDe(g)' - EnMainDe(g) /\ EnMainDe(g) \in Nat
    BY <2>1, UneMainGroupe
  <2>. QED BY <1>1, <1>2, <1>3, <1>6, <2>1, <2>2, <2>4, <2>5
<1>9. ASSUME NEW g \in Formules, NEW n \in Nat, EnMainDe(g) = n,
             soiree' = PlacesRendues(n), UNCHANGED <<lignes, doubles>>, Passer(g, "refusee"),
             formules[g].pc # "repos"
      PROVE  soiree'.places = N' + M'
  <2>1. \A h \in Formules : h # g => formules'[h] = formules[h]
    BY <1>9, PasSeul
  <2>2. EnMainDe(g)' = 0
    BY <1>9, PasSeul DEF EnMainDe
  <2>3. M' = M + EnMainDe(g)' - EnMainDe(g) /\ EnMainDe(g) <= M
    BY <2>1, UneMainGroupe
  <2>4. soiree'.places = IF soiree.places > n THEN soiree.places - n ELSE 0
    BY <1>4, <1>9, PlacesType
  <2>5. soiree.places = N + M /\ N' = N /\ n <= M /\ M' = M - n
    BY <1>1, <1>3, <1>6, <1>9, <2>2, <2>3
  <2>. QED BY <1>2, <1>3, <2>4, <2>5
<1>10. ASSUME NEW g \in Formules, ReserverComplet(g) PROVE soiree'.places = N' + M'
  <2>1. formules[g].pc = "reserver"
    BY <1>10 DEF ReserverComplet
  <2>2. EnMainDe(g) = formules[g].pris /\ formules[g].pris \in Nat
    BY <2>1 DEF EnMainDe, TypeGroupe, Demande, Repos
  <2>. QED BY <1>9, <1>10, <2>1, <2>2 DEF ReserverComplet
<1>11. ASSUME NEW g \in Formules, RendreGroupe(g) PROVE soiree'.places = N' + M'
  <2>1. formules[g].pc = "defaire" /\ formules[g].faites = {}
    BY <1>11 DEF RendreGroupe
  <2>2. formules[g].pour \ formules[g].faites = formules[g].pour
    BY <2>1
  <2>3. EnMainDe(g) = Cardinality(formules[g].pour) /\ Cardinality(formules[g].pour) \in Nat
    BY <2>1, <2>2, EnMainValeur
  <2>. QED BY <1>9, <1>11, <2>1, <2>3 DEF RendreGroupe
<1>12. ASSUME NEW g \in Formules, NEW q \in Inscrits, InsererBillet(g, q)
       PROVE  soiree'.places = N' + M'
  <2>1. /\ \A h \in Formules : h # g => formules'[h] = formules[h]
        /\ formules[g].pc = "inserer" /\ q \in formules[g].pour \ formules[g].faites
        /\ formules'[g].faites = formules[g].faites \cup {q}
        /\ formules'[g].pour = formules[g].pour /\ formules'[g].lus = formules[g].lus
        /\ IF formules[g].faites \cup {q} # formules[g].pour
           THEN formules'[g].pc = "inserer"
           ELSE formules'[g].pc \in {"ouvrir", "conclure"}
        /\ <<g, q>> \in Actifs' /\ lignes'[<<g, q>>].choix = formules[g].voeux[q]
        /\ \A t \in Tickets : t # <<g, q>> => lignes'[t] = lignes[t]
        /\ UNCHANGED <<soiree, suites, modification, edition, croises, doubles>>
    BY <1>12, EffetInsertion
  <2>2. <<g, q>> \notin Ecrites /\ <<g, q>> \in Tickets
    BY <1>0, <2>1 DEF LignesDesDemandes, Tickets
  <2>3. <<g, q>> \notin Actifs
    BY <2>2 DEF Actifs, Ecrites
  <2>4. Actifs' = Actifs \cup {<<g, q>>}
    BY <2>1 DEF Actifs
  <2>5. N' = N + 1
    BY <2>2, <2>3, <2>4, UnActif
  <2>6. EnMainDe(g) = Cardinality(formules[g].pour \ formules[g].faites)
    BY <2>1, EnMainValeur
  <2>7. formules'[g].pour \ formules'[g].faites = (formules[g].pour \ formules[g].faites) \ {q}
    BY <2>1
  <2>8. IsFiniteSet(formules[g].pour \ formules[g].faites)
    BY <2>1, EnMainValeur, FS_Subset
  <2>9. Cardinality(formules'[g].pour \ formules'[g].faites) =
          Cardinality(formules[g].pour \ formules[g].faites) - 1
    <3>1. q \in formules[g].pour \ formules[g].faites
      BY <2>1
    <3>2. Cardinality((formules[g].pour \ formules[g].faites) \ {q}) =
            Cardinality(formules[g].pour \ formules[g].faites) - 1
      BY <2>8, <3>1, FS_RemoveElement
    <3>. QED BY <2>7, <3>2
  <2>10. EnMainDe(g)' = EnMainDe(g) - 1
    <3>1. CASE formules'[g].pc = "inserer"
      BY <2>6, <2>9, <3>1 DEF EnMainDe
    <3>2. CASE formules'[g].pc \in {"ouvrir", "conclure"} /\ formules'[g].faites = formules'[g].pour
      <4>1. formules'[g].pour \ formules'[g].faites = {}
        BY <3>2
      <4>2. Cardinality(formules'[g].pour \ formules'[g].faites) = 0
        BY <4>1, FS_EmptySet
      <4>. QED BY <2>6, <2>9, <3>2, <4>2 DEF EnMainDe
    <3>. QED BY <2>1, <3>1, <3>2
  <2>11. M' = M + EnMainDe(g)' - EnMainDe(g) /\ EnMainDe(g) \in Nat
    BY <2>1, UneMainGroupe
  <2>. QED BY <1>1, <1>2, <1>3, <2>1, <2>5, <2>10, <2>11
<1>13. ASSUME NEW g \in Formules, NEW q \in Inscrits, DefaireBillet(g, q)
       PROVE  soiree'.places = N' + M'
  <2>1. /\ \A h \in Formules : h # g => formules'[h] = formules[h]
        /\ formules[g].pc = "defaire" /\ q \in formules[g].faites
        /\ formules'[g].pc = "defaire"
        /\ formules'[g].faites = formules[g].faites \ {q}
        /\ formules'[g].pour = formules[g].pour
        /\ \A t \in Tickets :
             lignes'[t].statut = IF t = <<g, q>> THEN "SUPPRIME" ELSE lignes[t].statut
        /\ doubles' = IF <<g, q>> \in Actifs THEN doubles ELSE doubles \cup {<<g, q>>}
        /\ UNCHANGED <<soiree, suites, modification, edition, croises, chevauche>>
    BY <1>13, EffetDefaite
  <2>2. <<g, q>> \in Actifs /\ doubles = {} /\ <<g, q>> \in Tickets
    BY <2>1 DEF Tickets
  <2>3. Actifs' = Actifs \ {<<g, q>>}
    BY <2>1 DEF Actifs
  <2>4. N' = N - 1 /\ N >= 1
    BY <2>2, <2>3, UnActif
  <2>5. EnMainDe(g) = Cardinality(formules[g].pour \ formules[g].faites)
    BY <2>1, EnMainValeur
  <2>6. q \in formules[g].pour
    BY <2>1 DEF TypeGroupe, Coherente
  <2>7. formules'[g].pour \ formules'[g].faites = (formules[g].pour \ formules[g].faites) \cup {q}
    BY <2>1, <2>6
  <2>8. IsFiniteSet(formules[g].pour \ formules[g].faites)
    BY <2>1, EnMainValeur, FS_Subset
  <2>9. Cardinality(formules'[g].pour \ formules'[g].faites) =
          Cardinality(formules[g].pour \ formules[g].faites) + 1
    BY <2>1, <2>7, <2>8, FS_AddElement
  <2>10. EnMainDe(g)' = EnMainDe(g) + 1
    BY <2>1, <2>5, <2>9 DEF EnMainDe
  <2>11. M' = M + EnMainDe(g)' - EnMainDe(g) /\ EnMainDe(g) \in Nat
    BY <2>1, UneMainGroupe
  <2>. QED BY <1>1, <1>2, <1>3, <2>1, <2>2, <2>4, <2>10, <2>11
<1>14. ASSUME NEW g \in Formules,
              OuvrirPaiement(g) \/ InitierPaiement(g) \/ Conclure(g) \/ LeverGroupe(g)
       PROVE  soiree'.places = N' + M'
  <2>1. PICK pc \in PasEcrits \cup {"defaire"} : Passer(g, pc)
    BY <1>14 DEF OuvrirPaiement, InitierPaiement, Conclure, LeverGroupe, PasEcrits
  <2>2. formules[g].pc \in PasEcrits \cup {"inserer"} /\ UNCHANGED <<soiree, lignes, doubles>>
        /\ (formules[g].pc = "inserer" => pc = "defaire")
    <3>1. CASE LeverGroupe(g)
      <4>1. Passer(g, "defaire")
        BY <3>1 DEF LeverGroupe
      <4>2. pc = "defaire"
        BY <2>1, <3>1, <4>1, PasSeul DEF LeverGroupe
      <4>. QED BY <3>1, <4>2 DEF LeverGroupe, PasEcrits
    <3>2. CASE OuvrirPaiement(g) \/ InitierPaiement(g) \/ Conclure(g)
      BY <3>2 DEF OuvrirPaiement, InitierPaiement, Conclure, PasEcrits
    <3>. QED BY <1>14, <3>1, <3>2
  <2>3. /\ \A h \in Formules : h # g => formules'[h] = formules[h]
        /\ formules'[g].pc = pc
        /\ formules'[g].faites = formules[g].faites /\ formules'[g].pour = formules[g].pour
    BY <2>1, <2>2, PasSeul DEF PasEcrits
  <2>4. EnMainDe(g)' = EnMainDe(g)
    <3>1. CASE formules[g].pc = "inserer"
      BY <2>2, <2>3, <3>1 DEF EnMainDe
    <3>2. CASE formules[g].pc \in PasEcrits
      <4>1. formules[g].faites = formules[g].pour
        BY <3>2 DEF TypeGroupe, Coherente, PasEcrits
      <4>2. Cardinality(formules'[g].pour \ formules'[g].faites) = 0
        <5>1. formules'[g].pour \ formules'[g].faites = {}
          BY <2>3, <4>1
        <5>. QED BY <5>1, FS_EmptySet
      <4>. QED BY <2>1, <2>3, <3>2, <4>2 DEF EnMainDe, PasEcrits
    <3>. QED BY <2>2, <3>1, <3>2
  <2>5. M' = M + EnMainDe(g)' - EnMainDe(g) /\ EnMainDe(g) \in Nat
    BY <2>3, UneMainGroupe
  <2>. QED BY <1>1, <1>3, <1>6, <2>2, <2>4, <2>5
<1>15. ASSUME NEW t \in Tickets, t \in Actifs,
              lignes' = [lignes EXCEPT ![t].statut = "ANNULEE"], soiree' = PlacesRendues(1),
              UNCHANGED <<formules, doubles>>
       PROVE  soiree'.places = N' + M'
  <2>1. \A u \in Tickets : /\ lignes'[u].statut = IF u = t THEN "ANNULEE" ELSE lignes[u].statut
                           /\ lignes'[u].choix = lignes[u].choix
    BY <1>15, StatutEcrit
  <2>2. Actifs' = Actifs \ {t}
    BY <2>1 DEF Actifs
  <2>3. N' = N - 1 /\ N >= 1
    BY <1>15, <2>2, UnActif
  <2>4. soiree'.places = IF soiree.places > 1 THEN soiree.places - 1 ELSE 0
    BY <1>4, <1>15, PlacesType
  <2>. QED BY <1>1, <1>2, <1>3, <1>4, <1>5, <1>15, <2>3, <2>4
<1>16. ASSUME NEW t \in Tickets, AnnulerBillet(t) PROVE soiree'.places = N' + M'
  BY <1>15, <1>16 DEF AnnulerBillet, Actifs
<1>17. ASSUME NEW s \in suites, RefermerBillet(s) PROVE soiree'.places = N' + M'
  <2>1. s.ticket \in Tickets
    BY DEF TypeGroupe
  <2>2. CASE lignes[s.ticket].statut = "EN_ATTENTE"
    BY <1>15, <1>17, <2>1, <2>2 DEF RefermerBillet, Actifs
  <2>3. CASE lignes[s.ticket].statut # "EN_ATTENTE"
    BY <1>1, <1>5, <1>6, <1>17, <2>3 DEF RefermerBillet
  <2>. QED BY <2>2, <2>3
<1>18. ASSUME NEW s \in suites, RouvrirBilletPaye(s) PROVE soiree'.places = N' + M'
  <2>1. s.ticket \in Tickets /\ UNCHANGED <<formules, doubles>>
    BY <1>18 DEF TypeGroupe, RouvrirBilletPaye
  <2>2. CASE Rouvrable(s)
    <3>1. lignes[s.ticket].statut = "ANNULEE" /\ Valider(s.ticket)
          /\ soiree'.places = soiree.places + 1
      BY <1>4, <1>18, <2>2 DEF RouvrirBilletPaye, Rouvrable, Evenement
    <3>2. \A u \in Tickets :
             /\ lignes'[u].statut = IF u = s.ticket THEN "CONFIRMEE" ELSE lignes[u].statut
             /\ lignes'[u].choix = lignes[u].choix
      BY <2>1, <3>1, StatutEcrit DEF Valider
    <3>3. s.ticket \notin Actifs /\ Actifs' = Actifs \cup {s.ticket}
      BY <2>1, <3>1, <3>2 DEF Actifs
    <3>4. N' = N + 1
      BY <2>1, <3>3, UnActif
    <3>. QED BY <1>1, <1>2, <1>3, <1>5, <2>1, <3>1, <3>4
  <2>3. CASE ~Rouvrable(s)
    BY <1>1, <1>5, <1>6, <1>18, <2>1, <2>3 DEF RouvrirBilletPaye
  <2>. QED BY <2>2, <2>3
<1>19. ASSUME \/ \E s \in suites : ConfirmerBillet(s)
              \/ \E f \in Formules : DefairePreuve(f)
              \/ \E t \in Tickets : Accueillir(t)
              \/ EcrireReponses
       PROVE  soiree'.places = N' + M'
  <2>1. UNCHANGED <<soiree, formules, doubles>>
    BY <1>19 DEF ConfirmerBillet, DefairePreuve, Accueillir, EcrireReponses
  <2>2. Actifs' = Actifs
    BY <1>19, ActifsMemes
  <2>. QED BY <1>1, <1>5, <2>1, <2>2
<1>20. ASSUME \/ \E f \in Formules :
                   \/ \E e \in {"PAYE", "REFUSE"} : PayerGroupe(f, e)
                   \/ \E s \in {"COMPLETE", "ECHOUE"} : TrancherGroupe(f, s)
              \/ \E t \in Tickets : \E c \in Choix \cup {SansChoix} : LireReponses(t, c)
              \/ Publier \/ Archiver \/ Passe
              \/ \E e \in Editions : LireEdition(e)
              \/ EcrireEdition \/ LireSuppression
              \/ UNCHANGED varsGroupe
       PROVE  soiree'.places = N' + M'
  <2>1. UNCHANGED <<lignes, formules, doubles>>
    BY <1>20 DEF PayerGroupe, TrancherGroupe, LireReponses, Publier, Archiver, Passe, LireEdition,
       EcrireEdition, LireSuppression, varsGroupe
  <2>2. soiree'.places = soiree.places
    <3>1. \/ UNCHANGED soiree
          \/ Publier \/ Archiver \/ Passe \/ EcrireEdition
      BY <1>20 DEF PayerGroupe, TrancherGroupe, LireReponses, LireEdition, LireSuppression, varsGroupe
    <3>. QED BY <1>4, <3>1 DEF Publier, Archiver, Passe, EcrireEdition, Evenement
  <2>. QED BY <1>1, <1>5, <1>6, <2>1, <2>2
<1>21. ~SupprimerEvenement
  BY <1>4 DEF SupprimerEvenement, Evenement
<1>. QED BY <1>7, <1>8, <1>10, <1>11, <1>12, <1>13, <1>14, <1>16, <1>17, <1>18, <1>19, <1>20, <1>21
         DEF NextGroupe

------------------------------------------------------------------------------
(* The theorems about Groupe.                                              *)

LEMMA InvariantGroupeInit == InitGroupe => IInvGroupe
<1>. SUFFICES ASSUME InitGroupe PROVE IInvGroupe
  OBVIOUS
<1>1. \A t \in Tickets : lignes[t] = SansTicket
  BY DEF InitGroupe
<1>2. \A f \in Formules : formules[f] = Repos
  BY DEF InitGroupe
<1>3. Actifs = {} /\ Ecrites = {}
  BY <1>1 DEF Actifs, Ecrites, SansTicket
<1>4. PICK e \in Editions, g \in GratuitsPossibles :
        soiree = [statut |-> "BROUILLON", capacite |-> e.capacite, options |-> e.options,
                  places |-> 0, saison |-> "avant", gratuits |-> g]
  BY DEF InitGroupe
<1>5. TypeGroupe
  <2>1. soiree \in Evenement
    BY <1>4, EditionsAssumption DEF Evenement, Saisons
  <2>2. SansTicket \in LigneGroupe
    BY DEF SansTicket, LigneGroupe
  <2>. QED BY <2>1, <2>2 DEF TypeGroupe, InitGroupe, Repos
<1>6. LignesDesDemandes
  BY <1>2, <1>3 DEF LignesDesDemandes, Repos
<1>7. OptionsLues
  BY <1>2 DEF OptionsLues, InitGroupe, Repos
<1>8. \A c : Utilisations(c, <<>>) = {}
  BY <1>3 DEF Utilisations
<1>9. TaillesTenues
  <2>1. ASSUME NEW c \in soiree.options.offerts
        PROVE  Cardinality(Utilisations(c, <<>>)) <= soiree.options.stock[c]
    <3>1. Cardinality(Utilisations(c, <<>>)) = 0
      BY <1>8, FS_EmptySet
    <3>2. soiree.options.stock[c] \in Nat
      BY <1>5, TicketsFinis DEF TypeGroupe, Evenement, Options
    <3>. QED BY <3>1, <3>2
  <2>. QED BY <2>1 DEF TaillesTenues
<1>10. CompteGroupe
  <2>1. MainsDuGroupe = {}
    BY <1>2, InscritsFinis DEF MainsDuGroupe, EnMainDe, Repos
  <2>2. Cardinality(Actifs) = 0 /\ Cardinality(MainsDuGroupe) = 0
    BY <1>3, <2>1, FS_EmptySet
  <2>. QED BY <1>4, <2>2 DEF CompteGroupe, MainsDuGroupe
<1>11. UneDemande
  BY <1>2, <1>3 DEF UneDemande, EnCours, Repos
<1>. QED BY <1>5, <1>6, <1>7, <1>9, <1>10, <1>11 DEF IInvGroupe

\* The invariant holds in every state: rows, sizes, places and people.
THEOREM InvariantGroupe == SpecGroupe => []IInvGroupe
<1>1. IInvGroupe /\ [NextGroupe]_varsGroupe => IInvGroupe'
  <2>. SUFFICES ASSUME IInvGroupe, [NextGroupe]_varsGroupe PROVE IInvGroupe'
    OBVIOUS
  <2>1. TypeGroupe'
    BY TypeGroupePreserve DEF IInvGroupe
  <2>. QED BY <2>1, LignesPreserve, OptionsPreserve, TaillesPreserve, CompteGroupePreserve,
              UneDemandePreserve DEF IInvGroupe
<1>. QED BY <1>1, InvariantGroupeInit, PTL DEF SpecGroupe

\* No size is given more often than its stock, whatever registrations, changes of
\* mind and reopenings meet, unless the event was saved during one of them.
THEOREM TaillesToujoursTenues == SpecGroupe => []TaillesTenues
<1>1. IInvGroupe => TaillesTenues
  BY DEF IInvGroupe
<1>. QED BY <1>1, InvariantGroupe, PTL

\* One person has one active ticket, unless two requests looked at their tickets at
\* once or one did not see a ticket behind a later one.
THEOREM UnBilletToujours == SpecGroupe => []UnBilletParPersonne
<1>1. IInvGroupe => UnBilletParPersonne
  <2>. SUFFICES ASSUME IInvGroupe, NEW p \in Inscrits \ croises
                PROVE  Cardinality({t \in Actifs : t[2] = p}) <= 1
    BY DEF UnBilletParPersonne
  <2>. DEFINE siens == {t \in Actifs : t[2] = p}
  <2>1. \A t, u \in siens : t = u
    BY DEF IInvGroupe, UneDemande
  <2>2. CASE siens = {}
    BY <2>2, FS_EmptySet
  <2>3. ASSUME NEW t \in siens PROVE Cardinality(siens) <= 1
    <3>1. siens = {t}
      BY <2>1, <2>3
    <3>. QED BY <3>1, FS_Singleton
  <2>. QED BY <2>2, <2>3
<1>. QED BY <1>1, InvariantGroupe, PTL

\* A request for a group ends with everybody's row or nobody's, and the places
\* counted are the active tickets and those requests hold.
THEOREM GroupeToujoursEntier == SpecGroupe => []GroupeEntier
<1>1. IInvGroupe => ToutOuRien
  <2>. SUFFICES ASSUME IInvGroupe, soiree.statut # "SUPPRIME", NEW f \in Formules
                PROVE  /\ formules[f].pc = "faite" => \A p \in formules[f].pour : <<f, p>> \in Ecrites
                       /\ formules[f].pc = "refusee" => \A p \in Inscrits : <<f, p>> \notin Ecrites
    BY DEF ToutOuRien
  <2>1. \A p \in Inscrits : <<f, p>> \in Ecrites <=> formules[f].pc # "repos" /\ p \in formules[f].faites
    BY DEF IInvGroupe, LignesDesDemandes
  <2>2. formules[f].pc = "faite" => /\ formules[f].faites = formules[f].pour
                                    /\ formules[f].pour \subseteq Inscrits
    BY EnMainValeur DEF IInvGroupe, TypeGroupe, Coherente, PasEcrits
  <2>3. formules[f].pc = "refusee" => formules[f].faites = {}
    BY DEF IInvGroupe, TypeGroupe, Coherente
  <2>. QED BY <2>1, <2>2, <2>3
<1>2. IInvGroupe => CompteGroupe
  BY DEF IInvGroupe
<1>3. IInvGroupe => GroupeEntier
  BY <1>1, <1>2 DEF GroupeEntier
<1>. QED BY <1>3, InvariantGroupe, PTL

==============================================================================

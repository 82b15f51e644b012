--------------------------- MODULE CotisationProofs ---------------------------
(***************************************************************************)
(* What the contribution keeps for every number of payments, proofs and    *)
(* requests in flight, and every amount due: its types, and that money is  *)
(* credited once, on evidence, and never lost.                             *)
(***************************************************************************)
EXTENDS Cotisation, JournalProofs, Sommes

------------------------------------------------------------------------------
(* Types.                                                                  *)

EtapesReglement ==
  {"ouvrir", "initier", "abandonner", "refermer", "controler", "deposer",
   "expirer", "appliquer", "lire", "crediter", "incrementer", "relire",
   "solder", "echouer"}

EtapesPreuve ==
  {"marquer", "certifier", "appliquer", "lire", "crediter", "incrementer",
   "relire", "solder", "echouer", "verifier", "defaire", "retirer", "rouvrir"}

\* A request is in one of four forms, which its step tells apart.
LEMMA Formes ==
  ASSUME TypeOK, NEW t \in Taches
  PROVE  /\ taches[t] \in Ouverture \cup SurReglement \cup SurPreuve \cup {Libre}
         /\ taches[t] \in SurReglement => taches[t].pc \in EtapesReglement
         /\ taches[t] \in SurPreuve => taches[t].pc \in EtapesPreuve
         /\ taches[t].pc = "libre" <=> taches[t] = Libre
         /\ taches[t].pc = "engager" <=> taches[t] \in Ouverture
         /\ taches[t].pc \in EtapesReglement \ EtapesPreuve => taches[t] \in SurReglement
         /\ taches[t].pc \in EtapesPreuve \ EtapesReglement => taches[t] \in SurPreuve
         /\ taches[t].pc \in EtapesReglement \cup EtapesPreuve
              => taches[t] \in SurReglement \cup SurPreuve
<1>1. taches[t] \in Ouverture \cup SurReglement \cup SurPreuve \cup {Libre}
  BY DEF TypeOK
<1>2. taches[t] \in Ouverture => taches[t].pc = "engager"
  BY DEF Ouverture
<1>3. taches[t] \in SurReglement => taches[t].pc \in EtapesReglement
  BY DEF SurReglement, EtapesReglement
<1>4. taches[t] \in SurPreuve => taches[t].pc \in EtapesPreuve
  BY DEF SurPreuve, EtapesPreuve
<1>5. taches[t] = Libre => taches[t].pc = "libre"
  BY DEF Libre
<1>. QED BY <1>1, <1>2, <1>3, <1>4, <1>5 DEF EtapesReglement, EtapesPreuve

\* What a request on a payment or on a proof carries, and still is when it goes on.
LEMMA ChampsReglement ==
  ASSUME NEW k \in SurReglement
  PROVE  /\ k.ref \in References /\ k.issue \in Statuts /\ k.montant \in Nat
         /\ k.op \in {"payer", "justifier", "deposer", "issue", "abandonner"}
         /\ \A e \in EtapesReglement : [k EXCEPT !.pc = e] \in SurReglement
         /\ \A e \in EtapesReglement, m \in Nat :
              [k EXCEPT !.pc = e, !.montant = m] \in SurReglement
BY DEF SurReglement, EtapesReglement

LEMMA ChampsPreuve ==
  ASSUME NEW k \in SurPreuve
  PROVE  /\ k.ref \in References /\ k.issue \in Statuts /\ k.montant \in Nat
         /\ k.op \in {"valider", "refuser", "annuler"} /\ k.preuve \in Preuves
         /\ \A e \in EtapesPreuve : [k EXCEPT !.pc = e] \in SurPreuve
         /\ \A e \in EtapesPreuve, m \in Nat :
              [k EXCEPT !.pc = e, !.montant = m] \in SurPreuve
BY DEF SurPreuve, EtapesPreuve

\* Only the step of a request, and the amount it carries, ever change.
LEMMA ChampsSuivis ==
  ASSUME NEW k \in SurReglement \cup SurPreuve, NEW e, NEW m
  PROVE  /\ [k EXCEPT !.pc = e].pc = e
         /\ [k EXCEPT !.pc = e].op = k.op
         /\ [k EXCEPT !.pc = e].ref = k.ref
         /\ [k EXCEPT !.pc = e].issue = k.issue
         /\ [k EXCEPT !.pc = e].montant = k.montant
         /\ [k EXCEPT !.pc = e].preuve = k.preuve
         /\ [k EXCEPT !.pc = e, !.montant = m].pc = e
         /\ [k EXCEPT !.pc = e, !.montant = m].op = k.op
         /\ [k EXCEPT !.pc = e, !.montant = m].ref = k.ref
         /\ [k EXCEPT !.pc = e, !.montant = m].issue = k.issue
         /\ [k EXCEPT !.pc = e, !.montant = m].montant = m
         /\ [k EXCEPT !.pc = e, !.montant = m].preuve = k.preuve
BY DEF SurReglement, SurPreuve

Tache == Ouverture \cup SurReglement \cup SurPreuve \cup {Libre}

\* A request goes on, from one of its steps to another, or ends.
LEMMA TacheAvance ==
  ASSUME TypeOK, NEW t \in Taches
  PROVE  /\ Liberer(t) => taches' \in [Taches -> Tache]
         /\ \A e \in EtapesReglement :
              taches[t].pc \in EtapesReglement \ EtapesPreuve /\ Aller(t, e)
                => taches' \in [Taches -> Tache]
         /\ \A e \in EtapesPreuve :
              taches[t].pc \in EtapesPreuve \ EtapesReglement /\ Aller(t, e)
                => taches' \in [Taches -> Tache]
         /\ \A e \in EtapesReglement \cap EtapesPreuve :
              taches[t].pc \in EtapesReglement \cup EtapesPreuve /\ Aller(t, e)
                => taches' \in [Taches -> Tache]
<1>1. taches \in [Taches -> Tache]
  BY DEF TypeOK, Tache
<1>2. Liberer(t) => taches' \in [Taches -> Tache]
  BY <1>1 DEF Liberer, Tache
<1>3. ASSUME NEW e, [taches[t] EXCEPT !.pc = e] \in SurReglement \cup SurPreuve, Aller(t, e)
      PROVE  taches' \in [Taches -> Tache]
  BY <1>1, <1>3 DEF Aller, Tache
<1>4. ASSUME NEW e \in EtapesReglement, Aller(t, e),
             taches[t].pc \in EtapesReglement \ EtapesPreuve
      PROVE  taches' \in [Taches -> Tache]
  <2>1. taches[t] \in SurReglement
    BY <1>4, Formes
  <2>. QED BY <1>3, <1>4, <2>1, ChampsReglement
<1>5. ASSUME NEW e \in EtapesPreuve, Aller(t, e),
             taches[t].pc \in EtapesPreuve \ EtapesReglement
      PROVE  taches' \in [Taches -> Tache]
  <2>1. taches[t] \in SurPreuve
    BY <1>5, Formes
  <2>. QED BY <1>3, <1>5, <2>1, ChampsPreuve
<1>6. ASSUME NEW e \in EtapesReglement \cap EtapesPreuve, Aller(t, e),
             taches[t].pc \in EtapesReglement \cup EtapesPreuve
      PROVE  taches' \in [Taches -> Tache]
  <2>1. taches[t] \in SurReglement \cup SurPreuve
    BY <1>6, Formes
  <2>. QED BY <1>3, <1>6, <2>1, ChampsPreuve, ChampsReglement
<1>. QED BY <1>2, <1>4, <1>5, <1>6

\* The payment a request is about.
LEMMA RefDe ==
  ASSUME TypeOK, NEW t \in Taches,
         taches[t].pc \in EtapesReglement \cup EtapesPreuve
  PROVE  /\ taches[t] \in SurReglement \cup SurPreuve
         /\ taches[t].ref \in References
         /\ taches[t].issue \in Statuts
         /\ taches[t].montant \in Nat
<1>1. taches[t] \in SurReglement \cup SurPreuve
  BY Formes
<1>. QED BY <1>1, ChampsReglement, ChampsPreuve

LEMMA TypeMarquer ==
  ASSUME TypeOK, NEW r \in References, NEW s \in Statuts
  PROVE  /\ Marquer(r, s) => reglements' \in [References -> Reglement]
         /\ \A m \in Nat : [reglements EXCEPT ![r].statut = s, ![r].montant = m]
                             \in [References -> Reglement]
<1>1. reglements \in [References -> Reglement] /\ reglements[r] \in Reglement
  BY DEF TypeOK
<1>2. [reglements[r] EXCEPT !.statut = s] \in Reglement
  BY <1>1 DEF Reglement
<1>3. \A m \in Nat : [reglements[r] EXCEPT !.statut = s, !.montant = m] \in Reglement
  BY <1>1 DEF Reglement
<1>. QED BY <1>1, <1>2, <1>3 DEF Marquer

LEMMA TypeEngagement ==
  ASSUME TypeOK, NEW t \in Taches, Engagement(t)
  PROVE  TypeOK'
<1>. USE DEF TypeOK
<1>1. taches \in [Taches -> Tache]
  BY DEF Tache
<1>2. ASSUME NEW op \in {"payer", "justifier"}, Commencer(t, op) PROVE TypeOK'
  <2>1. [op |-> op, pc |-> "engager", montant |-> montantRegle] \in Ouverture
    BY DEF Ouverture
  <2>. QED BY <1>2, <2>1 DEF Commencer, JournalTypeOK
<1>3. ASSUME NEW r \in References, NEW m \in 1 .. Du, Engager(t, r, m) PROVE TypeOK'
  <2>1. taches[t] \in Ouverture
    BY <1>3, Formes DEF Engager
  <2>2. EnVol(taches[t].op, "ouvrir", r, "EN_ATTENTE") \in SurReglement
    BY <2>1 DEF EnVol, Ouverture, SurReglement, Statuts
  <2>3. taches' \in [Taches -> Tache]
    BY <1>1, <1>3, <2>2 DEF Engager, Tache
  <2>4. m \in Nat
    BY DuAssumption
  <2>5. reglements' \in [References -> Reglement]
    BY <1>3, <2>4 DEF Engager, Reglement, Statuts
  <2>. QED BY <1>3, <2>3, <2>5 DEF Engager, JournalTypeOK, Tache
<1>4. ASSUME EngagerRefuse(t) PROVE TypeOK'
  BY <1>4, TacheAvance DEF EngagerRefuse, JournalTypeOK, Tache
<1>5. ASSUME OuvrirReglement(t) PROVE TypeOK'
  <2>1. taches[t].ref \in References
    BY <1>5, RefDe DEF OuvrirReglement, EtapesReglement
  <2>2. JournalTypeOK'
    BY <1>5, <2>1, JournalType DEF OuvrirReglement
  <2>3. taches' \in [Taches -> Tache]
    BY <1>5, TacheAvance DEF OuvrirReglement, EtapesReglement, EtapesPreuve
  <2>. QED BY <1>5, <2>2, <2>3 DEF OuvrirReglement, Tache
<1>6. ASSUME Initier(t) PROVE TypeOK'
  <2>1. taches[t].ref \in References
    BY <1>6, RefDe DEF Initier, EtapesReglement
  <2>2. JournalTypeOK'
    BY <1>6, <2>1, JournalType DEF Initier
  <2>3. taches' \in [Taches -> Tache]
    BY <1>6, TacheAvance DEF Initier
  <2>. QED BY <1>6, <2>2, <2>3 DEF Initier, Tache
<1>7. ASSUME InitierLeve(t) PROVE TypeOK'
  <2>1. taches' \in [Taches -> Tache]
    BY <1>7, TacheAvance DEF InitierLeve, EtapesReglement, EtapesPreuve
  <2>. QED BY <1>7, <2>1 DEF InitierLeve, Tache, JournalTypeOK
<1>8. ASSUME AbandonnerDemande(t) PROVE TypeOK'
  <2>1. taches[t].ref \in References
    BY <1>8, RefDe DEF AbandonnerDemande, EtapesReglement
  <2>2. JournalTypeOK'
    BY <1>8, <2>1, JournalType DEF AbandonnerDemande
  <2>3. taches' \in [Taches -> Tache]
    BY <1>8, TacheAvance DEF AbandonnerDemande, EtapesReglement, EtapesPreuve
  <2>. QED BY <1>8, <2>2, <2>3 DEF AbandonnerDemande, Tache
<1>9. ASSUME Refermer(t) PROVE TypeOK'
  <2>1. taches[t].ref \in References
    BY <1>9, RefDe DEF Refermer, EtapesReglement
  <2>2. reglements' \in [References -> Reglement]
    BY <1>9, <2>1, TypeMarquer DEF Refermer, Statuts
  <2>3. taches' \in [Taches -> Tache]
    BY <1>9, TacheAvance DEF Refermer
  <2>. QED BY <1>9, <2>2, <2>3 DEF Refermer, Tache, JournalTypeOK
<1>. QED BY <1>2, <1>3, <1>4, <1>5, <1>6, <1>7, <1>8, <1>9 DEF Engagement

LEMMA TypeIssue ==
  ASSUME TypeOK, NEW t \in Taches, Issue(t)
  PROVE  TypeOK'
<1>. USE DEF TypeOK
<1>1. taches \in [Taches -> Tache]
  BY DEF Tache
<1>2. \A r \in References, s \in Statuts :
        /\ EnVol("abandonner", "expirer", r, s) \in SurReglement
        /\ EnVol("issue", "appliquer", r, s) \in SurReglement
        /\ EnVol("deposer", "controler", r, s) \in SurReglement
  BY DEF EnVol, SurReglement
<1>3. ASSUME NEW r \in References, AbandonnerReglement(t, r) PROVE TypeOK'
  BY <1>1, <1>2, <1>3 DEF AbandonnerReglement, JournalTypeOK, Tache, Statuts
<1>4. ASSUME Expirer(t) PROVE TypeOK'
  <2>1. taches[t].ref \in References
    BY <1>4, RefDe DEF Expirer, EtapesReglement
  <2>2. fapshi' \in [References -> EtatsFapshi]
    BY <1>4, <2>1 DEF Expirer, EtatsFapshi
  <2>3. taches' \in [Taches -> Tache]
    BY <1>4, TacheAvance DEF Expirer, EtapesReglement, EtapesPreuve
  <2>. QED BY <1>4, <2>2, <2>3 DEF Expirer, Tache, JournalTypeOK
<1>5. ASSUME NEW r \in References, NEW i \in {"COMPLETE", "ECHOUE"}, RecevoirIssue(t, r, i)
      PROVE  TypeOK'
  <2>1. taches' \in [Taches -> Tache]
    BY <1>1, <1>2, <1>5 DEF RecevoirIssue, Tache, Statuts
  <2>. QED BY <1>5, <2>1 DEF RecevoirIssue, JournalTypeOK, Tache
<1>6. ASSUME AppliquerIssue(t) PROVE TypeOK'
  <2>1. /\ taches[t] \in SurReglement \cup SurPreuve
        /\ taches[t].ref \in References /\ taches[t].issue \in Statuts
    BY <1>6, RefDe DEF AppliquerIssue, EtapesReglement
  <2>2. JournalTypeOK'
    BY <1>6, <2>1, JournalType DEF AppliquerIssue
  <2>3. CASE taches[t].op = "abandonner"
    <3>1. taches[t] \in SurReglement
      BY <2>1, <2>3, ChampsPreuve
    <3>2. [taches[t] EXCEPT !.pc = "refermer"] \in SurReglement
      BY <3>1, ChampsReglement DEF EtapesReglement
    <3>3. taches' = [taches EXCEPT ![t] = [taches[t] EXCEPT !.pc = "refermer"]]
      BY <1>6, <2>3 DEF AppliquerIssue, Aller
    <3>. QED BY <1>1, <1>6, <2>2, <3>2, <3>3 DEF AppliquerIssue, Tache
  <2>4. CASE taches[t].op # "abandonner"
    <3>1. taches' \in [Taches -> Tache]
      BY <1>6, <2>4, TacheAvance DEF AppliquerIssue, EtapesReglement, EtapesPreuve
    <3>. QED BY <1>6, <2>2, <3>1 DEF AppliquerIssue, Tache
  <2>. QED BY <2>3, <2>4
<1>7. ASSUME Lire(t) PROVE TypeOK'
  <2>1. /\ taches[t] \in SurReglement \cup SurPreuve
        /\ taches[t].ref \in References
    BY <1>7, RefDe DEF Lire, EtapesReglement
  <2>. DEFINE r == taches[t].ref
              credit == IF reglements[r].mode = "JUSTIFICATIF"
                        THEN MontantDe(r) ELSE reglements[r].montant
  <2>2. credit \in Nat
    BY <2>1 DEF MontantDe, Reglement
  <2>3. [taches[t] EXCEPT !.pc = "crediter", !.montant = credit] \in SurReglement \cup SurPreuve
    <3>. HIDE DEF credit
    <3>. QED BY <2>1, <2>2, ChampsReglement, ChampsPreuve DEF EtapesReglement, EtapesPreuve
  <2>4. taches' \in [Taches -> Tache]
    <3>1. CASE taches[t].issue = "COMPLETE"
      <4>1. taches' = [taches EXCEPT ![t] =
                         [taches[t] EXCEPT !.pc = "crediter", !.montant = credit]]
        BY <1>7, <3>1 DEF Lire
      <4>. HIDE DEF credit
      <4>. QED BY <1>1, <2>3, <4>1 DEF Tache
    <3>2. CASE taches[t].issue # "COMPLETE"
      BY <1>7, <3>2, TacheAvance DEF Lire, EtapesReglement, EtapesPreuve
    <3>. QED BY <3>1, <3>2
  <2>. QED BY <1>7, <2>4 DEF Lire, Tache, JournalTypeOK
<1>8. ASSUME Crediter(t) PROVE TypeOK'
  <2>1. taches[t].ref \in References /\ taches[t].montant \in Nat
    BY <1>8, RefDe DEF Crediter, EtapesReglement
  <2>2. reglements' \in [References -> Reglement]
    BY <1>8, <2>1, TypeMarquer DEF Crediter, Statuts
  <2>3. taches' \in [Taches -> Tache]
    BY <1>8, TacheAvance DEF Crediter, EtapesReglement, EtapesPreuve
  <2>. QED BY <1>8, <2>2, <2>3 DEF Crediter, Tache, JournalTypeOK
<1>9. ASSUME Incrementer(t) PROVE TypeOK'
  <2>1. taches[t].montant \in Nat
    BY <1>9, RefDe DEF Incrementer, EtapesReglement
  <2>2. taches' \in [Taches -> Tache]
    BY <1>9, TacheAvance DEF Incrementer, EtapesReglement, EtapesPreuve
  <2>3. montantRegle' \in Nat
    BY <1>9, <2>1 DEF Incrementer
  <2>. QED BY <1>9, <2>2, <2>3 DEF Incrementer, Tache, JournalTypeOK
<1>10. ASSUME Relire(t) PROVE TypeOK'
  <2>1. taches' \in [Taches -> Tache]
    BY <1>10, TacheAvance DEF Relire, EtapesReglement, EtapesPreuve
  <2>. QED BY <1>10, <2>1 DEF Relire, Tache, JournalTypeOK
<1>11. ASSUME Solder(t) PROVE TypeOK'
  BY <1>11, TacheAvance DEF Solder, Tache, JournalTypeOK
<1>12. ASSUME Echouer(t) PROVE TypeOK'
  <2>1. taches[t].ref \in References
    BY <1>12, RefDe DEF Echouer, EtapesReglement
  <2>2. reglements' \in [References -> Reglement]
    BY <1>12, <2>1, TypeMarquer DEF Echouer, Statuts
  <2>3. taches' \in [Taches -> Tache]
    BY <1>12, TacheAvance DEF Echouer
  <2>. QED BY <1>12, <2>2, <2>3 DEF Echouer, Tache, JournalTypeOK
<1>. QED BY <1>3, <1>4, <1>5, <1>6, <1>7, <1>8, <1>9, <1>10, <1>11, <1>12 DEF Issue

LEMMA TypeJustification ==
  ASSUME TypeOK, NEW t \in Taches, Justification(t)
  PROVE  TypeOK'
<1>. USE DEF TypeOK
<1>1. taches \in [Taches -> Tache]
  BY DEF Tache
<1>2. \A p \in Preuves, m \in Nat :
        /\ SurLaPreuve("valider", "marquer", p, m) \in SurPreuve
        /\ SurLaPreuve("refuser", "marquer", p, m) \in SurPreuve
        /\ SurLaPreuve("annuler", "verifier", p, m) \in SurPreuve
  BY DEF SurLaPreuve, SurPreuve, Preuve, Statuts
<1>3. ASSUME NEW r \in References, Deposer(t, r) PROVE TypeOK'
  <2>1. EnVol("deposer", "controler", r, "EN_ATTENTE") \in SurReglement
    BY DEF EnVol, SurReglement, Statuts
  <2>. QED BY <1>1, <1>3, <2>1 DEF Deposer, Tache, JournalTypeOK
<1>4. ASSUME Controler(t) PROVE TypeOK'
  <2>1. taches' \in [Taches -> Tache]
    BY <1>4, TacheAvance DEF Controler, EtapesReglement, EtapesPreuve
  <2>. QED BY <1>4, <2>1 DEF Controler, Tache, JournalTypeOK
<1>5. ASSUME NEW p \in Preuves, InsererPreuve(t, p) PROVE TypeOK'
  <2>1. taches[t].ref \in References
    BY <1>5, RefDe DEF InsererPreuve, EtapesReglement
  <2>2. preuves' \in [Preuves -> Preuve]
    BY <1>5, <2>1 DEF InsererPreuve, Preuve, Reglement
  <2>3. taches' \in [Taches -> Tache]
    BY <1>5, TacheAvance DEF InsererPreuve
  <2>. QED BY <1>5, <2>2, <2>3 DEF InsererPreuve, Tache, JournalTypeOK
<1>6. ASSUME NEW p \in Preuves, NEW m \in Nat, NEW op \in {"valider", "refuser"},
             Decider(t, op, p, m)
      PROVE  TypeOK'
  <2>1. SurLaPreuve(op, "marquer", p, m) \in Tache
    BY <1>2 DEF Tache
  <2>. QED BY <1>1, <1>6, <2>1 DEF Decider, Tache, JournalTypeOK
<1>7. ASSUME MarquerPreuve(t) PROVE TypeOK'
  <2>1. taches[t] \in SurPreuve
    BY <1>7, Formes DEF MarquerPreuve, EtapesPreuve, EtapesReglement
  <2>2. /\ taches[t].preuve \in Preuves /\ taches[t].montant \in Nat
        /\ taches[t].op \in {"valider", "refuser", "annuler"}
    BY <2>1, ChampsPreuve
  <2>. DEFINE p == taches[t].preuve
              k == taches[t]
  <2>3. /\ [preuves[p] EXCEPT !.statut = "VALIDE", !.recu = k.montant] \in Preuve
        /\ [preuves[p] EXCEPT !.statut = "REFUSE"] \in Preuve
        /\ [preuves[p] EXCEPT !.statut = "EN_ATTENTE", !.recu = 0] \in Preuve
    BY <2>2 DEF Preuve
  <2>4. preuves' \in [Preuves -> Preuve] /\ taches' \in [Taches -> Tache]
    <3>1. CASE k.op = "valider"
      BY <1>7, <2>2, <2>3, <3>1, TacheAvance DEF MarquerPreuve, EtapesPreuve, EtapesReglement
    <3>2. CASE k.op = "refuser"
      BY <1>7, <2>2, <2>3, <3>2, TacheAvance DEF MarquerPreuve, EtapesPreuve, EtapesReglement
    <3>3. CASE k.op = "annuler"
      BY <1>7, <2>2, <2>3, <3>3, TacheAvance DEF MarquerPreuve, EtapesPreuve, EtapesReglement
    <3>. QED BY <2>2, <3>1, <3>2, <3>3
  <2>. QED BY <1>7, <2>4 DEF MarquerPreuve, Tache, JournalTypeOK
<1>8. ASSUME CertifierRecu(t) PROVE TypeOK'
  <2>1. taches[t].ref \in References /\ taches[t].montant \in Nat
    BY <1>8, RefDe DEF CertifierRecu, EtapesPreuve
  <2>2. JournalTypeOK'
    BY <1>8, <2>1, JournalType DEF CertifierRecu, Montants
  <2>3. taches' \in [Taches -> Tache]
    BY <1>8, TacheAvance DEF CertifierRecu, EtapesReglement, EtapesPreuve
  <2>. QED BY <1>8, <2>1, <2>2, <2>3 DEF CertifierRecu, Tache
<1>9. ASSUME NEW p \in Preuves, AnnulerValidation(t, p) PROVE TypeOK'
  <2>1. SurLaPreuve("annuler", "verifier", p, 0) \in Tache
    BY <1>2 DEF Tache
  <2>. QED BY <1>1, <1>9, <2>1 DEF AnnulerValidation, Tache, JournalTypeOK
<1>10. ASSUME VerifierFapshi(t) PROVE TypeOK'
  <2>1. taches' \in [Taches -> Tache]
    BY <1>10, TacheAvance DEF VerifierFapshi, EtapesReglement, EtapesPreuve
  <2>. QED BY <1>10, <2>1 DEF VerifierFapshi, Tache, JournalTypeOK
<1>11. ASSUME Defaire(t) PROVE TypeOK'
  <2>1. taches[t] \in SurPreuve /\ taches[t].ref \in References
    BY <1>11, Formes, ChampsPreuve DEF Defaire, EtapesPreuve, EtapesReglement
  <2>2. reglements[taches[t].ref].montant \in Nat
    BY <2>1 DEF Reglement
  <2>3. [taches[t] EXCEPT !.pc = "retirer", !.montant = reglements[taches[t].ref].montant]
          \in SurPreuve
    BY <2>1, <2>2, ChampsPreuve DEF EtapesPreuve
  <2>4. taches' \in [Taches -> Tache]
    BY <1>1, <1>11, <2>3, TacheAvance DEF Defaire, Tache
  <2>. QED BY <1>11, <2>4 DEF Defaire, Tache, JournalTypeOK
<1>12. ASSUME Retirer(t) PROVE TypeOK'
  <2>1. taches[t] \in SurPreuve
    BY <1>12, Formes DEF Retirer, EtapesPreuve, EtapesReglement
  <2>2. /\ taches[t].ref \in References /\ taches[t].preuve \in Preuves
        /\ taches[t].montant \in Nat
    BY <2>1, ChampsPreuve
  <2>3. preuves[taches[t].preuve].declare \in Nat
    BY <2>2 DEF Preuve
  <2>4. taches' \in [Taches -> Tache]
    BY <1>12, TacheAvance DEF Retirer, EtapesReglement, EtapesPreuve
  <2>5. /\ reglements' \in [References -> Reglement] /\ montantRegle' \in Nat
        /\ participation' \in {"EN_COURS", "SOLDEE"}
    <3>1. CASE /\ reglements[taches[t].ref].statut = "COMPLETE"
               /\ ~(taches[t].montant > montantRegle)
      <4>1. /\ montantRegle' = montantRegle - taches[t].montant
            /\ reglements' = [reglements EXCEPT
                     ![taches[t].ref].statut = "EN_ATTENTE",
                     ![taches[t].ref].montant = preuves[taches[t].preuve].declare]
            /\ participation' = IF montantRegle - taches[t].montant < Du THEN "EN_COURS"
                                ELSE participation
        BY <1>12, <3>1 DEF Retirer
      <4>2. reglements' \in [References -> Reglement]
        BY <2>2, <2>3, <4>1, TypeMarquer DEF Statuts
      <4>3. montantRegle' \in Nat
        BY <2>2, <3>1, <4>1
      <4>. QED BY <4>1, <4>2, <4>3
    <3>2. CASE ~(/\ reglements[taches[t].ref].statut = "COMPLETE"
                 /\ ~(taches[t].montant > montantRegle))
      BY <1>12, <3>2 DEF Retirer
    <3>. QED BY <3>1, <3>2
  <2>. QED BY <1>12, <2>4, <2>5 DEF Retirer, Tache, JournalTypeOK
<1>13. ASSUME RouvrirTransaction(t) PROVE TypeOK'
  <2>1. taches[t] \in SurPreuve
    BY <1>13, Formes DEF RouvrirTransaction, EtapesPreuve, EtapesReglement
  <2>2. taches[t].ref \in References /\ taches[t].preuve \in Preuves
    BY <2>1, ChampsPreuve
  <2>3. preuves[taches[t].preuve].declare \in Nat
    BY <2>2 DEF Preuve
  <2>4. JournalTypeOK'
    BY <1>13, <2>2, JournalType DEF RouvrirTransaction, Montants
  <2>5. taches' \in [Taches -> Tache]
    BY <1>13, TacheAvance DEF RouvrirTransaction, EtapesReglement, EtapesPreuve
  <2>. QED BY <1>13, <2>3, <2>4, <2>5 DEF RouvrirTransaction, Tache
<1>14. 1 .. Du \subseteq Nat /\ 0 \in Nat
  BY DuAssumption
<1>. QED BY <1>3, <1>4, <1>5, <1>6, <1>7, <1>8, <1>9, <1>10, <1>11, <1>12, <1>13, <1>14
         DEF Justification

LEMMA TypeInit == Init => TypeOK
<1>. SUFFICES ASSUME Init PROVE TypeOK
  OBVIOUS
<1>. USE DEF Init
<1>1. JournalTypeOK
  BY DEF JournalInit, JournalTypeOK, LigneAbsente, Ligne, Statuts, Montants
<1>2. reglements \in [References -> Reglement]
  BY DEF Reglement, Statuts
<1>3. preuves \in [Preuves -> Preuve]
  <2>1. ASSUME NEW p \in Preuves PROVE (CHOOSE r \in References : TRUE) \in References
    BY PreuvesAssumption
  <2>. QED BY <2>1 DEF Preuve
<1>. QED BY <1>1, <1>2, <1>3 DEF TypeOK, EtatsFapshi

LEMMA TypeSuite == TypeOK /\ [Next]_vars => TypeOK'
<1>. SUFFICES ASSUME TypeOK, [Next]_vars PROVE TypeOK'
  OBVIOUS
<1>1. ASSUME NEW r \in References, FapshiCree(r) \/ FapshiTranche(r) PROVE TypeOK'
  BY <1>1 DEF FapshiCree, FapshiTranche, TypeOK, EtatsFapshi, JournalTypeOK
<1>2. CASE UNCHANGED vars
  BY <1>2 DEF vars, TypeOK, JournalTypeOK
<1>. QED BY <1>1, <1>2, TypeEngagement, TypeIssue, TypeJustification DEF Next, Fapshi

\* The types of the contribution hold, whatever the requests in flight.
THEOREM TypeCorrect == Spec => []TypeOK
BY TypeInit, TypeSuite, PTL DEF Spec

------------------------------------------------------------------------------
(* What no step takes back.                                                *)

\* A payment keeps its mode, a row of the journal stays, a proof stays with the
\* payment it was submitted for, and the provider does not change its answer.
Evolue ==
  /\ \A r \in References :
       /\ reglements[r].mode # "AUCUN" => reglements'[r].mode = reglements[r].mode
       /\ journal[r].statut # "ABSENTE" => journal'[r].statut # "ABSENTE"
       /\ fapshi[r] # "INCONNUE" => fapshi'[r] # "INCONNUE"
       /\ fapshi[r] \in {"SUCCESSFUL", "FAILED"} => fapshi'[r] = fapshi[r]
  /\ \A p \in Preuves : preuves[p].statut # "ABSENTE"
       => preuves'[p].statut # "ABSENTE" /\ preuves'[p].ref = preuves[p].ref

\* A request moves no other one.
Seul(t) == \A u \in Taches \ {t} : taches'[u] = taches[u]

\* The rows of the journal stay, whichever statement runs.
LEMMA LignesRestent ==
  ASSUME JournalTypeOK, NEW r \in References, NEW q \in References,
         journal[q].statut # "ABSENTE",
         \/ Ouvrir(r) \/ EnregistrerReferenceExterne(r) \/ Abandonner(r)
         \/ \E s \in Statuts : Appliquer(r, s)
         \/ \E m : Rouvrir(r, m) \/ Certifier(r, m)
         \/ UNCHANGED journal
  PROVE  journal'[q].statut # "ABSENTE"
<1>1. CASE q # r
  BY <1>1, JournalAilleurs
<1>2. CASE q = r
  BY <1>2, JournalStatut DEF Statuts
<1>. QED BY <1>1, <1>2

LEMMA EvolutionEngagement ==
  ASSUME TypeOK, NEW t \in Taches, Engagement(t)
  PROVE  Evolue /\ Seul(t)
<1>. USE DEF TypeOK
<1>1. ASSUME NEW op \in {"payer", "justifier"}, Commencer(t, op) PROVE Evolue /\ Seul(t)
  BY <1>1 DEF Commencer, Evolue, Seul
<1>2. ASSUME NEW r \in References, NEW m \in 1 .. Du, Engager(t, r, m) PROVE Evolue /\ Seul(t)
  BY <1>2 DEF Engager, Evolue, Seul
<1>3. ASSUME EngagerRefuse(t) PROVE Evolue /\ Seul(t)
  BY <1>3 DEF EngagerRefuse, Evolue, Seul, Liberer
<1>4. ASSUME OuvrirReglement(t) PROVE Evolue /\ Seul(t)
  <2>1. taches[t].ref \in References
    BY <1>4, RefDe DEF OuvrirReglement, EtapesReglement
  <2>. QED BY <1>4, <2>1, LignesRestent DEF OuvrirReglement, Evolue, Seul, Aller
<1>5. ASSUME Initier(t) PROVE Evolue /\ Seul(t)
  <2>1. taches[t].ref \in References
    BY <1>5, RefDe DEF Initier, EtapesReglement
  <2>. QED BY <1>5, <2>1, LignesRestent DEF Initier, Evolue, Seul, Liberer
<1>6. ASSUME InitierLeve(t) PROVE Evolue /\ Seul(t)
  BY <1>6 DEF InitierLeve, Evolue, Seul, Aller
<1>7. ASSUME AbandonnerDemande(t) PROVE Evolue /\ Seul(t)
  <2>1. taches[t].ref \in References
    BY <1>7, RefDe DEF AbandonnerDemande, EtapesReglement
  <2>. QED BY <1>7, <2>1, LignesRestent DEF AbandonnerDemande, Evolue, Seul, Aller
<1>8. ASSUME Refermer(t) PROVE Evolue /\ Seul(t)
  <2>1. taches[t].ref \in References
    BY <1>8, RefDe DEF Refermer, EtapesReglement
  <2>. QED BY <1>8, <2>1 DEF Refermer, Marquer, Evolue, Seul, Liberer, Reglement
<1>. QED BY <1>1, <1>2, <1>3, <1>4, <1>5, <1>6, <1>7, <1>8 DEF Engagement

LEMMA EvolutionIssue ==
  ASSUME TypeOK, NEW t \in Taches, Issue(t)
  PROVE  Evolue /\ Seul(t)
<1>. USE DEF TypeOK
<1>1. ASSUME NEW r \in References, AbandonnerReglement(t, r) PROVE Evolue /\ Seul(t)
  BY <1>1 DEF AbandonnerReglement, Evolue, Seul
<1>2. ASSUME Expirer(t) PROVE Evolue /\ Seul(t)
  <2>1. taches[t].ref \in References
    BY <1>2, RefDe DEF Expirer, EtapesReglement
  <2>. QED BY <1>2, <2>1 DEF Expirer, Evolue, Seul, Aller
<1>3. ASSUME NEW r \in References, NEW i \in {"COMPLETE", "ECHOUE"}, RecevoirIssue(t, r, i)
      PROVE  Evolue /\ Seul(t)
  BY <1>3 DEF RecevoirIssue, Evolue, Seul
<1>4. ASSUME AppliquerIssue(t) PROVE Evolue /\ Seul(t)
  <2>1. taches[t].ref \in References /\ taches[t].issue \in Statuts
    BY <1>4, RefDe DEF AppliquerIssue, EtapesReglement
  <2>2. Seul(t)
    BY <1>4 DEF AppliquerIssue, Seul, Aller, Liberer
  <2>. QED BY <1>4, <2>1, <2>2, LignesRestent DEF AppliquerIssue, Evolue
<1>5. ASSUME Lire(t) PROVE Evolue /\ Seul(t)
  BY <1>5 DEF Lire, Evolue, Seul, Aller
<1>6. ASSUME Crediter(t) PROVE Evolue /\ Seul(t)
  <2>1. taches[t].ref \in References
    BY <1>6, RefDe DEF Crediter, EtapesReglement
  <2>. QED BY <1>6, <2>1 DEF Crediter, Evolue, Seul, Aller, Reglement
<1>7. ASSUME Incrementer(t) \/ Relire(t) \/ Solder(t) PROVE Evolue /\ Seul(t)
  BY <1>7 DEF Incrementer, Relire, Solder, Evolue, Seul, Aller, Liberer
<1>8. ASSUME Echouer(t) PROVE Evolue /\ Seul(t)
  <2>1. taches[t].ref \in References
    BY <1>8, RefDe DEF Echouer, EtapesReglement
  <2>. QED BY <1>8, <2>1 DEF Echouer, Marquer, Evolue, Seul, Liberer, Reglement
<1>. QED BY <1>1, <1>2, <1>3, <1>4, <1>5, <1>6, <1>7, <1>8 DEF Issue

LEMMA EvolutionJustification ==
  ASSUME TypeOK, NEW t \in Taches, Justification(t)
  PROVE  Evolue /\ Seul(t)
<1>. USE DEF TypeOK
<1>1. ASSUME NEW r \in References, Deposer(t, r) PROVE Evolue /\ Seul(t)
  BY <1>1 DEF Deposer, Evolue, Seul
<1>2. ASSUME Controler(t) PROVE Evolue /\ Seul(t)
  BY <1>2 DEF Controler, Evolue, Seul, Aller, Liberer
<1>3. ASSUME NEW p \in Preuves, InsererPreuve(t, p) PROVE Evolue /\ Seul(t)
  BY <1>3 DEF InsererPreuve, Evolue, Seul, Liberer
<1>4. ASSUME NEW p \in Preuves, NEW m \in Nat, NEW op \in {"valider", "refuser"},
             Decider(t, op, p, m)
      PROVE  Evolue /\ Seul(t)
  BY <1>4 DEF Decider, Evolue, Seul
<1>5. ASSUME MarquerPreuve(t) PROVE Evolue /\ Seul(t)
  <2>1. taches[t] \in SurPreuve
    BY <1>5, Formes DEF MarquerPreuve, EtapesPreuve, EtapesReglement
  <2>2. taches[t].preuve \in Preuves /\ taches[t].op \in {"valider", "refuser", "annuler"}
    BY <2>1, ChampsPreuve
  <2>3. Seul(t)
    BY <1>5, <2>2 DEF MarquerPreuve, Seul, Aller, Liberer
  <2>4. \A p \in Preuves : preuves[p].statut # "ABSENTE"
          => preuves'[p].statut # "ABSENTE" /\ preuves'[p].ref = preuves[p].ref
    <3>1. CASE taches[t].op = "valider"
      BY <1>5, <2>2, <3>1 DEF MarquerPreuve, Preuve
    <3>2. CASE taches[t].op = "refuser"
      BY <1>5, <2>2, <3>2 DEF MarquerPreuve, Preuve
    <3>3. CASE taches[t].op = "annuler"
      BY <1>5, <2>2, <3>3 DEF MarquerPreuve, Preuve
    <3>. QED BY <2>2, <3>1, <3>2, <3>3
  <2>. QED BY <1>5, <2>3, <2>4 DEF MarquerPreuve, Evolue
<1>6. ASSUME CertifierRecu(t) PROVE Evolue /\ Seul(t)
  <2>1. taches[t].ref \in References
    BY <1>6, RefDe DEF CertifierRecu, EtapesPreuve
  <2>. QED BY <1>6, <2>1, LignesRestent DEF CertifierRecu, Evolue, Seul, Aller
<1>7. ASSUME NEW p \in Preuves, AnnulerValidation(t, p) PROVE Evolue /\ Seul(t)
  BY <1>7 DEF AnnulerValidation, Evolue, Seul
<1>8. ASSUME VerifierFapshi(t) PROVE Evolue /\ Seul(t)
  BY <1>8 DEF VerifierFapshi, Evolue, Seul, Aller, Liberer
<1>9. ASSUME Defaire(t) PROVE Evolue /\ Seul(t)
  BY <1>9 DEF Defaire, Evolue, Seul, Liberer
<1>10. ASSUME Retirer(t) PROVE Evolue /\ Seul(t)
  <2>1. taches[t].ref \in References
    BY <1>10, RefDe DEF Retirer, EtapesPreuve
  <2>2. Seul(t)
    BY <1>10 DEF Retirer, Seul, Aller, Liberer
  <2>3. \A r \in References : reglements'[r].mode = reglements[r].mode
    BY <1>10, <2>1 DEF Retirer, Reglement
  <2>. QED BY <1>10, <2>2, <2>3 DEF Retirer, Evolue
<1>11. ASSUME RouvrirTransaction(t) PROVE Evolue /\ Seul(t)
  <2>1. taches[t].ref \in References
    BY <1>11, RefDe DEF RouvrirTransaction, EtapesPreuve
  <2>. QED BY <1>11, <2>1, LignesRestent DEF RouvrirTransaction, Evolue, Seul, Aller
<1>12. 1 .. Du \subseteq Nat /\ 0 \in Nat
  BY DuAssumption
<1>. QED BY <1>1, <1>2, <1>3, <1>4, <1>5, <1>6, <1>7, <1>8, <1>9, <1>10, <1>11, <1>12
         DEF Justification

LEMMA EvolutionFapshi ==
  ASSUME TypeOK, NEW r \in References, FapshiCree(r) \/ FapshiTranche(r)
  PROVE  Evolue
BY DEF TypeOK, FapshiCree, FapshiTranche, Evolue

------------------------------------------------------------------------------
(* The frame: at which steps a request may be, and what it is about.       *)

\* The steps of each request, and the issue it brings.
Legale(op, pc, issue) ==
  \/ /\ op = "payer" /\ issue = "EN_ATTENTE"
     /\ pc \in {"ouvrir", "initier", "abandonner", "refermer"}
  \/ /\ op = "justifier" /\ issue = "EN_ATTENTE"
     /\ pc \in {"ouvrir", "controler", "deposer", "abandonner", "refermer"}
  \/ op = "deposer" /\ issue = "EN_ATTENTE" /\ pc \in {"controler", "deposer"}
  \/ op = "abandonner" /\ issue = "ECHOUE" /\ pc \in {"expirer", "appliquer", "refermer"}
  \/ op \in {"issue", "refuser"} /\ issue = "ECHOUE" /\ pc \in {"appliquer", "lire", "echouer"}
  \/ op = "refuser" /\ issue = "ECHOUE" /\ pc = "marquer"
  \/ /\ op \in {"issue", "valider"} /\ issue = "COMPLETE"
     /\ pc \in {"appliquer", "lire", "crediter", "incrementer", "relire", "solder"}
  \/ op = "valider" /\ issue = "COMPLETE" /\ pc \in {"marquer", "certifier"}
  \/ /\ op = "annuler" /\ issue = "COMPLETE"
     /\ pc \in {"verifier", "defaire", "retirer", "rouvrir", "marquer"}

\* A request names a payment that exists, of the mode it deals with, the proof
\* it decides of is one of that payment, and the row of the journal is there as
\* soon as it is opened.
Placee(t) ==
  LET k == taches[t]
      r == taches[t].ref
  IN  /\ k.pc # "libre" => k.op \in Operations
      /\ k.pc \notin {"libre", "engager"} =>
        /\ Legale(k.op, k.pc, k.issue)
        /\ reglements[r].mode # "AUCUN"
        /\ k.op \in {"payer", "issue", "abandonner"} => reglements[r].mode = "EN_LIGNE"
        /\ k.op = "justifier" => reglements[r].mode = "JUSTIFICATIF"
        /\ k.op \in {"valider", "refuser", "annuler"} =>
             preuves[k.preuve].statut # "ABSENTE" /\ preuves[k.preuve].ref = r
        /\ k.pc = "ouvrir" <=> journal[r].statut = "ABSENTE"

\* A payment whose row is not there yet has nothing else either, and the
\* provider hears only of the payments made on line.
Neuf(r) ==
  /\ reglements[r].mode = "AUCUN" => journal[r].statut = "ABSENTE"
  /\ journal[r].statut = "ABSENTE" =>
       /\ reglements[r].statut = "EN_ATTENTE"
       /\ fapshi[r] = "INCONNUE"
       /\ ~journal[r].ext
       /\ \A p \in Preuves : preuves[p].statut # "ABSENTE" => preuves[p].ref # r
  /\ reglements[r].mode # "EN_LIGNE" => fapshi[r] = "INCONNUE" /\ ~journal[r].ext

\* The request that opens the payment r.
Ouvre(t, r) ==
  /\ taches[t].pc \notin {"libre", "engager"}
  /\ taches[t].op \in {"payer", "justifier"}
  /\ taches[t].ref = r

UneOuverture ==
  \A t, u \in Taches : t # u => \A r \in References : ~(Ouvre(t, r) /\ Ouvre(u, r))

Cadre ==
  /\ TypeOK
  /\ \A t \in Taches : Placee(t)
  /\ \A r \in References : Neuf(r)
  /\ UneOuverture

\* A row that is not there is changed by its opening alone, and only the answer
\* of the provider sets its reference there.
LEMMA LignesAbsentes ==
  ASSUME JournalTypeOK, NEW r \in References, NEW q \in References
  PROVE  /\ \/ EnregistrerReferenceExterne(r) \/ Abandonner(r)
            \/ \E s : Appliquer(r, s)
            \/ \E m : Rouvrir(r, m) \/ Certifier(r, m)
            => (journal[q].statut = "ABSENTE" => journal'[q] = journal[q])
         /\ \/ Abandonner(r) \/ \E s : Appliquer(r, s)
            \/ \E m : Rouvrir(r, m) \/ Certifier(r, m)
            => journal'[q].ext = journal[q].ext
<1>1. CASE q # r
  BY <1>1, JournalAilleurs
<1>2. CASE q = r
  <2>1. journal[r] \in Ligne
    BY DEF JournalTypeOK
  <2>. QED BY <1>2, <2>1 DEF JournalTypeOK, Ligne, EnregistrerReferenceExterne, Abandonner,
                  Appliquer, Rouvrir, Certifier, AbandonnerAffecte, AppliquerAffecte,
                  RouvrirAffecte
<1>. QED BY <1>1, <1>2

\* A request that does not move stays where it may be.
LEMMA PlaceeReste ==
  ASSUME TypeOK, Evolue, NEW u \in Taches, Placee(u), taches'[u] = taches[u],
         taches[u].pc = "ouvrir" => journal'[taches[u].ref].statut = "ABSENTE"
  PROVE  Placee(u)'
<1>. SUFFICES ASSUME taches[u].pc \notin {"libre", "engager"} PROVE Placee(u)'
  BY DEF Placee
<1>1. taches[u] \in SurReglement \cup SurPreuve /\ taches[u].ref \in References
  BY Formes, ChampsReglement, ChampsPreuve DEF Libre
<1>2. taches[u].op \in {"valider", "refuser", "annuler"} => taches[u].preuve \in Preuves
  BY <1>1, ChampsReglement, ChampsPreuve
<1>. QED BY <1>1, <1>2 DEF Placee, Evolue

\* A request that goes on does so along its steps.
LEMMA PlaceeSuit ==
  ASSUME TypeOK, Evolue, NEW t \in Taches, Placee(t),
         taches[t].pc \notin {"libre", "engager"}, taches[t].pc # "ouvrir",
         NEW e, e # "ouvrir", Legale(taches[t].op, e, taches[t].issue),
         \/ Aller(t, e)
         \/ \E m \in Nat : taches' = [taches EXCEPT ![t].pc = e, ![t].montant = m]
  PROVE  Placee(t)' /\ \A r \in References : Ouvre(t, r)' => Ouvre(t, r)
<1>1. taches[t] \in SurReglement \cup SurPreuve /\ taches[t].ref \in References
  BY Formes, ChampsReglement, ChampsPreuve DEF Libre
<1>2. taches[t].op \in {"valider", "refuser", "annuler"} => taches[t].preuve \in Preuves
  BY <1>1, ChampsReglement, ChampsPreuve
<1>3. /\ taches'[t].pc = e /\ taches'[t].op = taches[t].op
      /\ taches'[t].ref = taches[t].ref /\ taches'[t].issue = taches[t].issue
      /\ taches'[t].preuve = taches[t].preuve
  <2>1. taches \in [Taches -> Tache]
    BY DEF TypeOK, Tache
  <2>2. CASE Aller(t, e)
    <3>1. taches'[t] = [taches[t] EXCEPT !.pc = e]
      BY <2>1, <2>2 DEF Aller
    <3>. QED BY <1>1, <3>1, ChampsSuivis
  <2>3. ASSUME NEW m \in Nat, taches' = [taches EXCEPT ![t].pc = e, ![t].montant = m]
        PROVE  /\ taches'[t].pc = e /\ taches'[t].op = taches[t].op
               /\ taches'[t].ref = taches[t].ref /\ taches'[t].issue = taches[t].issue
               /\ taches'[t].preuve = taches[t].preuve
    <3>1. taches'[t] = [taches[t] EXCEPT !.pc = e, !.montant = m]
      BY <2>1, <2>3
    <3>. QED BY <1>1, <3>1, ChampsSuivis
  <2>. QED BY <2>2, <2>3
<1>. QED BY <1>1, <1>2, <1>3 DEF Placee, Evolue, Ouvre

\* A request that ends is nowhere.
LEMMA PlaceeFin ==
  ASSUME TypeOK, NEW t \in Taches, Liberer(t)
  PROVE  Placee(t)' /\ \A r \in References : ~Ouvre(t, r)'
BY DEF TypeOK, Liberer, Placee, Ouvre, Libre

\* What concerns the acting request is enough to go on.
LEMMA CadreSuit ==
  ASSUME Cadre, TypeOK', Evolue, NEW t \in Taches, Seul(t), Placee(t)',
         \A r \in References : Ouvre(t, r)' => Ouvre(t, r),
         \A u \in Taches \ {t} : taches[u].pc = "ouvrir"
            => journal'[taches[u].ref].statut = "ABSENTE",
         \A r \in References : Neuf(r)'
  PROVE  Cadre'
<1>1. \A u \in Taches : Placee(u)'
  BY PlaceeReste DEF Cadre, Seul
<1>2. UneOuverture'
  BY DEF Cadre, UneOuverture, Seul, Ouvre
<1>. QED BY <1>1, <1>2 DEF Cadre

\* The rows not opened yet stay so, unless a payment is opened.
LEMMA AbsentesRestent ==
  ASSUME Cadre, NEW r \in References,
         \/ EnregistrerReferenceExterne(r) \/ Abandonner(r)
         \/ \E s : Appliquer(r, s)
         \/ \E m : Rouvrir(r, m) \/ Certifier(r, m)
         \/ UNCHANGED journal
  PROVE  /\ \A u \in Taches : taches[u].pc = "ouvrir"
              => journal'[taches[u].ref].statut = "ABSENTE"
         /\ \A q \in References : journal[q].statut = "ABSENTE" => journal'[q] = journal[q]
<1>1. JournalTypeOK
  BY DEF Cadre, TypeOK
<1>2. \A q \in References : journal[q].statut = "ABSENTE" => journal'[q] = journal[q]
  BY <1>1, LignesAbsentes
<1>3. ASSUME NEW u \in Taches, taches[u].pc = "ouvrir"
      PROVE  journal'[taches[u].ref].statut = "ABSENTE"
  <2>1. taches[u].ref \in References
    BY <1>3, RefDe DEF Cadre, EtapesReglement
  <2>2. journal[taches[u].ref].statut = "ABSENTE"
    BY <1>3 DEF Cadre, Placee
  <2>. QED BY <1>2, <2>1, <2>2
<1>. QED BY <1>2, <1>3

\* What keeps a payment new, or lets it be.
LEMMA NeufSuit ==
  ASSUME NEW r, Neuf(r), reglements'[r].mode = reglements[r].mode,
         journal[r].statut # "ABSENTE" => journal'[r].statut # "ABSENTE",
         journal[r].statut = "ABSENTE" =>
            /\ journal'[r] = journal[r]
            /\ reglements'[r].statut = reglements[r].statut
            /\ fapshi'[r] = fapshi[r]
            /\ \A p \in Preuves : preuves'[p].statut # "ABSENTE" /\ preuves'[p].ref = r
                 => preuves[p].statut # "ABSENTE" /\ preuves[p].ref = r,
         reglements[r].mode # "EN_LIGNE"
           => fapshi'[r] = fapshi[r] /\ journal'[r].ext = journal[r].ext
  PROVE  Neuf(r)'
BY DEF Neuf

LEMMA CadreEngagement ==
  ASSUME Cadre, TypeOK', NEW t \in Taches, Engagement(t)
  PROVE  Cadre'
<1>1. Evolue /\ Seul(t)
  BY EvolutionEngagement DEF Cadre
<1>2. /\ TypeOK /\ JournalTypeOK /\ Placee(t)
      /\ \A r \in References : Neuf(r)
      /\ \A u \in Taches : Placee(u)
  BY DEF Cadre, TypeOK
<1>3. taches \in [Taches -> Tache]
  BY <1>2 DEF TypeOK, Tache
<1>4. ASSUME NEW op \in {"payer", "justifier"}, Commencer(t, op) PROVE Cadre'
  <2>1. taches'[t].pc = "engager" /\ taches'[t].op \in Operations
    BY <1>3, <1>4 DEF Commencer
  <2>2. Placee(t)' /\ \A r \in References : ~Ouvre(t, r)'
    BY <2>1 DEF Placee, Ouvre
  <2>3. \A r \in References : Neuf(r)'
    BY <1>2, <1>4, NeufSuit DEF Commencer
  <2>4. \A u \in Taches : taches[u].pc = "ouvrir"
          => journal'[taches[u].ref].statut = "ABSENTE"
    BY <1>2, <1>4 DEF Commencer, Placee
  <2>. QED BY <1>1, <2>2, <2>3, <2>4, CadreSuit
<1>5. ASSUME NEW r \in References, NEW m \in 1 .. Du, Engager(t, r, m) PROVE Cadre'
  <2>1. taches[t] \in Ouverture
    BY <1>2, <1>5, Formes DEF Engager
  <2>2. taches[t].op \in {"payer", "justifier"}
    BY <2>1 DEF Ouverture
  <2>3. taches'[t] = EnVol(taches[t].op, "ouvrir", r, "EN_ATTENTE")
    BY <1>3, <1>5 DEF Engager
  <2>4. /\ reglements'[r].mode = IF taches[t].op = "payer" THEN "EN_LIGNE" ELSE "JUSTIFICATIF"
        /\ reglements'[r].statut = "EN_ATTENTE"
        /\ \A q \in References \ {r} : reglements'[q] = reglements[q]
    BY <1>2, <1>5 DEF Engager, TypeOK
  <2>5. journal[r].statut = "ABSENTE" /\ reglements[r].mode = "AUCUN" /\ UNCHANGED journal
    BY <1>2, <1>5 DEF Engager, Neuf
  <2>6. Placee(t)'
    <3>1. taches[t].op \in Operations
      BY <1>2, <1>5 DEF Engager, Placee
    <3>. QED BY <2>2, <2>3, <2>4, <2>5, <3>1 DEF Placee, EnVol, Legale
  <2>7. \A q \in References : Neuf(q)'
    BY <1>2, <1>5, <2>4, <2>5 DEF Neuf, Engager
  <2>8. \A u \in Taches \ {t} : Placee(u)'
    <3>1. \A u \in Taches : taches[u].pc = "ouvrir"
            => journal'[taches[u].ref].statut = "ABSENTE"
      BY <1>2, <2>5 DEF Placee
    <3>. QED BY <1>1, <1>2, <3>1, PlaceeReste DEF Seul
  <2>9. \A u \in Taches : ~Ouvre(u, r)
    BY <1>2, <2>5 DEF Placee, Ouvre
  <2>10. UneOuverture'
    <3>1. \A q \in References : Ouvre(t, q)' => q = r
      BY <2>3 DEF Ouvre, EnVol
    <3>2. \A u \in Taches \ {t}, q \in References : Ouvre(u, q)' => Ouvre(u, q)
      BY <1>1 DEF Seul, Ouvre
    <3>. QED BY <2>9, <3>1, <3>2 DEF Cadre, UneOuverture
  <2>. QED BY <2>6, <2>7, <2>8, <2>10 DEF Cadre
<1>6. ASSUME EngagerRefuse(t) PROVE Cadre'
  <2>1. Placee(t)' /\ \A r \in References : ~Ouvre(t, r)'
    BY <1>2, <1>6, PlaceeFin DEF EngagerRefuse
  <2>2. \A r \in References : Neuf(r)'
    BY <1>2, <1>6, NeufSuit DEF EngagerRefuse
  <2>3. \A u \in Taches : taches[u].pc = "ouvrir"
          => journal'[taches[u].ref].statut = "ABSENTE"
    BY <1>2, <1>6 DEF EngagerRefuse, Placee
  <2>. QED BY <1>1, <2>1, <2>2, <2>3, CadreSuit
<1>7. ASSUME OuvrirReglement(t) PROVE Cadre'
  <2>. DEFINE r == taches[t].ref
              e == IF taches[t].op = "payer" THEN "initier" ELSE "controler"
  <2>1. taches[t] \in SurReglement \cup SurPreuve /\ r \in References
    BY <1>2, <1>7, RefDe DEF OuvrirReglement, EtapesReglement
  <2>2. /\ Legale(taches[t].op, "ouvrir", taches[t].issue)
        /\ journal[r].statut = "ABSENTE" /\ reglements[r].mode # "AUCUN"
        /\ taches[t].op \in {"payer", "justifier"}
    BY <1>2, <1>7 DEF OuvrirReglement, Placee, Legale
  <2>3. /\ taches'[t].pc = e /\ taches'[t].op = taches[t].op /\ taches'[t].ref = r
        /\ taches'[t].issue = taches[t].issue
    BY <1>3, <1>7, <2>1, ChampsSuivis DEF OuvrirReglement, Aller
  <2>4. /\ journal'[r].statut = "EN_ATTENTE" /\ ~journal'[r].ext
        /\ \A q \in References \ {r} : journal'[q] = journal[q]
    BY <1>2, <1>7, <2>1, <2>2, JournalAilleurs, JournalStatut
       DEF OuvrirReglement, Ouvrir, JournalTypeOK, LigneAbsente
  <2>5. Placee(t)'
    BY <1>2, <1>7, <2>2, <2>3, <2>4 DEF OuvrirReglement, Placee, Legale
  <2>6. \A q \in References : Neuf(q)'
    BY <1>2, <1>7, <2>2, <2>4 DEF Neuf, OuvrirReglement
  <2>7. Ouvre(t, r)
    BY <1>7, <2>2 DEF Ouvre, OuvrirReglement
  <2>8. \A u \in Taches \ {t} : taches[u].pc = "ouvrir"
          => journal'[taches[u].ref].statut = "ABSENTE"
    <3>. SUFFICES ASSUME NEW u \in Taches \ {t}, taches[u].pc = "ouvrir"
                  PROVE  journal'[taches[u].ref].statut = "ABSENTE"
      OBVIOUS
    <3>1. taches[u].ref \in References
      BY <1>2, RefDe DEF EtapesReglement
    <3>2. /\ taches[u].op \in {"payer", "justifier"}
          /\ journal[taches[u].ref].statut = "ABSENTE"
      BY <1>2 DEF Placee, Legale
    <3>3. Ouvre(u, taches[u].ref)
      BY <3>2 DEF Ouvre
    <3>4. taches[u].ref # r
      BY <2>1, <2>7, <3>1, <3>3 DEF Cadre, UneOuverture
    <3>. QED BY <2>4, <3>1, <3>2, <3>4
  <2>9. \A q \in References : Ouvre(t, q)' => Ouvre(t, q)
    BY <1>7, <2>3 DEF Ouvre, OuvrirReglement
  <2>. QED BY <1>1, <2>5, <2>6, <2>8, <2>9, CadreSuit
<1>8. ASSUME Initier(t) PROVE Cadre'
  <2>. DEFINE r == taches[t].ref
  <2>1. r \in References
    BY <1>2, <1>8, RefDe DEF Initier, EtapesReglement
  <2>2. Placee(t)' /\ \A q \in References : ~Ouvre(t, q)'
    BY <1>2, <1>8, PlaceeFin DEF Initier
  <2>3. reglements[r].mode = "EN_LIGNE"
    BY <1>2, <1>8 DEF Initier, Placee, Legale
  <2>4. /\ \A u \in Taches : taches[u].pc = "ouvrir"
             => journal'[taches[u].ref].statut = "ABSENTE"
        /\ \A q \in References : journal[q].statut = "ABSENTE" => journal'[q] = journal[q]
    BY <1>8, <2>1, AbsentesRestent DEF Initier
  <2>5. \A q \in References \ {r} : journal'[q] = journal[q]
    BY <1>2, <1>8, <2>1, JournalAilleurs DEF Initier
  <2>6. \A q \in References : Neuf(q)'
    BY <1>1, <1>2, <1>8, <2>3, <2>4, <2>5, NeufSuit DEF Initier, Evolue
  <2>. QED BY <1>1, <2>2, <2>4, <2>6, CadreSuit
<1>9. ASSUME InitierLeve(t) PROVE Cadre'
  <2>1. Legale(taches[t].op, "abandonner", taches[t].issue)
    BY <1>2, <1>9 DEF InitierLeve, Placee, Legale
  <2>2. Placee(t)' /\ \A r \in References : Ouvre(t, r)' => Ouvre(t, r)
    BY <1>1, <1>2, <1>9, <2>1, PlaceeSuit DEF InitierLeve
  <2>3. \A r \in References : Neuf(r)'
    BY <1>2, <1>9, NeufSuit DEF InitierLeve
  <2>4. \A u \in Taches : taches[u].pc = "ouvrir"
          => journal'[taches[u].ref].statut = "ABSENTE"
    BY <1>2, <1>9 DEF InitierLeve, Placee
  <2>. QED BY <1>1, <2>2, <2>3, <2>4, CadreSuit
<1>10. ASSUME AbandonnerDemande(t) PROVE Cadre'
  <2>. DEFINE r == taches[t].ref
  <2>1. r \in References
    BY <1>2, <1>10, RefDe DEF AbandonnerDemande, EtapesReglement
  <2>2. Legale(taches[t].op, "refermer", taches[t].issue)
    BY <1>2, <1>10 DEF AbandonnerDemande, Placee, Legale
  <2>3. Placee(t)' /\ \A q \in References : Ouvre(t, q)' => Ouvre(t, q)
    BY <1>1, <1>2, <1>10, <2>2, PlaceeSuit DEF AbandonnerDemande
  <2>4. /\ \A u \in Taches : taches[u].pc = "ouvrir"
             => journal'[taches[u].ref].statut = "ABSENTE"
        /\ \A q \in References : journal[q].statut = "ABSENTE" => journal'[q] = journal[q]
    BY <1>10, <2>1, AbsentesRestent DEF AbandonnerDemande
  <2>5. \A q \in References : journal'[q].ext = journal[q].ext
    BY <1>2, <1>10, <2>1, LignesAbsentes DEF AbandonnerDemande
  <2>6. \A q \in References : Neuf(q)'
    BY <1>1, <1>2, <1>10, <2>4, <2>5, NeufSuit DEF AbandonnerDemande, Evolue
  <2>. QED BY <1>1, <2>3, <2>4, <2>6, CadreSuit
<1>11. ASSUME Refermer(t) PROVE Cadre'
  <2>. DEFINE r == taches[t].ref
  <2>1. r \in References
    BY <1>2, <1>11, RefDe DEF Refermer, EtapesReglement
  <2>2. journal[r].statut # "ABSENTE"
    BY <1>2, <1>11 DEF Refermer, Placee
  <2>3. Placee(t)' /\ \A q \in References : ~Ouvre(t, q)'
    BY <1>2, <1>11, PlaceeFin DEF Refermer
  <2>4. \A u \in Taches : taches[u].pc = "ouvrir"
          => journal'[taches[u].ref].statut = "ABSENTE"
    BY <1>2, <1>11 DEF Refermer, Placee
  <2>5. /\ \A q \in References \ {r} : reglements'[q] = reglements[q]
        /\ reglements'[r].mode = reglements[r].mode
    BY <1>2, <1>11, <2>1 DEF Refermer, Marquer, TypeOK, Reglement
  <2>6. \A q \in References : Neuf(q)'
    BY <1>2, <1>11, <2>2, <2>5, NeufSuit DEF Refermer
  <2>. QED BY <1>1, <2>3, <2>4, <2>6, CadreSuit
<1>. QED BY <1>4, <1>5, <1>6, <1>7, <1>8, <1>9, <1>10, <1>11 DEF Engagement

\* A step that opens no row, sets no reference and changes no mode, and leaves
\* what is not opened alone, keeps the payments as new as they are.
LEMMA NeufsSuivent ==
  ASSUME Cadre, Evolue,
         \A r \in References :
           /\ reglements'[r].mode = reglements[r].mode
           /\ journal'[r].ext = journal[r].ext
           /\ fapshi'[r] = fapshi[r] \/ fapshi[r] # "INCONNUE"
           /\ journal[r].statut = "ABSENTE" => journal'[r] = journal[r]
           /\ reglements'[r] = reglements[r] \/ journal[r].statut # "ABSENTE",
         \A p \in Preuves : preuves'[p].statut # "ABSENTE"
           => \/ preuves[p].statut # "ABSENTE"
              \/ journal[preuves'[p].ref].statut # "ABSENTE"
  PROVE  \A r \in References : Neuf(r)'
BY DEF Cadre, Evolue, Neuf

LEMMA CadreIssue ==
  ASSUME Cadre, TypeOK', NEW t \in Taches, Issue(t)
  PROVE  Cadre'
<1>1. Evolue /\ Seul(t)
  BY EvolutionIssue DEF Cadre
<1>2. /\ TypeOK /\ JournalTypeOK /\ Placee(t)
      /\ \A r \in References : Neuf(r)
      /\ \A u \in Taches : Placee(u)
  BY DEF Cadre, TypeOK
<1>3. taches \in [Taches -> Tache]
  BY <1>2 DEF TypeOK, Tache
<1>. DEFINE ref == taches[t].ref
<1>4. UNCHANGED journal => \A u \in Taches : taches[u].pc = "ouvrir"
                              => journal'[taches[u].ref].statut = "ABSENTE"
  BY <1>2 DEF Placee
<1>5. ASSUME NEW r \in References, AbandonnerReglement(t, r) PROVE Cadre'
  <2>1. taches'[t] = EnVol("abandonner", "expirer", r, "ECHOUE")
    BY <1>3, <1>5 DEF AbandonnerReglement
  <2>2. Placee(t)' /\ \A q \in References : Ouvre(t, q)' => Ouvre(t, q)
    BY <1>5, <2>1 DEF AbandonnerReglement, EnVol, Placee, Legale, Ouvre
  <2>3. \A q \in References : Neuf(q)'
    BY <1>1, <1>5, NeufsSuivent DEF AbandonnerReglement
  <2>. QED BY <1>1, <1>4, <1>5, <2>2, <2>3, CadreSuit DEF AbandonnerReglement
<1>6. ASSUME Expirer(t) PROVE Cadre'
  <2>1. Legale(taches[t].op, "appliquer", taches[t].issue)
    BY <1>2, <1>6 DEF Expirer, Placee, Legale
  <2>2. Placee(t)' /\ \A r \in References : Ouvre(t, r)' => Ouvre(t, r)
    BY <1>1, <1>2, <1>6, <2>1, PlaceeSuit DEF Expirer
  <2>3. ref \in References
    BY <1>2, <1>6, RefDe DEF Expirer, EtapesReglement
  <2>4. \A r \in References : fapshi'[r] = fapshi[r] \/ fapshi[r] # "INCONNUE"
    BY <1>2, <1>6, <2>3 DEF Expirer, TypeOK
  <2>5. \A r \in References : Neuf(r)'
    BY <1>1, <1>6, <2>4, NeufsSuivent DEF Expirer
  <2>. QED BY <1>1, <1>4, <1>6, <2>2, <2>5, CadreSuit DEF Expirer
<1>7. ASSUME NEW r \in References, NEW i \in {"COMPLETE", "ECHOUE"}, RecevoirIssue(t, r, i)
      PROVE  Cadre'
  <2>1. taches'[t] = EnVol("issue", "appliquer", r, i)
    BY <1>3, <1>7 DEF RecevoirIssue
  <2>2. reglements[r].mode = "EN_LIGNE"
    BY <1>2, <1>7 DEF RecevoirIssue, Neuf
  <2>3. Placee(t)' /\ \A q \in References : Ouvre(t, q)' => Ouvre(t, q)
    BY <1>7, <2>1, <2>2 DEF RecevoirIssue, EnVol, Placee, Legale, Ouvre
  <2>4. \A q \in References : Neuf(q)'
    BY <1>1, <1>7, NeufsSuivent DEF RecevoirIssue
  <2>. QED BY <1>1, <1>4, <1>7, <2>3, <2>4, CadreSuit DEF RecevoirIssue
<1>8. ASSUME AppliquerIssue(t) PROVE Cadre'
  <2>1. ref \in References /\ taches[t].issue \in Statuts
    BY <1>2, <1>8, RefDe DEF AppliquerIssue, EtapesReglement
  <2>2. Placee(t)' /\ \A q \in References : Ouvre(t, q)' => Ouvre(t, q)
    <3>1. CASE taches[t].op = "abandonner"
      <4>1. Legale(taches[t].op, "refermer", taches[t].issue)
        BY <1>2, <1>8, <3>1 DEF AppliquerIssue, Placee, Legale
      <4>. QED BY <1>1, <1>2, <1>8, <3>1, <4>1, PlaceeSuit DEF AppliquerIssue
    <3>2. CASE taches[t].op # "abandonner" /\ AppliquerAffecte(ref, taches[t].issue)
      <4>1. Legale(taches[t].op, "lire", taches[t].issue)
        BY <1>2, <1>8, <3>2 DEF AppliquerIssue, Placee, Legale
      <4>. QED BY <1>1, <1>2, <1>8, <3>2, <4>1, PlaceeSuit DEF AppliquerIssue
    <3>3. CASE taches[t].op # "abandonner" /\ ~AppliquerAffecte(ref, taches[t].issue)
      BY <1>2, <1>8, <3>3, PlaceeFin DEF AppliquerIssue
    <3>. QED BY <3>1, <3>2, <3>3
  <2>3. /\ \A u \in Taches : taches[u].pc = "ouvrir"
             => journal'[taches[u].ref].statut = "ABSENTE"
        /\ \A q \in References : journal[q].statut = "ABSENTE" => journal'[q] = journal[q]
    BY <1>8, <2>1, AbsentesRestent DEF AppliquerIssue
  <2>4. \A q \in References : journal'[q].ext = journal[q].ext
    BY <1>2, <1>8, <2>1, LignesAbsentes DEF AppliquerIssue
  <2>5. \A q \in References : Neuf(q)'
    BY <1>1, <1>8, <2>3, <2>4, NeufsSuivent DEF AppliquerIssue
  <2>. QED BY <1>1, <2>2, <2>3, <2>5, CadreSuit
<1>9. ASSUME Lire(t) PROVE Cadre'
  <2>. DEFINE credit == IF reglements[ref].mode = "JUSTIFICATIF"
                        THEN MontantDe(ref) ELSE reglements[ref].montant
  <2>1. ref \in References
    BY <1>2, <1>9, RefDe DEF Lire, EtapesReglement
  <2>2. credit \in Nat
    BY <1>2, <2>1 DEF MontantDe, TypeOK, Reglement
  <2>3. Placee(t)' /\ \A q \in References : Ouvre(t, q)' => Ouvre(t, q)
    <3>1. CASE taches[t].issue = "COMPLETE"
      <4>1. taches' = [taches EXCEPT ![t].pc = "crediter", ![t].montant = credit]
        BY <1>9, <3>1 DEF Lire
      <4>2. Legale(taches[t].op, "crediter", taches[t].issue)
        BY <1>2, <1>9, <3>1 DEF Lire, Placee, Legale
      <4>. HIDE DEF credit
      <4>. QED BY <1>1, <1>2, <1>9, <2>2, <4>1, <4>2, PlaceeSuit DEF Lire
    <3>2. CASE taches[t].issue # "COMPLETE"
      <4>1. Legale(taches[t].op, "echouer", taches[t].issue)
        BY <1>2, <1>9, <3>2 DEF Lire, Placee, Legale
      <4>. QED BY <1>1, <1>2, <1>9, <3>2, <4>1, PlaceeSuit DEF Lire
    <3>. QED BY <3>1, <3>2
  <2>4. \A q \in References : Neuf(q)'
    BY <1>1, <1>9, NeufsSuivent DEF Lire
  <2>. QED BY <1>1, <1>4, <1>9, <2>3, <2>4, CadreSuit DEF Lire
<1>10. ASSUME Crediter(t) PROVE Cadre'
  <2>1. ref \in References
    BY <1>2, <1>10, RefDe DEF Crediter, EtapesReglement
  <2>2. journal[ref].statut # "ABSENTE"
    BY <1>2, <1>10 DEF Crediter, Placee
  <2>3. Legale(taches[t].op, "incrementer", taches[t].issue)
    BY <1>2, <1>10 DEF Crediter, Placee, Legale
  <2>4. Placee(t)' /\ \A r \in References : Ouvre(t, r)' => Ouvre(t, r)
    BY <1>1, <1>2, <1>10, <2>3, PlaceeSuit DEF Crediter
  <2>5. /\ \A q \in References \ {ref} : reglements'[q] = reglements[q]
        /\ reglements'[ref].mode = reglements[ref].mode
    BY <1>2, <1>10, <2>1 DEF Crediter, TypeOK, Reglement
  <2>6. \A q \in References : Neuf(q)'
    BY <1>1, <1>10, <2>2, <2>5, NeufsSuivent DEF Crediter
  <2>. QED BY <1>1, <1>4, <1>10, <2>4, <2>6, CadreSuit DEF Crediter
<1>11. ASSUME Incrementer(t) PROVE Cadre'
  <2>1. Legale(taches[t].op, "relire", taches[t].issue)
    BY <1>2, <1>11 DEF Incrementer, Placee, Legale
  <2>2. Placee(t)' /\ \A r \in References : Ouvre(t, r)' => Ouvre(t, r)
    BY <1>1, <1>2, <1>11, <2>1, PlaceeSuit DEF Incrementer
  <2>3. \A q \in References : Neuf(q)'
    BY <1>1, <1>11, NeufsSuivent DEF Incrementer
  <2>. QED BY <1>1, <1>4, <1>11, <2>2, <2>3, CadreSuit DEF Incrementer
<1>12. ASSUME Relire(t) PROVE Cadre'
  <2>1. Legale(taches[t].op, "solder", taches[t].issue)
    BY <1>2, <1>12 DEF Relire, Placee, Legale
  <2>2. Placee(t)' /\ \A r \in References : Ouvre(t, r)' => Ouvre(t, r)
    BY <1>1, <1>2, <1>12, <2>1, PlaceeSuit, PlaceeFin DEF Relire
  <2>3. \A q \in References : Neuf(q)'
    BY <1>1, <1>12, NeufsSuivent DEF Relire
  <2>. QED BY <1>1, <1>4, <1>12, <2>2, <2>3, CadreSuit DEF Relire
<1>13. ASSUME Solder(t) PROVE Cadre'
  <2>1. Placee(t)' /\ \A r \in References : ~Ouvre(t, r)'
    BY <1>2, <1>13, PlaceeFin DEF Solder
  <2>2. \A q \in References : Neuf(q)'
    BY <1>1, <1>13, NeufsSuivent DEF Solder
  <2>. QED BY <1>1, <1>4, <1>13, <2>1, <2>2, CadreSuit DEF Solder
<1>14. ASSUME Echouer(t) PROVE Cadre'
  <2>1. ref \in References
    BY <1>2, <1>14, RefDe DEF Echouer, EtapesReglement
  <2>2. journal[ref].statut # "ABSENTE"
    BY <1>2, <1>14 DEF Echouer, Placee
  <2>3. Placee(t)' /\ \A r \in References : ~Ouvre(t, r)'
    BY <1>2, <1>14, PlaceeFin DEF Echouer
  <2>4. /\ \A q \in References \ {ref} : reglements'[q] = reglements[q]
        /\ reglements'[ref].mode = reglements[ref].mode
    BY <1>2, <1>14, <2>1 DEF Echouer, Marquer, TypeOK, Reglement
  <2>5. \A q \in References : Neuf(q)'
    BY <1>1, <1>14, <2>2, <2>4, NeufsSuivent DEF Echouer
  <2>. QED BY <1>1, <1>4, <1>14, <2>3, <2>5, CadreSuit DEF Echouer
<1>. QED BY <1>5, <1>6, <1>7, <1>8, <1>9, <1>10, <1>11, <1>12, <1>13, <1>14 DEF Issue

LEMMA CadreJustification ==
  ASSUME Cadre, TypeOK', NEW t \in Taches, Justification(t)
  PROVE  Cadre'
<1>1. Evolue /\ Seul(t)
  BY EvolutionJustification DEF Cadre
<1>2. /\ TypeOK /\ JournalTypeOK /\ Placee(t)
      /\ \A r \in References : Neuf(r)
      /\ \A u \in Taches : Placee(u)
  BY DEF Cadre, TypeOK
<1>3. taches \in [Taches -> Tache]
  BY <1>2 DEF TypeOK, Tache
<1>. DEFINE ref == taches[t].ref
<1>4. UNCHANGED journal => \A u \in Taches : taches[u].pc = "ouvrir"
                              => journal'[taches[u].ref].statut = "ABSENTE"
  BY <1>2 DEF Placee
<1>5. \A p \in Preuves : preuves[p].statut # "ABSENTE" =>
        /\ preuves[p].ref \in References
        /\ journal[preuves[p].ref].statut # "ABSENTE"
        /\ reglements[preuves[p].ref].mode # "AUCUN"
  BY <1>2 DEF TypeOK, Preuve, Neuf
<1>6. ASSUME NEW r \in References, Deposer(t, r) PROVE Cadre'
  <2>1. taches'[t] = EnVol("deposer", "controler", r, "EN_ATTENTE")
    BY <1>3, <1>6 DEF Deposer
  <2>2. reglements[r].mode # "AUCUN"
    BY <1>2, <1>6 DEF Deposer, Neuf
  <2>3. Placee(t)' /\ \A q \in References : Ouvre(t, q)' => Ouvre(t, q)
    BY <1>6, <2>1, <2>2 DEF Deposer, EnVol, Placee, Legale, Ouvre
  <2>4. \A q \in References : Neuf(q)'
    BY <1>1, <1>6, NeufsSuivent DEF Deposer
  <2>. QED BY <1>1, <1>4, <1>6, <2>3, <2>4, CadreSuit DEF Deposer
<1>7. ASSUME Controler(t) PROVE Cadre'
  <2>1. /\ Legale(taches[t].op, "deposer", taches[t].issue)
        /\ taches[t].op = "justifier" => Legale(taches[t].op, "abandonner", taches[t].issue)
    BY <1>2, <1>7 DEF Controler, Placee, Legale
  <2>2. Placee(t)' /\ \A r \in References : Ouvre(t, r)' => Ouvre(t, r)
    <3>1. CASE Aller(t, "deposer")
      BY <1>1, <1>2, <1>7, <2>1, <3>1, PlaceeSuit DEF Controler
    <3>2. CASE taches[t].op = "justifier" /\ Aller(t, "abandonner")
      BY <1>1, <1>2, <1>7, <2>1, <3>2, PlaceeSuit DEF Controler
    <3>3. CASE Liberer(t)
      BY <1>2, <3>3, PlaceeFin
    <3>. QED BY <1>7, <3>1, <3>2, <3>3 DEF Controler
  <2>3. \A q \in References : Neuf(q)'
    BY <1>1, <1>7, NeufsSuivent DEF Controler
  <2>. QED BY <1>1, <1>4, <1>7, <2>2, <2>3, CadreSuit DEF Controler
<1>8. ASSUME NEW p \in Preuves, InsererPreuve(t, p) PROVE Cadre'
  <2>1. ref \in References
    BY <1>2, <1>8, RefDe DEF InsererPreuve, EtapesReglement
  <2>2. journal[ref].statut # "ABSENTE"
    BY <1>2, <1>8 DEF InsererPreuve, Placee
  <2>3. Placee(t)' /\ \A r \in References : ~Ouvre(t, r)'
    BY <1>2, <1>8, PlaceeFin DEF InsererPreuve
  <2>4. preuves'[p].ref = ref /\ \A q \in Preuves \ {p} : preuves'[q] = preuves[q]
    BY <1>2, <1>8 DEF InsererPreuve, TypeOK
  <2>5. \A q \in References : Neuf(q)'
    BY <1>1, <1>8, <2>2, <2>4, NeufsSuivent DEF InsererPreuve
  <2>. QED BY <1>1, <1>4, <1>8, <2>3, <2>5, CadreSuit DEF InsererPreuve
<1>9. ASSUME NEW p \in Preuves, NEW m \in Nat, NEW op \in {"valider", "refuser"},
             Decider(t, op, p, m)
      PROVE  Cadre'
  <2>1. taches'[t] = SurLaPreuve(op, "marquer", p, m)
    BY <1>3, <1>9 DEF Decider
  <2>2. Placee(t)' /\ \A r \in References : Ouvre(t, r)' => Ouvre(t, r)
    BY <1>5, <1>9, <2>1 DEF Decider, SurLaPreuve, Placee, Legale, Ouvre
  <2>3. \A q \in References : Neuf(q)'
    BY <1>1, <1>9, NeufsSuivent DEF Decider
  <2>. QED BY <1>1, <1>4, <1>9, <2>2, <2>3, CadreSuit DEF Decider
<1>10. ASSUME MarquerPreuve(t) PROVE Cadre'
  <2>1. taches[t] \in SurPreuve
    BY <1>2, <1>10, Formes DEF MarquerPreuve, EtapesPreuve, EtapesReglement
  <2>2. /\ taches[t].preuve \in Preuves /\ preuves[taches[t].preuve].statut # "ABSENTE"
        /\ taches[t].op \in {"valider", "refuser", "annuler"}
    BY <1>2, <1>10, <2>1, ChampsPreuve DEF MarquerPreuve, Placee
  <2>3. Placee(t)' /\ \A r \in References : Ouvre(t, r)' => Ouvre(t, r)
    <3>1. CASE taches[t].op = "valider"
      <4>1. Legale(taches[t].op, "certifier", taches[t].issue)
        BY <1>2, <1>10, <3>1 DEF MarquerPreuve, Placee, Legale
      <4>. QED BY <1>1, <1>2, <1>10, <3>1, <4>1, PlaceeSuit DEF MarquerPreuve
    <3>2. CASE taches[t].op = "refuser"
      <4>1. Legale(taches[t].op, "appliquer", taches[t].issue)
        BY <1>2, <1>10, <3>2 DEF MarquerPreuve, Placee, Legale
      <4>. QED BY <1>1, <1>2, <1>10, <3>2, <4>1, PlaceeSuit DEF MarquerPreuve
    <3>3. CASE taches[t].op = "annuler"
      BY <1>2, <1>10, <3>3, PlaceeFin DEF MarquerPreuve
    <3>. QED BY <2>2, <3>1, <3>2, <3>3
  <2>4. \A q \in Preuves \ {taches[t].preuve} : preuves'[q] = preuves[q]
    <3>1. CASE taches[t].op = "valider"
      BY <1>2, <1>10, <2>2, <3>1 DEF MarquerPreuve, TypeOK
    <3>2. CASE taches[t].op = "refuser"
      BY <1>2, <1>10, <2>2, <3>2 DEF MarquerPreuve, TypeOK
    <3>3. CASE taches[t].op = "annuler"
      BY <1>2, <1>10, <2>2, <3>3 DEF MarquerPreuve, TypeOK
    <3>. QED BY <2>2, <3>1, <3>2, <3>3
  <2>5. \A q \in References : Neuf(q)'
    BY <1>1, <1>10, <2>2, <2>4, NeufsSuivent DEF MarquerPreuve
  <2>. QED BY <1>1, <1>4, <1>10, <2>3, <2>5, CadreSuit DEF MarquerPreuve
<1>11. ASSUME CertifierRecu(t) PROVE Cadre'
  <2>1. ref \in References
    BY <1>2, <1>11, RefDe DEF CertifierRecu, EtapesPreuve
  <2>2. Legale(taches[t].op, "appliquer", taches[t].issue)
    BY <1>2, <1>11 DEF CertifierRecu, Placee, Legale
  <2>3. Placee(t)' /\ \A q \in References : Ouvre(t, q)' => Ouvre(t, q)
    BY <1>1, <1>2, <1>11, <2>2, PlaceeSuit DEF CertifierRecu
  <2>4. /\ \A u \in Taches : taches[u].pc = "ouvrir"
             => journal'[taches[u].ref].statut = "ABSENTE"
        /\ \A q \in References : journal[q].statut = "ABSENTE" => journal'[q] = journal[q]
    BY <1>11, <2>1, AbsentesRestent DEF CertifierRecu
  <2>5. \A q \in References : journal'[q].ext = journal[q].ext
    BY <1>2, <1>11, <2>1, LignesAbsentes DEF CertifierRecu
  <2>6. \A q \in References : Neuf(q)'
    BY <1>1, <1>11, <2>4, <2>5, NeufsSuivent DEF CertifierRecu
  <2>. QED BY <1>1, <2>3, <2>4, <2>6, CadreSuit
<1>12. ASSUME NEW p \in Preuves, AnnulerValidation(t, p) PROVE Cadre'
  <2>1. taches'[t] = SurLaPreuve("annuler", "verifier", p, 0)
    BY <1>3, <1>12 DEF AnnulerValidation
  <2>2. Placee(t)' /\ \A r \in References : Ouvre(t, r)' => Ouvre(t, r)
    BY <1>5, <1>12, <2>1 DEF AnnulerValidation, SurLaPreuve, Placee, Legale, Ouvre
  <2>3. \A q \in References : Neuf(q)'
    BY <1>1, <1>12, NeufsSuivent DEF AnnulerValidation
  <2>. QED BY <1>1, <1>4, <1>12, <2>2, <2>3, CadreSuit DEF AnnulerValidation
<1>13. ASSUME VerifierFapshi(t) PROVE Cadre'
  <2>1. Legale(taches[t].op, "defaire", taches[t].issue)
    BY <1>2, <1>13 DEF VerifierFapshi, Placee, Legale
  <2>2. Placee(t)' /\ \A r \in References : Ouvre(t, r)' => Ouvre(t, r)
    BY <1>1, <1>2, <1>13, <2>1, PlaceeSuit, PlaceeFin DEF VerifierFapshi
  <2>3. \A q \in References : Neuf(q)'
    BY <1>1, <1>13, NeufsSuivent DEF VerifierFapshi
  <2>. QED BY <1>1, <1>4, <1>13, <2>2, <2>3, CadreSuit DEF VerifierFapshi
<1>14. ASSUME Defaire(t) PROVE Cadre'
  <2>1. Legale(taches[t].op, "retirer", taches[t].issue)
    BY <1>2, <1>14 DEF Defaire, Placee, Legale
  <2>2. reglements[ref].montant \in Nat
    BY <1>2, <1>14, RefDe DEF Defaire, EtapesPreuve, TypeOK, Reglement
  <2>3. Placee(t)' /\ \A r \in References : Ouvre(t, r)' => Ouvre(t, r)
    <3>1. CASE reglements[ref].mode = "JUSTIFICATIF"
      <4>1. taches' = [taches EXCEPT ![t].pc = "retirer",
                                     ![t].montant = reglements[ref].montant]
        BY <1>14, <3>1 DEF Defaire
      <4>. QED BY <1>1, <1>2, <1>14, <2>1, <2>2, <4>1, PlaceeSuit DEF Defaire
    <3>2. CASE reglements[ref].mode # "JUSTIFICATIF"
      BY <1>2, <1>14, <3>2, PlaceeFin DEF Defaire
    <3>. QED BY <3>1, <3>2
  <2>4. \A q \in References : Neuf(q)'
    BY <1>1, <1>14, NeufsSuivent DEF Defaire
  <2>. QED BY <1>1, <1>4, <1>14, <2>3, <2>4, CadreSuit DEF Defaire
<1>15. ASSUME Retirer(t) PROVE Cadre'
  <2>1. ref \in References
    BY <1>2, <1>15, RefDe DEF Retirer, EtapesPreuve
  <2>2. journal[ref].statut # "ABSENTE"
    BY <1>2, <1>15 DEF Retirer, Placee
  <2>3. Legale(taches[t].op, "rouvrir", taches[t].issue)
    BY <1>2, <1>15 DEF Retirer, Placee, Legale
  <2>4. Aller(t, "rouvrir") \/ Liberer(t)
    BY <1>15 DEF Retirer
  <2>5. Placee(t)' /\ \A r \in References : Ouvre(t, r)' => Ouvre(t, r)
    BY <1>1, <1>2, <1>15, <2>3, <2>4, PlaceeSuit, PlaceeFin DEF Retirer
  <2>6. /\ \A q \in References \ {ref} : reglements'[q] = reglements[q]
        /\ reglements'[ref].mode = reglements[ref].mode
    BY <1>2, <1>15, <2>1 DEF Retirer, TypeOK, Reglement
  <2>7. \A q \in References : Neuf(q)'
    BY <1>1, <1>15, <2>2, <2>6, NeufsSuivent DEF Retirer
  <2>. QED BY <1>1, <1>4, <1>15, <2>5, <2>7, CadreSuit DEF Retirer
<1>16. ASSUME RouvrirTransaction(t) PROVE Cadre'
  <2>1. ref \in References
    BY <1>2, <1>16, RefDe DEF RouvrirTransaction, EtapesPreuve
  <2>2. Legale(taches[t].op, "marquer", taches[t].issue)
    BY <1>2, <1>16 DEF RouvrirTransaction, Placee, Legale
  <2>3. Placee(t)' /\ \A q \in References : Ouvre(t, q)' => Ouvre(t, q)
    BY <1>1, <1>2, <1>16, <2>2, PlaceeSuit DEF RouvrirTransaction
  <2>4. /\ \A u \in Taches : taches[u].pc = "ouvrir"
             => journal'[taches[u].ref].statut = "ABSENTE"
        /\ \A q \in References : journal[q].statut = "ABSENTE" => journal'[q] = journal[q]
    BY <1>16, <2>1, AbsentesRestent DEF RouvrirTransaction
  <2>5. \A q \in References : journal'[q].ext = journal[q].ext
    BY <1>2, <1>16, <2>1, LignesAbsentes DEF RouvrirTransaction
  <2>6. \A q \in References : Neuf(q)'
    BY <1>1, <1>16, <2>4, <2>5, NeufsSuivent DEF RouvrirTransaction
  <2>. QED BY <1>1, <2>3, <2>4, <2>6, CadreSuit
<1>17. 1 .. Du \subseteq Nat /\ 0 \in Nat
  BY DuAssumption
<1>. QED BY <1>6, <1>7, <1>8, <1>9, <1>10, <1>11, <1>12, <1>13, <1>14, <1>15, <1>16, <1>17
         DEF Justification

LEMMA CadreFapshi ==
  ASSUME Cadre, TypeOK', NEW r \in References, FapshiCree(r) \/ FapshiTranche(r)
  PROVE  Cadre'
<1>1. Evolue
  BY EvolutionFapshi DEF Cadre
<1>2. /\ TypeOK /\ \A q \in References : Neuf(q)
      /\ \A u \in Taches : Placee(u)
  BY DEF Cadre
<1>3. \A u \in Taches : Placee(u)'
  <2>1. \A u \in Taches : taches'[u] = taches[u] /\ (taches[u].pc = "ouvrir"
                             => journal'[taches[u].ref].statut = "ABSENTE")
    BY <1>2 DEF FapshiCree, FapshiTranche, Placee
  <2>. QED BY <1>1, <1>2, <2>1, PlaceeReste
<1>4. UneOuverture'
  BY DEF Cadre, UneOuverture, Ouvre, FapshiCree, FapshiTranche
<1>5. \A q \in References : Neuf(q)'
  <2>1. journal[r].statut # "ABSENTE" /\ reglements[r].mode = "EN_LIGNE"
    BY <1>2 DEF FapshiCree, FapshiTranche, Placee, Legale, Neuf
  <2>2. \A q \in References \ {r} : fapshi'[q] = fapshi[q]
    BY <1>2 DEF FapshiCree, FapshiTranche, TypeOK
  <2>. QED BY <1>2, <2>1, <2>2, NeufSuit DEF FapshiCree, FapshiTranche
<1>. QED BY <1>3, <1>4, <1>5 DEF Cadre

LEMMA CadreInit == Init => Cadre
<1>. SUFFICES ASSUME Init PROVE Cadre
  OBVIOUS
<1>1. \A t \in Taches : taches[t].pc = "libre"
  BY DEF Init, Libre
<1>2. (\A t \in Taches : Placee(t)) /\ UneOuverture
  BY <1>1 DEF Placee, UneOuverture, Ouvre
<1>3. \A r \in References : Neuf(r)
  BY DEF Init, JournalInit, LigneAbsente, Neuf
<1>. QED BY <1>2, <1>3, TypeInit DEF Cadre

LEMMA CadreSuite == Cadre /\ [Next]_vars => Cadre'
<1>. SUFFICES ASSUME Cadre, [Next]_vars PROVE Cadre'
  OBVIOUS
<1>1. TypeOK'
  BY TypeSuite DEF Cadre
<1>2. CASE UNCHANGED vars
  BY <1>1, <1>2 DEF vars, Cadre, Placee, Neuf, UneOuverture, Ouvre
<1>. QED BY <1>1, <1>2, CadreEngagement, CadreIssue, CadreJustification, CadreFapshi
         DEF Next, Fapshi

------------------------------------------------------------------------------
(* The status follows the balance.                                         *)

\* Requests come one at a time.
UneALaFois == \A t, u \in Taches : t = u

\* Whoever increments the balance past what is due will read it again, and then
\* write the status, unless another request did.
StatutSuivi ==
  /\ participation = "SOLDEE" => montantRegle >= Du
  /\ montantRegle >= Du => \/ participation = "SOLDEE"
                           \/ \E t \in Taches : taches[t].pc \in {"relire", "solder"}
  /\ \A t \in Taches : taches[t].pc = "solder" => montantRegle >= Du

LEMMA StatutReste ==
  ASSUME StatutSuivi, UNCHANGED <<montantRegle, participation>>,
         \A t \in Taches : /\ taches[t].pc \in {"relire", "solder"} => taches'[t] = taches[t]
                           /\ taches'[t].pc = "solder" => taches'[t] = taches[t]
  PROVE  StatutSuivi'
BY DEF StatutSuivi

\* A request starts.
Depart(t) ==
  \/ \E op \in {"payer", "justifier"} : Commencer(t, op)
  \/ \E r \in References :
       \/ AbandonnerReglement(t, r) \/ Deposer(t, r)
       \/ \E i \in {"COMPLETE", "ECHOUE"} : RecevoirIssue(t, r, i)
  \/ \E p \in Preuves :
       \/ AnnulerValidation(t, p)
       \/ \E op \in {"valider", "refuser"}, m \in Nat : Decider(t, op, p, m)

LEMMA Departs ==
  ASSUME TypeOK, NEW t \in Taches, Depart(t)
  PROVE  /\ taches[t].pc = "libre"
         /\ taches'[t].pc \in {"engager", "expirer", "appliquer", "controler", "marquer", "verifier"}
         /\ \A u \in Taches \ {t} : taches'[u] = taches[u]
         /\ UNCHANGED <<journal, certifies, fapshi, reglements, montantRegle, participation,
                        preuves>>
<1>1. ASSUME NEW op, Commencer(t, op)
      PROVE  /\ taches[t] = Libre /\ taches'[t].pc = "engager"
             /\ \A u \in Taches \ {t} : taches'[u] = taches[u]
  BY <1>1 DEF Commencer, TypeOK
<1>2. ASSUME NEW op, NEW pc, NEW r, NEW i, taches' = [taches EXCEPT ![t] = EnVol(op, pc, r, i)]
      PROVE  taches'[t].pc = pc /\ \A u \in Taches \ {t} : taches'[u] = taches[u]
  BY <1>2 DEF EnVol, TypeOK
<1>3. ASSUME NEW op, NEW pc, NEW p, NEW m, taches' = [taches EXCEPT ![t] = SurLaPreuve(op, pc, p, m)]
      PROVE  taches'[t].pc = pc /\ \A u \in Taches \ {t} : taches'[u] = taches[u]
  BY <1>3 DEF SurLaPreuve, TypeOK
<1>4. taches[t].pc = "libre" <=> taches[t] = Libre
  BY Formes
<1>5. ASSUME NEW r, AbandonnerReglement(t, r)
      PROVE  /\ taches[t] = Libre /\ taches'[t].pc = "expirer"
             /\ \A u \in Taches \ {t} : taches'[u] = taches[u]
  BY <1>2, <1>5 DEF AbandonnerReglement
<1>6. ASSUME NEW r, Deposer(t, r)
      PROVE  /\ taches[t] = Libre /\ taches'[t].pc = "controler"
             /\ \A u \in Taches \ {t} : taches'[u] = taches[u]
  BY <1>2, <1>6 DEF Deposer
<1>7. ASSUME NEW r, NEW i, RecevoirIssue(t, r, i)
      PROVE  /\ taches[t] = Libre /\ taches'[t].pc = "appliquer"
             /\ \A u \in Taches \ {t} : taches'[u] = taches[u]
  BY <1>2, <1>7 DEF RecevoirIssue
<1>8. ASSUME NEW p, AnnulerValidation(t, p)
      PROVE  /\ taches[t] = Libre /\ taches'[t].pc = "verifier"
             /\ \A u \in Taches \ {t} : taches'[u] = taches[u]
  BY <1>3, <1>8 DEF AnnulerValidation
<1>9. ASSUME NEW p, NEW op, NEW m, Decider(t, op, p, m)
      PROVE  /\ taches[t] = Libre /\ taches'[t].pc = "marquer"
             /\ \A u \in Taches \ {t} : taches'[u] = taches[u]
  BY <1>3, <1>9 DEF Decider
<1>10. /\ taches[t] = Libre
       /\ taches'[t].pc \in {"engager", "expirer", "appliquer", "controler", "marquer", "verifier"}
       /\ \A u \in Taches \ {t} : taches'[u] = taches[u]
  BY <1>1, <1>5, <1>6, <1>7, <1>8, <1>9 DEF Depart
<1>11. UNCHANGED <<journal, certifies, fapshi, reglements, montantRegle, participation, preuves>>
  BY DEF Depart, Commencer, AbandonnerReglement, Deposer, RecevoirIssue, AnnulerValidation,
         Decider
<1>. QED BY <1>4, <1>10, <1>11

LEMMA StatutEtape ==
  ASSUME TypeOK, StatutSuivi, [Next]_vars, \A t \in Taches : Placee(t),
         UneALaFois \/ "annuler" \notin Operations
  PROVE  StatutSuivi'
<1>. USE DEF TypeOK
<1>1. \A t \in Taches : \A e : Aller(t, e)
        => /\ taches'[t].pc = e /\ \A u \in Taches \ {t} : taches'[u] = taches[u]
  <2>. SUFFICES ASSUME NEW t \in Taches, NEW e, Aller(t, e)
                PROVE  /\ taches'[t].pc = e /\ \A u \in Taches \ {t} : taches'[u] = taches[u]
    OBVIOUS
  <2>1. taches' = [taches EXCEPT ![t] = [taches[t] EXCEPT !.pc = e]]
    BY DEF Aller
  <2>2. taches[t] \in Tache
    BY DEF Tache
  <2>3. [taches[t] EXCEPT !.pc = e].pc = e
    BY <2>2 DEF Tache, Ouverture, SurReglement, SurPreuve, Libre
  <2>. QED BY <2>1, <2>3
<1>2. \A t \in Taches : Liberer(t)
        => /\ taches'[t].pc = "libre" /\ \A u \in Taches \ {t} : taches'[u] = taches[u]
  BY DEF Liberer, Libre
<1>3. ASSUME NEW t \in Taches, taches[t].pc \notin {"relire", "solder"},
             taches'[t].pc # "solder", \A u \in Taches \ {t} : taches'[u] = taches[u],
             UNCHANGED <<montantRegle, participation>>
      PROVE  StatutSuivi'
  BY <1>3, StatutReste
<1>4. ASSUME NEW t \in Taches, NEW x, taches[t].pc \notin {"relire", "solder"},
             taches' = [taches EXCEPT ![t] = x], x.pc # "solder",
             UNCHANGED <<montantRegle, participation>>
      PROVE  StatutSuivi'
  BY <1>3, <1>4
<1>5. ASSUME NEW t \in Taches, Depart(t) PROVE StatutSuivi'
  <2>1. /\ taches[t].pc \notin {"relire", "solder"} /\ taches'[t].pc # "solder"
        /\ \A u \in Taches \ {t} : taches'[u] = taches[u]
        /\ UNCHANGED <<montantRegle, participation>>
    BY <1>5, Departs
  <2>. QED BY <1>3, <2>1
<1>6. ASSUME NEW t \in Taches, Engagement(t) PROVE StatutSuivi'
  <2>1. ASSUME NEW op \in {"payer", "justifier"}, Commencer(t, op) PROVE StatutSuivi'
    BY <1>5, <2>1 DEF Depart
  <2>2. ASSUME NEW r \in References, NEW m \in 1 .. Du, Engager(t, r, m) PROVE StatutSuivi'
    <3>1. EnVol(taches[t].op, "ouvrir", r, "EN_ATTENTE").pc = "ouvrir"
      BY DEF EnVol
    <3>. QED BY <1>4, <2>2, <3>1 DEF Engager
  <2>3. ASSUME EngagerRefuse(t) \/ Initier(t) \/ Refermer(t) PROVE StatutSuivi'
    BY <1>2, <1>3, <2>3 DEF EngagerRefuse, Initier, Refermer
  <2>4. ASSUME OuvrirReglement(t) \/ InitierLeve(t) \/ AbandonnerDemande(t) PROVE StatutSuivi'
    BY <1>1, <1>3, <2>4 DEF OuvrirReglement, InitierLeve, AbandonnerDemande
  <2>. QED BY <1>6, <2>1, <2>2, <2>3, <2>4 DEF Engagement
<1>7. ASSUME NEW t \in Taches, Incrementer(t) PROVE StatutSuivi'
  <2>1. /\ taches'[t].pc = "relire" /\ taches[t].pc = "incrementer"
        /\ \A u \in Taches \ {t} : taches'[u] = taches[u]
    BY <1>1, <1>7 DEF Incrementer
  <2>2. montantRegle' \in Nat /\ montantRegle' >= montantRegle /\ Du \in Nat
        /\ montantRegle \in Nat
    <3>1. taches[t].montant \in Nat
      BY <1>7, RefDe DEF Incrementer, EtapesReglement
    <3>. QED BY <1>7, <3>1, DuAssumption DEF Incrementer
  <2>3. participation' = participation
    BY <1>7 DEF Incrementer
  <2>. QED BY <2>1, <2>2, <2>3 DEF StatutSuivi
<1>8. ASSUME NEW t \in Taches, Relire(t) PROVE StatutSuivi'
  <2>1. UNCHANGED <<montantRegle, participation>> /\ taches[t].pc = "relire"
    BY <1>8 DEF Relire
  <2>2. CASE montantRegle >= Du /\ participation = "EN_COURS"
    BY <1>1, <1>8, <2>1, <2>2 DEF Relire, StatutSuivi
  <2>3. CASE ~(montantRegle >= Du /\ participation = "EN_COURS")
    BY <1>2, <1>8, <2>1, <2>3 DEF Relire, StatutSuivi
  <2>. QED BY <2>2, <2>3
<1>9. ASSUME NEW t \in Taches, Solder(t) PROVE StatutSuivi'
  BY <1>2, <1>9 DEF Solder, StatutSuivi
<1>10. ASSUME NEW t \in Taches, Issue(t), ~Incrementer(t), ~Relire(t), ~Solder(t)
      PROVE  StatutSuivi'
  <2>1. ASSUME NEW r \in References, AbandonnerReglement(t, r) PROVE StatutSuivi'
    BY <1>5, <2>1 DEF Depart
  <2>2. ASSUME NEW r \in References, NEW i \in {"COMPLETE", "ECHOUE"}, RecevoirIssue(t, r, i)
        PROVE  StatutSuivi'
    BY <1>5, <2>2 DEF Depart
  <2>3. ASSUME Expirer(t) \/ Crediter(t) PROVE StatutSuivi'
    BY <1>1, <1>3, <2>3 DEF Expirer, Crediter
  <2>4. ASSUME AppliquerIssue(t) PROVE StatutSuivi'
    BY <1>1, <1>2, <1>3, <2>4 DEF AppliquerIssue
  <2>5. ASSUME Lire(t) PROVE StatutSuivi'
    <3>. DEFINE r == taches[t].ref
                credit == IF reglements[r].mode = "JUSTIFICATIF"
                          THEN MontantDe(r) ELSE reglements[r].montant
    <3>1. CASE taches[t].issue = "COMPLETE"
      <4>1. taches' = [taches EXCEPT ![t] =
                         [taches[t] EXCEPT !.pc = "crediter", !.montant = credit]]
        BY <2>5, <3>1 DEF Lire
      <4>2. taches[t] \in SurReglement \cup SurPreuve
        BY <2>5, RefDe DEF Lire, EtapesReglement
      <4>3. [taches[t] EXCEPT !.pc = "crediter", !.montant = credit].pc = "crediter"
        <5>. HIDE DEF credit
        <5>. QED BY <4>2, ChampsSuivis
      <4>. HIDE DEF credit
      <4>. QED BY <1>4, <2>5, <4>1, <4>3 DEF Lire
    <3>2. CASE taches[t].issue # "COMPLETE"
      BY <1>1, <1>3, <2>5, <3>2 DEF Lire
    <3>. QED BY <3>1, <3>2
  <2>6. ASSUME Echouer(t) PROVE StatutSuivi'
    BY <1>2, <1>3, <2>6 DEF Echouer
  <2>. QED BY <1>10, <2>1, <2>2, <2>3, <2>4, <2>5, <2>6 DEF Issue
<1>11. ASSUME NEW t \in Taches, Retirer(t) PROVE StatutSuivi'
  <2>1. taches[t].pc = "retirer" /\ taches[t].op = "annuler" /\ taches[t].op \in Operations
    BY <1>11 DEF Retirer, Placee, Legale
  <2>2. \A u \in Taches : u = t
    BY <2>1 DEF UneALaFois
  <2>3. taches'[t].pc # "solder"
    BY <1>1, <1>2, <1>11 DEF Retirer
  <2>4. CASE /\ reglements[taches[t].ref].statut = "COMPLETE"
             /\ ~(taches[t].montant > montantRegle)
    <3>1. /\ montantRegle' = montantRegle - taches[t].montant
          /\ participation' = IF montantRegle - taches[t].montant < Du THEN "EN_COURS"
                              ELSE participation
      BY <1>11, <2>4 DEF Retirer
    <3>2. taches[t].montant \in Nat /\ montantRegle \in Nat /\ Du \in Nat
      BY <1>11, RefDe, DuAssumption DEF Retirer, EtapesPreuve
    <3>3. montantRegle >= Du => participation = "SOLDEE"
      BY <2>1, <2>2 DEF StatutSuivi
    <3>4. /\ participation' = "SOLDEE" => montantRegle' >= Du
          /\ montantRegle' >= Du => participation' = "SOLDEE"
      BY <2>4, <3>1, <3>2, <3>3
    <3>. QED BY <2>2, <2>3, <3>4 DEF StatutSuivi
  <2>5. CASE ~(/\ reglements[taches[t].ref].statut = "COMPLETE"
               /\ ~(taches[t].montant > montantRegle))
    <3>1. UNCHANGED <<montantRegle, participation>>
      BY <1>11, <2>5 DEF Retirer
    <3>. QED BY <2>1, <2>2, <2>3, <3>1, StatutReste
  <2>. QED BY <2>4, <2>5
<1>12. ASSUME NEW t \in Taches, Justification(t), ~Retirer(t) PROVE StatutSuivi'
  <2>1. ASSUME NEW r \in References, Deposer(t, r) PROVE StatutSuivi'
    BY <1>5, <2>1 DEF Depart
  <2>2. ASSUME NEW p \in Preuves, NEW m \in Nat, NEW op \in {"valider", "refuser"},
               Decider(t, op, p, m)
        PROVE  StatutSuivi'
    BY <1>5, <2>2 DEF Depart
  <2>3. ASSUME NEW p \in Preuves, AnnulerValidation(t, p) PROVE StatutSuivi'
    BY <1>5, <2>3 DEF Depart
  <2>4. ASSUME NEW p \in Preuves, InsererPreuve(t, p) PROVE StatutSuivi'
    BY <1>2, <1>3, <2>4 DEF InsererPreuve
  <2>5. ASSUME Controler(t) \/ CertifierRecu(t) \/ VerifierFapshi(t) \/ RouvrirTransaction(t)
        PROVE  StatutSuivi'
    BY <1>1, <1>2, <1>3, <2>5 DEF Controler, CertifierRecu, VerifierFapshi, RouvrirTransaction
  <2>6. ASSUME MarquerPreuve(t) PROVE StatutSuivi'
    <3>1. taches[t].op \in {"valider", "refuser", "annuler"}
      BY <2>6, Formes, ChampsPreuve DEF MarquerPreuve, EtapesPreuve, EtapesReglement
    <3>2. Aller(t, "certifier") \/ Aller(t, "appliquer") \/ Liberer(t)
      BY <2>6, <3>1 DEF MarquerPreuve
    <3>. QED BY <1>1, <1>2, <1>3, <2>6, <3>2 DEF MarquerPreuve
  <2>7. ASSUME Defaire(t) PROVE StatutSuivi'
    <3>. DEFINE m == reglements[taches[t].ref].montant
    <3>1. taches[t] \in SurReglement \cup SurPreuve
      BY <2>7, RefDe DEF Defaire, EtapesPreuve
    <3>2. [taches[t] EXCEPT !.pc = "retirer", !.montant = m].pc = "retirer"
      BY <3>1, ChampsSuivis
    <3>3. CASE reglements[taches[t].ref].mode = "JUSTIFICATIF"
      <4>1. taches' = [taches EXCEPT ![t] = [taches[t] EXCEPT !.pc = "retirer", !.montant = m]]
        BY <2>7, <3>3 DEF Defaire
      <4>. QED BY <1>4, <2>7, <3>2, <4>1 DEF Defaire
    <3>4. CASE reglements[taches[t].ref].mode # "JUSTIFICATIF"
      BY <1>2, <1>3, <2>7, <3>4 DEF Defaire
    <3>. QED BY <3>3, <3>4
  <2>8. 1 .. Du \subseteq Nat /\ 0 \in Nat
    BY DuAssumption
  <2>. QED BY <1>12, <2>1, <2>2, <2>3, <2>4, <2>5, <2>6, <2>7, <2>8 DEF Justification
<1>13. ASSUME NEW r \in References, FapshiCree(r) \/ FapshiTranche(r) PROVE StatutSuivi'
  BY <1>13, StatutReste DEF FapshiCree, FapshiTranche
<1>14. CASE UNCHANGED vars
  BY <1>14, StatutReste DEF vars
<1>. QED BY <1>6, <1>7, <1>8, <1>9, <1>10, <1>11, <1>12, <1>13, <1>14 DEF Next, Fapshi

\* A contribution is SOLDEE exactly when what is due is paid, at rest: for any
\* requests in flight as long as no validation is undone, and for all of them one
\* at a time.  (A validation undone between the last two steps of a credit leaves
\* the status of the balance that was.)
THEOREM StatutToujoursAccorde ==
  ASSUME UneALaFois \/ "annuler" \notin Operations
  PROVE  Spec => []SoldeeSiReglee
<1>1. Init => StatutSuivi
  BY DuAssumption DEF Init, StatutSuivi, Libre
<1>2. Cadre /\ StatutSuivi /\ [Next]_vars => StatutSuivi'
  BY StatutEtape DEF Cadre
<1>3. Cadre /\ StatutSuivi => SoldeeSiReglee
  <2>. SUFFICES ASSUME Cadre, StatutSuivi, AuRepos
                PROVE  participation = "SOLDEE" <=> montantRegle >= Du
    BY DEF SoldeeSiReglee
  <2>1. \A t \in Taches : taches[t].pc = "libre"
    BY DEF AuRepos, Libre
  <2>. QED BY <2>1 DEF StatutSuivi
<1>. QED BY <1>1, <1>2, <1>3, CadreInit, CadreSuite, PTL DEF Spec

------------------------------------------------------------------------------
(* Nothing is credited on the word of the payer.                           *)

\* Where a request that goes on gets to, and that it is about the same thing.
LEMMA TacheSuit ==
  ASSUME TypeOK, NEW t \in Taches, taches[t].pc \notin {"libre", "engager"}, NEW e
  PROVE  /\ Aller(t, e) =>
              /\ taches'[t].pc = e /\ taches'[t].op = taches[t].op
              /\ taches'[t].ref = taches[t].ref /\ taches'[t].issue = taches[t].issue
              /\ taches'[t].preuve = taches[t].preuve
              /\ taches'[t].montant = taches[t].montant
         /\ \A m : taches' = [taches EXCEPT ![t].pc = e, ![t].montant = m] =>
              /\ taches'[t].pc = e /\ taches'[t].op = taches[t].op
              /\ taches'[t].ref = taches[t].ref /\ taches'[t].issue = taches[t].issue
              /\ taches'[t].preuve = taches[t].preuve
              /\ taches'[t].montant = m
<1>1. taches \in [Taches -> Tache] /\ taches[t] \in SurReglement \cup SurPreuve
  BY Formes DEF TypeOK, Tache, Libre
<1>2. ASSUME Aller(t, e)
      PROVE  /\ taches'[t].pc = e /\ taches'[t].op = taches[t].op
             /\ taches'[t].ref = taches[t].ref /\ taches'[t].issue = taches[t].issue
             /\ taches'[t].preuve = taches[t].preuve
             /\ taches'[t].montant = taches[t].montant
  <2>1. taches'[t] = [taches[t] EXCEPT !.pc = e]
    BY <1>1, <1>2 DEF Aller
  <2>. QED BY <1>1, <2>1, ChampsSuivis
<1>3. ASSUME NEW m, taches' = [taches EXCEPT ![t].pc = e, ![t].montant = m]
      PROVE  /\ taches'[t].pc = e /\ taches'[t].op = taches[t].op
             /\ taches'[t].ref = taches[t].ref /\ taches'[t].issue = taches[t].issue
             /\ taches'[t].preuve = taches[t].preuve
             /\ taches'[t].montant = m
  <2>1. taches'[t] = [taches[t] EXCEPT !.pc = e, !.montant = m]
    BY <1>1, <1>3
  <2>. QED BY <1>1, <2>1, ChampsSuivis
<1>. QED BY <1>2, <1>3

LEMMA TacheFin ==
  ASSUME TypeOK, NEW t \in Taches, Liberer(t)
  PROVE  taches'[t] = Libre /\ taches'[t].pc = "libre"
BY DEF TypeOK, Liberer, Libre

\* The provider attests the payment, or an accepted proof does.
Prouve(r) ==
  \/ fapshi[r] = "SUCCESSFUL"
  \/ \E p \in Enregistrees : preuves[p].ref = r /\ preuves[p].statut = "VALIDE"

\* A request about to credit a payment.
VaCrediter(t) ==
  /\ taches[t].pc \in {"certifier", "appliquer", "lire", "crediter"}
  /\ taches[t].issue = "COMPLETE"

AttesteInv ==
  /\ CreditAtteste
  /\ \A t \in Taches : VaCrediter(t) => Prouve(taches[t].ref)

\* No request takes back what was proved.
Irrevocable == Operations \cap {"refuser", "annuler"} = {}

LEMMA ProuveReste ==
  ASSUME Evolue, TypeOK,
         \A p \in Preuves : preuves[p].statut = "VALIDE" => preuves'[p].statut = "VALIDE"
  PROVE  \A r \in References : Prouve(r) => Prouve(r)'
BY DEF Evolue, Prouve, Enregistrees

LEMMA AttesteReste ==
  ASSUME AttesteInv, TypeOK, NEW t \in Taches, Seul(t),
         \A r \in References : Prouve(r) => Prouve(r)',
         \A r \in References : reglements'[r].statut = "COMPLETE"
            => reglements[r].statut = "COMPLETE" \/ Prouve(r),
         VaCrediter(t)' => \/ VaCrediter(t) /\ taches'[t].ref = taches[t].ref
                           \/ \E r \in References : taches'[t].ref = r /\ Prouve(r)'
  PROVE  AttesteInv'
<1>1. CreditAtteste'
  BY DEF AttesteInv, CreditAtteste, Prouve
<1>2. ASSUME NEW u \in Taches, VaCrediter(u)' PROVE (Prouve(taches[u].ref))'
  <2>1. VaCrediter(u) => taches[u].ref \in References /\ Prouve(taches[u].ref)
    BY RefDe DEF VaCrediter, EtapesReglement, EtapesPreuve, AttesteInv
  <2>2. \E r \in References : taches'[u].ref = r /\ Prouve(r)'
    <3>1. CASE u = t
      BY <1>2, <2>1, <3>1
    <3>2. CASE u # t
      BY <1>2, <2>1, <3>2 DEF Seul, VaCrediter
    <3>. QED BY <3>1, <3>2
  <2>. QED BY <2>2 DEF Prouve, Enregistrees
<1>. QED BY <1>1, <1>2 DEF AttesteInv

\* Whoever takes a decision back, alone, does it once nothing stands on it: a proof
\* is refused before it is accepted, and restored after its payment is undone.
Reprise(t) ==
  /\ taches[t].op = "refuser" /\ taches[t].pc = "marquer"
       => preuves[taches[t].preuve].statut # "VALIDE"
  /\ taches[t].op = "annuler" /\ taches[t].pc \in {"rouvrir", "marquer"}
       => reglements[taches[t].ref].statut # "COMPLETE"

\* The steps that lead there.
LEMMA VersReprise ==
  ASSUME TypeOK, NEW t \in Taches, Placee(t), Engagement(t) \/ Issue(t) \/ Justification(t)
  PROVE  /\ taches'[t].pc = "rouvrir" => Retirer(t)
         /\ taches'[t].pc = "marquer" =>
              \/ RouvrirTransaction(t)
              \/ \E p \in Preuves, op \in {"valider", "refuser"} :
                   \E m : Decider(t, op, p, m)
<1>. DEFINE But == taches'[t].pc \notin {"rouvrir", "marquer"}
<1>1. ASSUME Engagement(t) PROVE But
  <2>1. ASSUME NEW op, Commencer(t, op) PROVE But
    BY <2>1 DEF Commencer, TypeOK
  <2>2. ASSUME NEW r, NEW m, Engager(t, r, m) PROVE But
    BY <2>2 DEF Engager, EnVol, TypeOK
  <2>3. ASSUME EngagerRefuse(t) \/ OuvrirReglement(t) \/ Initier(t) \/ InitierLeve(t)
                 \/ AbandonnerDemande(t) \/ Refermer(t)
        PROVE  But
    <3>1. taches'[t].pc \in {"libre", "initier", "controler", "abandonner", "refermer"}
      BY <2>3, TacheSuit, TacheFin DEF EngagerRefuse, OuvrirReglement, Initier, InitierLeve,
         AbandonnerDemande, Refermer
    <3>. QED BY <3>1
  <2>. QED BY <1>1, <2>1, <2>2, <2>3 DEF Engagement
<1>2. ASSUME Issue(t) PROVE But
  <2>1. ASSUME NEW r, NEW i, AbandonnerReglement(t, r) \/ RecevoirIssue(t, r, i) PROVE But
    BY <2>1 DEF AbandonnerReglement, RecevoirIssue, EnVol, TypeOK
  <2>2. ASSUME Expirer(t) \/ AppliquerIssue(t) \/ Crediter(t) \/ Incrementer(t) PROVE But
    <3>1. taches'[t].pc \in {"appliquer", "refermer", "lire", "incrementer", "relire", "libre"}
      BY <2>2, TacheSuit, TacheFin DEF Expirer, AppliquerIssue, Crediter, Incrementer
    <3>. QED BY <3>1
  <2>3. ASSUME Lire(t) PROVE But
    <3>. DEFINE r == taches[t].ref
                m == IF reglements[r].mode = "JUSTIFICATIF"
                     THEN MontantDe(r) ELSE reglements[r].montant
    <3>1. CASE taches' = [taches EXCEPT ![t].pc = "crediter", ![t].montant = m]
      <4>1. taches'[t].pc = "crediter"
        <5>. HIDE DEF m
        <5>. QED BY <2>3, <3>1, TacheSuit DEF Lire
      <4>. QED BY <4>1
    <3>2. CASE Aller(t, "echouer")
      <4>1. taches'[t].pc = "echouer"
        BY <2>3, <3>2, TacheSuit DEF Lire
      <4>. QED BY <4>1
    <3>. QED BY <2>3, <3>1, <3>2 DEF Lire
  <2>4. ASSUME Relire(t) \/ Solder(t) \/ Echouer(t) PROVE But
    <3>1. taches'[t].pc \in {"solder", "libre"}
      BY <2>4, TacheSuit, TacheFin DEF Relire, Solder, Echouer
    <3>. QED BY <3>1
  <2>. QED BY <1>2, <2>1, <2>2, <2>3, <2>4 DEF Issue
<1>3. ASSUME NEW r, Deposer(t, r) PROVE But
  BY <1>3 DEF Deposer, EnVol, TypeOK
<1>4. ASSUME NEW p, AnnulerValidation(t, p) PROVE But
  BY <1>4 DEF AnnulerValidation, SurLaPreuve, TypeOK
<1>5. ASSUME NEW p, Controler(t) \/ InsererPreuve(t, p) \/ CertifierRecu(t) \/ VerifierFapshi(t)
      PROVE  But
  <2>1. taches'[t].pc \in {"deposer", "abandonner", "appliquer", "defaire", "libre"}
    BY <1>5, TacheSuit, TacheFin DEF Controler, InsererPreuve, CertifierRecu, VerifierFapshi
  <2>. QED BY <2>1
<1>6. ASSUME MarquerPreuve(t) PROVE But
  <2>1. taches[t].op \in {"valider", "refuser", "annuler"}
    BY <1>6 DEF MarquerPreuve, Placee, Legale
  <2>2. taches'[t].pc \in {"certifier", "appliquer", "libre"}
    BY <1>6, <2>1, TacheSuit, TacheFin DEF MarquerPreuve
  <2>. QED BY <2>2
<1>7. ASSUME Defaire(t) PROVE But
  <2>. DEFINE m == reglements[taches[t].ref].montant
  <2>1. CASE taches' = [taches EXCEPT ![t].pc = "retirer", ![t].montant = m]
    <3>1. taches'[t].pc = "retirer"
      <4>. HIDE DEF m
      <4>. QED BY <1>7, <2>1, TacheSuit DEF Defaire
    <3>. QED BY <3>1
  <2>2. CASE Liberer(t)
    BY <2>2, TacheFin
  <2>. QED BY <1>7, <2>1, <2>2 DEF Defaire
<1>8. ASSUME Retirer(t) PROVE taches'[t].pc # "marquer"
  <2>1. taches'[t].pc \in {"rouvrir", "libre"}
    BY <1>8, TacheSuit, TacheFin DEF Retirer
  <2>. QED BY <2>1
<1>9. ASSUME RouvrirTransaction(t) PROVE taches'[t].pc # "rouvrir"
  <2>1. taches'[t].pc = "marquer"
    BY <1>9, TacheSuit DEF RouvrirTransaction
  <2>. QED BY <2>1
<1>10. ASSUME NEW p, NEW op, NEW m, Decider(t, op, p, m) PROVE taches'[t].pc # "rouvrir"
  BY <1>10 DEF Decider, SurLaPreuve, TypeOK
<1>. QED BY <1>1, <1>2, <1>3, <1>4, <1>5, <1>6, <1>7, <1>8, <1>9, <1>10 DEF Justification

LEMMA RepriseEtape ==
  ASSUME Cadre, UneALaFois, \A t \in Taches : Reprise(t), [Next]_vars
  PROVE  \A t \in Taches : Reprise(t)'
<1>1. TypeOK /\ \A t \in Taches : Placee(t)
  BY DEF Cadre
<1>2. ASSUME NEW t \in Taches, Engagement(t) \/ Issue(t) \/ Justification(t)
      PROVE  Reprise(t)'
  <2>1. CASE Retirer(t)
    <3>1. taches[t].ref \in References /\ taches[t].pc = "retirer"
      BY <1>1, <2>1, RefDe DEF Retirer, EtapesPreuve
    <3>2. taches'[t].pc \in {"rouvrir", "libre"} /\ (taches'[t].pc = "rouvrir" => taches'[t].ref = taches[t].ref)
      BY <1>1, <2>1, TacheSuit, TacheFin DEF Retirer
    <3>3. taches'[t].pc = "rouvrir" => reglements'[taches[t].ref].statut # "COMPLETE"
      <4>1. ~(Liberer(t) /\ taches'[t].pc = "rouvrir")
        BY <1>1, TacheFin
      <4>. QED BY <1>1, <2>1, <3>1, <4>1 DEF Retirer, TypeOK, Reglement
    <3>. QED BY <3>2, <3>3 DEF Reprise
  <2>2. CASE RouvrirTransaction(t)
    <3>1. /\ taches'[t].pc = "marquer" /\ taches'[t].op = taches[t].op
          /\ taches'[t].ref = taches[t].ref /\ taches[t].pc = "rouvrir"
      BY <1>1, <2>2, TacheSuit DEF RouvrirTransaction
    <3>2. taches[t].op = "annuler"
      BY <1>1, <3>1 DEF Placee, Legale
    <3>3. reglements' = reglements
      BY <2>2 DEF RouvrirTransaction
    <3>. QED BY <3>1, <3>2, <3>3 DEF Reprise
  <2>3. ASSUME NEW p \in Preuves, NEW op \in {"valider", "refuser"}, NEW m, Decider(t, op, p, m)
        PROVE  Reprise(t)'
    <3>1. taches'[t] = SurLaPreuve(op, "marquer", p, m) /\ preuves' = preuves
      BY <1>1, <2>3 DEF Decider, TypeOK
    <3>2. taches'[t].op = op /\ taches'[t].preuve = p
      BY <3>1 DEF SurLaPreuve
    <3>. QED BY <2>3, <3>1, <3>2 DEF Reprise, Decider
  <2>. QED BY <1>1, <1>2, <2>1, <2>2, <2>3, VersReprise DEF Reprise
<1>3. ASSUME UNCHANGED <<reglements, preuves, taches>> PROVE \A t \in Taches : Reprise(t)'
  BY <1>3 DEF Reprise
<1>4. ASSUME NEW r \in References, FapshiCree(r) \/ FapshiTranche(r)
      PROVE  UNCHANGED <<reglements, preuves, taches>>
  BY <1>4 DEF FapshiCree, FapshiTranche
<1>. QED BY <1>2, <1>3, <1>4 DEF Next, Fapshi, vars, UneALaFois

LEMMA AttesteEtape ==
  ASSUME Cadre, AttesteInv, [Next]_vars,
         Irrevocable \/ (UneALaFois /\ \A t \in Taches : Reprise(t))
  PROVE  AttesteInv'
<1>1. /\ TypeOK /\ \A t \in Taches : Placee(t)
  BY DEF Cadre
<1>2. \A t \in Taches : Engagement(t) \/ Issue(t) \/ Justification(t) => Evolue /\ Seul(t)
  BY <1>1, EvolutionEngagement, EvolutionIssue, EvolutionJustification
\* a step that accepts, credits and brings no evidence
<1>3. ASSUME NEW t \in Taches, Evolue, Seul(t), UNCHANGED preuves,
             \A r \in References : reglements'[r].statut = "COMPLETE"
               => reglements[r].statut = "COMPLETE",
             VaCrediter(t)' => VaCrediter(t) /\ taches'[t].ref = taches[t].ref
      PROVE  AttesteInv'
  BY <1>1, <1>3, ProuveReste, AttesteReste
<1>4. ASSUME NEW t \in Taches, Depart(t),
             ~\E r \in References : RecevoirIssue(t, r, "COMPLETE")
      PROVE  AttesteInv'
  <2>1. taches'[t].pc = "appliquer" => taches'[t].issue # "COMPLETE"
    <3>1. ASSUME NEW r \in References, NEW i \in {"COMPLETE", "ECHOUE"}, RecevoirIssue(t, r, i)
          PROVE  taches'[t].issue # "COMPLETE"
      <4>1. taches'[t] = EnVol("issue", "appliquer", r, i)
        BY <1>1, <3>1 DEF RecevoirIssue, TypeOK
      <4>. QED BY <1>4, <3>1, <4>1 DEF EnVol
    <3>2. ASSUME NEW op \in {"payer", "justifier"}, Commencer(t, op)
          PROVE  taches'[t].pc # "appliquer"
      BY <1>1, <3>2 DEF Commencer, TypeOK
    <3>3. ASSUME NEW r \in References, AbandonnerReglement(t, r) \/ Deposer(t, r)
          PROVE  taches'[t].pc # "appliquer"
      BY <1>1, <3>3 DEF AbandonnerReglement, Deposer, EnVol, TypeOK
    <3>4. ASSUME NEW p \in Preuves, AnnulerValidation(t, p)
          PROVE  taches'[t].pc # "appliquer"
      BY <1>1, <3>4 DEF AnnulerValidation, SurLaPreuve, TypeOK
    <3>5. ASSUME NEW p \in Preuves, NEW op, NEW m, Decider(t, op, p, m)
          PROVE  taches'[t].pc # "appliquer"
      BY <1>1, <3>5 DEF Decider, SurLaPreuve, TypeOK
    <3>. QED BY <1>4, <3>1, <3>2, <3>3, <3>4, <3>5 DEF Depart
  <2>2. /\ taches'[t].pc \in {"engager", "expirer", "appliquer", "controler", "marquer", "verifier"}
        /\ Seul(t) /\ UNCHANGED <<journal, fapshi, reglements, preuves>>
    BY <1>1, <1>4, Departs DEF Seul
  <2>3. ~VaCrediter(t)'
    BY <2>1, <2>2 DEF VaCrediter
  <2>4. Evolue
    BY <2>2 DEF Evolue
  <2>. QED BY <1>3, <2>2, <2>3, <2>4
<1>5. ASSUME NEW t \in Taches, NEW r \in References, RecevoirIssue(t, r, "COMPLETE")
      PROVE  AttesteInv'
  <2>1. taches'[t].ref = r
    BY <1>1, <1>5 DEF RecevoirIssue, EnVol, TypeOK
  <2>2. Depart(t)
    BY <1>5 DEF Depart
  <2>3. Seul(t) /\ UNCHANGED <<journal, fapshi, reglements, preuves>>
    BY <1>1, <2>2, Departs DEF Seul
  <2>4. Prouve(r)'
    BY <1>5, <2>3 DEF RecevoirIssue, Prouve
  <2>5. Evolue
    BY <2>3 DEF Evolue
  <2>6. \A q \in References : Prouve(q) => Prouve(q)'
    BY <1>1, <2>3, <2>5, ProuveReste
  <2>. QED BY <1>1, <2>1, <2>3, <2>4, <2>6, AttesteReste
<1>6. ASSUME NEW t \in Taches, Engagement(t) PROVE AttesteInv'
  <2>1. Evolue /\ Seul(t)
    BY <1>2, <1>6
  <2>2. ASSUME NEW op \in {"payer", "justifier"}, Commencer(t, op) PROVE AttesteInv'
    <3>1. Depart(t) /\ ~\E r \in References : RecevoirIssue(t, r, "COMPLETE")
      <4>1. taches'[t].pc = "engager"
        BY <1>1, <2>2 DEF Commencer, TypeOK
      <4>2. \A r \in References : RecevoirIssue(t, r, "COMPLETE") => taches'[t].pc = "appliquer"
        BY <1>1 DEF RecevoirIssue, EnVol, TypeOK
      <4>. QED BY <2>2, <4>1, <4>2 DEF Depart
    <3>. QED BY <1>4, <3>1
  <2>3. ASSUME NEW r \in References, NEW m \in 1 .. Du, Engager(t, r, m) PROVE AttesteInv'
    <3>1. taches'[t].pc = "ouvrir"
      BY <1>1, <2>3 DEF Engager, EnVol, TypeOK
    <3>2. \A q \in References : reglements'[q].statut = "COMPLETE"
            => reglements[q].statut = "COMPLETE"
      BY <1>1, <2>3 DEF Engager, TypeOK
    <3>. QED BY <1>3, <2>1, <2>3, <3>1, <3>2 DEF Engager, VaCrediter
  <2>4. ASSUME EngagerRefuse(t) \/ Initier(t) PROVE AttesteInv'
    <3>1. taches'[t].pc = "libre"
      BY <1>1, <2>4 DEF EngagerRefuse, Initier, Liberer, Libre, TypeOK
    <3>. QED BY <1>3, <2>1, <2>4, <3>1 DEF EngagerRefuse, Initier, VaCrediter
  <2>5. ASSUME OuvrirReglement(t) \/ InitierLeve(t) \/ AbandonnerDemande(t) PROVE AttesteInv'
    <3>1. taches'[t].pc \in {"initier", "controler", "abandonner", "refermer"}
      BY <1>1, <2>5, TacheSuit DEF OuvrirReglement, InitierLeve, AbandonnerDemande
    <3>. QED BY <1>3, <2>1, <2>5, <3>1
             DEF OuvrirReglement, InitierLeve, AbandonnerDemande, VaCrediter
  <2>6. ASSUME Refermer(t) PROVE AttesteInv'
    <3>1. taches'[t].pc = "libre"
      BY <1>1, <2>6 DEF Refermer, Liberer, Libre, TypeOK
    <3>2. taches[t].ref \in References
      BY <1>1, <2>6, RefDe DEF Refermer, EtapesReglement
    <3>3. \A q \in References : reglements'[q].statut = "COMPLETE"
            => reglements[q].statut = "COMPLETE"
      BY <1>1, <2>6, <3>2 DEF Refermer, Marquer, TypeOK, Reglement
    <3>. QED BY <1>3, <2>1, <2>6, <3>1, <3>3 DEF Refermer, VaCrediter
  <2>. QED BY <1>6, <2>2, <2>3, <2>4, <2>5, <2>6 DEF Engagement
<1>7. ASSUME NEW t \in Taches, Issue(t) PROVE AttesteInv'
  <2>1. Evolue /\ Seul(t)
    BY <1>2, <1>7
  <2>2. ASSUME NEW r \in References, AbandonnerReglement(t, r) PROVE AttesteInv'
    <3>1. taches'[t].pc = "expirer"
      BY <1>1, <2>2 DEF AbandonnerReglement, EnVol, TypeOK
    <3>. QED BY <1>3, <2>1, <2>2, <3>1 DEF AbandonnerReglement, VaCrediter
  <2>3. ASSUME NEW r \in References, NEW i \in {"COMPLETE", "ECHOUE"}, RecevoirIssue(t, r, i)
        PROVE  AttesteInv'
    <3>1. CASE i = "COMPLETE"
      BY <1>5, <2>3, <3>1
    <3>2. CASE i = "ECHOUE"
      <4>1. taches'[t].issue = "ECHOUE"
        BY <1>1, <2>3, <3>2 DEF RecevoirIssue, EnVol, TypeOK
      <4>. QED BY <1>3, <2>1, <2>3, <4>1 DEF RecevoirIssue, VaCrediter
    <3>. QED BY <3>1, <3>2
  <2>4. ASSUME Expirer(t) PROVE AttesteInv'
    <3>1. taches[t].issue = "ECHOUE"
      BY <1>1, <2>4 DEF Expirer, Placee, Legale
    <3>2. taches'[t].issue = "ECHOUE"
      BY <1>1, <2>4, <3>1, TacheSuit DEF Expirer
    <3>. QED BY <1>3, <2>1, <2>4, <3>2 DEF Expirer, VaCrediter
  <2>5. ASSUME AppliquerIssue(t) PROVE AttesteInv'
    <3>1. VaCrediter(t)' => VaCrediter(t) /\ taches'[t].ref = taches[t].ref
      <4>1. CASE Aller(t, "refermer")
        BY <1>1, <2>5, <4>1, TacheSuit DEF AppliquerIssue, VaCrediter
      <4>2. CASE Aller(t, "lire")
        BY <1>1, <2>5, <4>2, TacheSuit DEF AppliquerIssue, VaCrediter
      <4>3. CASE Liberer(t)
        BY <1>1, <4>3, TacheFin DEF VaCrediter
      <4>. QED BY <2>5, <4>1, <4>2, <4>3 DEF AppliquerIssue
    <3>. QED BY <1>3, <2>1, <2>5, <3>1 DEF AppliquerIssue
  <2>6. ASSUME Lire(t) PROVE AttesteInv'
    <3>1. VaCrediter(t)' => VaCrediter(t) /\ taches'[t].ref = taches[t].ref
      <4>. DEFINE r == taches[t].ref
                  m == IF reglements[r].mode = "JUSTIFICATIF"
                       THEN MontantDe(r) ELSE reglements[r].montant
      <4>1. CASE taches' = [taches EXCEPT ![t].pc = "crediter", ![t].montant = m]
        <5>1. taches'[t].ref = taches[t].ref /\ taches'[t].issue = taches[t].issue
          <6>. HIDE DEF m
          <6>. QED BY <1>1, <2>6, <4>1, TacheSuit DEF Lire
        <5>. QED BY <2>6, <5>1 DEF Lire, VaCrediter
      <4>2. CASE Aller(t, "echouer")
        BY <1>1, <2>6, <4>2, TacheSuit DEF Lire, VaCrediter
      <4>. QED BY <2>6, <4>1, <4>2 DEF Lire
    <3>. QED BY <1>3, <2>1, <2>6, <3>1 DEF Lire
  <2>7. ASSUME Crediter(t) PROVE AttesteInv'
    <3>1. taches[t].ref \in References /\ taches'[t].pc = "incrementer"
      BY <1>1, <2>7, RefDe, TacheSuit DEF Crediter, EtapesReglement
    <3>2. Prouve(taches[t].ref)
      BY <1>1, <2>7 DEF Crediter, AttesteInv, VaCrediter, Placee, Legale
    <3>3. \A r \in References : reglements'[r].statut = "COMPLETE"
            => reglements[r].statut = "COMPLETE" \/ Prouve(r)
      BY <1>1, <2>7, <3>1, <3>2 DEF Crediter, TypeOK, Reglement
    <3>4. \A r \in References : Prouve(r) => Prouve(r)'
      BY <1>1, <2>1, <2>7, ProuveReste DEF Crediter
    <3>. QED BY <1>1, <2>1, <3>1, <3>3, <3>4, AttesteReste DEF VaCrediter
  <2>8. ASSUME Incrementer(t) \/ Relire(t) \/ Solder(t) PROVE AttesteInv'
    <3>1. taches'[t].pc \in {"relire", "solder", "libre"}
      BY <1>1, <2>8, TacheSuit, TacheFin DEF Incrementer, Relire, Solder
    <3>. QED BY <1>3, <2>1, <2>8, <3>1 DEF Incrementer, Relire, Solder, VaCrediter
  <2>9. ASSUME Echouer(t) PROVE AttesteInv'
    <3>1. taches[t].ref \in References /\ taches'[t].pc = "libre"
      BY <1>1, <2>9, RefDe, TacheFin DEF Echouer, EtapesReglement
    <3>2. \A q \in References : reglements'[q].statut = "COMPLETE"
            => reglements[q].statut = "COMPLETE"
      BY <1>1, <2>9, <3>1 DEF Echouer, Marquer, TypeOK, Reglement
    <3>. QED BY <1>3, <2>1, <2>9, <3>1, <3>2 DEF Echouer, VaCrediter
  <2>. QED BY <1>7, <2>2, <2>3, <2>4, <2>5, <2>6, <2>7, <2>8, <2>9 DEF Issue
<1>8. ASSUME NEW t \in Taches, Justification(t) PROVE AttesteInv'
  <2>1. Evolue /\ Seul(t)
    BY <1>2, <1>8
  <2>2. /\ taches[t].op \in {"refuser", "annuler"} /\ taches[t].pc # "libre" => UneALaFois
        /\ taches[t].op = "refuser" /\ taches[t].pc = "marquer"
             => preuves[taches[t].preuve].statut # "VALIDE"
        /\ taches[t].op = "annuler" /\ taches[t].pc = "marquer"
             => reglements[taches[t].ref].statut # "COMPLETE"
    BY <1>1 DEF Placee, Irrevocable, Reprise
  <2>3. ASSUME NEW r \in References, Deposer(t, r) PROVE AttesteInv'
    <3>1. taches'[t].pc = "controler"
      BY <1>1, <2>3 DEF Deposer, EnVol, TypeOK
    <3>. QED BY <1>3, <2>1, <2>3, <3>1 DEF Deposer, VaCrediter
  <2>4. ASSUME Controler(t) PROVE AttesteInv'
    <3>1. taches'[t].pc \in {"deposer", "abandonner", "libre"}
      BY <1>1, <2>4, TacheSuit, TacheFin DEF Controler
    <3>. QED BY <1>3, <2>1, <2>4, <3>1 DEF Controler, VaCrediter
  <2>5. ASSUME NEW p \in Preuves, InsererPreuve(t, p) PROVE AttesteInv'
    <3>1. taches'[t].pc = "libre"
      BY <1>1, <2>5, TacheFin DEF InsererPreuve
    <3>2. \A q \in Preuves : preuves[q].statut = "VALIDE" => preuves'[q].statut = "VALIDE"
      BY <1>1, <2>5 DEF InsererPreuve, TypeOK
    <3>3. \A r \in References : Prouve(r) => Prouve(r)'
      BY <1>1, <2>1, <3>2, ProuveReste
    <3>. QED BY <1>1, <2>1, <2>5, <3>1, <3>3, AttesteReste DEF InsererPreuve, VaCrediter
  <2>6. ASSUME NEW p \in Preuves, NEW op, NEW m, Decider(t, op, p, m) PROVE AttesteInv'
    <3>1. taches'[t].pc = "marquer"
      BY <1>1, <2>6 DEF Decider, SurLaPreuve, TypeOK
    <3>. QED BY <1>3, <2>1, <2>6, <3>1 DEF Decider, VaCrediter
  <2>7. ASSUME MarquerPreuve(t) PROVE AttesteInv'
    <3>. DEFINE p == taches[t].preuve
    <3>1. taches[t] \in SurPreuve
      BY <1>1, <2>7, Formes DEF MarquerPreuve, EtapesPreuve, EtapesReglement
    <3>2. taches[t].op \in {"valider", "refuser", "annuler"} /\ p \in Preuves
      BY <3>1, ChampsPreuve
    <3>3. preuves[p].ref = taches[t].ref /\ preuves[p].statut # "ABSENTE"
      BY <1>1, <2>7, <3>2 DEF MarquerPreuve, Placee
    <3>4. taches[t].ref \in References /\ taches[t].pc = "marquer"
      BY <1>1, <2>7, RefDe DEF MarquerPreuve, EtapesPreuve
    <3>5. CASE taches[t].op = "valider"
      <4>1. /\ preuves' = [preuves EXCEPT ![p].statut = "VALIDE", ![p].recu = taches[t].montant]
            /\ Aller(t, "certifier")
        BY <2>7, <3>5 DEF MarquerPreuve
      <4>2. /\ preuves'[p].statut = "VALIDE" /\ preuves'[p].ref = taches[t].ref
            /\ \A q \in Preuves : preuves[q].statut = "VALIDE" => preuves'[q].statut = "VALIDE"
        BY <1>1, <3>2, <3>3, <4>1 DEF TypeOK, Preuve
      <4>3. \A r \in References : Prouve(r) => Prouve(r)'
        BY <1>1, <2>1, <4>2, ProuveReste
      <4>4. taches'[t].ref = taches[t].ref
        BY <1>1, <3>4, <4>1, TacheSuit
      <4>5. ASSUME NEW r \in References, r = taches[t].ref PROVE Prouve(r)'
        BY <3>2, <4>2, <4>5 DEF Prouve, Enregistrees
      <4>. QED BY <1>1, <2>1, <2>7, <3>4, <4>3, <4>4, <4>5, AttesteReste DEF MarquerPreuve
    <3>6. CASE taches[t].op = "refuser"
      <4>1. preuves' = [preuves EXCEPT ![p].statut = "REFUSE"] /\ Aller(t, "appliquer")
        BY <2>7, <3>6 DEF MarquerPreuve
      <4>2. \A q \in Preuves : preuves[q].statut = "VALIDE" => preuves'[q].statut = "VALIDE"
        BY <1>1, <2>2, <3>2, <3>4, <3>6, <4>1 DEF TypeOK, Preuve
      <4>3. \A r \in References : Prouve(r) => Prouve(r)'
        BY <1>1, <2>1, <4>2, ProuveReste
      <4>4. taches[t].issue = "ECHOUE"
        BY <1>1, <3>4, <3>6 DEF Placee, Legale
      <4>5. ~VaCrediter(t)'
        BY <1>1, <3>4, <4>1, <4>4, TacheSuit DEF VaCrediter
      <4>. QED BY <1>1, <2>1, <2>7, <4>3, <4>5, AttesteReste DEF MarquerPreuve
    <3>7. CASE taches[t].op = "annuler"
      <4>1. /\ preuves' = [preuves EXCEPT ![p].statut = "EN_ATTENTE", ![p].recu = 0]
            /\ Liberer(t)
        BY <2>7, <3>7 DEF MarquerPreuve
      <4>2. UneALaFois /\ reglements[taches[t].ref].statut # "COMPLETE"
        BY <2>2, <3>4, <3>7
      <4>3. UNCHANGED <<fapshi, reglements>>
        BY <2>7 DEF MarquerPreuve
      <4>4. \A q \in Preuves \ {p} : preuves'[q] = preuves[q]
        BY <1>1, <3>2, <4>1 DEF TypeOK
      <4>5. ASSUME NEW r \in References, reglements'[r].statut = "COMPLETE" PROVE Prouve(r)'
        <5>1. r # taches[t].ref /\ Prouve(r)
          BY <4>2, <4>3, <4>5 DEF AttesteInv, CreditAtteste, Prouve
        <5>. QED BY <3>3, <4>3, <4>4, <5>1 DEF Prouve, Enregistrees
      <4>6. CreditAtteste'
        BY <4>5 DEF CreditAtteste, Prouve
      <4>7. \A u \in Taches : ~VaCrediter(u)'
        BY <1>1, <4>1, <4>2, TacheFin DEF UneALaFois, VaCrediter
      <4>. QED BY <4>6, <4>7 DEF AttesteInv
    <3>. QED BY <3>2, <3>5, <3>6, <3>7
  <2>8. ASSUME CertifierRecu(t) PROVE AttesteInv'
    <3>1. VaCrediter(t)' => VaCrediter(t) /\ taches'[t].ref = taches[t].ref
      BY <1>1, <2>8, TacheSuit DEF CertifierRecu, VaCrediter
    <3>. QED BY <1>3, <2>1, <2>8, <3>1 DEF CertifierRecu
  <2>9. ASSUME NEW p \in Preuves, AnnulerValidation(t, p) PROVE AttesteInv'
    <3>1. taches'[t].pc = "verifier"
      BY <1>1, <2>9 DEF AnnulerValidation, SurLaPreuve, TypeOK
    <3>. QED BY <1>3, <2>1, <2>9, <3>1 DEF AnnulerValidation, VaCrediter
  <2>10. ASSUME VerifierFapshi(t) \/ RouvrirTransaction(t) PROVE AttesteInv'
    <3>1. taches'[t].pc \in {"defaire", "marquer", "libre"}
      BY <1>1, <2>10, TacheSuit, TacheFin DEF VerifierFapshi, RouvrirTransaction
    <3>. QED BY <1>3, <2>1, <2>10, <3>1 DEF VerifierFapshi, RouvrirTransaction, VaCrediter
  <2>11. ASSUME Defaire(t) PROVE AttesteInv'
    <3>. DEFINE m == reglements[taches[t].ref].montant
    <3>1. CASE taches' = [taches EXCEPT ![t].pc = "retirer", ![t].montant = m]
      <4>1. taches'[t].pc = "retirer"
        <5>. HIDE DEF m
        <5>. QED BY <1>1, <2>11, <3>1, TacheSuit DEF Defaire
      <4>. QED BY <1>3, <2>1, <2>11, <4>1 DEF Defaire, VaCrediter
    <3>2. CASE Liberer(t)
      <4>1. taches'[t].pc = "libre"
        BY <1>1, <3>2, TacheFin
      <4>. QED BY <1>3, <2>1, <2>11, <4>1 DEF Defaire, VaCrediter
    <3>. QED BY <2>11, <3>1, <3>2 DEF Defaire
  <2>12. ASSUME Retirer(t) PROVE AttesteInv'
    <3>1. taches[t].ref \in References
      BY <1>1, <2>12, RefDe DEF Retirer, EtapesPreuve
    <3>2. taches'[t].pc \in {"rouvrir", "libre"}
      BY <1>1, <2>12, TacheSuit, TacheFin DEF Retirer
    <3>3. \A r \in References : reglements'[r].statut = "COMPLETE"
            => reglements[r].statut = "COMPLETE"
      BY <1>1, <2>12, <3>1 DEF Retirer, TypeOK, Reglement
    <3>. QED BY <1>3, <2>1, <2>12, <3>2, <3>3 DEF Retirer, VaCrediter
  <2>. QED BY <1>8, <2>3, <2>4, <2>5, <2>6, <2>7, <2>8, <2>9, <2>10, <2>11, <2>12
       DEF Justification
<1>9. ASSUME NEW r \in References, FapshiCree(r) \/ FapshiTranche(r) PROVE AttesteInv'
  <2>1. \A q \in References : Prouve(q) => Prouve(q)'
    BY <1>1, <1>9, EvolutionFapshi, ProuveReste DEF FapshiCree, FapshiTranche
  <2>2. \A t \in Taches : VaCrediter(t) => taches[t].ref \in References
    BY <1>1, RefDe DEF VaCrediter, EtapesReglement, EtapesPreuve
  <2>3. CreditAtteste'
    BY <1>9, <2>1 DEF AttesteInv, CreditAtteste, Prouve, FapshiCree, FapshiTranche
  <2>4. ASSUME NEW t \in Taches, VaCrediter(t)' PROVE (Prouve(taches[t].ref))'
    <3>1. VaCrediter(t) /\ taches' = taches
      BY <1>9, <2>4 DEF FapshiCree, FapshiTranche, VaCrediter
    <3>2. Prouve(taches[t].ref)'
      BY <2>1, <2>2, <3>1 DEF AttesteInv, Prouve, Enregistrees
    <3>. QED BY <3>2
  <2>. QED BY <2>3, <2>4 DEF AttesteInv
<1>10. CASE UNCHANGED vars
  BY <1>10 DEF vars, AttesteInv, CreditAtteste, VaCrediter, Prouve, Enregistrees
<1>. QED BY <1>6, <1>7, <1>8, <1>9, <1>10 DEF Next, Fapshi

\* A payment is credited only on the word of the provider or on a proof the
\* treasury accepted: whatever the requests in flight as long as no decision is
\* taken back, by an undoing or by a refusal, and for all of them one at a time.
\* (Two decisions on one proof are taken on the same reading of it: a refusal may
\* hide the acceptance that credits.)
THEOREM CreditToujoursAtteste ==
  ASSUME Irrevocable \/ UneALaFois
  PROVE  Spec => []CreditAtteste
<1>. DEFINE Inv == Cadre /\ AttesteInv /\ (UneALaFois => \A t \in Taches : Reprise(t))
<1>1. Init => Inv
  BY CadreInit DEF Init, AttesteInv, CreditAtteste, VaCrediter, Libre, Reprise
<1>2. Inv /\ [Next]_vars => Inv'
  <2>1. ASSUME Inv, [Next]_vars PROVE Cadre' /\ AttesteInv'
    BY <2>1, CadreSuite, AttesteEtape
  <2>2. ASSUME Inv, [Next]_vars, UneALaFois PROVE \A t \in Taches : Reprise(t)'
    BY <2>2, RepriseEtape
  <2>. QED BY <2>1, <2>2
<1>3. Inv => CreditAtteste
  BY DEF AttesteInv
<1>. QED BY <1>1, <1>2, <1>3, PTL DEF Spec

------------------------------------------------------------------------------
(* The balance, as a sum.                                                  *)

\* What each payment counts for in the balance, and what each request has
\* credited and not added to it yet.
Compte == [r \in References |->
             IF reglements[r].statut = "COMPLETE" THEN reglements[r].montant ELSE 0]
AIncrementer == [t \in Taches |->
                   IF taches[t].pc = "incrementer" THEN taches[t].montant ELSE 0]

Equilibre == montantRegle + Somme(AIncrementer, Taches) = Somme(Compte, References)

LEMMA SommesTypees ==
  ASSUME TypeOK
  PROVE  /\ \A r \in References : Compte[r] \in Nat
         /\ \A t \in Taches : AIncrementer[t] \in Nat
         /\ Somme(Compte, References) \in Nat
         /\ Somme(AIncrementer, Taches) \in Nat
         /\ IsFiniteSet(References) /\ IsFiniteSet(Taches)
<1>1. \A r \in References : Compte[r] \in Nat
  BY DEF TypeOK, Reglement, Compte
<1>2. \A t \in Taches : AIncrementer[t] \in Nat
  BY RefDe DEF AIncrementer, EtapesReglement
<1>. HIDE DEF Compte, AIncrementer
<1>. QED BY <1>1, <1>2, SommeType, ReferencesAssumption, TachesAssumption

\* The total of the credited payments is the sum of what each one counts for.
LEMMA TotalEstSomme ==
  ASSUME TypeOK, \A r \in References : reglements[r].mode = "AUCUN"
                    => reglements[r].statut # "COMPLETE"
  PROVE  Total("COMPLETE") = Somme(Compte, References)
<1>. DEFINE R == {r \in Utilisees : reglements[r].statut = "COMPLETE"}
            E(it) == [s \in SUBSET R |-> IF s = {} THEN 0
                        ELSE reglements[CHOOSE x \in s : TRUE].montant
                               + it[s \ {CHOOSE x \in s : TRUE}]]
            f == CHOOSE it : it = E(it)
<1>1. R \in SUBSET References /\ IsFiniteSet(R)
  BY ReferencesAssumption, FS_Subset DEF Utilisees
<1>2. Total("COMPLETE") = f[R]
  BY Zenon DEF Total, MapThenSumSet, MapThenFoldSet
<1>3. \A it : Deroule(it, Compte, R) <=> it = E(it)
  <2>1. \A s \in SUBSET R : s # {} =>
          Compte[CHOOSE x \in s : TRUE] = reglements[CHOOSE x \in s : TRUE].montant
    BY DEF Compte, Utilisees
  <2>2. ASSUME NEW it
        PROVE  [s \in SUBSET R |-> Pas(it, Compte, s)] = E(it)
    BY <2>1 DEF Pas, Choix
  <2>. HIDE DEF E
  <2>. QED BY <2>2 DEF Deroule
<1>4. Deroule(f, Compte, R)
  <2>1. \E it : it = E(it)
    <3>. HIDE DEF E
    <3>. QED BY <1>1, <1>3, SommeExiste
  <2>. HIDE DEF E
  <2>2. f = E(f)
    BY <2>1, Zenon
  <2>. HIDE DEF f
  <2>. QED BY <1>3, <2>2
<1>. HIDE DEF f
<1>5. f[R] = Somme(Compte, R)
  <2>1. R \in SUBSET R /\ \A x \in R : Compte[x] = Compte[x]
    OBVIOUS
  <2>. HIDE DEF R, Compte
  <2>2. \A it : Deroule(it, Compte, R) => it[R] = Somme(Compte, R)
    BY <1>1, <2>1, SommePartielle
  <2>. QED BY <1>4, <2>2
<1>6. Somme(Compte, R) = Somme(Compte, References)
  <2>1. \A r \in References : Compte[r] \in Int
    BY SommesTypees
  <2>2. \A r \in References \ R : Compte[r] = 0
    BY DEF Compte, Utilisees
  <2>. HIDE DEF R, Compte
  <2>. QED BY <1>1, <2>1, <2>2, SommeFiltre, ReferencesAssumption
<1>. QED BY <1>2, <1>5, <1>6

\* Crediting a payment moves its amount to what is to be added, adding it moves it
\* to the balance, undoing the payment takes it out of both.
LEMMA EquilibreReste ==
  ASSUME Equilibre, montantRegle' = montantRegle, Compte' = Compte,
         AIncrementer' = AIncrementer
  PROVE  Equilibre'
BY DEF Equilibre

LEMMA EquilibreCredite ==
  ASSUME TypeOK, TypeOK', Equilibre, montantRegle' = montantRegle,
         NEW r \in References, reglements[r].statut # "COMPLETE",
         reglements'[r].statut = "COMPLETE",
         \A q \in References \ {r} : reglements'[q] = reglements[q],
         NEW t \in Taches, Seul(t), taches[t].pc # "incrementer",
         taches'[t].pc = "incrementer", taches'[t].montant = reglements'[r].montant
  PROVE  Equilibre'
<1>. DEFINE c == Compte
            cc == Compte'
            a == AIncrementer
            aa == AIncrementer'
            m == reglements'[r].montant
<1>1. /\ c[r] = 0 /\ cc[r] = m /\ \A q \in References \ {r} : c[q] = cc[q]
      /\ a[t] = 0 /\ aa[t] = m /\ \A u \in Taches \ {t} : a[u] = aa[u]
  BY DEF Compte, AIncrementer, Seul
<1>2. /\ \A q \in References : c[q] \in Int /\ cc[q] \in Int
      /\ \A u \in Taches : a[u] \in Int /\ aa[u] \in Int
      /\ Somme(c, References) \in Nat /\ Somme(a, Taches) \in Nat
      /\ IsFiniteSet(References) /\ IsFiniteSet(Taches)
  <2>1. /\ \A q \in References : c[q] \in Nat
        /\ \A u \in Taches : a[u] \in Nat
        /\ Somme(c, References) \in Nat /\ Somme(a, Taches) \in Nat
        /\ IsFiniteSet(References) /\ IsFiniteSet(Taches)
    BY SommesTypees
  <2>2. \A q \in References : cc[q] \in Nat
    BY DEF TypeOK, Reglement, Compte
  <2>3. \A u \in Taches : aa[u] \in Nat
    <3>1. m \in Nat
      BY DEF TypeOK, Reglement
    <3>. HIDE DEF a, aa, m
    <3>. QED BY <1>1, <2>1, <3>1
  <2>. HIDE DEF c, cc, a, aa
  <2>. QED BY <2>1, <2>2, <2>3
<1>3. montantRegle \in Nat /\ m \in Nat
  BY DEF TypeOK, Reglement
<1>4. montantRegle + Somme(a, Taches) = Somme(c, References)
  BY DEF Equilibre
<1>5. Equilibre' <=> montantRegle' + Somme(aa, Taches) = Somme(cc, References)
  BY DEF Equilibre
<1>. HIDE DEF c, cc, a, aa, m
<1>6. Somme(cc, References) = Somme(c, References) - c[r] + cc[r]
  BY <1>1, <1>2, SommeChange
<1>7. Somme(aa, Taches) = Somme(a, Taches) - a[t] + aa[t]
  BY <1>1, <1>2, SommeChange
<1>. QED BY <1>1, <1>2, <1>3, <1>4, <1>5, <1>6, <1>7

LEMMA EquilibreIncremente ==
  ASSUME TypeOK, TypeOK', Equilibre, Compte' = Compte,
         NEW t \in Taches, Seul(t), taches[t].pc = "incrementer",
         taches'[t].pc # "incrementer",
         montantRegle' = montantRegle + taches[t].montant
  PROVE  Equilibre'
<1>. DEFINE a == AIncrementer
            aa == AIncrementer'
            m == taches[t].montant
<1>1. a[t] = m /\ aa[t] = 0 /\ \A u \in Taches \ {t} : a[u] = aa[u]
  BY DEF AIncrementer, Seul
<1>2. /\ \A u \in Taches : a[u] \in Nat
      /\ Somme(a, Taches) \in Nat /\ IsFiniteSet(Taches)
  BY SommesTypees
<1>3. montantRegle \in Nat /\ m \in Nat
  <2>1. m \in Nat
    BY RefDe DEF EtapesReglement
  <2>. QED BY <2>1 DEF TypeOK
<1>4. montantRegle + Somme(a, Taches) = Somme(Compte, References)
  BY DEF Equilibre
<1>5. Equilibre' <=> montantRegle' + Somme(aa, Taches) = Somme(Compte', References)
  BY DEF Equilibre
<1>. HIDE DEF a, aa, m
<1>6. \A u \in Taches : a[u] \in Int /\ aa[u] \in Int
  BY <1>1, <1>2
<1>7. Somme(aa, Taches) = Somme(a, Taches) - a[t] + aa[t]
  BY <1>1, <1>2, <1>6, SommeChange
<1>8. montantRegle' = montantRegle + m
  BY DEF m
<1>. QED BY <1>1, <1>2, <1>3, <1>4, <1>5, <1>7, <1>8

\* The balance and the credited payments agree as soon as nothing is to be added.
LEMMA EquilibreAuRepos ==
  ASSUME TypeOK, Equilibre, \A r \in References : Neuf(r),
         \A t \in Taches : taches[t].pc # "incrementer"
  PROVE  montantRegle = Total("COMPLETE")
<1>1. Total("COMPLETE") = Somme(Compte, References)
  BY TotalEstSomme DEF Neuf
<1>2. Somme(AIncrementer, Taches) = 0
  <2>1. \A t \in Taches : AIncrementer[t] = 0
    BY DEF AIncrementer
  <2>. HIDE DEF AIncrementer
  <2>. QED BY <2>1, SommeNulle, TachesAssumption
<1>. QED BY <1>1, <1>2 DEF Equilibre, TypeOK

------------------------------------------------------------------------------
(* Requests in any number, none of which takes anything back: what each    *)
(* one knows when it credits, whatever the others do meanwhile.            *)

\* The operations that take nothing back, the provider always answering.
SansRetour == Operations \subseteq {"payer", "issue", "justifier", "deposer", "valider"}

\* A request about to write a credit.
VaEcrire(t) == taches[t].pc \in {"lire", "crediter"} /\ taches[t].issue = "COMPLETE"

\* What a request says of the provider is still what the provider says, and a
\* payment given up is one the provider never heard of.
Fournie(t) ==
  /\ taches[t].pc \in {"appliquer", "lire", "crediter", "echouer"} /\ taches[t].op = "issue" =>
       /\ taches[t].issue = "COMPLETE" => fapshi[taches[t].ref] = "SUCCESSFUL"
       /\ taches[t].issue = "ECHOUE" => fapshi[taches[t].ref] = "FAILED"
  /\ taches[t].pc \in {"abandonner", "refermer"} /\ taches[t].op = "payer"
       => fapshi[taches[t].ref] = "INCONNUE"

FournisseurSuivi == \A t \in Taches : Fournie(t)

\* The journal attests what is credited and what is about to be, one request at
\* most is about to credit a payment, and the balance counts each credit once.
JournalSuivi ==
  /\ \A r \in References :
       /\ journal[r].statut = "COMPLETE" /\ reglements[r].mode = "EN_LIGNE"
            => fapshi[r] = "SUCCESSFUL"
       /\ reglements[r].statut = "COMPLETE" => journal[r].statut = "COMPLETE"
  /\ \A t \in Taches : VaEcrire(t) =>
       /\ journal[taches[t].ref].statut = "COMPLETE"
       /\ reglements[taches[t].ref].statut # "COMPLETE"
  /\ \A t, u \in Taches : VaEcrire(t) /\ VaEcrire(u) /\ t # u => taches[t].ref # taches[u].ref

ConcurrentInv ==
  /\ FournisseurSuivi
  /\ ~Croisee => JournalSuivi /\ Equilibre

\* Once crossed, always so.
LEMMA CroiseeReste ==
  ASSUME Cadre, Evolue, ~Croisee'
  PROVE  ~Croisee
BY DEF Cadre, TypeOK, Preuve, Evolue, Croisee, Enregistrees

LEMMA FournisseurEtape ==
  ASSUME Cadre, FournisseurSuivi, SansRetour, [Next]_vars
  PROVE  FournisseurSuivi'
<1>. DEFINE Etapes == {"appliquer", "lire", "crediter", "echouer", "abandonner", "refermer"}
<1>1. TypeOK /\ \A t \in Taches : Placee(t)
  BY DEF Cadre
<1>2. ASSUME NEW t \in Taches, Seul(t), fapshi' = fapshi, Fournie(t)'
      PROVE  FournisseurSuivi'
  <2>1. ASSUME NEW u \in Taches, u # t PROVE Fournie(u)'
    <3>1. Fournie(u) /\ taches'[u] = taches[u]
      BY <1>2, <2>1 DEF Seul, FournisseurSuivi
    <3>. QED BY <1>2, <3>1 DEF Fournie
  <2>. QED BY <1>2, <2>1 DEF FournisseurSuivi
<1>3. ASSUME NEW t \in Taches, taches'[t].pc \notin Etapes PROVE Fournie(t)'
  BY <1>3 DEF Fournie
<1>4. ASSUME NEW t \in Taches, fapshi' = fapshi, taches[t].pc \in Etapes,
             taches'[t].op = taches[t].op, taches'[t].ref = taches[t].ref,
             taches'[t].issue = taches[t].issue,
             taches'[t].pc \in {"abandonner", "refermer"}
               => taches[t].pc \in {"abandonner", "refermer"},
             taches'[t].pc \in {"appliquer", "lire", "crediter", "echouer"}
               => taches[t].pc \in {"appliquer", "lire", "crediter", "echouer"}
      PROVE  Fournie(t)'
  BY <1>4 DEF Fournie, FournisseurSuivi
<1>5. ASSUME NEW t \in Taches, taches'[t].op \notin {"payer", "issue"} PROVE Fournie(t)'
  BY <1>5 DEF Fournie
<1>6. ASSUME NEW t \in Taches, Engagement(t) PROVE FournisseurSuivi'
  <2>1. Seul(t) /\ fapshi' = fapshi
    BY <1>1, <1>6, EvolutionEngagement DEF Engagement, Commencer, Engager, EngagerRefuse,
       OuvrirReglement, Initier, InitierLeve, AbandonnerDemande, Refermer
  <2>2. ASSUME NEW op, Commencer(t, op) PROVE Fournie(t)'
    <3>1. taches'[t].pc = "engager"
      BY <1>1, <2>2 DEF Commencer, TypeOK
    <3>. QED BY <1>3, <3>1
  <2>3. ASSUME NEW r, NEW m, Engager(t, r, m) PROVE Fournie(t)'
    <3>1. taches'[t].pc = "ouvrir"
      BY <1>1, <2>3 DEF Engager, EnVol, TypeOK
    <3>. QED BY <1>3, <3>1
  <2>4. ASSUME EngagerRefuse(t) \/ Initier(t) \/ Refermer(t) PROVE Fournie(t)'
    BY <1>1, <1>3, <2>4, TacheFin DEF EngagerRefuse, Initier, Refermer
  <2>5. ASSUME OuvrirReglement(t) PROVE Fournie(t)'
    <3>1. taches'[t].pc \in {"initier", "controler"}
      BY <1>1, <2>5, TacheSuit DEF OuvrirReglement
    <3>. QED BY <1>3, <3>1
  <2>6. ASSUME InitierLeve(t) PROVE Fournie(t)'
    <3>1. taches'[t].pc = "abandonner" /\ taches'[t].ref = taches[t].ref
      BY <1>1, <2>6, TacheSuit DEF InitierLeve
    <3>2. fapshi[taches[t].ref] = "INCONNUE"
      BY <2>6 DEF InitierLeve, SansRetour
    <3>. QED BY <2>1, <3>1, <3>2 DEF Fournie
  <2>7. ASSUME AbandonnerDemande(t) PROVE Fournie(t)'
    <3>1. /\ taches'[t].pc = "refermer" /\ taches[t].pc = "abandonner"
          /\ taches'[t].ref = taches[t].ref /\ taches'[t].op = taches[t].op
          /\ taches'[t].issue = taches[t].issue
      BY <1>1, <2>7, TacheSuit DEF AbandonnerDemande
    <3>. QED BY <1>4, <2>1, <3>1
  <2>. QED BY <1>2, <1>6, <2>1, <2>2, <2>3, <2>4, <2>5, <2>6, <2>7 DEF Engagement
<1>7. ASSUME NEW t \in Taches, Issue(t) PROVE FournisseurSuivi'
  <2>1. ~Expirer(t) /\ \A r : ~AbandonnerReglement(t, r)
    BY <1>1 DEF Expirer, AbandonnerReglement, Placee, Legale, SansRetour
  <2>2. Seul(t) /\ fapshi' = fapshi
    BY <1>1, <1>7, <2>1, EvolutionIssue DEF Issue, RecevoirIssue, AppliquerIssue, Lire, Crediter,
       Incrementer, Relire, Solder, Echouer
  <2>3. ASSUME NEW r \in References, NEW i \in {"COMPLETE", "ECHOUE"}, RecevoirIssue(t, r, i)
        PROVE  Fournie(t)'
    <3>1. /\ taches'[t].pc = "appliquer" /\ taches'[t].ref = r /\ taches'[t].issue = i
      BY <1>1, <2>3 DEF RecevoirIssue, EnVol, TypeOK
    <3>2. \/ i = "COMPLETE" /\ fapshi[r] = "SUCCESSFUL"
          \/ i = "ECHOUE" /\ fapshi[r] = "FAILED"
      <4>1. "expiration" \notin Operations
        BY DEF SansRetour
      <4>. QED BY <2>3, <4>1 DEF RecevoirIssue
    <3>. QED BY <2>2, <3>1, <3>2 DEF Fournie
  <2>4. ASSUME AppliquerIssue(t) PROVE Fournie(t)'
    <3>1. CASE Liberer(t)
      BY <1>1, <1>3, <3>1, TacheFin
    <3>2. CASE Aller(t, "lire")
      <4>1. /\ taches'[t].pc = "lire" /\ taches[t].pc = "appliquer"
            /\ taches'[t].ref = taches[t].ref /\ taches'[t].op = taches[t].op
            /\ taches'[t].issue = taches[t].issue
        BY <1>1, <2>4, <3>2, TacheSuit DEF AppliquerIssue
      <4>. QED BY <1>4, <2>2, <4>1
    <3>3. taches[t].op # "abandonner"
      BY <1>1, <2>4 DEF AppliquerIssue, Placee, SansRetour
    <3>. QED BY <2>4, <3>1, <3>2, <3>3 DEF AppliquerIssue
  <2>5. ASSUME Lire(t) PROVE Fournie(t)'
    <3>. DEFINE r == taches[t].ref
                m == IF reglements[r].mode = "JUSTIFICATIF"
                     THEN MontantDe(r) ELSE reglements[r].montant
    <3>1. CASE taches' = [taches EXCEPT ![t].pc = "crediter", ![t].montant = m]
      <4>1. /\ taches'[t].pc = "crediter" /\ taches[t].pc = "lire"
            /\ taches'[t].ref = taches[t].ref /\ taches'[t].op = taches[t].op
            /\ taches'[t].issue = taches[t].issue
        <5>. HIDE DEF m
        <5>. QED BY <1>1, <2>5, <3>1, TacheSuit DEF Lire
      <4>. QED BY <1>4, <2>2, <4>1
    <3>2. CASE Aller(t, "echouer")
      <4>1. /\ taches'[t].pc = "echouer" /\ taches[t].pc = "lire"
            /\ taches'[t].ref = taches[t].ref /\ taches'[t].op = taches[t].op
            /\ taches'[t].issue = taches[t].issue
        BY <1>1, <2>5, <3>2, TacheSuit DEF Lire
      <4>. QED BY <1>4, <2>2, <4>1
    <3>. QED BY <2>5, <3>1, <3>2 DEF Lire
  <2>6. ASSUME Crediter(t) \/ Incrementer(t) PROVE Fournie(t)'
    <3>1. taches'[t].pc \in {"incrementer", "relire"}
      BY <1>1, <2>6, TacheSuit DEF Crediter, Incrementer
    <3>. QED BY <1>3, <3>1
  <2>7. ASSUME Relire(t) \/ Solder(t) \/ Echouer(t) PROVE Fournie(t)'
    <3>1. taches'[t].pc \in {"solder", "libre"}
      BY <1>1, <2>7, TacheSuit, TacheFin DEF Relire, Solder, Echouer
    <3>. QED BY <1>3, <3>1
  <2>. QED BY <1>2, <1>7, <2>1, <2>2, <2>3, <2>4, <2>5, <2>6, <2>7 DEF Issue
<1>8. ASSUME NEW t \in Taches, Justification(t) PROVE FournisseurSuivi'
  <2>1. Seul(t) /\ fapshi' = fapshi
    BY <1>1, <1>8, EvolutionJustification DEF Justification, Deposer, Controler, InsererPreuve,
       Decider, MarquerPreuve, CertifierRecu, AnnulerValidation, VerifierFapshi, Defaire, Retirer,
       RouvrirTransaction
  <2>2. taches[t].pc # "libre" => taches[t].op \in Operations
    BY <1>1 DEF Placee
  <2>3. ~VerifierFapshi(t) /\ ~Defaire(t) /\ ~Retirer(t) /\ ~RouvrirTransaction(t)
        /\ \A p : ~AnnulerValidation(t, p)
    BY <1>1, <2>2 DEF VerifierFapshi, Defaire, Retirer, RouvrirTransaction, AnnulerValidation,
       Placee, Legale, SansRetour
  <2>4. ASSUME NEW r, Deposer(t, r) PROVE Fournie(t)'
    <3>1. taches'[t].pc = "controler"
      BY <1>1, <2>4 DEF Deposer, EnVol, TypeOK
    <3>. QED BY <1>3, <3>1
  <2>5. ASSUME NEW p, NEW op, NEW m, Decider(t, op, p, m) PROVE Fournie(t)'
    <3>1. taches'[t].pc = "marquer"
      BY <1>1, <2>5 DEF Decider, SurLaPreuve, TypeOK
    <3>. QED BY <1>3, <3>1
  <2>6. ASSUME NEW p \in Preuves, InsererPreuve(t, p) PROVE Fournie(t)'
    BY <1>1, <1>3, <2>6, TacheFin DEF InsererPreuve
  <2>7. ASSUME Controler(t) \/ MarquerPreuve(t) \/ CertifierRecu(t) PROVE Fournie(t)'
    <3>1. taches[t].op \notin {"payer", "issue"}
      BY <1>1, <2>7 DEF Controler, MarquerPreuve, CertifierRecu, Placee, Legale
    <3>2. Liberer(t) \/ \E e : Aller(t, e)
      <4>1. CASE MarquerPreuve(t)
        <5>1. taches[t].op \in {"valider", "refuser", "annuler"}
          BY <1>1, <4>1 DEF MarquerPreuve, Placee, Legale
        <5>. QED BY <4>1, <5>1 DEF MarquerPreuve
      <4>. QED BY <2>7, <4>1 DEF Controler, CertifierRecu
    <3>3. CASE Liberer(t)
      BY <1>1, <1>3, <3>3, TacheFin
    <3>4. ASSUME NEW e, Aller(t, e) PROVE Fournie(t)'
      <4>1. taches'[t].op = taches[t].op
        BY <1>1, <2>7, <3>4, TacheSuit DEF Controler, MarquerPreuve, CertifierRecu
      <4>. QED BY <1>5, <3>1, <4>1
    <3>. QED BY <3>2, <3>3, <3>4
  <2>. QED BY <1>2, <1>8, <2>1, <2>3, <2>4, <2>5, <2>6, <2>7 DEF Justification
<1>9. ASSUME NEW r \in References, FapshiCree(r) \/ FapshiTranche(r) PROVE FournisseurSuivi'
  <2>. SUFFICES ASSUME NEW t \in Taches PROVE Fournie(t)'
    BY DEF FournisseurSuivi
  <2>1. taches' = taches /\ Fournie(t)
    BY <1>9 DEF FapshiCree, FapshiTranche, FournisseurSuivi
  <2>2. taches[t].pc \in Etapes => taches[t].ref \in References
    BY <1>1, RefDe DEF EtapesReglement, EtapesPreuve
  <2>3. /\ \A q \in References : fapshi[q] \in {"SUCCESSFUL", "FAILED"} => fapshi'[q] = fapshi[q]
        /\ \A q \in References : q # r => fapshi'[q] = fapshi[q]
    BY <1>1, <1>9 DEF FapshiCree, FapshiTranche, TypeOK
  <2>4. ASSUME taches[t].pc \in {"abandonner", "refermer"}, taches[t].op = "payer"
        PROVE  fapshi'[taches[t].ref] = "INCONNUE"
    <3>1. fapshi[taches[t].ref] = "INCONNUE" /\ Ouvre(t, taches[t].ref)
      BY <2>1, <2>4 DEF Fournie, Ouvre
    <3>2. ASSUME taches[t].ref = r PROVE FALSE
      <4>1. PICK u \in Taches : taches[u].pc = "initier" /\ taches[u].ref = r
        BY <1>9, <3>1, <3>2 DEF FapshiCree, FapshiTranche
      <4>2. Ouvre(u, r) /\ u # t
        BY <1>1, <2>4, <4>1 DEF Ouvre, Placee, Legale
      <4>. QED BY <3>1, <3>2, <4>2 DEF Cadre, UneOuverture
    <3>. QED BY <2>2, <2>3, <2>4, <3>1, <3>2
  <2>. QED BY <2>1, <2>2, <2>3, <2>4 DEF Fournie
<1>10. CASE UNCHANGED vars
  BY <1>10 DEF vars, FournisseurSuivi, Fournie
<1>. QED BY <1>6, <1>7, <1>8, <1>9, <1>10 DEF Next, Fapshi

\* A step that changes neither what is credited, nor who is about to credit.
LEMMA CreditsRestent ==
  ASSUME Cadre, Evolue, JournalSuivi, Equilibre, NEW t \in Taches, Seul(t),
         montantRegle' = montantRegle,
         \A r \in References :
           /\ journal'[r].statut = "COMPLETE" <=> journal[r].statut = "COMPLETE"
           /\ reglements'[r].statut = "COMPLETE" <=> reglements[r].statut = "COMPLETE"
           /\ reglements[r].statut = "COMPLETE" => reglements'[r].montant = reglements[r].montant,
         VaEcrire(t)' => VaEcrire(t) /\ taches'[t].ref = taches[t].ref,
         taches[t].pc # "incrementer", taches'[t].pc # "incrementer"
  PROVE  JournalSuivi' /\ Equilibre'
<1>1. \A u \in Taches : VaEcrire(u)' => VaEcrire(u) /\ taches'[u].ref = taches[u].ref
  BY DEF Seul, VaEcrire
<1>2. \A u \in Taches : VaEcrire(u) => taches[u].ref \in References
  BY RefDe DEF Cadre, VaEcrire, EtapesReglement, EtapesPreuve
<1>3. \A r \in References : journal[r].statut = "COMPLETE" => reglements[r].mode # "AUCUN"
  BY DEF Cadre, Neuf
<1>4. \A r \in References :
        /\ journal'[r].statut = "COMPLETE" /\ reglements'[r].mode = "EN_LIGNE"
             => fapshi'[r] = "SUCCESSFUL"
        /\ reglements'[r].statut = "COMPLETE" => journal'[r].statut = "COMPLETE"
  BY <1>3 DEF Evolue, JournalSuivi
<1>5. \A u \in Taches : VaEcrire(u)' =>
        /\ journal'[taches'[u].ref].statut = "COMPLETE"
        /\ reglements'[taches'[u].ref].statut # "COMPLETE"
  BY <1>1, <1>2 DEF JournalSuivi
<1>6. \A u, v \in Taches : VaEcrire(u)' /\ VaEcrire(v)' /\ u # v => taches'[u].ref # taches'[v].ref
  BY <1>1 DEF JournalSuivi
<1>7. JournalSuivi'
  BY <1>4, <1>5, <1>6 DEF JournalSuivi
<1>8. Compte' = Compte
  BY DEF Compte
<1>9. AIncrementer' = AIncrementer
  BY DEF AIncrementer, Seul
<1>. QED BY <1>7, <1>8, <1>9, EquilibreReste

LEMMA JournalDuReglement ==
  ASSUME Cadre, NEW r \in References
  PROVE  /\ \/ Ouvrir(r) \/ EnregistrerReferenceExterne(r) \/ Abandonner(r)
            \/ \E m : Certifier(r, m)
            => \A q \in References :
                 journal'[q].statut = "COMPLETE" <=> journal[q].statut = "COMPLETE"
         /\ \A s : Appliquer(r, s)
              => /\ \A q \in References \ {r} : journal'[q] = journal[q]
                 /\ journal'[r].statut = IF AppliquerAffecte(r, s) THEN s ELSE journal[r].statut
<1>1. JournalTypeOK
  BY DEF Cadre, TypeOK
<1>2. ASSUME NEW q \in References, q # r,
             Ouvrir(r) \/ EnregistrerReferenceExterne(r) \/ Abandonner(r) \/ \E m : Certifier(r, m)
      PROVE  journal'[q] = journal[q]
  BY <1>1, <1>2, JournalAilleurs
<1>3. ASSUME Ouvrir(r) \/ EnregistrerReferenceExterne(r) \/ Abandonner(r) \/ \E m : Certifier(r, m)
      PROVE  journal'[r].statut = "COMPLETE" <=> journal[r].statut = "COMPLETE"
  BY <1>1, <1>3, JournalStatut DEF AbandonnerAffecte
<1>. QED BY <1>1, <1>2, <1>3, JournalAilleurs, JournalStatut

\* A credited payment is not given up, nor failed: the provider had never heard of
\* it, or had refused it.
LEMMA CrediteGarde ==
  ASSUME Cadre, FournisseurSuivi, JournalSuivi, SansRetour, NEW t \in Taches,
         Refermer(t) \/ Echouer(t), NEW r \in References
  PROVE  reglements[r].statut = "COMPLETE" => reglements'[r] = reglements[r]
<1>1. TypeOK /\ Placee(t)
  BY DEF Cadre
<1>2. taches[t].ref \in References
  BY <1>1, RefDe DEF Refermer, Echouer, EtapesReglement
<1>3. ASSUME reglements[r].statut = "COMPLETE", reglements[r].mode = "EN_LIGNE"
      PROVE  fapshi[r] = "SUCCESSFUL"
  BY <1>3 DEF JournalSuivi
<1>4. CASE Refermer(t)
  <2>1. taches[t].op \in {"payer", "justifier"} /\ taches[t].pc = "refermer"
    BY <1>1, <1>4 DEF Refermer, Placee, Legale, SansRetour
  <2>2. CASE taches[t].op = "payer"
    <3>1. fapshi[taches[t].ref] = "INCONNUE" /\ reglements[taches[t].ref].mode = "EN_LIGNE"
      BY <1>1, <2>1, <2>2 DEF FournisseurSuivi, Fournie, Placee
    <3>2. reglements[taches[t].ref].statut # "COMPLETE"
      BY <1>2, <3>1 DEF JournalSuivi
    <3>. QED BY <1>1, <1>2, <1>4, <3>2 DEF Refermer, Marquer, TypeOK
  <2>3. CASE taches[t].op = "justifier"
    BY <1>1, <1>2, <1>4, <2>3 DEF Refermer, Marquer, TypeOK
  <2>. QED BY <2>1, <2>2, <2>3
<1>5. CASE Echouer(t)
  <2>1. taches[t].op = "issue" /\ taches[t].issue = "ECHOUE" /\ taches[t].pc = "echouer"
    BY <1>1, <1>5 DEF Echouer, Placee, Legale, SansRetour
  <2>2. fapshi[taches[t].ref] = "FAILED" /\ reglements[taches[t].ref].mode = "EN_LIGNE"
    BY <1>1, <2>1 DEF FournisseurSuivi, Fournie, Placee
  <2>3. reglements[taches[t].ref].statut # "COMPLETE"
    BY <1>2, <2>2 DEF JournalSuivi
  <2>. QED BY <1>1, <1>2, <1>5, <2>3 DEF Echouer, Marquer, TypeOK
<1>. QED BY <1>4, <1>5

LEMMA CreditsEngagement ==
  ASSUME Cadre, FournisseurSuivi, JournalSuivi, Equilibre, SansRetour,
         NEW t \in Taches, Engagement(t)
  PROVE  JournalSuivi' /\ Equilibre'
<1>1. TypeOK /\ Placee(t) /\ Evolue /\ Seul(t) /\ \A r \in References : Neuf(r)
  BY EvolutionEngagement DEF Cadre
<1>2. montantRegle' = montantRegle
  BY DEF Engagement, Commencer, Engager, EngagerRefuse, OuvrirReglement, Initier, InitierLeve,
     AbandonnerDemande, Refermer
<1>3. taches[t].pc \in EtapesReglement => taches[t].ref \in References
  BY <1>1, RefDe
<1>4. ASSUME journal' = journal, reglements' = reglements, ~VaEcrire(t)',
             taches[t].pc # "incrementer", taches'[t].pc # "incrementer"
      PROVE  JournalSuivi' /\ Equilibre'
  BY <1>1, <1>2, <1>4, CreditsRestent
<1>5. ASSUME NEW op, Commencer(t, op) PROVE JournalSuivi' /\ Equilibre'
  <2>1. taches'[t].pc = "engager" /\ taches[t].pc = "libre"
    BY <1>1, <1>5 DEF Commencer, TypeOK, Libre
  <2>. QED BY <1>4, <1>5, <2>1 DEF Commencer, VaEcrire
<1>6. ASSUME NEW r \in References, NEW m \in 1 .. Du, Engager(t, r, m)
      PROVE  JournalSuivi' /\ Equilibre'
  <2>1. taches'[t].pc = "ouvrir" /\ taches[t].pc = "engager"
    BY <1>1, <1>6 DEF Engager, EnVol, TypeOK
  <2>2. /\ \A q \in References \ {r} : reglements'[q] = reglements[q]
        /\ reglements'[r].statut = "EN_ATTENTE" /\ reglements[r].statut = "EN_ATTENTE"
    BY <1>1, <1>6 DEF Engager, TypeOK, Neuf
  <2>3. journal' = journal
    BY <1>6 DEF Engager
  <2>. QED BY <1>1, <1>2, <2>1, <2>2, <2>3, CreditsRestent DEF VaEcrire
<1>7. ASSUME EngagerRefuse(t) \/ InitierLeve(t) PROVE JournalSuivi' /\ Equilibre'
  <2>1. taches'[t].pc \in {"libre", "abandonner"} /\ taches[t].pc \in {"engager", "initier"}
    BY <1>1, <1>7, TacheSuit, TacheFin DEF EngagerRefuse, InitierLeve
  <2>. QED BY <1>4, <1>7, <2>1 DEF EngagerRefuse, InitierLeve, VaEcrire
<1>8. ASSUME OuvrirReglement(t) \/ Initier(t) \/ AbandonnerDemande(t)
      PROVE  JournalSuivi' /\ Equilibre'
  <2>1. /\ taches'[t].pc \in {"initier", "controler", "libre", "refermer"}
        /\ taches[t].pc \in {"ouvrir", "initier", "abandonner"}
    BY <1>1, <1>8, TacheSuit, TacheFin DEF OuvrirReglement, Initier, AbandonnerDemande
  <2>2. taches[t].ref \in References
    BY <1>3, <2>1 DEF EtapesReglement
  <2>3. \A q \in References : journal'[q].statut = "COMPLETE" <=> journal[q].statut = "COMPLETE"
    <3>1. \/ Ouvrir(taches[t].ref)
          \/ EnregistrerReferenceExterne(taches[t].ref)
          \/ Abandonner(taches[t].ref)
      BY <1>8 DEF OuvrirReglement, Initier, AbandonnerDemande
    <3>. QED BY <2>2, <3>1, JournalDuReglement
  <2>4. reglements' = reglements
    BY <1>8 DEF OuvrirReglement, Initier, AbandonnerDemande
  <2>. QED BY <1>1, <1>2, <2>1, <2>3, <2>4, CreditsRestent DEF VaEcrire
<1>9. ASSUME Refermer(t) PROVE JournalSuivi' /\ Equilibre'
  <2>1. taches'[t].pc = "libre" /\ taches[t].pc = "refermer" /\ journal' = journal
    BY <1>1, <1>9, TacheFin DEF Refermer
  <2>2. \A r \in References : reglements'[r] = reglements[r] \/ reglements'[r].statut = "ECHOUE"
    BY <1>1, <1>3, <1>9 DEF Refermer, Marquer, TypeOK, EtapesReglement, Reglement
  <2>3. \A r \in References : reglements[r].statut = "COMPLETE" => reglements'[r] = reglements[r]
    BY <1>9, CrediteGarde
  <2>. QED BY <1>1, <1>2, <2>1, <2>2, <2>3, CreditsRestent DEF VaEcrire
<1>. QED BY <1>5, <1>6, <1>7, <1>8, <1>9 DEF Engagement

LEMMA CreditsIssue ==
  ASSUME Cadre, Cadre', FournisseurSuivi, JournalSuivi, Equilibre, SansRetour, ~Croisee,
         NEW t \in Taches, Issue(t)
  PROVE  JournalSuivi' /\ Equilibre'
<1>. DEFINE r == taches[t].ref
<1>1. TypeOK /\ TypeOK' /\ Placee(t) /\ Evolue /\ Seul(t) /\ \A q \in References : Neuf(q)
  BY EvolutionIssue DEF Cadre
<1>2. ~Expirer(t) /\ \A q : ~AbandonnerReglement(t, q)
  BY <1>1 DEF Expirer, AbandonnerReglement, Placee, Legale, SansRetour
<1>3. taches[t].pc \in EtapesReglement => r \in References
  BY <1>1, RefDe
<1>4. \A u \in Taches : VaEcrire(u) => taches[u].ref \in References
  BY <1>1, RefDe DEF VaEcrire, EtapesReglement, EtapesPreuve
<1>5. ASSUME NEW q \in References, NEW i, RecevoirIssue(t, q, i) PROVE JournalSuivi' /\ Equilibre'
  <2>1. taches'[t].pc = "appliquer" /\ taches[t].pc = "libre"
    BY <1>1, <1>5 DEF RecevoirIssue, EnVol, TypeOK, Libre
  <2>. QED BY <1>1, <1>5, <2>1, CreditsRestent DEF RecevoirIssue, VaEcrire
<1>6. ASSUME AppliquerIssue(t) PROVE JournalSuivi' /\ Equilibre'
  <2>. DEFINE s == taches[t].issue
  <2>1. /\ r \in References /\ taches[t].pc = "appliquer"
        /\ taches[t].op \in {"issue", "valider"} /\ s \in {"COMPLETE", "ECHOUE"}
        /\ s = "ECHOUE" => taches[t].op = "issue"
    BY <1>1, <1>3, <1>6 DEF AppliquerIssue, EtapesReglement, Placee, Legale, SansRetour
  <2>2. /\ \A q \in References \ {r} : journal'[q] = journal[q]
        /\ journal'[r].statut = IF AppliquerAffecte(r, s) THEN s ELSE journal[r].statut
    BY <1>6, <2>1, JournalDuReglement DEF AppliquerIssue
  <2>3. /\ UNCHANGED <<reglements, montantRegle, fapshi>>
        /\ IF AppliquerAffecte(r, s) THEN Aller(t, "lire") ELSE Liberer(t)
    BY <1>6, <2>1 DEF AppliquerIssue
  <2>4. /\ taches'[t].pc \in {"lire", "libre"}
        /\ taches'[t].pc = "lire" => AppliquerAffecte(r, s)
        /\ taches'[t].pc = "lire" => taches'[t].ref = r
        /\ taches'[t].pc = "lire" => taches'[t].issue = s
    BY <1>1, <2>1, <2>3, TacheSuit, TacheFin
  <2>5. CASE s = "ECHOUE"
    <3>1. fapshi[r] = "FAILED" /\ reglements[r].mode = "EN_LIGNE"
      BY <1>1, <2>1, <2>5 DEF FournisseurSuivi, Fournie, Placee
    <3>2. journal[r].statut # "COMPLETE"
      BY <2>1, <3>1 DEF JournalSuivi
    <3>3. \A q \in References : journal'[q].statut = "COMPLETE" <=> journal[q].statut = "COMPLETE"
      BY <2>2, <2>5, <3>2
    <3>4. ~VaEcrire(t)'
      BY <2>4, <2>5 DEF VaEcrire
    <3>. QED BY <1>1, <2>1, <2>3, <2>4, <3>3, <3>4, CreditsRestent
  <2>6. CASE s = "COMPLETE" /\ ~AppliquerAffecte(r, s)
    <3>1. \A q \in References : journal'[q].statut = "COMPLETE" <=> journal[q].statut = "COMPLETE"
      BY <2>2, <2>6
    <3>2. ~VaEcrire(t)'
      BY <2>4, <2>6 DEF VaEcrire
    <3>. QED BY <1>1, <2>1, <2>3, <2>4, <3>1, <3>2, CreditsRestent
  <2>7. CASE s = "COMPLETE" /\ AppliquerAffecte(r, s)
    <3>1. journal[r].statut # "COMPLETE" /\ journal'[r].statut = "COMPLETE"
      BY <2>2, <2>7 DEF AppliquerAffecte
    <3>2. reglements[r].statut # "COMPLETE"
      BY <2>1, <3>1 DEF JournalSuivi
    <3>3. \A u \in Taches : VaEcrire(u) => taches[u].ref # r
      BY <3>1 DEF JournalSuivi
    <3>4. reglements[r].mode = "EN_LIGNE" => fapshi[r] = "SUCCESSFUL"
      <4>1. CASE taches[t].op = "issue"
        BY <2>1, <2>7, <4>1 DEF FournisseurSuivi, Fournie
      <4>2. CASE taches[t].op = "valider"
        <5>1. taches[t].preuve \in Preuves
          <6>1. taches[t] \in SurPreuve
            BY <1>1, <2>1, <4>2, Formes, ChampsReglement DEF EtapesReglement
          <6>. QED BY <6>1, ChampsPreuve
        <5>2. taches[t].preuve \in Enregistrees /\ preuves[taches[t].preuve].ref = r
          BY <1>1, <2>1, <4>2, <5>1 DEF Placee, Enregistrees
        <5>. QED BY <5>2 DEF Croisee
      <4>. QED BY <2>1, <4>1, <4>2
    <3>5. \A q \in References :
            /\ journal'[q].statut = "COMPLETE" /\ reglements'[q].mode = "EN_LIGNE"
                 => fapshi'[q] = "SUCCESSFUL"
            /\ reglements'[q].statut = "COMPLETE" => journal'[q].statut = "COMPLETE"
      BY <2>2, <2>3, <3>1, <3>4 DEF JournalSuivi
    <3>6. \A u \in Taches \ {t} : VaEcrire(u)' => VaEcrire(u) /\ taches'[u].ref = taches[u].ref
      BY <1>1 DEF Seul, VaEcrire
    <3>7. VaEcrire(t)' => taches'[t].ref = r
      BY <2>4 DEF VaEcrire
    <3>8. \A u \in Taches : VaEcrire(u)' =>
            /\ journal'[taches'[u].ref].statut = "COMPLETE"
            /\ reglements'[taches'[u].ref].statut # "COMPLETE"
      BY <1>4, <2>2, <2>3, <3>1, <3>2, <3>3, <3>6, <3>7 DEF JournalSuivi
    <3>9. \A u, v \in Taches : VaEcrire(u)' /\ VaEcrire(v)' /\ u # v
            => taches'[u].ref # taches'[v].ref
      <4>. HIDE DEF r
      <4>. QED BY <3>3, <3>6, <3>7 DEF JournalSuivi
    <3>10. JournalSuivi'
      BY <3>5, <3>8, <3>9 DEF JournalSuivi
    <3>11. Compte' = Compte /\ AIncrementer' = AIncrementer
      BY <1>1, <2>1, <2>3, <2>4 DEF Compte, AIncrementer, Seul
    <3>. QED BY <2>3, <3>10, <3>11, EquilibreReste
  <2>. QED BY <2>1, <2>5, <2>6, <2>7
<1>7. ASSUME Lire(t) PROVE JournalSuivi' /\ Equilibre'
  <2>. DEFINE m == IF reglements[r].mode = "JUSTIFICATIF"
                   THEN MontantDe(r) ELSE reglements[r].montant
  <2>1. /\ taches'[t].pc \in {"crediter", "echouer"} /\ taches[t].pc = "lire"
        /\ taches'[t].ref = r /\ taches'[t].issue = taches[t].issue
    <3>1. CASE taches' = [taches EXCEPT ![t].pc = "crediter", ![t].montant = m]
      <4>. HIDE DEF m
      <4>. QED BY <1>1, <1>7, <3>1, TacheSuit DEF Lire
    <3>2. CASE Aller(t, "echouer")
      BY <1>1, <1>7, <3>2, TacheSuit DEF Lire
    <3>. QED BY <1>7, <3>1, <3>2 DEF Lire
  <2>2. VaEcrire(t)' => VaEcrire(t)
    BY <2>1 DEF VaEcrire
  <2>3. UNCHANGED <<journal, reglements, montantRegle>>
    BY <1>7 DEF Lire
  <2>. QED BY <1>1, <2>1, <2>2, <2>3, CreditsRestent
<1>8. ASSUME Crediter(t) PROVE JournalSuivi' /\ Equilibre'
  <2>1. /\ taches[t].pc = "crediter" /\ taches'[t].pc = "incrementer"
        /\ taches'[t].montant = taches[t].montant /\ taches[t].issue = "COMPLETE"
    BY <1>1, <1>8, TacheSuit DEF Crediter, Placee, Legale
  <2>2. VaEcrire(t) /\ ~VaEcrire(t)' /\ r \in References
    BY <1>4, <2>1 DEF VaEcrire
  <2>3. /\ reglements'[r].statut = "COMPLETE" /\ reglements'[r].montant = taches[t].montant
        /\ reglements'[r].mode = reglements[r].mode
        /\ \A q \in References \ {r} : reglements'[q] = reglements[q]
        /\ UNCHANGED <<journal, fapshi, montantRegle>>
    BY <1>1, <1>8, <2>2 DEF Crediter, TypeOK, Reglement
  <2>4. journal[r].statut = "COMPLETE" /\ reglements[r].statut # "COMPLETE"
    BY <2>2 DEF JournalSuivi
  <2>5. \A u \in Taches : VaEcrire(u)' => VaEcrire(u) /\ u # t /\ taches'[u].ref = taches[u].ref
    BY <1>1, <2>2 DEF Seul, VaEcrire
  <2>6. \A q \in References :
          /\ journal'[q].statut = "COMPLETE" /\ reglements'[q].mode = "EN_LIGNE"
               => fapshi'[q] = "SUCCESSFUL"
          /\ reglements'[q].statut = "COMPLETE" => journal'[q].statut = "COMPLETE"
    BY <2>2, <2>3, <2>4 DEF JournalSuivi
  <2>7. \A u \in Taches : VaEcrire(u)' =>
          /\ journal'[taches'[u].ref].statut = "COMPLETE"
          /\ reglements'[taches'[u].ref].statut # "COMPLETE"
    BY <1>4, <2>2, <2>3, <2>5 DEF JournalSuivi
  <2>8. \A u, v \in Taches : VaEcrire(u)' /\ VaEcrire(v)' /\ u # v
          => taches'[u].ref # taches'[v].ref
    BY <2>5 DEF JournalSuivi
  <2>9. JournalSuivi'
    BY <2>6, <2>7, <2>8 DEF JournalSuivi
  <2>10. Equilibre'
    BY <1>1, <2>1, <2>2, <2>3, <2>4, EquilibreCredite
  <2>. QED BY <2>9, <2>10
<1>9. ASSUME Incrementer(t) PROVE JournalSuivi' /\ Equilibre'
  <2>1. taches[t].pc = "incrementer" /\ taches'[t].pc = "relire"
    BY <1>1, <1>9, TacheSuit DEF Incrementer
  <2>2. UNCHANGED <<journal, reglements, fapshi>>
        /\ montantRegle' = montantRegle + taches[t].montant
    BY <1>9 DEF Incrementer
  <2>3. \A u \in Taches : VaEcrire(u)' => VaEcrire(u) /\ taches'[u].ref = taches[u].ref
    BY <1>1, <2>1 DEF Seul, VaEcrire
  <2>4. JournalSuivi'
    BY <2>2, <2>3 DEF JournalSuivi
  <2>5. Compte' = Compte
    BY <2>2 DEF Compte
  <2>6. Equilibre'
    BY <1>1, <2>1, <2>2, <2>5, EquilibreIncremente
  <2>. QED BY <2>4, <2>6
<1>10. ASSUME Relire(t) \/ Solder(t) PROVE JournalSuivi' /\ Equilibre'
  <2>1. taches'[t].pc \in {"solder", "libre"} /\ taches[t].pc \in {"relire", "solder"}
    BY <1>1, <1>10, TacheSuit, TacheFin DEF Relire, Solder
  <2>. QED BY <1>1, <1>10, <2>1, CreditsRestent DEF Relire, Solder, VaEcrire
<1>11. ASSUME Echouer(t) PROVE JournalSuivi' /\ Equilibre'
  <2>1. taches'[t].pc = "libre" /\ taches[t].pc = "echouer"
        /\ UNCHANGED <<journal, montantRegle>>
    BY <1>1, <1>11, TacheFin DEF Echouer
  <2>2. \A q \in References : reglements'[q] = reglements[q] \/ reglements'[q].statut = "ECHOUE"
    BY <1>1, <1>3, <1>11 DEF Echouer, Marquer, TypeOK, EtapesReglement, Reglement
  <2>3. \A q \in References : reglements[q].statut = "COMPLETE" => reglements'[q] = reglements[q]
    BY <1>11, CrediteGarde
  <2>. QED BY <1>1, <2>1, <2>2, <2>3, CreditsRestent DEF VaEcrire
<1>. QED BY <1>2, <1>5, <1>6, <1>7, <1>8, <1>9, <1>10, <1>11 DEF Issue

LEMMA CreditsJustification ==
  ASSUME Cadre, FournisseurSuivi, JournalSuivi, Equilibre, SansRetour,
         NEW t \in Taches, Justification(t)
  PROVE  JournalSuivi' /\ Equilibre'
<1>1. TypeOK /\ Placee(t) /\ Evolue /\ Seul(t)
  BY EvolutionJustification DEF Cadre
<1>2. /\ \A p : ~AnnulerValidation(t, p)
      /\ ~VerifierFapshi(t) /\ ~Defaire(t) /\ ~Retirer(t) /\ ~RouvrirTransaction(t)
  BY <1>1 DEF VerifierFapshi, Defaire, Retirer, RouvrirTransaction, AnnulerValidation,
     Placee, Legale, SansRetour
<1>3. UNCHANGED <<reglements, montantRegle>>
  BY <1>2 DEF Justification, Deposer, Controler, InsererPreuve, Decider, MarquerPreuve,
     CertifierRecu
<1>4. ASSUME ~VaEcrire(t)', taches[t].pc # "incrementer", taches'[t].pc # "incrementer",
             \A r \in References :
               journal'[r].statut = "COMPLETE" <=> journal[r].statut = "COMPLETE"
      PROVE  JournalSuivi' /\ Equilibre'
  BY <1>1, <1>3, <1>4, CreditsRestent
<1>5. ASSUME NEW r \in References, Deposer(t, r) PROVE JournalSuivi' /\ Equilibre'
  <2>1. taches'[t].pc = "controler" /\ taches[t].pc = "libre" /\ journal' = journal
    BY <1>1, <1>5 DEF Deposer, EnVol, TypeOK, Libre
  <2>. QED BY <1>4, <2>1 DEF VaEcrire
<1>6. ASSUME Controler(t) PROVE JournalSuivi' /\ Equilibre'
  <2>1. /\ taches'[t].pc \in {"deposer", "abandonner", "libre"}
        /\ taches[t].pc = "controler" /\ journal' = journal
    BY <1>1, <1>6, TacheSuit, TacheFin DEF Controler
  <2>. QED BY <1>4, <2>1 DEF VaEcrire
<1>7. ASSUME NEW p \in Preuves, InsererPreuve(t, p) PROVE JournalSuivi' /\ Equilibre'
  <2>1. taches'[t].pc = "libre" /\ taches[t].pc = "deposer" /\ journal' = journal
    BY <1>1, <1>7, TacheFin DEF InsererPreuve
  <2>. QED BY <1>4, <2>1 DEF VaEcrire
<1>8. ASSUME NEW p \in Preuves, NEW op, NEW m, Decider(t, op, p, m)
      PROVE  JournalSuivi' /\ Equilibre'
  <2>1. taches'[t].pc = "marquer" /\ taches[t].pc = "libre" /\ journal' = journal
    BY <1>1, <1>8 DEF Decider, SurLaPreuve, TypeOK, Libre
  <2>. QED BY <1>4, <2>1 DEF VaEcrire
<1>9. ASSUME MarquerPreuve(t) PROVE JournalSuivi' /\ Equilibre'
  <2>1. taches[t].op = "valider" /\ taches[t].pc = "marquer" /\ journal' = journal
    BY <1>1, <1>9 DEF MarquerPreuve, Placee, Legale, SansRetour
  <2>2. taches'[t].pc = "certifier"
    BY <1>1, <1>9, <2>1, TacheSuit DEF MarquerPreuve
  <2>. QED BY <1>4, <2>1, <2>2 DEF VaEcrire
<1>10. ASSUME CertifierRecu(t) PROVE JournalSuivi' /\ Equilibre'
  <2>1. taches'[t].pc = "appliquer" /\ taches[t].pc = "certifier"
    BY <1>1, <1>10, TacheSuit DEF CertifierRecu
  <2>2. taches[t].ref \in References /\ Certifier(taches[t].ref, "recu")
    BY <1>1, <1>10, RefDe DEF CertifierRecu, EtapesPreuve
  <2>3. \A r \in References : journal'[r].statut = "COMPLETE" <=> journal[r].statut = "COMPLETE"
    BY <2>2, JournalDuReglement
  <2>. QED BY <1>4, <2>1, <2>3 DEF VaEcrire
<1>. QED BY <1>2, <1>5, <1>6, <1>7, <1>8, <1>9, <1>10 DEF Justification

\* The provider settles a payment nobody credited on its word.
LEMMA CreditsFapshi ==
  ASSUME Cadre, JournalSuivi, Equilibre, NEW r \in References,
         FapshiCree(r) \/ FapshiTranche(r)
  PROVE  JournalSuivi' /\ Equilibre'
<1>1. UNCHANGED <<journal, reglements, montantRegle, taches>>
  BY DEF FapshiCree, FapshiTranche
<1>2. \A q \in References : fapshi[q] = "SUCCESSFUL" => fapshi'[q] = "SUCCESSFUL"
  BY DEF FapshiCree, FapshiTranche, Cadre, TypeOK
<1>3. JournalSuivi'
  BY <1>1, <1>2 DEF JournalSuivi, VaEcrire
<1>4. Compte' = Compte /\ AIncrementer' = AIncrementer
  BY <1>1 DEF Compte, AIncrementer
<1>. QED BY <1>1, <1>3, <1>4, EquilibreReste

LEMMA ConcurrentEtape ==
  ASSUME Cadre, Cadre', ConcurrentInv, SansRetour, [Next]_vars
  PROVE  ConcurrentInv'
<1>1. FournisseurSuivi'
  BY FournisseurEtape DEF ConcurrentInv
<1>2. ASSUME ~Croisee' PROVE JournalSuivi' /\ Equilibre'
  <2>1. CASE UNCHANGED vars
    <3>1. ~Croisee /\ Compte' = Compte /\ AIncrementer' = AIncrementer
      BY <1>2, <2>1 DEF vars, Croisee, Enregistrees, Compte, AIncrementer
    <3>2. JournalSuivi'
      BY <2>1, <3>1 DEF vars, ConcurrentInv, JournalSuivi, VaEcrire
    <3>. QED BY <2>1, <3>1, <3>2, EquilibreReste DEF vars, ConcurrentInv
  <2>2. ASSUME NEW t \in Taches, Engagement(t) \/ Issue(t) \/ Justification(t)
        PROVE  JournalSuivi' /\ Equilibre'
    <3>1. Evolue
      BY <2>2, EvolutionEngagement, EvolutionIssue, EvolutionJustification DEF Cadre
    <3>2. ~Croisee /\ FournisseurSuivi /\ JournalSuivi /\ Equilibre
      BY <1>2, <3>1, CroiseeReste DEF ConcurrentInv
    <3>. QED BY <2>2, <3>2, CreditsEngagement, CreditsIssue, CreditsJustification
  <2>3. ASSUME NEW r \in References, FapshiCree(r) \/ FapshiTranche(r)
        PROVE  JournalSuivi' /\ Equilibre'
    <3>1. Evolue
      BY <2>3, EvolutionFapshi DEF Cadre
    <3>2. JournalSuivi /\ Equilibre
      BY <1>2, <3>1, CroiseeReste DEF ConcurrentInv
    <3>. QED BY <2>3, <3>2, CreditsFapshi
  <2>. QED BY <2>1, <2>2, <2>3 DEF Next, Fapshi
<1>. QED BY <1>1, <1>2 DEF ConcurrentInv

LEMMA ConcurrentInit == Init => ConcurrentInv
<1>. SUFFICES ASSUME Init PROVE ConcurrentInv
  OBVIOUS
<1>1. \A t \in Taches : taches[t] = Libre
  BY DEF Init
<1>2. FournisseurSuivi
  BY <1>1 DEF FournisseurSuivi, Fournie, Libre
<1>3. JournalSuivi
  BY <1>1 DEF Init, JournalInit, JournalSuivi, VaEcrire, Libre
<1>4. Somme(Compte, References) = 0
  <2>1. \A r \in References : Compte[r] = 0
    BY DEF Init, Compte
  <2>. HIDE DEF Compte
  <2>. QED BY <2>1, SommeNulle, ReferencesAssumption
<1>5. Somme(AIncrementer, Taches) = 0
  <2>1. \A t \in Taches : AIncrementer[t] = 0
    BY <1>1 DEF AIncrementer, Libre
  <2>. HIDE DEF AIncrementer
  <2>. QED BY <2>1, SommeNulle, TachesAssumption
<1>. QED BY <1>2, <1>3, <1>4, <1>5 DEF ConcurrentInv, Equilibre, Init

------------------------------------------------------------------------------
(* Requests one at a time, all of them: what each leaves behind it, when it  *)
(* ends, and what it has done to its payment when it has not.              *)

LEMMA EquilibreStable ==
  ASSUME Equilibre, montantRegle' = montantRegle, NEW t \in Taches, Seul(t),
         taches[t].pc # "incrementer", taches'[t].pc # "incrementer",
         \A r \in References :
           /\ reglements'[r].statut = "COMPLETE" <=> reglements[r].statut = "COMPLETE"
           /\ reglements[r].statut = "COMPLETE" => reglements'[r].montant = reglements[r].montant
  PROVE  Equilibre'
<1>1. Compte' = Compte
  BY DEF Compte
<1>2. AIncrementer' = AIncrementer
  BY DEF AIncrementer, Seul
<1>. QED BY <1>1, <1>2, EquilibreReste

LEMMA EquilibreRetire ==
  ASSUME TypeOK, TypeOK', Equilibre, NEW r \in References, reglements[r].statut = "COMPLETE",
         reglements'[r].statut # "COMPLETE",
         \A q \in References \ {r} : reglements'[q] = reglements[q],
         montantRegle' = montantRegle - reglements[r].montant,
         NEW t \in Taches, Seul(t), taches[t].pc # "incrementer", taches'[t].pc # "incrementer"
  PROVE  Equilibre'
<1>. DEFINE c == Compte
            cc == Compte'
            m == reglements[r].montant
<1>1. c[r] = m /\ cc[r] = 0 /\ \A q \in References \ {r} : c[q] = cc[q]
  BY DEF Compte
<1>2. /\ \A q \in References : c[q] \in Int /\ cc[q] \in Int
      /\ Somme(c, References) \in Nat /\ IsFiniteSet(References)
      /\ Somme(AIncrementer, Taches) \in Nat
  <2>1. /\ \A q \in References : c[q] \in Nat
        /\ Somme(c, References) \in Nat /\ IsFiniteSet(References)
        /\ Somme(AIncrementer, Taches) \in Nat
    BY SommesTypees
  <2>2. \A q \in References : cc[q] \in Nat
    BY DEF TypeOK, Reglement, Compte
  <2>. HIDE DEF c, cc
  <2>. QED BY <2>1, <2>2
<1>3. montantRegle \in Nat /\ m \in Nat
  BY DEF TypeOK, Reglement
<1>4. AIncrementer' = AIncrementer
  BY DEF AIncrementer, Seul
<1>5. montantRegle + Somme(AIncrementer, Taches) = Somme(c, References)
  BY DEF Equilibre
<1>6. Equilibre' <=> montantRegle' + Somme(AIncrementer, Taches) = Somme(cc, References)
  BY <1>4 DEF Equilibre
<1>7. montantRegle' = montantRegle - m
  OBVIOUS
<1>. HIDE DEF c, cc, m
<1>8. Somme(cc, References) = Somme(c, References) - c[r] + cc[r]
  BY <1>1, <1>2, SommeChange
<1>. QED BY <1>1, <1>2, <1>3, <1>5, <1>6, <1>7, <1>8

\* The proofs of a payment.
PreuvesDe(r) == {p \in Enregistrees : preuves[p].ref = r}

UnePreuve == \A p, q \in Enregistrees : preuves[p].ref = preuves[q].ref => p = q

\* What is decided of a proof, for each status of the row of its payment.
Decision(s) ==
  IF s = "COMPLETE" THEN "VALIDE" ELSE IF s = "ECHOUE" THEN "REFUSE" ELSE "EN_ATTENTE"

\* The payment, its row and its proof say the same thing, and a COMPLETE row has
\* something to show for it.
Regle(r) ==
  /\ journal[r].statut # "ABSENTE" => reglements[r].statut = journal[r].statut
  /\ journal[r].statut = "COMPLETE" => fapshi[r] = "SUCCESSFUL" \/ PreuvesDe(r) # {}
  /\ \A p \in PreuvesDe(r) :
       /\ preuves[p].statut = Decision(journal[r].statut)
       /\ preuves[p].statut = "VALIDE" => preuves[p].recu = reglements[r].montant

\* A request in the middle of what it does to its payment.
Devie(t) ==
  \/ taches[t].pc \in {"refermer", "lire", "crediter", "echouer", "certifier", "rouvrir"}
  \/ taches[t].pc = "appliquer" /\ taches[t].op \in {"valider", "refuser"}
  \/ taches[t].pc = "marquer" /\ taches[t].op = "annuler"

Statut(r, j, s) == journal[r].statut = j /\ reglements[r].statut = s

\* A payment being opened, or closed again, has no proof yet.
PasOuverture(t) ==
  LET k == taches[t]
      r == taches[t].ref
  IN  /\ \/ k.pc \in {"initier", "abandonner"}
         \/ k.op = "justifier" /\ k.pc \in {"controler", "deposer"}
         => Statut(r, "EN_ATTENTE", "EN_ATTENTE") /\ ~journal[r].ext /\ PreuvesDe(r) = {}
      /\ k.pc = "deposer" => Statut(r, "EN_ATTENTE", "EN_ATTENTE") /\ ~DejaUne(r)
      /\ k.pc = "refermer" => Statut(r, "ECHOUE", "EN_ATTENTE") /\ PreuvesDe(r) = {}

\* An issue on its way.
PasIssue(t) ==
  LET k == taches[t]
      r == taches[t].ref
  IN  /\ k.pc \in {"expirer", "appliquer"} /\ k.op = "abandonner"
           => reglements[r].statut = "EN_ATTENTE"
      /\ k.pc = "appliquer" /\ k.op = "issue" /\ k.issue = "COMPLETE"
           => fapshi[r] = "SUCCESSFUL"
      /\ k.pc = "appliquer" /\ k.op = "issue" /\ k.issue = "ECHOUE"
           => reglements[r].statut # "COMPLETE"
      /\ k.pc \in {"lire", "crediter"} /\ k.issue = "COMPLETE" =>
           /\ journal[r].statut = "COMPLETE" /\ reglements[r].statut # "COMPLETE"
           /\ k.op = "issue" => fapshi[r] = "SUCCESSFUL"
      /\ k.pc \in {"lire", "echouer"} /\ k.issue = "ECHOUE" =>
           journal[r].statut = "ECHOUE" /\ reglements[r].statut # "COMPLETE"

\* A decision on its way, from the proof to the payment.
PasDecision(t) ==
  LET k == taches[t]
      r == taches[t].ref
      p == preuves[taches[t].preuve]
  IN  /\ k.op \in {"valider", "refuser"} /\ k.pc = "marquer" => p.statut = "EN_ATTENTE"
      /\ k.op \in {"valider", "refuser"} /\ k.pc \in {"certifier", "appliquer"} =>
           Statut(r, "EN_ATTENTE", "EN_ATTENTE")
      /\ k.op = "refuser" /\ k.pc \in {"appliquer", "lire", "echouer"} => p.statut = "REFUSE"
      /\ k.op = "valider" /\ k.pc \in {"certifier", "appliquer", "lire", "crediter"} =>
           p.statut = "VALIDE"
      /\ k.op = "valider" /\ k.pc \in {"certifier", "crediter"} => p.recu = k.montant
      /\ k.op = "valider" /\ k.pc \in {"appliquer", "lire"} =>
           journal[r].montant = "recu" /\ p.recu = certifies[r]

\* A validation being undone, from the payment to the proof.
PasAnnulation(t) ==
  LET k == taches[t]
      r == taches[t].ref
  IN  k.op = "annuler" =>
        /\ preuves[k.preuve].statut = "VALIDE"
        /\ k.pc = "retirer" => k.montant = reglements[r].montant
        /\ k.pc = "rouvrir" => Statut(r, "COMPLETE", "EN_ATTENTE")
        /\ k.pc = "marquer" => Statut(r, "EN_ATTENTE", "EN_ATTENTE")

PasSuivi(t) ==
  taches[t].pc \notin {"libre", "engager"} =>
    PasOuverture(t) /\ PasIssue(t) /\ PasDecision(t) /\ PasAnnulation(t)

\* Every payment is in order, but the one a request is in the middle of.
SequenceInv ==
  /\ UnePreuve
  /\ \A r \in References :
       (\A t \in Taches : Devie(t) => taches[t].ref # r) => Regle(r)
  /\ \A t \in Taches : PasSuivi(t)
  /\ Equilibre


\* A decision is on a proof of its payment.
LEMMA LaPreuve ==
  ASSUME Cadre, NEW t \in Taches, taches[t].pc \notin {"libre", "engager"},
         taches[t].op \in {"valider", "refuser", "annuler"}
  PROVE  /\ taches[t].preuve \in Preuves /\ taches[t].preuve \in PreuvesDe(taches[t].ref)
         /\ preuves[taches[t].preuve].ref = taches[t].ref
<1>1. taches[t] \in SurReglement \cup SurPreuve
  BY Formes DEF Cadre, Libre
<1>2. taches[t].preuve \in Preuves
  BY <1>1, ChampsReglement, ChampsPreuve
<1>. QED BY <1>2 DEF Cadre, Placee, PreuvesDe, Enregistrees

\* The only payments with a proof are those to be proved.
LEMMA SansPreuve ==
  ASSUME ~Croisee, NEW r
  PROVE  reglements[r].mode = "EN_LIGNE" => PreuvesDe(r) = {}
BY DEF Croisee, PreuvesDe

\* A request that only reads, or that touches nothing but the balance.
LEMMA SequenceLit ==
  ASSUME UneALaFois, SequenceInv, NEW t \in Taches,
         UNCHANGED <<journal, fapshi, reglements, preuves>>,
         Devie(t) => Devie(t)' /\ taches'[t].ref = taches[t].ref,
         PasSuivi(t)', Equilibre'
  PROVE  SequenceInv'
<1>1. UnePreuve'
  BY DEF SequenceInv, UnePreuve, Enregistrees
<1>2. ASSUME NEW r \in References, \A u \in Taches : Devie(u)' => taches'[u].ref # r
      PROVE  Regle(r)'
  <2>1. \A u \in Taches : Devie(u) => taches[u].ref # r
    BY <1>2 DEF UneALaFois
  <2>. QED BY <2>1 DEF SequenceInv, Regle, PreuvesDe, Enregistrees
<1>3. \A u \in Taches : PasSuivi(u)'
  BY DEF UneALaFois
<1>. QED BY <1>1, <1>2, <1>3 DEF SequenceInv

\* A request that touches one payment, its row and its proof.
LEMMA SequenceSuit ==
  ASSUME UneALaFois, SequenceInv, Evolue, NEW t \in Taches, NEW q \in References,
         \A r \in References \ {q} :
           /\ journal'[r] = journal[r] /\ reglements'[r] = reglements[r]
           /\ fapshi'[r] = fapshi[r],
         \A p \in Preuves : preuves'[p] = preuves[p] \/ preuves'[p].ref = q,
         Devie(t) => taches[t].ref = q,
         (Devie(t)' /\ taches'[t].ref = q) \/ Regle(q)',
         UnePreuve', PasSuivi(t)', Equilibre'
  PROVE  SequenceInv'
<1>1. ASSUME NEW r \in References, \A u \in Taches : Devie(u)' => taches'[u].ref # r
      PROVE  Regle(r)'
  <2>1. CASE r = q
    BY <1>1, <2>1
  <2>2. CASE r # q
    <3>1. \A u \in Taches : Devie(u) => taches[u].ref # r
      BY <2>2 DEF UneALaFois
    <3>2. Regle(r)
      BY <3>1 DEF SequenceInv
    <3>3. /\ \A p \in PreuvesDe(r)' : p \in PreuvesDe(r) /\ preuves'[p] = preuves[p]
          /\ \A p \in PreuvesDe(r) : p \in PreuvesDe(r)'
      BY <2>2 DEF PreuvesDe, Enregistrees, Evolue
    <3>. QED BY <2>2, <3>2, <3>3 DEF Regle
  <2>. QED BY <2>1, <2>2
<1>2. \A u \in Taches : PasSuivi(u)'
  BY DEF UneALaFois
<1>. QED BY <1>1, <1>2 DEF SequenceInv

\* What the invariant says of the payment a request is about to touch.
LEMMA SequenceAvant ==
  ASSUME UneALaFois, SequenceInv, NEW t \in Taches
  PROVE  /\ UnePreuve /\ PasSuivi(t) /\ Equilibre
         /\ ~Devie(t) => \A r \in References : Regle(r)
BY DEF SequenceInv, UneALaFois

LEMMA PreuvesInchangees ==
  ASSUME UnePreuve, preuves' = preuves
  PROVE  UnePreuve' /\ \A r : PreuvesDe(r)' = PreuvesDe(r)
BY DEF UnePreuve, Enregistrees, PreuvesDe

LEMMA SequenceEngagement ==
  ASSUME Cadre, Cadre', UneALaFois, SequenceInv, ~Croisee, NEW t \in Taches, Engagement(t)
  PROVE  SequenceInv'
<1>. PICK q : q = taches[t].ref
  OBVIOUS
<1>1. TypeOK /\ TypeOK' /\ Placee(t) /\ Evolue /\ Seul(t) /\ \A r \in References : Neuf(r)
  BY EvolutionEngagement DEF Cadre
<1>2. /\ UnePreuve /\ PasSuivi(t) /\ Equilibre
      /\ ~Devie(t) => \A r \in References : Regle(r)
  BY SequenceAvant
<1>3. taches[t].pc \in EtapesReglement => q \in References
  BY <1>1, RefDe
<1>4. montantRegle' = montantRegle
  BY DEF Engagement, Commencer, Engager, EngagerRefuse, OuvrirReglement, Initier, InitierLeve,
     AbandonnerDemande, Refermer
<1>5. ASSUME NEW op, Commencer(t, op) PROVE SequenceInv'
  <2>1. taches'[t].pc = "engager" /\ taches[t].pc = "libre"
    BY <1>1, <1>5 DEF Commencer, TypeOK, Libre
  <2>2. UNCHANGED <<journal, fapshi, reglements, preuves>>
    BY <1>5 DEF Commencer
  <2>3. Equilibre'
    BY <1>1, <1>2, <1>4, <2>1, <2>2, EquilibreStable
  <2>. QED BY <2>1, <2>2, <2>3, SequenceLit DEF Devie, PasSuivi
<1>6. ASSUME NEW r \in References, NEW m \in 1 .. Du, Engager(t, r, m) PROVE SequenceInv'
  <2>1. /\ taches'[t].pc = "ouvrir" /\ taches'[t].ref = r /\ taches[t].pc = "engager"
        /\ taches'[t].op \in {"payer", "justifier"}
    <3>1. taches[t].op \in {"payer", "justifier"}
      BY <1>1, <1>6, Formes DEF Engager, Ouverture
    <3>. QED BY <1>1, <1>6, <3>1 DEF Engager, EnVol, TypeOK
  <2>2. /\ \A p \in References \ {r} : reglements'[p] = reglements[p]
        /\ reglements'[r].statut = "EN_ATTENTE" /\ reglements[r].statut = "EN_ATTENTE"
        /\ journal[r].statut = "ABSENTE"
    BY <1>1, <1>6 DEF Engager, TypeOK, Neuf
  <2>3. UNCHANGED <<journal, fapshi, preuves>>
    BY <1>6 DEF Engager
  <2>4. PreuvesDe(r) = {}
    BY <1>1, <2>2 DEF Neuf, PreuvesDe, Enregistrees
  <2>5. Regle(r)' /\ UnePreuve'
    BY <1>2, <2>2, <2>3, <2>4, PreuvesInchangees DEF Regle
  <2>6. Equilibre'
    BY <1>1, <1>2, <1>4, <2>1, <2>2, EquilibreStable
  <2>7. PasSuivi(t)'
    BY <2>1 DEF PasSuivi, PasOuverture, PasIssue, PasDecision, PasAnnulation
  <2>. QED BY <1>1, <2>1, <2>2, <2>3, <2>5, <2>6, <2>7, SequenceSuit DEF Devie
<1>7. ASSUME EngagerRefuse(t) PROVE SequenceInv'
  <2>1. taches'[t].pc = "libre" /\ taches[t].pc = "engager"
    BY <1>1, <1>7, TacheFin DEF EngagerRefuse
  <2>2. UNCHANGED <<journal, fapshi, reglements, preuves>>
    BY <1>7 DEF EngagerRefuse
  <2>3. Equilibre'
    BY <1>1, <1>2, <1>4, <2>1, <2>2, EquilibreStable
  <2>. QED BY <2>1, <2>2, <2>3, SequenceLit DEF Devie, PasSuivi
<1>8. ASSUME OuvrirReglement(t) PROVE SequenceInv'
  <2>1. /\ taches[t].pc = "ouvrir" /\ taches[t].op \in {"payer", "justifier"}
        /\ q \in References /\ journal[q].statut = "ABSENTE"
    BY <1>1, <1>3, <1>8 DEF OuvrirReglement, EtapesReglement, Placee, Legale
  <2>2. /\ taches'[t].pc = IF taches[t].op = "payer" THEN "initier" ELSE "controler"
        /\ taches'[t].ref = q /\ taches'[t].op = taches[t].op
    BY <1>1, <1>8, <2>1, TacheSuit DEF OuvrirReglement
  <2>3. UNCHANGED <<fapshi, reglements, preuves>> /\ Ouvrir(q)
    BY <1>8 DEF OuvrirReglement
  <2>4. /\ \A r \in References \ {q} : journal'[r] = journal[r]
        /\ journal'[q].statut = "EN_ATTENTE" /\ ~journal'[q].ext
    BY <1>1, <2>1, <2>3 DEF Ouvrir, LigneAbsente, TypeOK, JournalTypeOK
  <2>5. reglements[q].statut = "EN_ATTENTE" /\ PreuvesDe(q) = {}
    BY <1>1, <2>1 DEF Neuf, PreuvesDe, Enregistrees
  <2>6. Regle(q)' /\ UnePreuve'
    BY <1>2, <2>3, <2>4, <2>5, PreuvesInchangees DEF Regle
  <2>7. Equilibre'
    BY <1>1, <1>2, <1>4, <2>1, <2>2, <2>3, EquilibreStable
  <2>8. PasSuivi(t)'
    BY <2>1, <2>2, <2>3, <2>4, <2>5, <2>6, <1>2, PreuvesInchangees
       DEF PasSuivi, PasOuverture, PasIssue, PasDecision, PasAnnulation, Statut
  <2>. QED BY <1>1, <2>1, <2>2, <2>3, <2>4, <2>6, <2>7, <2>8, SequenceSuit DEF Devie
<1>9. ASSUME Initier(t) PROVE SequenceInv'
  <2>1. taches[t].pc = "initier" /\ q \in References /\ taches'[t].pc = "libre"
    BY <1>1, <1>3, <1>9, TacheFin DEF Initier, EtapesReglement
  <2>2. UNCHANGED <<fapshi, reglements, preuves>> /\ EnregistrerReferenceExterne(q)
    BY <1>9 DEF Initier
  <2>3. /\ \A r \in References \ {q} : journal'[r] = journal[r]
        /\ journal'[q].statut = journal[q].statut
    BY <1>1, <2>1, <2>2, JournalAilleurs, JournalStatut DEF TypeOK
  <2>4. Regle(q) /\ ~Devie(t)
    BY <1>2, <2>1 DEF Devie
  <2>5. Regle(q)' /\ UnePreuve'
    BY <1>2, <2>2, <2>3, <2>4, PreuvesInchangees DEF Regle
  <2>6. Equilibre'
    BY <1>1, <1>2, <1>4, <2>1, <2>2, EquilibreStable
  <2>. QED BY <1>1, <2>1, <2>2, <2>3, <2>4, <2>5, <2>6, SequenceSuit DEF PasSuivi
<1>10. ASSUME InitierLeve(t) PROVE SequenceInv'
  <2>1. /\ taches[t].pc = "initier" /\ taches[t].op = "payer"
        /\ taches'[t].pc = "abandonner" /\ taches'[t].ref = q /\ taches'[t].op = taches[t].op
    BY <1>1, <1>10, TacheSuit DEF InitierLeve, Placee, Legale
  <2>2. UNCHANGED <<journal, fapshi, reglements, preuves>>
    BY <1>10 DEF InitierLeve
  <2>3. Equilibre'
    BY <1>1, <1>2, <1>4, <2>1, <2>2, EquilibreStable
  <2>4. PasSuivi(t)'
    BY <1>2, <2>1, <2>2, PreuvesInchangees
       DEF PasSuivi, PasOuverture, PasIssue, PasDecision, PasAnnulation, Statut
  <2>. QED BY <2>1, <2>2, <2>3, <2>4, SequenceLit DEF Devie
<1>11. ASSUME AbandonnerDemande(t) PROVE SequenceInv'
  <2>1. /\ taches[t].pc = "abandonner" /\ q \in References
        /\ taches'[t].pc = "refermer" /\ taches'[t].ref = q /\ taches'[t].op = taches[t].op
        /\ taches[t].op \in {"payer", "justifier"}
    BY <1>1, <1>3, <1>11, TacheSuit DEF AbandonnerDemande, EtapesReglement, Placee, Legale
  <2>2. UNCHANGED <<fapshi, reglements, preuves>> /\ Abandonner(q)
    BY <1>11 DEF AbandonnerDemande
  <2>3. Statut(q, "EN_ATTENTE", "EN_ATTENTE") /\ ~journal[q].ext /\ PreuvesDe(q) = {}
    BY <1>2, <2>1 DEF PasSuivi, PasOuverture
  <2>4. /\ \A r \in References \ {q} : journal'[r] = journal[r]
        /\ journal'[q].statut = "ECHOUE"
    BY <1>1, <2>1, <2>2, <2>3, JournalAilleurs, JournalStatut
       DEF TypeOK, AbandonnerAffecte, Statut
  <2>5. Equilibre'
    BY <1>1, <1>2, <1>4, <2>1, <2>2, EquilibreStable
  <2>6. PasSuivi(t)' /\ UnePreuve'
    BY <1>2, <2>1, <2>2, <2>3, <2>4, PreuvesInchangees
       DEF PasSuivi, PasOuverture, PasIssue, PasDecision, PasAnnulation, Statut
  <2>. QED BY <1>1, <2>1, <2>2, <2>4, <2>5, <2>6, SequenceSuit DEF Devie
<1>12. ASSUME Refermer(t) PROVE SequenceInv'
  <2>1. taches[t].pc = "refermer" /\ q \in References /\ taches'[t].pc = "libre"
    BY <1>1, <1>3, <1>12, TacheFin DEF Refermer, EtapesReglement
  <2>2. Statut(q, "ECHOUE", "EN_ATTENTE") /\ PreuvesDe(q) = {}
    BY <1>2, <2>1 DEF PasSuivi, PasOuverture
  <2>3. UNCHANGED <<journal, fapshi, preuves>> /\ Marquer(q, "ECHOUE")
    BY <1>12, <2>2 DEF Refermer, Statut
  <2>4. /\ \A r \in References \ {q} : reglements'[r] = reglements[r]
        /\ reglements'[q].statut = "ECHOUE"
    BY <1>1, <2>1, <2>3 DEF Marquer, TypeOK, Reglement
  <2>5. Regle(q)' /\ UnePreuve'
    BY <1>2, <2>2, <2>3, <2>4, PreuvesInchangees DEF Regle, Statut
  <2>6. Equilibre'
    BY <1>1, <1>2, <1>4, <2>1, <2>2, <2>4, EquilibreStable DEF Statut
  <2>. QED BY <1>1, <2>1, <2>3, <2>4, <2>5, <2>6, SequenceSuit DEF PasSuivi
<1>. QED BY <1>5, <1>6, <1>7, <1>8, <1>9, <1>10, <1>11, <1>12 DEF Engagement

LEMMA SequenceReception ==
  ASSUME Cadre, UneALaFois, SequenceInv, ~Croisee, NEW t \in Taches, Seul(t),
         NEW r \in References, NEW i \in {"COMPLETE", "ECHOUE"},
         AbandonnerReglement(t, r) \/ RecevoirIssue(t, r, i)
  PROVE  SequenceInv'
<1>1. TypeOK /\ UnePreuve /\ PasSuivi(t) /\ Equilibre /\ Neuf(r)
  BY SequenceAvant DEF Cadre
<1>2. /\ taches[t].pc = "libre" /\ montantRegle' = montantRegle
      /\ UNCHANGED <<journal, fapshi, reglements, preuves>>
  BY DEF AbandonnerReglement, RecevoirIssue, Libre
<1>3. Regle(r)
  BY <1>2, SequenceAvant DEF Devie
<1>4. CASE AbandonnerReglement(t, r)
  <2>1. /\ taches'[t].pc = "expirer" /\ taches'[t].ref = r /\ taches'[t].op = "abandonner"
        /\ taches'[t].issue = "ECHOUE"
    BY <1>1, <1>4 DEF AbandonnerReglement, EnVol, TypeOK
  <2>2. reglements'[r].statut = "EN_ATTENTE"
    BY <1>2, <1>4 DEF AbandonnerReglement
  <2>3. PasSuivi(t)'
    BY <2>1, <2>2 DEF PasSuivi, PasOuverture, PasIssue, PasDecision, PasAnnulation
  <2>4. Equilibre'
    BY <1>1, <1>2, <2>1, EquilibreStable
  <2>. QED BY <1>2, <2>3, <2>4, SequenceLit DEF Devie
<1>5. CASE RecevoirIssue(t, r, i)
  <2>1. /\ taches'[t].pc = "appliquer" /\ taches'[t].ref = r /\ taches'[t].op = "issue"
        /\ taches'[t].issue = i
    BY <1>1, <1>5 DEF RecevoirIssue, EnVol, TypeOK
  <2>2. journal[r].statut # "ABSENTE" /\ fapshi[r] # "INCONNUE"
    BY <1>5 DEF RecevoirIssue
  <2>3. PreuvesDe(r) = {}
    <3>1. reglements[r].mode = "EN_LIGNE"
      BY <1>1, <2>2 DEF Neuf
    <3>. QED BY <3>1, SansPreuve
  <2>4. /\ i = "COMPLETE" => fapshi'[r] = "SUCCESSFUL"
        /\ i = "ECHOUE" => reglements'[r].statut # "COMPLETE"
    <3>1. i = "ECHOUE" => fapshi[r] = "FAILED" \/ journal[r].statut = "EN_ATTENTE"
      BY <1>5 DEF RecevoirIssue
    <3>. QED BY <1>2, <1>3, <1>5, <2>2, <2>3, <3>1 DEF RecevoirIssue, Regle
  <2>5. PasSuivi(t)'
    BY <2>1, <2>4 DEF PasSuivi, PasOuverture, PasIssue, PasDecision, PasAnnulation
  <2>6. Equilibre'
    BY <1>1, <1>2, <2>1, EquilibreStable
  <2>. QED BY <1>2, <2>5, <2>6, SequenceLit DEF Devie
<1>. QED BY <1>4, <1>5

LEMMA SequenceApplication ==
  ASSUME Cadre, Cadre', UneALaFois, SequenceInv, ~Croisee, NEW t \in Taches, Seul(t), Evolue,
         AppliquerIssue(t)
  PROVE  SequenceInv'
<1>. PICK q : q = taches[t].ref
  OBVIOUS
<1>. DEFINE s == taches[t].issue
<1>1. TypeOK /\ UnePreuve /\ PasSuivi(t) /\ Equilibre /\ Placee(t)
  BY SequenceAvant DEF Cadre
<1>2. /\ q \in References /\ taches[t].pc = "appliquer" /\ journal[q].statut # "ABSENTE"
      /\ taches[t].op \in {"abandonner", "issue", "valider", "refuser"}
      /\ taches[t].op \in {"abandonner", "refuser"} => s = "ECHOUE"
      /\ taches[t].op = "valider" => s = "COMPLETE"
      /\ s \in {"COMPLETE", "ECHOUE"}
  BY <1>1, RefDe DEF AppliquerIssue, EtapesReglement, Placee, Legale
<1>3. /\ \A r \in References \ {q} : journal'[r] = journal[r]
      /\ journal'[q].statut = IF AppliquerAffecte(q, s) THEN s ELSE journal[q].statut
      /\ journal'[q].montant = journal[q].montant
  <2>1. Appliquer(q, s)
    BY DEF AppliquerIssue
  <2>2. journal[q] \in Ligne
    BY <1>1, <1>2 DEF TypeOK, JournalTypeOK
  <2>3. journal'[q].montant = journal[q].montant
    BY <1>1, <1>2, <2>1, <2>2 DEF Appliquer, TypeOK, JournalTypeOK, Ligne
  <2>. QED BY <1>1, <1>2, <2>1, <2>3, JournalAilleurs, JournalStatut DEF TypeOK
<1>4. UNCHANGED <<certifies, fapshi, reglements, montantRegle, preuves>>
  BY DEF AppliquerIssue
<1>5. UnePreuve' /\ PreuvesDe(q)' = PreuvesDe(q)
  BY <1>1, <1>4, PreuvesInchangees
<1>6. /\ taches'[t].pc = IF taches[t].op = "abandonner" THEN "refermer"
                         ELSE IF AppliquerAffecte(q, s) THEN "lire" ELSE "libre"
      /\ taches'[t].pc # "libre" => /\ taches'[t].op = taches[t].op
                                    /\ taches'[t].ref = q /\ taches'[t].issue = s
                                    /\ taches'[t].preuve = taches[t].preuve
                                    /\ taches'[t].montant = taches[t].montant
  <2>1. CASE Aller(t, "refermer") /\ taches[t].op = "abandonner"
    BY <1>1, <1>2, <2>1, TacheSuit
  <2>2. CASE Aller(t, "lire") /\ taches[t].op # "abandonner" /\ AppliquerAffecte(q, s)
    BY <1>1, <1>2, <2>2, TacheSuit
  <2>3. CASE Liberer(t) /\ taches[t].op # "abandonner" /\ ~AppliquerAffecte(q, s)
    BY <1>1, <1>2, <2>3, TacheFin
  <2>. QED BY <2>1, <2>2, <2>3 DEF AppliquerIssue
<1>7. Equilibre'
  BY <1>1, <1>2, <1>4, <1>6, EquilibreStable
<1>. HIDE DEF s
<1>8. taches[t].op \in {"abandonner", "issue"} => Regle(q)
  BY <1>2, SequenceAvant DEF Devie
<1>9. CASE taches[t].op = "abandonner"
  <2>1. reglements[q].statut = "EN_ATTENTE"
    BY <1>1, <1>2, <1>9 DEF PasSuivi, PasIssue
  <2>2. journal'[q].statut = "ECHOUE"
    BY <1>2, <1>3, <1>8, <1>9, <2>1 DEF Regle, AppliquerAffecte
  <2>3. PreuvesDe(q) = {}
    <3>1. reglements[q].mode = "EN_LIGNE"
      BY <1>1, <1>2, <1>9 DEF Placee
    <3>. QED BY <3>1, SansPreuve
  <2>4. PasSuivi(t)'
    BY <1>2, <1>4, <1>5, <1>6, <1>9, <2>1, <2>2, <2>3
       DEF PasSuivi, PasOuverture, PasIssue, PasDecision, PasAnnulation, Statut
  <2>. QED BY <1>2, <1>3, <1>4, <1>5, <1>6, <1>7, <1>9, <2>4, SequenceSuit DEF Devie
<1>10. CASE taches[t].op = "issue" /\ AppliquerAffecte(q, s)
  <2>1. /\ reglements[q].statut # "COMPLETE" /\ journal'[q].statut = s
        /\ s = "COMPLETE" => fapshi[q] = "SUCCESSFUL"
    BY <1>1, <1>2, <1>3, <1>8, <1>10 DEF PasSuivi, PasIssue, Regle, AppliquerAffecte, s
  <2>2. PasSuivi(t)'
    BY <1>2, <1>4, <1>5, <1>6, <1>10, <2>1
       DEF PasSuivi, PasOuverture, PasIssue, PasDecision, PasAnnulation, Statut
  <2>. QED BY <1>2, <1>3, <1>4, <1>5, <1>6, <1>7, <1>10, <2>2, SequenceSuit DEF Devie
<1>11. CASE taches[t].op = "issue" /\ ~AppliquerAffecte(q, s)
  <2>1. Regle(q)'
    BY <1>3, <1>4, <1>5, <1>8, <1>11 DEF Regle
  <2>. QED BY <1>2, <1>3, <1>4, <1>5, <1>6, <1>7, <1>11, <2>1, SequenceSuit DEF Devie, PasSuivi
<1>12. CASE taches[t].op \in {"valider", "refuser"}
  <2>1. /\ Statut(q, "EN_ATTENTE", "EN_ATTENTE")
        /\ taches[t].op = "refuser" => preuves[taches[t].preuve].statut = "REFUSE"
        /\ taches[t].op = "valider" =>
             /\ preuves[taches[t].preuve].statut = "VALIDE"
             /\ journal[q].montant = "recu" /\ preuves[taches[t].preuve].recu = certifies[q]
    BY <1>1, <1>2, <1>12 DEF PasSuivi, PasDecision
  <2>2. AppliquerAffecte(q, s) /\ journal'[q].statut = s
    BY <1>2, <1>3, <2>1 DEF Statut, AppliquerAffecte
  <2>3. PasSuivi(t)'
    BY <1>2, <1>3, <1>4, <1>5, <1>6, <1>12, <2>1, <2>2
       DEF PasSuivi, PasOuverture, PasIssue, PasDecision, PasAnnulation, Statut
  <2>. QED BY <1>2, <1>3, <1>4, <1>5, <1>6, <1>7, <1>12, <2>2, <2>3, SequenceSuit DEF Devie
<1>. QED BY <1>2, <1>9, <1>10, <1>11, <1>12

LEMMA SequenceIssue ==
  ASSUME Cadre, Cadre', UneALaFois, SequenceInv, ~Croisee, NEW t \in Taches, Issue(t)
  PROVE  SequenceInv'
<1>. PICK q : q = taches[t].ref
  OBVIOUS
<1>1. TypeOK /\ TypeOK' /\ Placee(t) /\ Evolue /\ Seul(t) /\ \A r \in References : Neuf(r)
  BY EvolutionIssue DEF Cadre
<1>2. /\ UnePreuve /\ PasSuivi(t) /\ Equilibre
      /\ ~Devie(t) => \A r \in References : Regle(r)
  BY SequenceAvant
<1>3. taches[t].pc \in EtapesReglement => q \in References
  BY <1>1, RefDe
<1>4. ASSUME Expirer(t) PROVE SequenceInv'
  <2>1. /\ taches[t].pc = "expirer" /\ q \in References /\ taches[t].op = "abandonner"
        /\ taches[t].issue = "ECHOUE" /\ journal[q].statut # "ABSENTE"
    BY <1>1, <1>3, <1>4 DEF Expirer, EtapesReglement, Placee, Legale
  <2>2. /\ taches'[t].pc = "appliquer" /\ taches'[t].ref = q /\ taches'[t].op = "abandonner"
        /\ taches'[t].issue = "ECHOUE"
    BY <1>1, <1>4, <2>1, TacheSuit DEF Expirer
  <2>3. /\ UNCHANGED <<journal, reglements, preuves, montantRegle>>
        /\ \A r \in References \ {q} : fapshi'[r] = fapshi[r]
    BY <1>1, <1>4 DEF Expirer, TypeOK
  <2>4. reglements[q].statut = "EN_ATTENTE" /\ Regle(q)
    BY <1>2, <2>1 DEF PasSuivi, PasIssue, Devie
  <2>5. Regle(q)' /\ UnePreuve'
    BY <1>2, <2>1, <2>3, <2>4, PreuvesInchangees DEF Regle
  <2>6. PasSuivi(t)'
    BY <2>2, <2>3, <2>4 DEF PasSuivi, PasOuverture, PasIssue, PasDecision, PasAnnulation
  <2>7. Equilibre'
    BY <1>1, <1>2, <2>1, <2>2, <2>3, EquilibreStable
  <2>. QED BY <1>1, <2>1, <2>2, <2>3, <2>5, <2>6, <2>7, SequenceSuit DEF Devie
<1>5. ASSUME Lire(t) PROVE SequenceInv'
  <2>. DEFINE m == IF reglements[taches[t].ref].mode = "JUSTIFICATIF"
                   THEN MontantDe(taches[t].ref) ELSE reglements[taches[t].ref].montant
  <2>1. /\ taches[t].pc = "lire" /\ q \in References /\ reglements[q].mode # "AUCUN"
        /\ taches[t].op \in {"issue", "refuser", "valider"}
        /\ taches[t].op = "valider" => taches[t].issue = "COMPLETE"
        /\ taches[t].op = "refuser" => taches[t].issue = "ECHOUE"
        /\ taches[t].issue \in {"COMPLETE", "ECHOUE"}
    BY <1>1, <1>3, <1>5 DEF Lire, EtapesReglement, Placee, Legale
  <2>2. UNCHANGED <<journal, certifies, fapshi, reglements, preuves, montantRegle>>
    BY <1>5 DEF Lire
  <2>3. CASE taches[t].issue = "COMPLETE"
    <3>1. taches' = [taches EXCEPT ![t].pc = "crediter", ![t].montant = m]
      BY <1>5, <2>3 DEF Lire
    <3>2. /\ taches'[t].pc = "crediter" /\ taches'[t].ref = q /\ taches'[t].op = taches[t].op
          /\ taches'[t].issue = taches[t].issue /\ taches'[t].preuve = taches[t].preuve
          /\ taches'[t].montant = m
      <4>1. taches[t].pc \notin {"libre", "engager"}
        BY <2>1
      <4>2. ASSUME NEW n, taches' = [taches EXCEPT ![t].pc = "crediter", ![t].montant = n]
            PROVE  /\ taches'[t].pc = "crediter" /\ taches'[t].op = taches[t].op
                   /\ taches'[t].ref = taches[t].ref /\ taches'[t].issue = taches[t].issue
                   /\ taches'[t].preuve = taches[t].preuve /\ taches'[t].montant = n
        BY <1>1, <4>1, <4>2, TacheSuit
      <4>. QED BY <3>1, <4>2
    <3>3. taches[t].op = "valider" => preuves[taches[t].preuve].recu = m
      <4>1. SUFFICES ASSUME taches[t].op = "valider" PROVE preuves[taches[t].preuve].recu = m
        OBVIOUS
      <4>2. taches[t].preuve \in PreuvesDe(q)
        BY <2>1, <4>1, LaPreuve
      <4>3. reglements[q].mode = "JUSTIFICATIF"
        BY <1>1, <2>1, <4>2, SansPreuve DEF TypeOK, Reglement
      <4>4. journal[q].montant = "recu" /\ preuves[taches[t].preuve].recu = certifies[q]
        BY <1>2, <2>1, <4>1 DEF PasSuivi, PasDecision
      <4>. QED BY <4>3, <4>4 DEF MontantDe
    <3>. HIDE DEF m
    <3>4. PasSuivi(t)'
      BY <1>2, <2>1, <2>2, <2>3, <3>2, <3>3
         DEF PasSuivi, PasOuverture, PasIssue, PasDecision, PasAnnulation
    <3>5. Equilibre'
      BY <1>1, <1>2, <2>1, <2>2, <3>2, EquilibreStable
    <3>. QED BY <2>2, <3>2, <3>4, <3>5, SequenceLit DEF Devie
  <2>4. CASE taches[t].issue = "ECHOUE"
    <3>1. Aller(t, "echouer")
      BY <1>5, <2>4 DEF Lire
    <3>2. /\ taches'[t].pc = "echouer" /\ taches'[t].ref = q /\ taches'[t].op = taches[t].op
          /\ taches'[t].issue = taches[t].issue /\ taches'[t].preuve = taches[t].preuve
      BY <1>1, <2>1, <3>1, TacheSuit
    <3>3. PasSuivi(t)'
      BY <1>2, <2>1, <2>2, <2>4, <3>2
         DEF PasSuivi, PasOuverture, PasIssue, PasDecision, PasAnnulation
    <3>4. Equilibre'
      BY <1>1, <1>2, <2>1, <2>2, <3>2, EquilibreStable
    <3>. QED BY <2>2, <3>2, <3>3, <3>4, SequenceLit DEF Devie
  <2>. QED BY <2>1, <2>3, <2>4
<1>6. ASSUME Crediter(t) PROVE SequenceInv'
  <2>1. /\ taches[t].pc = "crediter" /\ q \in References /\ taches[t].issue = "COMPLETE"
        /\ taches[t].op \in {"issue", "valider"}
        /\ taches[t].op = "issue" => reglements[q].mode = "EN_LIGNE"
    BY <1>1, <1>3, <1>6 DEF Crediter, EtapesReglement, Placee, Legale
  <2>2. /\ taches'[t].pc = "incrementer" /\ taches'[t].ref = q /\ taches'[t].op = taches[t].op
        /\ taches'[t].issue = taches[t].issue /\ taches'[t].montant = taches[t].montant
    BY <1>1, <1>6, <2>1, TacheSuit DEF Crediter
  <2>3. UNCHANGED <<journal, fapshi, preuves, montantRegle>>
    BY <1>6 DEF Crediter
  <2>4. /\ \A r \in References \ {q} : reglements'[r] = reglements[r]
        /\ reglements'[q].statut = "COMPLETE" /\ reglements'[q].montant = taches[t].montant
    BY <1>1, <1>6, <2>1 DEF Crediter, TypeOK, Reglement
  <2>5. /\ journal[q].statut = "COMPLETE" /\ reglements[q].statut # "COMPLETE"
        /\ taches[t].op = "issue" => fapshi[q] = "SUCCESSFUL"
        /\ taches[t].op = "valider" => /\ preuves[taches[t].preuve].statut = "VALIDE"
                                       /\ preuves[taches[t].preuve].recu = taches[t].montant
    BY <1>2, <2>1 DEF PasSuivi, PasIssue, PasDecision
  <2>6. Regle(q)' /\ UnePreuve'
    <3>1. CASE taches[t].op = "issue"
      <4>1. PreuvesDe(q) = {}
        BY <2>1, <3>1, SansPreuve
      <4>. QED BY <1>2, <2>3, <2>4, <2>5, <3>1, <4>1, PreuvesInchangees DEF Regle
    <3>2. CASE taches[t].op = "valider"
      <4>1. taches[t].preuve \in PreuvesDe(q)
        BY <2>1, <3>2, LaPreuve
      <4>2. \A p \in PreuvesDe(q) : p = taches[t].preuve
        BY <1>2, <4>1 DEF UnePreuve, PreuvesDe
      <4>. QED BY <1>2, <2>3, <2>4, <2>5, <3>2, <4>1, <4>2, PreuvesInchangees DEF Regle, Decision
    <3>. QED BY <2>1, <3>1, <3>2
  <2>7. PasSuivi(t)'
    BY <2>1, <2>2 DEF PasSuivi, PasOuverture, PasIssue, PasDecision, PasAnnulation
  <2>8. Equilibre'
    BY <1>1, <1>2, <2>1, <2>2, <2>3, <2>4, <2>5, EquilibreCredite
  <2>. QED BY <1>1, <2>1, <2>2, <2>3, <2>4, <2>6, <2>7, <2>8, SequenceSuit DEF Devie
<1>7. ASSUME Incrementer(t) PROVE SequenceInv'
  <2>1. /\ taches[t].pc = "incrementer" /\ taches[t].op \in {"issue", "valider"}
        /\ taches'[t].pc = "relire" /\ taches'[t].op = taches[t].op
    BY <1>1, <1>7, TacheSuit DEF Incrementer, Placee, Legale
  <2>2. /\ UNCHANGED <<journal, fapshi, reglements, preuves>>
        /\ montantRegle' = montantRegle + taches[t].montant
    BY <1>7 DEF Incrementer
  <2>3. Compte' = Compte
    BY <2>2 DEF Compte
  <2>4. Equilibre'
    BY <1>1, <1>2, <2>1, <2>2, <2>3, EquilibreIncremente
  <2>5. PasSuivi(t)'
    BY <2>1 DEF PasSuivi, PasOuverture, PasIssue, PasDecision, PasAnnulation
  <2>. QED BY <2>1, <2>2, <2>4, <2>5, SequenceLit DEF Devie
<1>8. ASSUME Relire(t) \/ Solder(t) PROVE SequenceInv'
  <2>1. /\ taches[t].pc \in {"relire", "solder"} /\ taches[t].op \in {"issue", "valider"}
        /\ taches'[t].pc \in {"solder", "libre"}
        /\ taches'[t].pc = "solder" => taches'[t].op = taches[t].op
    BY <1>1, <1>8, TacheSuit, TacheFin DEF Relire, Solder, Placee, Legale
  <2>2. UNCHANGED <<journal, fapshi, reglements, preuves, montantRegle>>
    BY <1>8 DEF Relire, Solder
  <2>3. Equilibre'
    BY <1>1, <1>2, <2>1, <2>2, EquilibreStable
  <2>4. PasSuivi(t)'
    BY <2>1 DEF PasSuivi, PasOuverture, PasIssue, PasDecision, PasAnnulation
  <2>. QED BY <2>1, <2>2, <2>3, <2>4, SequenceLit DEF Devie
<1>9. ASSUME Echouer(t) PROVE SequenceInv'
  <2>1. /\ taches[t].pc = "echouer" /\ q \in References /\ taches[t].issue = "ECHOUE"
        /\ taches[t].op \in {"issue", "refuser"} /\ taches'[t].pc = "libre"
        /\ taches[t].op = "issue" => reglements[q].mode = "EN_LIGNE"
    BY <1>1, <1>3, <1>9, TacheFin DEF Echouer, EtapesReglement, Placee, Legale
  <2>2. UNCHANGED <<journal, fapshi, preuves, montantRegle>>
    BY <1>9 DEF Echouer
  <2>3. /\ \A r \in References \ {q} : reglements'[r] = reglements[r]
        /\ reglements'[q].statut = "ECHOUE"
    BY <1>1, <1>9, <2>1 DEF Echouer, Marquer, TypeOK, Reglement
  <2>4. /\ journal[q].statut = "ECHOUE" /\ reglements[q].statut # "COMPLETE"
        /\ taches[t].op = "refuser" => preuves[taches[t].preuve].statut = "REFUSE"
    BY <1>2, <2>1 DEF PasSuivi, PasIssue, PasDecision
  <2>5. Regle(q)' /\ UnePreuve'
    <3>1. CASE taches[t].op = "issue"
      <4>1. PreuvesDe(q) = {}
        BY <2>1, <3>1, SansPreuve
      <4>. QED BY <1>2, <2>2, <2>3, <2>4, <4>1, PreuvesInchangees DEF Regle
    <3>2. CASE taches[t].op = "refuser"
      <4>1. taches[t].preuve \in PreuvesDe(q)
        BY <2>1, <3>2, LaPreuve
      <4>2. \A p \in PreuvesDe(q) : p = taches[t].preuve
        BY <1>2, <4>1 DEF UnePreuve, PreuvesDe
      <4>. QED BY <1>2, <2>2, <2>3, <2>4, <3>2, <4>2, PreuvesInchangees DEF Regle, Decision
    <3>. QED BY <2>1, <3>1, <3>2
  <2>6. Equilibre'
    BY <1>1, <1>2, <2>1, <2>2, <2>3, <2>4, EquilibreStable
  <2>. QED BY <1>1, <2>1, <2>2, <2>3, <2>5, <2>6, SequenceSuit DEF PasSuivi
<1>. QED BY <1>1, <1>4, <1>5, <1>6, <1>7, <1>8, <1>9, SequenceReception, SequenceApplication
         DEF Issue

LEMMA SequenceDepot ==
  ASSUME Cadre, Cadre', UneALaFois, SequenceInv, ~Croisee, NEW t \in Taches, Seul(t), Evolue,
         \/ \E r \in References : Deposer(t, r)
         \/ Controler(t)
         \/ \E p \in Preuves : InsererPreuve(t, p)
  PROVE  SequenceInv'
<1>. PICK q : q = taches[t].ref
  OBVIOUS
<1>1. TypeOK /\ Placee(t)
  BY DEF Cadre
<1>2. /\ UnePreuve /\ PasSuivi(t) /\ Equilibre
      /\ ~Devie(t) => \A r \in References : Regle(r)
  BY SequenceAvant
<1>3. ASSUME NEW r \in References, Deposer(t, r) PROVE SequenceInv'
  <2>1. /\ taches[t].pc = "libre" /\ taches'[t].pc = "controler" /\ taches'[t].op = "deposer"
    BY <1>1, <1>3 DEF Deposer, EnVol, TypeOK, Libre
  <2>2. UNCHANGED <<journal, fapshi, reglements, preuves, montantRegle>>
    BY <1>3 DEF Deposer
  <2>3. Equilibre'
    BY <1>1, <1>2, <2>1, <2>2, EquilibreStable
  <2>4. PasSuivi(t)'
    BY <2>1 DEF PasSuivi, PasOuverture, PasIssue, PasDecision, PasAnnulation
  <2>. QED BY <2>1, <2>2, <2>3, <2>4, SequenceLit DEF Devie
<1>4. ASSUME Controler(t) PROVE SequenceInv'
  <2>1. /\ taches[t].pc = "controler" /\ q \in References
        /\ taches[t].op \in {"justifier", "deposer"}
    BY <1>1, <1>4, RefDe DEF Controler, EtapesReglement, Placee, Legale
  <2>2. UNCHANGED <<journal, fapshi, reglements, preuves, montantRegle>>
    BY <1>4 DEF Controler
  <2>3. CASE Liberer(t)
    <3>1. taches'[t].pc = "libre"
      BY <1>1, <2>3, TacheFin
    <3>2. Equilibre'
      BY <1>1, <1>2, <2>1, <2>2, <3>1, EquilibreStable
    <3>. QED BY <2>1, <2>2, <3>1, <3>2, SequenceLit DEF Devie, PasSuivi
  <2>4. CASE taches[t].op = "justifier" /\ Aller(t, "abandonner")
    <3>1. taches'[t].pc = "abandonner" /\ taches'[t].op = "justifier" /\ taches'[t].ref = q
      BY <1>1, <2>1, <2>4, TacheSuit
    <3>2. PasSuivi(t)'
      BY <1>2, <2>1, <2>2, <2>4, <3>1, PreuvesInchangees
         DEF PasSuivi, PasOuverture, PasIssue, PasDecision, PasAnnulation, Statut
    <3>3. Equilibre'
      BY <1>1, <1>2, <2>1, <2>2, <3>1, EquilibreStable
    <3>. QED BY <2>1, <2>2, <3>1, <3>2, <3>3, SequenceLit DEF Devie
  <2>5. CASE journal[q].statut = "EN_ATTENTE" /\ ~DejaUne(q) /\ Aller(t, "deposer")
    <3>1. taches'[t].pc = "deposer" /\ taches'[t].op = taches[t].op /\ taches'[t].ref = q
      BY <1>1, <2>1, <2>5, TacheSuit
    <3>2. Regle(q)
      BY <1>2, <2>1 DEF Devie
    <3>3. ~DejaUne(q)' /\ Statut(q, "EN_ATTENTE", "EN_ATTENTE")
      BY <2>2, <2>5, <3>2 DEF DejaUne, Enregistrees, Regle, Statut
    <3>4. PasSuivi(t)'
      BY <1>2, <2>1, <2>2, <3>1, <3>3, PreuvesInchangees
         DEF PasSuivi, PasOuverture, PasIssue, PasDecision, PasAnnulation, Statut
    <3>5. Equilibre'
      BY <1>1, <1>2, <2>1, <2>2, <3>1, EquilibreStable
    <3>. QED BY <2>1, <2>2, <3>1, <3>4, <3>5, SequenceLit DEF Devie
  <2>. QED BY <1>4, <2>1, <2>3, <2>4, <2>5 DEF Controler
<1>5. ASSUME NEW p \in Preuves, InsererPreuve(t, p) PROVE SequenceInv'
  <2>1. taches[t].pc = "deposer" /\ q \in References /\ taches'[t].pc = "libre"
    BY <1>1, <1>5, RefDe, TacheFin DEF InsererPreuve, EtapesReglement
  <2>2. UNCHANGED <<journal, fapshi, reglements, montantRegle>>
    BY <1>5 DEF InsererPreuve
  <2>3. /\ \A p1 \in Preuves \ {p} : preuves'[p1] = preuves[p1]
        /\ preuves'[p].statut = "EN_ATTENTE" /\ preuves'[p].ref = q
    BY <1>1, <1>5 DEF InsererPreuve, TypeOK
  <2>4. Statut(q, "EN_ATTENTE", "EN_ATTENTE") /\ ~DejaUne(q) /\ Regle(q)
    BY <1>2, <2>1 DEF PasSuivi, PasOuverture, Devie
  <2>5. PreuvesDe(q) = {}
    BY <2>4 DEF Regle, Decision, Statut, DejaUne, PreuvesDe
  <2>6. \A p1 \in Preuves : /\ p1 \in Enregistrees' => p1 = p \/ p1 \in Enregistrees
                            /\ p1 \in PreuvesDe(q)' => p1 = p
    BY <2>3, <2>5 DEF Enregistrees, PreuvesDe
  <2>7. UnePreuve'
    BY <1>2, <2>3, <2>5, <2>6 DEF UnePreuve, Enregistrees, PreuvesDe
  <2>8. Regle(q)'
    BY <2>2, <2>3, <2>4, <2>6 DEF Regle, Decision, Statut, PreuvesDe, Enregistrees
  <2>9. Equilibre'
    BY <1>1, <1>2, <2>1, <2>2, EquilibreStable
  <2>. QED BY <2>1, <2>2, <2>3, <2>7, <2>8, <2>9, SequenceSuit DEF PasSuivi, Devie
<1>. QED BY <1>3, <1>4, <1>5

LEMMA SequenceDecision ==
  ASSUME Cadre, Cadre', UneALaFois, SequenceInv, ~Croisee, NEW t \in Taches, Seul(t), Evolue,
         \/ \E p \in Preuves, m \in Nat, op \in {"valider", "refuser"} : Decider(t, op, p, m)
         \/ MarquerPreuve(t) \/ CertifierRecu(t)
  PROVE  SequenceInv'
<1>. PICK q : q = taches[t].ref
  OBVIOUS
<1>. PICK p : p = taches[t].preuve
  OBVIOUS
<1>1. TypeOK /\ Placee(t)
  BY DEF Cadre
<1>2. /\ UnePreuve /\ PasSuivi(t) /\ Equilibre
      /\ ~Devie(t) => \A r \in References : Regle(r)
  BY SequenceAvant
<1>3. ASSUME NEW p1 \in Preuves, NEW m \in Nat, NEW op \in {"valider", "refuser"},
             Decider(t, op, p1, m)
      PROVE  SequenceInv'
  <2>1. /\ taches[t].pc = "libre" /\ taches'[t].pc = "marquer" /\ taches'[t].op = op
        /\ taches'[t].preuve = p1
    BY <1>1, <1>3 DEF Decider, SurLaPreuve, TypeOK, Libre
  <2>2. UNCHANGED <<journal, fapshi, reglements, preuves, montantRegle>>
    BY <1>3 DEF Decider
  <2>3. preuves'[p1].statut = "EN_ATTENTE"
    BY <1>3, <2>2 DEF Decider
  <2>4. Equilibre'
    BY <1>1, <1>2, <2>1, <2>2, EquilibreStable
  <2>5. PasSuivi(t)'
    BY <2>1, <2>3 DEF PasSuivi, PasOuverture, PasIssue, PasDecision, PasAnnulation
  <2>. QED BY <2>1, <2>2, <2>4, <2>5, SequenceLit DEF Devie
<1>4. ASSUME MarquerPreuve(t) PROVE SequenceInv'
  <2>1. /\ taches[t].pc = "marquer" /\ q \in References /\ journal[q].statut # "ABSENTE"
        /\ taches[t].op \in {"valider", "refuser", "annuler"}
    BY <1>1, <1>4, RefDe DEF MarquerPreuve, EtapesPreuve, Placee, Legale
  <2>2. p \in PreuvesDe(q) /\ p \in Preuves /\ preuves[p].ref = q
    BY <2>1, LaPreuve
  <2>3. UNCHANGED <<journal, fapshi, reglements, montantRegle>>
    BY <1>4 DEF MarquerPreuve
  <2>4. /\ \A p1 \in Preuves \ {p} : preuves'[p1] = preuves[p1]
        /\ preuves'[p].ref = q
        /\ taches[t].op = "valider" => preuves'[p].statut = "VALIDE"
                                       /\ preuves'[p].recu = taches[t].montant
        /\ taches[t].op = "refuser" => preuves'[p].statut = "REFUSE"
        /\ taches[t].op = "annuler" => preuves'[p].statut = "EN_ATTENTE"
    <3>1. preuves[p] \in Preuve
      BY <1>1, <2>2 DEF TypeOK
    <3>2. CASE taches[t].op = "valider"
      BY <1>1, <1>4, <2>2, <3>1, <3>2 DEF MarquerPreuve, TypeOK, Preuve
    <3>3. CASE taches[t].op = "refuser"
      BY <1>1, <1>4, <2>2, <3>1, <3>3 DEF MarquerPreuve, TypeOK, Preuve
    <3>4. CASE taches[t].op = "annuler"
      BY <1>1, <1>4, <2>2, <3>1, <3>4 DEF MarquerPreuve, TypeOK, Preuve
    <3>. QED BY <2>1, <3>2, <3>3, <3>4
  <2>5. Statut(q, "EN_ATTENTE", "EN_ATTENTE")
    <3>1. CASE taches[t].op = "annuler"
      BY <1>2, <2>1, <3>1 DEF PasSuivi, PasAnnulation
    <3>2. CASE taches[t].op \in {"valider", "refuser"}
      <4>1. Regle(q) /\ preuves[p].statut = "EN_ATTENTE"
        BY <1>2, <2>1, <3>2 DEF PasSuivi, PasDecision, Devie
      <4>2. journal[q].statut \in Statuts
        BY <1>1, <2>1 DEF TypeOK, JournalTypeOK, Ligne
      <4>. QED BY <2>1, <2>2, <4>1, <4>2 DEF Regle, Decision, Statut, Statuts
    <3>. QED BY <2>1, <3>1, <3>2
  <2>6. UnePreuve'
    <3>1. Enregistrees' \subseteq Enregistrees /\ \A p1 \in Enregistrees : preuves'[p1].ref = preuves[p1].ref
      BY <2>2, <2>4 DEF Enregistrees, PreuvesDe
    <3>. QED BY <1>2, <3>1 DEF UnePreuve
  <2>7. CASE taches[t].op \in {"valider", "refuser"}
    <3>1. /\ taches'[t].pc = IF taches[t].op = "valider" THEN "certifier" ELSE "appliquer"
          /\ taches'[t].op = taches[t].op /\ taches'[t].ref = q /\ taches'[t].preuve = p
          /\ taches'[t].montant = taches[t].montant /\ taches'[t].issue = taches[t].issue
      BY <1>1, <1>4, <2>1, <2>7, TacheSuit DEF MarquerPreuve
    <3>2. taches[t].op = "valider" => taches[t].issue = "COMPLETE"
      BY <1>1, <2>1 DEF Placee, Legale
    <3>3. PasSuivi(t)'
      BY <2>3, <2>4, <2>5, <2>7, <3>1
         DEF PasSuivi, PasOuverture, PasIssue, PasDecision, PasAnnulation, Statut
    <3>4. Equilibre'
      BY <1>1, <1>2, <2>1, <2>3, <3>1, EquilibreStable
    <3>. QED BY <2>1, <2>3, <2>4, <2>6, <2>7, <3>1, <3>3, <3>4, SequenceSuit DEF Devie
  <2>8. CASE taches[t].op = "annuler"
    <3>1. taches'[t].pc = "libre"
      BY <1>1, <1>4, <2>8, TacheFin DEF MarquerPreuve
    <3>2. \A p1 \in PreuvesDe(q)' : p1 = p
      BY <1>2, <2>2, <2>4 DEF UnePreuve, PreuvesDe, Enregistrees
    <3>3. Regle(q)'
      BY <2>3, <2>4, <2>5, <2>8, <3>2 DEF Regle, Decision, Statut
    <3>4. Equilibre'
      BY <1>1, <1>2, <2>1, <2>3, <3>1, EquilibreStable
    <3>. QED BY <2>1, <2>3, <2>4, <2>6, <3>1, <3>3, <3>4, SequenceSuit DEF PasSuivi
  <2>. QED BY <2>1, <2>7, <2>8
<1>5. ASSUME CertifierRecu(t) PROVE SequenceInv'
  <2>1. /\ taches[t].pc = "certifier" /\ q \in References /\ taches[t].op = "valider"
        /\ taches[t].issue = "COMPLETE" /\ journal[q].statut # "ABSENTE"
    BY <1>1, <1>5, RefDe DEF CertifierRecu, EtapesPreuve, Placee, Legale
  <2>2. /\ taches'[t].pc = "appliquer" /\ taches'[t].op = "valider" /\ taches'[t].ref = q
        /\ taches'[t].preuve = p /\ taches'[t].issue = "COMPLETE"
    BY <1>1, <1>5, <2>1, TacheSuit DEF CertifierRecu
  <2>3. UNCHANGED <<fapshi, reglements, preuves, montantRegle>>
    BY <1>5 DEF CertifierRecu
  <2>4. /\ \A r \in References \ {q} : journal'[r] = journal[r]
        /\ journal'[q].statut = journal[q].statut /\ journal'[q].montant = "recu"
        /\ certifies'[q] = taches[t].montant
    <3>1. Certifier(q, "recu") /\ certifies' = [certifies EXCEPT ![q] = taches[t].montant]
      BY <1>5 DEF CertifierRecu
    <3>2. journal[q] \in Ligne
      BY <1>1, <2>1 DEF TypeOK, JournalTypeOK
    <3>. QED BY <1>1, <2>1, <3>1, <3>2 DEF Certifier, TypeOK, JournalTypeOK, Ligne
  <2>5. /\ Statut(q, "EN_ATTENTE", "EN_ATTENTE")
        /\ preuves[p].statut = "VALIDE" /\ preuves[p].recu = taches[t].montant
    BY <1>2, <2>1 DEF PasSuivi, PasDecision
  <2>6. PasSuivi(t)' /\ UnePreuve'
    BY <1>2, <2>2, <2>3, <2>4, <2>5, PreuvesInchangees
       DEF PasSuivi, PasOuverture, PasIssue, PasDecision, PasAnnulation, Statut
  <2>7. Equilibre'
    BY <1>1, <1>2, <2>1, <2>2, <2>3, EquilibreStable
  <2>. QED BY <2>1, <2>2, <2>3, <2>4, <2>6, <2>7, SequenceSuit DEF Devie
<1>. QED BY <1>3, <1>4, <1>5

LEMMA SequenceAnnulation ==
  ASSUME Cadre, Cadre', UneALaFois, SequenceInv, ~Croisee, NEW t \in Taches, Seul(t), Evolue,
         \/ \E p \in Preuves : AnnulerValidation(t, p)
         \/ VerifierFapshi(t) \/ Defaire(t) \/ Retirer(t) \/ RouvrirTransaction(t)
  PROVE  SequenceInv'
<1>. PICK q : q = taches[t].ref
  OBVIOUS
<1>. PICK p : p = taches[t].preuve
  OBVIOUS
<1>1. TypeOK /\ TypeOK' /\ Placee(t)
  BY DEF Cadre
<1>2. /\ UnePreuve /\ PasSuivi(t) /\ Equilibre
      /\ ~Devie(t) => \A r \in References : Regle(r)
  BY SequenceAvant
<1>3. ASSUME taches[t].pc \in {"verifier", "defaire", "retirer", "rouvrir"}
      PROVE  /\ taches[t].op = "annuler" /\ q \in References /\ p \in PreuvesDe(q)
             /\ preuves[p].statut = "VALIDE"
    <2>1. taches[t].op = "annuler" /\ q \in References
      BY <1>1, <1>3, RefDe DEF EtapesPreuve, Placee, Legale
    <2>2. p \in PreuvesDe(q)
      BY <1>3, <2>1, LaPreuve
    <2>. QED BY <1>2, <1>3, <2>1, <2>2 DEF PasSuivi, PasAnnulation
<1>4. ASSUME NEW p1 \in Preuves, AnnulerValidation(t, p1) PROVE SequenceInv'
  <2>1. /\ taches[t].pc = "libre" /\ taches'[t].pc = "verifier" /\ taches'[t].op = "annuler"
        /\ taches'[t].preuve = p1
    BY <1>1, <1>4 DEF AnnulerValidation, SurLaPreuve, TypeOK, Libre
  <2>2. /\ UNCHANGED <<journal, fapshi, reglements, preuves, montantRegle>>
        /\ preuves'[p1].statut = "VALIDE"
    BY <1>4 DEF AnnulerValidation
  <2>3. Equilibre'
    BY <1>1, <1>2, <2>1, <2>2, EquilibreStable
  <2>4. PasSuivi(t)'
    BY <2>1, <2>2 DEF PasSuivi, PasOuverture, PasIssue, PasDecision, PasAnnulation
  <2>. QED BY <2>1, <2>2, <2>3, <2>4, SequenceLit DEF Devie
<1>5. ASSUME VerifierFapshi(t) \/ Defaire(t) PROVE SequenceInv'
  <2>1. /\ taches[t].pc \in {"verifier", "defaire"} /\ taches[t].op = "annuler"
        /\ q \in References /\ preuves[p].statut = "VALIDE"
    BY <1>3, <1>5 DEF VerifierFapshi, Defaire
  <2>2. UNCHANGED <<journal, fapshi, reglements, preuves, montantRegle>>
    BY <1>5 DEF VerifierFapshi, Defaire
  <2>3. /\ taches'[t].pc \in {"defaire", "retirer", "libre"}
        /\ taches'[t].pc # "libre" => /\ taches'[t].op = "annuler" /\ taches'[t].ref = q
                                      /\ taches'[t].preuve = p
        /\ taches'[t].pc = "retirer" => taches'[t].montant = reglements[q].montant
    <3>1. CASE Liberer(t)
      BY <1>1, <3>1, TacheFin
    <3>0. taches[t].pc \notin {"libre", "engager"}
      BY <2>1
    <3>2. CASE Aller(t, "defaire")
      <4>1. /\ taches'[t].pc = "defaire" /\ taches'[t].op = taches[t].op
            /\ taches'[t].ref = taches[t].ref /\ taches'[t].preuve = taches[t].preuve
        BY <1>1, <3>0, <3>2, TacheSuit
      <4>. QED BY <2>1, <4>1
    <3>4. ASSUME NEW n, taches' = [taches EXCEPT ![t].pc = "retirer", ![t].montant = n]
          PROVE  /\ taches'[t].pc = "retirer" /\ taches'[t].op = taches[t].op
                 /\ taches'[t].ref = taches[t].ref /\ taches'[t].issue = taches[t].issue
                 /\ taches'[t].preuve = taches[t].preuve /\ taches'[t].montant = n
      BY <1>1, <3>0, <3>4, TacheSuit
    <3>3. CASE taches' = [taches EXCEPT ![t].pc = "retirer",
                                        ![t].montant = reglements[q].montant]
      BY <2>1, <3>3, <3>4
    <3>. QED BY <1>5, <3>1, <3>2, <3>3 DEF VerifierFapshi, Defaire
  <2>4. Equilibre'
    BY <1>1, <1>2, <2>1, <2>2, <2>3, EquilibreStable
  <2>5. PasSuivi(t)'
    BY <2>1, <2>2, <2>3 DEF PasSuivi, PasOuverture, PasIssue, PasDecision, PasAnnulation
  <2>. QED BY <2>1, <2>2, <2>4, <2>5, SequenceLit DEF Devie
<1>6. ASSUME Retirer(t) PROVE SequenceInv'
  <2>1. /\ taches[t].pc = "retirer" /\ taches[t].op = "annuler" /\ q \in References
        /\ p \in PreuvesDe(q) /\ preuves[p].statut = "VALIDE"
        /\ taches[t].montant = reglements[q].montant
    BY <1>2, <1>3, <1>6 DEF Retirer, PasSuivi, PasAnnulation
  <2>2. Regle(q) /\ journal[q].statut # "ABSENTE"
    BY <1>1, <1>2, <2>1 DEF Devie, Placee
  <2>3. Statut(q, "COMPLETE", "COMPLETE")
    BY <2>1, <2>2 DEF Regle, Decision, Statut
  <2>4. UNCHANGED <<journal, fapshi, preuves>>
    BY <1>6 DEF Retirer
  <2>5. UnePreuve' /\ PreuvesDe(q)' = PreuvesDe(q)
    BY <1>2, <2>4, PreuvesInchangees
  <2>6. CASE Liberer(t) /\ UNCHANGED <<reglements, montantRegle>>
    <3>1. taches'[t].pc = "libre"
      BY <1>1, <2>6, TacheFin
    <3>2. Equilibre'
      BY <1>1, <1>2, <2>1, <2>6, <3>1, EquilibreStable
    <3>. QED BY <2>1, <2>4, <2>6, <3>1, <3>2, SequenceLit DEF Devie, PasSuivi
  <2>7. CASE ~(Liberer(t) /\ UNCHANGED <<reglements, montantRegle>>)
    <3>1. /\ reglements' = [reglements EXCEPT ![q].statut = "EN_ATTENTE",
                                              ![q].montant = preuves[p].declare]
          /\ montantRegle' = montantRegle - reglements[q].montant
          /\ Aller(t, "rouvrir")
      BY <1>6, <2>1, <2>3, <2>7 DEF Retirer, Statut
    <3>2. /\ taches'[t].pc = "rouvrir" /\ taches'[t].op = "annuler" /\ taches'[t].ref = q
          /\ taches'[t].preuve = p
      BY <1>1, <2>1, <3>1, TacheSuit
    <3>3. /\ \A r \in References \ {q} : reglements'[r] = reglements[r]
          /\ reglements'[q].statut = "EN_ATTENTE"
      BY <1>1, <2>1, <3>1 DEF TypeOK, Reglement
    <3>4. Equilibre'
      BY <1>1, <1>2, <2>1, <2>3, <3>1, <3>2, <3>3, EquilibreRetire DEF Statut
    <3>5. PasSuivi(t)'
      BY <2>1, <2>3, <2>4, <3>2, <3>3
         DEF PasSuivi, PasOuverture, PasIssue, PasDecision, PasAnnulation, Statut
    <3>. QED BY <2>1, <2>4, <2>5, <3>2, <3>3, <3>4, <3>5, SequenceSuit DEF Devie
  <2>. QED BY <2>6, <2>7
<1>7. ASSUME RouvrirTransaction(t) PROVE SequenceInv'
  <2>1. /\ taches[t].pc = "rouvrir" /\ taches[t].op = "annuler" /\ q \in References
        /\ p \in PreuvesDe(q) /\ preuves[p].statut = "VALIDE"
        /\ Statut(q, "COMPLETE", "EN_ATTENTE")
    BY <1>2, <1>3, <1>7 DEF RouvrirTransaction, PasSuivi, PasAnnulation
  <2>2. /\ taches'[t].pc = "marquer" /\ taches'[t].op = "annuler" /\ taches'[t].ref = q
        /\ taches'[t].preuve = p
    BY <1>1, <1>7, <2>1, TacheSuit DEF RouvrirTransaction
  <2>3. UNCHANGED <<fapshi, reglements, preuves, montantRegle>>
    BY <1>7 DEF RouvrirTransaction
  <2>4. /\ \A r \in References \ {q} : journal'[r] = journal[r]
        /\ journal'[q].statut = "EN_ATTENTE"
    BY <1>1, <1>7, <2>1, JournalAilleurs, JournalStatut
       DEF RouvrirTransaction, TypeOK, RouvrirAffecte, Statut
  <2>5. PasSuivi(t)' /\ UnePreuve'
    BY <1>2, <2>1, <2>2, <2>3, <2>4, PreuvesInchangees
       DEF PasSuivi, PasOuverture, PasIssue, PasDecision, PasAnnulation, Statut
  <2>6. Equilibre'
    BY <1>1, <1>2, <2>1, <2>2, <2>3, EquilibreStable
  <2>. QED BY <2>1, <2>2, <2>3, <2>4, <2>5, <2>6, SequenceSuit DEF Devie
<1>. QED BY <1>4, <1>5, <1>6, <1>7

LEMMA SequenceFapshi ==
  ASSUME Cadre, SequenceInv, NEW r \in References, FapshiCree(r) \/ FapshiTranche(r)
  PROVE  SequenceInv'
<1>1. UNCHANGED <<journal, certifies, reglements, montantRegle, preuves, taches>>
  BY DEF FapshiCree, FapshiTranche
<1>2. \A q \in References : fapshi[q] = "SUCCESSFUL" => fapshi'[q] = "SUCCESSFUL"
  BY DEF FapshiCree, FapshiTranche, Cadre, TypeOK
<1>3. UnePreuve' /\ Enregistrees' = Enregistrees /\ \A q : PreuvesDe(q)' = PreuvesDe(q)
  BY <1>1 DEF SequenceInv, UnePreuve, Enregistrees, PreuvesDe
<1>4. ASSUME NEW q \in References, Regle(q) PROVE Regle(q)'
  BY <1>1, <1>2, <1>3, <1>4 DEF Regle
<1>5. ASSUME NEW q \in References, \A t \in Taches : Devie(t)' => taches'[t].ref # q
      PROVE  Regle(q)'
  BY <1>1, <1>4, <1>5 DEF SequenceInv, Devie
<1>6. ASSUME NEW t \in Taches PROVE PasSuivi(t)'
  <2>1. SUFFICES ASSUME taches[t].pc \notin {"libre", "engager"} PROVE PasSuivi(t)'
    BY <1>1 DEF PasSuivi
  <2>2. taches[t].ref \in References /\ PasSuivi(t)
    BY <2>1, Formes, ChampsReglement, ChampsPreuve DEF Cadre, SequenceInv, Libre
  <2>3. PasOuverture(t)'
    BY <1>1, <1>3, <2>1, <2>2 DEF PasSuivi, PasOuverture, DejaUne, Statut
  <2>4. PasIssue(t)'
    BY <1>1, <1>2, <2>1, <2>2 DEF PasSuivi, PasIssue
  <2>5. PasDecision(t)' /\ PasAnnulation(t)'
    BY <1>1, <2>1, <2>2 DEF PasSuivi, PasDecision, PasAnnulation, Statut
  <2>. QED BY <2>3, <2>4, <2>5 DEF PasSuivi
<1>7. Equilibre'
  BY <1>1, EquilibreReste DEF SequenceInv, Compte, AIncrementer
<1>. QED BY <1>3, <1>5, <1>6, <1>7 DEF SequenceInv

LEMMA SequenceEtape ==
  ASSUME Cadre, Cadre', UneALaFois, ~Croisee => SequenceInv, [Next]_vars, ~Croisee'
  PROVE  SequenceInv'
<1>1. ASSUME UNCHANGED vars PROVE SequenceInv'
  <2>1. SequenceInv
    BY <1>1 DEF vars, Croisee, Enregistrees
  <2>. QED BY <1>1, <2>1 DEF vars, SequenceInv, UnePreuve, Regle, Devie, PasSuivi, PasOuverture,
       PasIssue, PasDecision, PasAnnulation, Statut, DejaUne, Equilibre, Compte, AIncrementer,
       PreuvesDe, Enregistrees
<1>2. ASSUME NEW t \in Taches, Engagement(t) \/ Issue(t) \/ Justification(t)
      PROVE  SequenceInv'
  <2>1. Evolue /\ Seul(t)
    BY <1>2, EvolutionEngagement, EvolutionIssue, EvolutionJustification DEF Cadre
  <2>2. ~Croisee /\ SequenceInv
    BY <2>1, CroiseeReste
  <2>3. 1 .. Du \subseteq Nat /\ 0 \in Nat
    BY DuAssumption
  <2>4. ASSUME Justification(t) PROVE SequenceInv'
    BY <2>1, <2>2, <2>3, <2>4, SequenceDepot, SequenceDecision, SequenceAnnulation
       DEF Justification
  <2>. QED BY <1>2, <2>2, <2>4, SequenceEngagement, SequenceIssue
<1>3. ASSUME NEW r \in References, FapshiCree(r) \/ FapshiTranche(r)
      PROVE  SequenceInv'
  <2>1. ~Croisee
    BY <1>3, EvolutionFapshi, CroiseeReste DEF Cadre
  <2>. QED BY <1>3, <2>1, SequenceFapshi
<1>. QED BY <1>1, <1>2, <1>3 DEF Next, Fapshi

LEMMA SequenceInit == Init => SequenceInv
<1>. SUFFICES ASSUME Init PROVE SequenceInv
  OBVIOUS
<1>1. \A t \in Taches : taches[t] = Libre
  BY DEF Init
<1>2. Enregistrees = {}
  BY DEF Init, Enregistrees
<1>3. Equilibre
  BY ConcurrentInit DEF ConcurrentInv, Croisee, Enregistrees, Init
<1>4. UnePreuve /\ \A r \in References : PreuvesDe(r) = {} /\ Regle(r)
  BY <1>2 DEF UnePreuve, PreuvesDe, Regle, Init, JournalInit, LigneAbsente
<1>5. \A t \in Taches : PasSuivi(t)
  BY <1>1 DEF PasSuivi, Libre
<1>. QED BY <1>3, <1>4, <1>5 DEF SequenceInv

------------------------------------------------------------------------------
(* The theorems of the last two parts.                                     *)

LEMMA InvariantsInit == Init => Cadre /\ ConcurrentInv /\ SequenceInv
BY CadreInit, ConcurrentInit, SequenceInit

LEMMA ConcurrentSuite ==
  ASSUME SansRetour
  PROVE  Cadre /\ ConcurrentInv /\ [Next]_vars => (Cadre /\ ConcurrentInv)'
BY CadreSuite, ConcurrentEtape

LEMMA SequenceSuite ==
  ASSUME UneALaFois
  PROVE  Cadre /\ (~Croisee => SequenceInv) /\ [Next]_vars
           => (Cadre /\ (~Croisee => SequenceInv))'
BY CadreSuite, SequenceEtape

\* Each credited payment is counted once in the balance, and the status of the
\* participation follows it: with any number of requests in flight, however their
\* steps fall, for payments, webhooks, proofs and their acceptance; and one at a
\* time for every request, those that take something back included.
THEOREM CreditsToujoursExacts ==
  ASSUME SansRetour \/ UneALaFois
  PROVE  Spec => []CreditsExacts
<1>1. ASSUME Cadre, Equilibre, AuRepos PROVE montantRegle = Total("COMPLETE")
  <2>1. \A t \in Taches : taches[t].pc # "incrementer"
    BY <1>1 DEF AuRepos, Libre
  <2>. QED BY <1>1, <2>1, EquilibreAuRepos DEF Cadre
<1>2. SansRetour => (Spec => []SoldeJuste)
  <2>. SUFFICES ASSUME SansRetour PROVE Spec => []SoldeJuste
    OBVIOUS
  <2>1. Cadre /\ ConcurrentInv => SoldeJuste
    BY <1>1 DEF ConcurrentInv, SoldeJuste
  <2>. QED BY <2>1, InvariantsInit, ConcurrentSuite, PTL DEF Spec
<1>3. UneALaFois => (Spec => []SoldeJuste)
  <2>. SUFFICES ASSUME UneALaFois PROVE Spec => []SoldeJuste
    OBVIOUS
  <2>1. Cadre /\ (~Croisee => SequenceInv) => SoldeJuste
    BY <1>1 DEF SequenceInv, SoldeJuste
  <2>. QED BY <2>1, InvariantsInit, SequenceSuite, PTL DEF Spec
<1>4. UneALaFois \/ "annuler" \notin Operations
  BY DEF SansRetour
<1>5. Spec => []SoldeeSiReglee
  BY <1>4, StatutToujoursAccorde
<1>. QED BY <1>2, <1>3, <1>5, PTL DEF CreditsExacts

\* Requests one at a time, a payment by proof is credited at rest exactly when its
\* proof is accepted, for the amount the treasury received, after any sequence of
\* deposits, acceptances, refusals and undoings; and nothing is ever credited on
\* the word of the payer.
THEOREM CreditsToujoursProuves ==
  ASSUME UneALaFois
  PROVE  Spec => []CreditsProuves
<1>1. ASSUME Cadre, SequenceInv, AuRepos, ~Croisee,
             NEW r \in Utilisees, reglements[r].mode = "JUSTIFICATIF"
      PROVE  reglements[r].statut = "COMPLETE" <=>
               \E p \in Enregistrees :
                 /\ preuves[p].ref = r
                 /\ preuves[p].statut = "VALIDE"
                 /\ preuves[p].recu = reglements[r].montant
  <2>1. r \in References /\ TypeOK /\ Neuf(r)
    BY <1>1 DEF Cadre, Utilisees
  <2>2. Regle(r)
    BY <1>1, <2>1 DEF AuRepos, SequenceInv, Devie, Libre
  <2>3. journal[r].statut = "ABSENTE" => reglements[r].statut = "EN_ATTENTE" /\ PreuvesDe(r) = {}
    BY <2>1 DEF Neuf, PreuvesDe, Enregistrees
  <2>4. fapshi[r] = "INCONNUE"
    BY <1>1, <2>1 DEF Neuf
  <2>5. ASSUME reglements[r].statut = "COMPLETE"
        PROVE  \E p \in PreuvesDe(r) : preuves[p].statut = "VALIDE"
                                         /\ preuves[p].recu = reglements[r].montant
    BY <2>2, <2>3, <2>4, <2>5 DEF Regle, Decision
  <2>6. ASSUME NEW p \in PreuvesDe(r), preuves[p].statut = "VALIDE"
        PROVE  reglements[r].statut = "COMPLETE"
    BY <2>2, <2>3, <2>6 DEF Regle, Decision
  <2>. QED BY <2>5, <2>6 DEF PreuvesDe
<1>2. Cadre /\ (~Croisee => SequenceInv) => PreuveAccordee
  BY <1>1 DEF PreuveAccordee
<1>3. Spec => []PreuveAccordee
  BY <1>2, InvariantsInit, SequenceSuite, PTL DEF Spec
<1>4. Spec => []CreditAtteste
  BY CreditToujoursAtteste
<1>. QED BY <1>3, <1>4, PTL DEF CreditsProuves

\* Who may change the status of a payment.
LEMMA QuiEcrit ==
  ASSUME [Next]_vars
  PROVE  \/ UNCHANGED reglements
         \/ \E t \in Taches :
              \/ \E q \in References, m \in 1 .. Du : Engager(t, q, m)
              \/ Refermer(t) \/ Echouer(t) \/ Crediter(t) \/ Retirer(t)
BY DEF Next, vars, Engagement, Issue, Justification, Fapshi, Commencer, EngagerRefuse,
   OuvrirReglement, Initier, InitierLeve, AbandonnerDemande, AbandonnerReglement, Expirer,
   RecevoirIssue, AppliquerIssue, Lire, Incrementer, Relire, Solder, Deposer, Controler,
   InsererPreuve, Decider, MarquerPreuve, CertifierRecu, AnnulerValidation, VerifierFapshi,
   Defaire, RouvrirTransaction, FapshiCree, FapshiTranche

\* Alone too, a request closes or fails only a payment that is not credited.
LEMMA CrediteGardeSeul ==
  ASSUME Cadre, SequenceInv, NEW t \in Taches, Refermer(t) \/ Echouer(t), NEW r \in References
  PROVE  reglements[r].statut = "COMPLETE" => reglements'[r] = reglements[r]
<1>1. TypeOK /\ Placee(t) /\ PasSuivi(t)
  BY DEF Cadre, SequenceInv
<1>2. taches[t].ref \in References /\ taches[t].pc \in {"refermer", "echouer"}
  BY <1>1, RefDe DEF Refermer, Echouer, EtapesReglement
<1>3. reglements[taches[t].ref].statut # "COMPLETE"
  <2>1. taches[t].pc = "echouer" => taches[t].issue = "ECHOUE"
    BY <1>1 DEF Placee, Legale
  <2>. QED BY <1>1, <1>2, <2>1 DEF PasSuivi, PasOuverture, PasIssue, Statut
<1>. QED BY <1>1, <1>2, <1>3 DEF Refermer, Echouer, Marquer, TypeOK

\* A payment that is credited never becomes a failed one, the balance keeping what
\* it credited: a payment is closed before the provider knows of it, or after the
\* provider refused it.
THEOREM CreditToujoursGarde ==
  ASSUME SansRetour \/ UneALaFois
  PROVE  Spec => CreditJamaisEchoue
<1>. DEFINE Garde == \A r \in References : reglements[r].statut = "COMPLETE" /\ ~Croisee
                                             => reglements'[r].statut # "ECHOUE"
            Sauf == \A t \in Taches, r \in References :
                      (Refermer(t) \/ Echouer(t)) /\ reglements[r].statut = "COMPLETE"
                        => reglements'[r] = reglements[r]
<1>1. ASSUME Cadre, [Next]_vars, ~Croisee => Sauf PROVE Garde
  <2>. SUFFICES ASSUME NEW r \in References, reglements[r].statut = "COMPLETE", ~Croisee
                PROVE  reglements'[r].statut # "ECHOUE"
    OBVIOUS
  <2>1. TypeOK /\ Sauf
    BY <1>1 DEF Cadre
  <2>2. ASSUME NEW t \in Taches, NEW q \in References, NEW m, Engager(t, q, m)
        PROVE  reglements'[r].statut # "ECHOUE"
    BY <2>1, <2>2 DEF Engager, TypeOK
  <2>3. ASSUME NEW t \in Taches, Refermer(t) \/ Echouer(t)
        PROVE  reglements'[r].statut # "ECHOUE"
    BY <2>1, <2>3
  <2>4. ASSUME NEW t \in Taches, Crediter(t) PROVE reglements'[r].statut # "ECHOUE"
    <3>1. taches[t].ref \in References
      BY <2>1, <2>4, RefDe DEF Crediter, EtapesReglement
    <3>. QED BY <2>1, <2>4, <3>1 DEF Crediter, TypeOK, Reglement
  <2>5. ASSUME NEW t \in Taches, Retirer(t) PROVE reglements'[r].statut # "ECHOUE"
    <3>1. taches[t].ref \in References
      BY <2>1, <2>5, RefDe DEF Retirer, EtapesPreuve
    <3>. QED BY <2>1, <2>5, <3>1 DEF Retirer, TypeOK, Reglement
  <2>. QED BY <1>1, <2>2, <2>3, <2>4, <2>5, QuiEcrit
<1>2. SansRetour => (Spec => CreditJamaisEchoue)
  <2>. SUFFICES ASSUME SansRetour PROVE Spec => CreditJamaisEchoue
    OBVIOUS
  <2>1. Cadre /\ ConcurrentInv /\ [Next]_vars => [Garde]_vars
    <3>. SUFFICES ASSUME Cadre, ConcurrentInv, [Next]_vars PROVE Garde
      OBVIOUS
    <3>1. ~Croisee => Sauf
      BY CrediteGarde DEF ConcurrentInv
    <3>. QED BY <1>1, <3>1
  <2>. QED BY <2>1, InvariantsInit, ConcurrentSuite, PTL DEF Spec, CreditJamaisEchoue
<1>3. UneALaFois => (Spec => CreditJamaisEchoue)
  <2>. SUFFICES ASSUME UneALaFois PROVE Spec => CreditJamaisEchoue
    OBVIOUS
  <2>1. Cadre /\ (~Croisee => SequenceInv) /\ [Next]_vars => [Garde]_vars
    <3>. SUFFICES ASSUME Cadre, ~Croisee => SequenceInv, [Next]_vars PROVE Garde
      OBVIOUS
    <3>1. ~Croisee => Sauf
      BY CrediteGardeSeul
    <3>. QED BY <1>1, <3>1
  <2>. QED BY <2>1, InvariantsInit, SequenceSuite, PTL DEF Spec, CreditJamaisEchoue
<1>. QED BY <1>2, <1>3

==============================================================================

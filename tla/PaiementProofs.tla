---------------------------- MODULE PaiementProofs ----------------------------
(* Proofs about Paiement, for any number of references and of handlers,    *)
(* and that it implements Promesse.                                        *)
EXTENDS Contrat, JournalProofs, FiniteSetTheorems, TLAPS

\* A handler that treats a row is a full record of its own.
LEMMA TacheEnCours ==
  ASSUME TypeOK, NEW t \in Taches, taches[t].pc # "libre"
  PROVE  taches[t] \in Tache
BY DEF TypeOK, Libre

\* Going on to the next row keeps the handlers well typed.
LEMMA SuiteType ==
  ASSUME TypeOK, NEW t \in Taches, taches[t].pc # "libre", Suite(t)
  PROVE  taches' \in [Taches -> Tache \cup {Libre}]
<1>1. taches[t] \in Tache  BY TacheEnCours
<1>2. CASE taches[t].lot = {}
  BY <1>2 DEF Suite, TypeOK
<1>3. CASE taches[t].lot # {}
  <2>1. PICK r \in Premieres(taches[t].lot) :
          taches' = [taches EXCEPT ![t] =
                       [role |-> taches[t].role, pc |-> "verifier", ref |-> r,
                        lot |-> taches[t].lot \ {r}, issue |-> "EN_ATTENTE"]]
    BY <1>3 DEF Suite, Traiter
  <2>2. r \in References  BY <1>1 DEF Premieres, Tache
  <2>3. [role |-> taches[t].role, pc |-> "verifier", ref |-> r,
         lot |-> taches[t].lot \ {r}, issue |-> "EN_ATTENTE"] \in Tache
    BY <1>1, <2>2 DEF Tache, Statuts
  <2> QED  BY <2>1, <2>3 DEF TypeOK
<1> QED  BY <1>2, <1>3

\* Starting a handler on a batch keeps the handlers well typed.
LEMMA CommencerType ==
  ASSUME TypeOK, NEW t \in Taches, NEW role \in {"webhook", "cron", "suivi"},
         NEW lot \in SUBSET References, Commencer(t, role, lot)
  PROVE  taches' \in [Taches -> Tache \cup {Libre}]
<1>1. PICK r \in Premieres(lot) :
        taches' = [taches EXCEPT ![t] =
                     [role |-> role, pc |-> "verifier", ref |-> r,
                      lot |-> lot \ {r}, issue |-> "EN_ATTENTE"]]
  BY DEF Commencer, Traiter
<1>2. [role |-> role, pc |-> "verifier", ref |-> r,
       lot |-> lot \ {r}, issue |-> "EN_ATTENTE"] \in Tache
  BY DEF Tache, Statuts, Premieres
<1> QED  BY <1>1, <1>2 DEF TypeOK

\* The rank given to a new row is a natural number.
LEMMA DaterType ==
  ASSUME TypeOK, NEW r \in References, Dater(r)
  PROVE  rang' \in [References -> Nat]
<1>1. IsFiniteSet(Ouvertes)
  BY ReferencesAssumption, FS_Subset DEF Ouvertes
<1>2. Cardinality(Ouvertes) \in Nat  BY <1>1, FS_CardinalityType
<1> QED  BY <1>2 DEF Dater, TypeOK

\* The status a handler retains is a status.
LEMMA IssueRetenueType ==
  ASSUME TypeOK, NEW t \in Taches, NEW r \in References, fapshi[r] # "INCONNUE"
  PROVE  IssueRetenue(t, r) \in Statuts
BY DEF TypeOK, EtatsFapshi, IssueRetenue, versStatut, Statuts

\* Type correctness: the rows, the handlers in flight and the counters keep
\* the shape the code gives them.
THEOREM TypeCorrect == Spec => []TypeOK
<1>1. Init => TypeOK
  BY MaxPannesAssumption DEF Init, TypeOK, JournalInit, JournalTypeOK, Ligne,
     LigneAbsente, Montants, Ages, Expiree, EtatsDemande, EtatsFapshi, PlafondEffets
<1>2. TypeOK /\ [Next]_vars => TypeOK'
  <2> SUFFICES ASSUME TypeOK, [Next]_vars PROVE TypeOK'  OBVIOUS
  <2> USE DEF JournalTypeOK
  <2>1. ASSUME NEW r \in References, OuvrirEnLigne(r) \/ OuvrirHorsLigne(r)
        PROVE  TypeOK'
    BY <2>1, JournalType, DaterType
       DEF OuvrirEnLigne, OuvrirHorsLigne, TypeOK, EtatsDemande, EnCours
  <2>2. ASSUME NEW r \in References, FapshiCree(r) \/ Payer(r) \/ RefuserPaiement(r)
        PROVE  TypeOK'
    BY <2>2 DEF FapshiCree, Payer, RefuserPaiement, TypeOK, EtatsFapshi
  <2>3. ASSUME NEW r \in References, InitierAccepte(r) \/ InitierLeve(r)
        PROVE  TypeOK'
    BY <2>3 DEF InitierAccepte, InitierLeve, TypeOK, EtatsDemande, EnCours
  <2>4. ASSUME NEW r \in References, ConserverIdentifiant(r) \/ AbandonnerDemande(r)
        PROVE  TypeOK'
    BY <2>4, JournalType
       DEF ConserverIdentifiant, AbandonnerDemande, TypeOK, EtatsDemande
  <2>5. ASSUME NEW r \in References, Vieillir(r)
        PROVE  TypeOK'
    BY <2>5 DEF Vieillir, TypeOK, Ages, Expiree
  <2>6. ASSUME NEW t \in Taches, Reconcilier(t)
        PROVE  TypeOK'
    <3>1. LotDuPassage \in SUBSET References
      BY DEF LotDuPassage, EnAttenteAvant, Ouvertes
    <3> QED  BY <2>6, <3>1, CommencerType DEF Reconcilier, TypeOK
  <2>7. ASSUME NEW t \in Taches, NEW r \in References,
               RecevoirWebhook(t, r) \/ VerifierMaintenant(t, r)
        PROVE  TypeOK'
    BY <2>7, CommencerType DEF RecevoirWebhook, VerifierMaintenant, TypeOK
  <2>8. ASSUME NEW t \in Taches, Verifier(t)
        PROVE  TypeOK'
    <3>1. taches[t] \in Tache  BY <2>8, TacheEnCours DEF Verifier
    <3>2. IssueRetenue(t, taches[t].ref) \in Statuts
      BY <2>8, <3>1, IssueRetenueType DEF Verifier, Tache
    <3>3. taches' \in [Taches -> Tache \cup {Libre}]
      <4>1. CASE Suite(t)
        BY <2>8, <4>1, SuiteType DEF Verifier
      <4>2. CASE taches' = [taches EXCEPT ![t].pc = "appliquer",
                              ![t].issue = IssueRetenue(t, taches[t].ref)]
        BY <3>1, <3>2, <4>2 DEF TypeOK, Tache
      <4> QED  BY <2>8, <4>1, <4>2 DEF Verifier
    <3> QED  BY <2>8, <3>3 DEF Verifier, TypeOK
  <2>9. ASSUME NEW t \in Taches, VerifierLeve(t)
        PROVE  TypeOK'
    <3>1. taches' \in [Taches -> Tache \cup {Libre}]
      BY <2>9, SuiteType DEF VerifierLeve
    <3> QED  BY <2>9, <3>1 DEF VerifierLeve, TypeOK
  <2>10. ASSUME NEW t \in Taches, AppliquerIssue(t)
         PROVE  TypeOK'
    <3>1. taches[t] \in Tache  BY <2>10, TacheEnCours DEF AppliquerIssue
    <3>2. JournalTypeOK'
      BY <2>10, <3>1, JournalType DEF AppliquerIssue, TypeOK, Tache
    <3>3. /\ taches' \in [Taches -> Tache \cup {Libre}]
          /\ acquitte' \in [References -> BOOLEAN]
      <4>1. CASE Suite(t) /\ Acquittement(t)
        BY <2>10, <3>1, <4>1, SuiteType DEF AppliquerIssue, Acquittement, TypeOK, Tache
      <4>2. CASE taches' = [taches EXCEPT ![t].pc = "repercuter"] /\ UNCHANGED acquitte
        BY <3>1, <4>2 DEF TypeOK, Tache
      <4> QED  BY <2>10, <4>1, <4>2 DEF AppliquerIssue
    <3> QED  BY <2>10, <3>2, <3>3 DEF AppliquerIssue, TypeOK
  <2>11. ASSUME NEW t \in Taches, Repercuter(t)
         PROVE  TypeOK'
    <3>1. taches[t] \in Tache  BY <2>11, TacheEnCours DEF Repercuter
    <3>2. taches' \in [Taches -> Tache \cup {Libre}]
      BY <2>11, SuiteType DEF Repercuter
    <3>3. acquitte' \in [References -> BOOLEAN]
      BY <2>11, <3>1 DEF Repercuter, Acquittement, TypeOK, Tache
    <3>4. effets' \in [References -> [Issues -> 0 .. PlafondEffets]]
      BY <2>11, <3>1 DEF Repercuter, TypeOK, Tache, Compter, PlafondEffets
    <3> QED  BY <2>11, <3>2, <3>3, <3>4 DEF Repercuter, TypeOK
  <2>12. ASSUME NEW t \in Taches, RepercuterLeve(t)
         PROVE  TypeOK'
    BY <2>12, MaxPannesAssumption DEF RepercuterLeve, TypeOK
  <2>13. CASE Redemarrer
    BY <2>13, MaxPannesAssumption DEF Redemarrer, TypeOK, EtatsDemande
  <2>14. CASE UNCHANGED vars
    BY <2>14 DEF vars, TypeOK
  <2> QED
    BY <2>1, <2>2, <2>3, <2>4, <2>5, <2>6, <2>7, <2>8, <2>9, <2>10, <2>11,
       <2>12, <2>13, <2>14 DEF Next, Demande, Etape
<1> QED  BY <1>1, <1>2, PTL DEF Spec

------------------------------------------------------------------------------
(* The inductive invariant.                                                *)

\* What a slot holds after its handler is done with a row: nothing, or a
\* reconciliation about to question the provider on its next row.
Prochaine(x) == x = Libre \/ (x \in Tache /\ x.pc = "verifier" /\ x.role # "webhook")

LEMMA SuiteProchaine ==
  ASSUME TypeOK, TacheAttestee, NEW t \in Taches, taches[t].pc # "libre", Suite(t)
  PROVE  \E x : Prochaine(x) /\ taches' = [taches EXCEPT ![t] = x]
<1>1. taches[t] \in Tache  BY TacheEnCours
<1>2. CASE taches[t].lot = {}
  BY <1>2 DEF Suite, Prochaine
<1>3. CASE taches[t].lot # {}
  <2>1. PICK r \in Premieres(taches[t].lot) :
          taches' = [taches EXCEPT ![t] =
                       [role |-> taches[t].role, pc |-> "verifier", ref |-> r,
                        lot |-> taches[t].lot \ {r}, issue |-> "EN_ATTENTE"]]
    BY <1>3 DEF Suite, Traiter
  <2> DEFINE x == [role |-> taches[t].role, pc |-> "verifier", ref |-> r,
                   lot |-> taches[t].lot \ {r}, issue |-> "EN_ATTENTE"]
  <2>2. taches[t].role # "webhook"  BY <1>3 DEF TacheAttestee
  <2>3. x \in Tache  BY <1>1 DEF Tache, Statuts, Premieres
  <2>4. Prochaine(x)  BY <2>2, <2>3 DEF Prochaine
  <2> QED  BY <2>1, <2>4
<1> QED  BY <1>2, <1>3

\* Emptying a slot, or moving it to a new row, keeps TacheAttestee.
LEMMA ProchaineAttestee ==
  ASSUME TypeOK, TacheAttestee, NEW t \in Taches, NEW x, Prochaine(x),
         taches' = [taches EXCEPT ![t] = x], UNCHANGED <<fapshi, age>>
  PROVE  TacheAttestee'
BY DEF TypeOK, TacheAttestee, Prochaine, Libre, Tache

\* A handler that starts has neither an issue nor an effect to carry.
LEMMA CommencerAttestee ==
  ASSUME TypeOK, TacheAttestee, NEW t \in Taches,
         NEW role \in {"webhook", "cron", "suivi"}, NEW lot \in SUBSET References,
         Commencer(t, role, lot), UNCHANGED <<fapshi, age>>,
         role = "webhook" => \E r \in References :
           lot = {r} /\ fapshi[r] \in {"SUCCESSFUL", "FAILED"}
  PROVE  TacheAttestee'
<1>1. PICK r \in Premieres(lot) :
        taches' = [taches EXCEPT ![t] =
                     [role |-> role, pc |-> "verifier", ref |-> r,
                      lot |-> lot \ {r}, issue |-> "EN_ATTENTE"]]
  BY DEF Commencer, Traiter
<1>2. role = "webhook" => lot \ {r} = {} /\ fapshi[r] \in {"SUCCESSFUL", "FAILED"}
  BY DEF Premieres
<1> QED  BY <1>1, <1>2 DEF TypeOK, TacheAttestee

\* A step that adds no effect on its way and touches neither the journal, the
\* counts nor the provider keeps EffetsSerialises.
LEMMA SerialisesSansEffet ==
  ASSUME TypeOK, EffetsSerialises, UNCHANGED <<journal, effets, fapshi, age>>,
         \A u \in Taches : taches'[u].pc = "repercuter" => taches'[u] = taches[u]
  PROVE  EffetsSerialises'
BY DEF EffetsSerialises, Entendu, EffetEnRoute

LEMMA CommencerSansEffet ==
  ASSUME TypeOK, NEW t \in Taches, NEW role, NEW lot, Commencer(t, role, lot)
  PROVE  \A u \in Taches : taches'[u].pc = "repercuter" => taches'[u] = taches[u]
BY DEF Commencer, Traiter, TypeOK

LEMMA ProchaineSansEffet ==
  ASSUME TypeOK, NEW t \in Taches, NEW x, Prochaine(x),
         taches' = [taches EXCEPT ![t] = x]
  PROVE  \A u \in Taches : taches'[u].pc = "repercuter" => taches'[u] = taches[u]
BY DEF Prochaine, TypeOK, Libre

\* The steps of the opening request, of the provider and of the clock.
LEMMA DemandePreserve ==
  ASSUME IInv, TypeOK', NEW r \in References, Demande(r)
  PROVE  IInv'
<1> USE DEF IInv
<1>1. ASSUME OuvrirEnLigne(r) \/ OuvrirHorsLigne(r)  PROVE IInv'
  <2>1. UNCHANGED <<age, fapshi, taches, effets>>
    BY <1>1 DEF OuvrirEnLigne, OuvrirHorsLigne
  <2>2. \A q \in References :
          /\ journal'[q].statut \in {"COMPLETE", "ECHOUE"} => journal'[q] = journal[q]
          /\ journal[q].statut # "ABSENTE" => journal'[q] = journal[q]
          /\ demande[q] = "abandonnee" => demande'[q] = demande[q]
    BY <1>1 DEF OuvrirEnLigne, OuvrirHorsLigne, Ouvrir, TypeOK, JournalTypeOK,
       LigneAbsente, Ligne
  <2>3. TacheAttestee'  BY <2>1 DEF TacheAttestee
  <2>4. JournalAtteste'  BY <2>1, <2>2 DEF JournalAtteste
  <2>5. EffetsSerialises'
    BY <2>1, <2>2 DEF EffetsSerialises, Entendu, EffetEnRoute
  <2> QED  BY <2>3, <2>4, <2>5
<1>2. ASSUME FapshiCree(r)  PROVE IInv'
  <2>1. UNCHANGED <<journal, age, demande, taches, effets>>
    BY <1>2 DEF FapshiCree
  <2>2. \A q \in References : fapshi[q] \in {"SUCCESSFUL", "FAILED"} => fapshi'[q] = fapshi[q]
    BY <1>2 DEF FapshiCree, TypeOK
  <2>3. \A t \in Taches : taches[t].pc # "libre" => taches[t].ref \in References
    BY TacheEnCours DEF Tache
  <2>4. TacheAttestee'  BY <2>1, <2>2, <2>3 DEF TacheAttestee
  <2>5. JournalAtteste'  BY <2>1, <2>2 DEF JournalAtteste
  <2>6. EffetsSerialises'
    BY <2>1, <2>2 DEF EffetsSerialises, Entendu, EffetEnRoute
  <2> QED  BY <2>4, <2>5, <2>6
<1>3. ASSUME InitierAccepte(r) \/ InitierLeve(r)  PROVE IInv'
  <2>1. /\ UNCHANGED <<journal, age, fapshi, taches, effets>>
        /\ \A q \in References : demande[q] = "abandonnee" => demande'[q] = demande[q]
    BY <1>3 DEF InitierAccepte, InitierLeve, TypeOK
  <2> QED
    BY <2>1 DEF TacheAttestee, JournalAtteste, EffetsSerialises, Entendu, EffetEnRoute
<1>4. ASSUME ConserverIdentifiant(r)  PROVE IInv'
  <2>1. UNCHANGED <<age, fapshi, taches, effets>>
    BY <1>4 DEF ConserverIdentifiant
  <2>2. \A q \in References :
          /\ journal'[q].statut = journal[q].statut
          /\ demande[q] = "abandonnee" => demande'[q] = demande[q]
    BY <1>4 DEF ConserverIdentifiant, EnregistrerReferenceExterne, TypeOK,
       JournalTypeOK, Ligne
  <2>3. TacheAttestee'  BY <2>1 DEF TacheAttestee
  <2>4. JournalAtteste'  BY <2>1, <2>2 DEF JournalAtteste
  <2>5. EffetsSerialises'
    BY <2>1, <2>2 DEF EffetsSerialises, Entendu, EffetEnRoute
  <2> QED  BY <2>3, <2>4, <2>5
<1>5. ASSUME AbandonnerDemande(r)  PROVE IInv'
  <2>1. UNCHANGED <<age, fapshi, taches, effets>>
    BY <1>5 DEF AbandonnerDemande
  <2>2. /\ \A q \in References : q # r => journal'[q] = journal[q] /\ demande'[q] = demande[q]
        /\ demande'[r] = "abandonnee"
        /\ journal'[r].statut = "COMPLETE" => journal'[r] = journal[r]
        /\ journal[r].statut # "EN_ATTENTE" => journal'[r] = journal[r]
    BY <1>5 DEF AbandonnerDemande, Abandonner, AbandonnerAffecte, TypeOK,
       JournalTypeOK, Ligne
  <2>3. TacheAttestee'  BY <2>1 DEF TacheAttestee
  <2>4. JournalAtteste'  BY <2>1, <2>2 DEF JournalAtteste
  <2>5. EffetsSerialises'
    BY <2>1, <2>2 DEF EffetsSerialises, Entendu, EffetEnRoute
  <2> QED  BY <2>3, <2>4, <2>5
<1> QED  BY <1>1, <1>2, <1>3, <1>4, <1>5 DEF Demande

LEMMA MondePreserve ==
  ASSUME IInv, TypeOK', NEW r \in References,
         Payer(r) \/ RefuserPaiement(r) \/ Vieillir(r)
  PROVE  IInv'
<1> USE DEF IInv
<1>1. UNCHANGED <<journal, demande, taches, effets>>
  BY DEF Payer, RefuserPaiement, Vieillir
<1>2. \A q \in References :
        /\ fapshi[q] \in {"SUCCESSFUL", "FAILED"} => fapshi'[q] = fapshi[q]
        /\ age[q] = Expiree => age'[q] = Expiree
        /\ age'[q] < Expiree => age[q] < Expiree
  BY DEF Payer, RefuserPaiement, Vieillir, TypeOK, Ages, Expiree
<1>3. \A t \in Taches : taches[t].pc # "libre" => taches[t].ref \in References
  BY TacheEnCours DEF Tache
<1>4. TacheAttestee'  BY <1>1, <1>2, <1>3 DEF TacheAttestee
<1>5. JournalAtteste'  BY <1>1, <1>2 DEF JournalAtteste
<1>6. EffetsSerialises'
  BY <1>1, <1>2 DEF EffetsSerialises, Entendu, EffetEnRoute
<1> QED  BY <1>4, <1>5, <1>6

LEMMA AgeEtComptes ==
  ASSUME TypeOK, NEW r \in References
  PROVE  /\ age[r] >= Expiree => age[r] = Expiree
         /\ Entendu(r) \in Nat
BY DEF TypeOK, Ages, Expiree, Entendu, Issues, PlafondEffets

\* The steps of a handler in flight.
LEMMA EtapePreserve ==
  ASSUME IInv, TypeOK', NEW t \in Taches, Etape(t)
  PROVE  IInv'
<1> USE DEF IInv
<1>1. ASSUME Verifier(t)  PROVE IInv'
  <2>1. UNCHANGED <<journal, age, demande, fapshi, effets>>
    BY <1>1 DEF Verifier
  <2>2. JournalAtteste'  BY <2>1 DEF JournalAtteste
  <2>3. taches[t] \in Tache /\ taches[t].pc = "verifier"
    BY <1>1, TacheEnCours DEF Verifier
  <2>4. CASE Suite(t)
    <3>1. PICK x : Prochaine(x) /\ taches' = [taches EXCEPT ![t] = x]
      BY <2>3, <2>4, SuiteProchaine
    <3>2. TacheAttestee'  BY <2>1, <3>1, ProchaineAttestee
    <3>3. EffetsSerialises'
      BY <2>1, <3>1, ProchaineSansEffet, SerialisesSansEffet
    <3> QED  BY <2>2, <3>2, <3>3
  <2>5. CASE /\ taches' = [taches EXCEPT ![t].pc = "appliquer",
                              ![t].issue = IssueRetenue(t, taches[t].ref)]
             /\ taches[t].role = "webhook" \/ IssueRetenue(t, taches[t].ref) # "EN_ATTENTE"
    <3> DEFINE r == taches[t].ref
               i == IssueRetenue(t, r)
    <3>1. r \in References /\ fapshi[r] \in EtatsFapshi \ {"INCONNUE"}
      BY <1>1, <2>3 DEF Verifier, TypeOK, Tache
    <3>2. \/ i = "COMPLETE" /\ fapshi[r] = "SUCCESSFUL"
          \/ i = "ECHOUE" /\ (fapshi[r] = "FAILED" \/ age[r] = Expiree)
      <4>1. taches[t].role = "webhook" => fapshi[r] \in {"SUCCESSFUL", "FAILED"}
        BY <2>3 DEF TacheAttestee
      <4>2. age[r] >= Expiree => age[r] = Expiree
        BY <3>1, AgeEtComptes
      <4> QED  BY <2>5, <3>1, <4>1, <4>2 DEF IssueRetenue, versStatut, EtatsFapshi
    <3>3. TacheAttestee'
      BY <2>1, <2>3, <2>5, <3>2 DEF TacheAttestee, TypeOK, Tache
    <3>4. \A u \in Taches : taches'[u].pc = "repercuter" => taches'[u] = taches[u]
      BY <2>3, <2>5 DEF TypeOK, Tache
    <3>5. EffetsSerialises'  BY <2>1, <3>4, SerialisesSansEffet
    <3> QED  BY <2>2, <3>3, <3>5
  <2> QED  BY <1>1, <2>4, <2>5 DEF Verifier
<1>2. ASSUME VerifierLeve(t)  PROVE IInv'
  <2>1. UNCHANGED <<journal, age, demande, fapshi, effets>> /\ taches[t].pc # "libre"
    BY <1>2 DEF VerifierLeve
  <2>2. PICK x : Prochaine(x) /\ taches' = [taches EXCEPT ![t] = x]
    BY <1>2, <2>1, SuiteProchaine DEF VerifierLeve
  <2>3. JournalAtteste'  BY <2>1 DEF JournalAtteste
  <2>4. TacheAttestee'  BY <2>1, <2>2, ProchaineAttestee
  <2>5. EffetsSerialises'
    BY <2>1, <2>2, ProchaineSansEffet, SerialisesSansEffet
  <2> QED  BY <2>3, <2>4, <2>5
<1>3. ASSUME AppliquerIssue(t)  PROVE IInv'
  <2> DEFINE r == taches[t].ref
             s == taches[t].issue
  <2>1. UNCHANGED <<age, demande, fapshi, effets>>
    BY <1>3 DEF AppliquerIssue
  <2>2. taches[t] \in Tache /\ taches[t].pc = "appliquer" /\ r \in References
    BY <1>3, TacheEnCours DEF AppliquerIssue, Tache
  <2>3. \/ s = "COMPLETE" /\ fapshi[r] = "SUCCESSFUL"
        \/ s = "ECHOUE" /\ (fapshi[r] = "FAILED" \/ age[r] = Expiree)
    BY <2>2 DEF TacheAttestee
  <2>4. CASE ~AppliquerAffecte(r, s)
    <3>1. Suite(t) /\ UNCHANGED journal
      BY <1>3, <2>4 DEF AppliquerIssue, Appliquer
    <3>2. PICK x : Prochaine(x) /\ taches' = [taches EXCEPT ![t] = x]
      BY <2>2, <3>1, SuiteProchaine
    <3>3. TacheAttestee'  BY <2>1, <3>2, ProchaineAttestee
    <3>4. JournalAtteste'  BY <2>1, <3>1 DEF JournalAtteste
    <3>5. EffetsSerialises'
      BY <2>1, <3>1, <3>2, ProchaineSansEffet, SerialisesSansEffet
    <3> QED  BY <3>3, <3>4, <3>5
  <2>5. CASE AppliquerAffecte(r, s)
    <3>1. /\ taches' = [taches EXCEPT ![t].pc = "repercuter"]
          /\ journal' = [journal EXCEPT ![r].statut = s]
      BY <1>3, <2>5 DEF AppliquerIssue, Appliquer
    <3>2. /\ journal'[r].statut = s
          /\ \A q \in References : q # r => journal'[q] = journal[q]
      BY <2>2, <3>1 DEF TypeOK, JournalTypeOK, Ligne
    <3>3. /\ taches'[t].pc = "repercuter"
          /\ taches'[t].ref = r /\ taches'[t].issue = s
          /\ taches'[t].role = taches[t].role /\ taches'[t].lot = taches[t].lot
          /\ \A u \in Taches : u # t => taches'[u] = taches[u]
      BY <2>2, <3>1 DEF TypeOK, Tache
    <3>4. TacheAttestee'  BY <2>1, <2>2, <2>3, <3>3 DEF TacheAttestee
    <3>5. JournalAtteste'  BY <2>1, <2>3, <3>2 DEF JournalAtteste
    <3>6. age[r] < Expiree => Entendu(r) = 0 /\ ~EffetEnRoute(r)
      <4> SUFFICES ASSUME age[r] < Expiree PROVE Entendu(r) = 0 /\ ~EffetEnRoute(r)
        OBVIOUS
      <4>1. \/ s = "COMPLETE" /\ fapshi[r] = "SUCCESSFUL"
            \/ s = "ECHOUE" /\ fapshi[r] = "FAILED"
        BY <2>3 DEF Expiree
      <4>2. journal[r].statut # s
        BY <2>5 DEF AppliquerAffecte
      <4>3. ~(Entendu(r) > 0 \/ EffetEnRoute(r))
        BY <2>2, <4>1, <4>2 DEF EffetsSerialises
      <4>4. Entendu(r) \in Nat  BY <2>2, AgeEtComptes
      <4> QED  BY <4>3, <4>4
    <3>7. EffetsSerialises'
      <4> SUFFICES ASSUME NEW q \in References, age'[q] < Expiree
                   PROVE  /\ Entendu(q)' > 0 \/ EffetEnRoute(q)' =>
                               \/ journal'[q].statut = "COMPLETE" /\ fapshi'[q] = "SUCCESSFUL"
                               \/ journal'[q].statut = "ECHOUE" /\ fapshi'[q] = "FAILED"
                          /\ Entendu(q)' <= 1
                          /\ Entendu(q)' = 1 => ~EffetEnRoute(q)'
                          /\ \A v, u \in Taches :
                               /\ taches'[v].pc = "repercuter" /\ taches'[v].ref = q
                               /\ taches'[u].pc = "repercuter" /\ taches'[u].ref = q
                               => v = u
        BY DEF EffetsSerialises
      <4>1. Entendu(q)' = Entendu(q)  BY <2>1 DEF Entendu
      <4>2. CASE q = r
        BY <2>1, <2>2, <2>3, <3>2, <3>3, <3>6, <4>1, <4>2
           DEF EffetEnRoute, Expiree
      <4>3. CASE q # r
        <5>1. EffetEnRoute(q)' <=> EffetEnRoute(q)
          BY <2>2, <3>3, <4>3 DEF EffetEnRoute
        <5> QED
          BY <2>1, <2>2, <3>2, <3>3, <4>1, <4>3, <5>1 DEF EffetsSerialises
      <4> QED  BY <4>2, <4>3
    <3> QED  BY <3>4, <3>5, <3>7
  <2> QED  BY <2>4, <2>5
<1>4. ASSUME Repercuter(t)  PROVE IInv'
  <2> DEFINE r == taches[t].ref
             s == taches[t].issue
  <2>1. UNCHANGED <<journal, age, demande, fapshi>>
    BY <1>4 DEF Repercuter
  <2>2. taches[t] \in Tache /\ taches[t].pc = "repercuter" /\ r \in References
    BY <1>4, TacheEnCours DEF Repercuter, Tache
  <2>3. PICK x : Prochaine(x) /\ taches' = [taches EXCEPT ![t] = x]
    BY <1>4, <2>2, SuiteProchaine DEF Repercuter
  <2>4. TacheAttestee'  BY <2>1, <2>3, ProchaineAttestee
  <2>5. JournalAtteste'  BY <2>1 DEF JournalAtteste
  <2>6. \A u \in Taches : taches'[u].pc = "repercuter" => u # t /\ taches'[u] = taches[u]
    BY <2>3 DEF Prochaine, TypeOK, Libre
  <2>7. s \in Issues
    BY <2>2 DEF TacheAttestee, Issues
  <2>8. /\ \A q \in References : q # r => effets'[q] = effets[q]
        /\ effets'[r] = [effets[r] EXCEPT ![s] = Compter(@)]
    BY <1>4, <2>2, <2>7 DEF Repercuter, TypeOK
  <2>9. EffetsSerialises'
    <3> SUFFICES ASSUME NEW q \in References, age'[q] < Expiree
                 PROVE  /\ Entendu(q)' > 0 \/ EffetEnRoute(q)' =>
                             \/ journal'[q].statut = "COMPLETE" /\ fapshi'[q] = "SUCCESSFUL"
                             \/ journal'[q].statut = "ECHOUE" /\ fapshi'[q] = "FAILED"
                        /\ Entendu(q)' <= 1
                        /\ Entendu(q)' = 1 => ~EffetEnRoute(q)'
                        /\ \A v, u \in Taches :
                             /\ taches'[v].pc = "repercuter" /\ taches'[v].ref = q
                             /\ taches'[u].pc = "repercuter" /\ taches'[u].ref = q
                             => v = u
      BY DEF EffetsSerialises
    <3>1. CASE q = r
      <4>1. EffetEnRoute(q)  BY <2>2, <3>1 DEF EffetEnRoute
      <4>2. ~EffetEnRoute(q)'
        BY <2>1, <2>2, <2>6, <3>1 DEF EffetsSerialises, EffetEnRoute
      <4>3. Entendu(q) = 0
        <5>1. Entendu(q) \in Nat  BY AgeEtComptes
        <5>2. Entendu(q) <= 1 /\ Entendu(q) # 1
          BY <2>1, <4>1 DEF EffetsSerialises
        <5> QED  BY <5>1, <5>2
      <4>4. effets[q]["COMPLETE"] = 0 /\ effets[q]["ECHOUE"] = 0
        <5>1. effets[q]["COMPLETE"] \in Nat /\ effets[q]["ECHOUE"] \in Nat
          BY DEF TypeOK, Issues, PlafondEffets
        <5> QED  BY <4>3, <5>1 DEF Entendu
      <4>5. Entendu(q)' = 1
        BY <2>7, <2>8, <3>1, <4>4 DEF Entendu, TypeOK, Issues, Compter, PlafondEffets
      <4> QED
        BY <2>1, <2>6, <4>1, <4>2, <4>5 DEF EffetsSerialises, EffetEnRoute
    <3>2. CASE q # r
      <4>1. Entendu(q)' = Entendu(q)  BY <2>8, <3>2 DEF Entendu
      <4>2. EffetEnRoute(q)' => EffetEnRoute(q)  BY <2>6 DEF EffetEnRoute
      <4> QED
        BY <2>1, <2>6, <4>1, <4>2 DEF EffetsSerialises
    <3> QED  BY <3>1, <3>2
  <2> QED  BY <2>4, <2>5, <2>9
<1>5. ASSUME RepercuterLeve(t)  PROVE IInv'
  <2>1. /\ UNCHANGED <<journal, age, demande, fapshi, effets>>
        /\ taches' = [taches EXCEPT ![t] = Libre] /\ Prochaine(Libre)
    BY <1>5 DEF RepercuterLeve, Prochaine
  <2>2. JournalAtteste'  BY <2>1 DEF JournalAtteste
  <2>3. TacheAttestee'  BY <2>1, ProchaineAttestee
  <2>4. EffetsSerialises'
    BY <2>1, ProchaineSansEffet, SerialisesSansEffet
  <2> QED  BY <2>2, <2>3, <2>4
<1> QED  BY <1>1, <1>2, <1>3, <1>4, <1>5 DEF Etape

LEMMA DebutPreserve ==
  ASSUME IInv, TypeOK', NEW t \in Taches,
         \/ Reconcilier(t)
         \/ \E r \in References : RecevoirWebhook(t, r) \/ VerifierMaintenant(t, r)
  PROVE  IInv'
<1> USE DEF IInv
<1>1. UNCHANGED <<journal, age, demande, fapshi, effets>>
  BY DEF Reconcilier, RecevoirWebhook, VerifierMaintenant
<1>2. PICK role \in {"webhook", "cron", "suivi"}, lot \in SUBSET References :
        /\ Commencer(t, role, lot)
        /\ role = "webhook" => \E r \in References :
             lot = {r} /\ fapshi[r] \in {"SUCCESSFUL", "FAILED"}
  <2>1. LotDuPassage \in SUBSET References
    BY DEF LotDuPassage, EnAttenteAvant, Ouvertes
  <2> QED  BY <2>1 DEF Reconcilier, RecevoirWebhook, VerifierMaintenant
<1>3. TacheAttestee'  BY <1>1, <1>2, CommencerAttestee
<1>4. JournalAtteste'  BY <1>1 DEF JournalAtteste
<1>5. EffetsSerialises'
  BY <1>1, <1>2, CommencerSansEffet, SerialisesSansEffet
<1> QED  BY <1>3, <1>4, <1>5

LEMMA RedemarrerPreserve ==
  ASSUME IInv, TypeOK', Redemarrer
  PROVE  IInv'
<1> USE DEF IInv
<1>1. /\ UNCHANGED <<journal, age, fapshi, effets>>
      /\ \A t \in Taches : taches'[t].pc = "libre"
      /\ \A r \in References : demande[r] = "abandonnee" => demande'[r] = demande[r]
  BY DEF Redemarrer, Libre, EnCours
<1>2. TacheAttestee'  BY <1>1 DEF TacheAttestee
<1>3. JournalAtteste'  BY <1>1 DEF JournalAtteste
<1>4. EffetsSerialises'
  BY <1>1, SerialisesSansEffet
<1> QED  BY <1>2, <1>3, <1>4

\* The inductive invariant, initially and at every step.
LEMMA IInvInit == Init => IInv
<1>1. Init => TypeOK
  BY MaxPannesAssumption DEF Init, TypeOK, JournalInit, JournalTypeOK, Ligne,
     LigneAbsente, Montants, Ages, Expiree, EtatsDemande, EtatsFapshi, PlafondEffets
<1>2. ASSUME Init PROVE TacheAttestee /\ JournalAtteste /\ EffetsSerialises
  BY <1>2 DEF Init, TacheAttestee, JournalAtteste, EffetsSerialises, Entendu,
     EffetEnRoute, JournalInit, LigneAbsente, Libre, Issues
<1> QED  BY <1>1, <1>2 DEF IInv

LEMMA IInvInductive == IInv /\ TypeOK' /\ [Next]_vars => IInv'
<1> SUFFICES ASSUME IInv, TypeOK', [Next]_vars PROVE IInv'  OBVIOUS
<1>1. CASE UNCHANGED vars
  BY <1>1 DEF vars, IInv, TacheAttestee, JournalAtteste, EffetsSerialises,
     Entendu, EffetEnRoute
<1> QED
  BY <1>1, DemandePreserve, MondePreserve, EtapePreserve, DebutPreserve,
     RedemarrerPreserve DEF Next

THEOREM Invariant == Spec => []IInv
BY IInvInit, IInvInductive, TypeCorrect, PTL DEF Spec

------------------------------------------------------------------------------

\* No payment is COMPLETE in the journal unless the provider holds it for
\* paid, whatever the interleaving of webhooks, cron passes and restarts.
THEOREM CompleteToujoursAtteste == Spec => []CompleteAtteste
<1>1. IInv => CompleteAtteste
  BY DEF IInv, JournalAtteste, CompleteAtteste
<1> QED  BY <1>1, Invariant, PTL

\* Nobody who paid is recorded as failed before the expiry delay, unless the
\* opening request itself was given up.
THEOREM PayeJamaisEchoueAvantDelai == Spec => []PayeNonEchoueAvantDelai
<1>1. IInv => PayeNonEchoueAvantDelai
  BY DEF IInv, JournalAtteste, PayeNonEchoueAvantDelai
<1> QED  BY <1>1, Invariant, PTL

\* Before the expiry delay the domain hears of one issue of a payment, once,
\* for any number of concurrent handlers.
THEOREM EffetToujoursUniqueAvantDelai == Spec => []EffetUniqueAvantDelai
<1>1. IInv => EffetUniqueAvantDelai
  BY DEF IInv, EffetsSerialises, EffetUniqueAvantDelai
<1> QED  BY <1>1, Invariant, PTL

\* An issue recorded before the expiry delay is final: a handler that still
\* carries an issue of this payment carries the same one.
THEOREM IssueToujoursFinaleAvantDelai == Spec => IssueFinaleAvantDelai
<1>1. ASSUME IInv, [Next]_vars, NEW r \in References, journal[r].statut \in Issues,
             age[r] < Expiree, demande[r] # "abandonnee"
      PROVE  journal'[r].statut = journal[r].statut
  <2> USE <1>1 DEF IInv
  <2>1. journal[r] \in Ligne /\ journal[r].statut \notin {"ABSENTE", "EN_ATTENTE"}
    BY DEF TypeOK, JournalTypeOK, Issues
  <2>2. \/ journal[r].statut = "COMPLETE" /\ fapshi[r] = "SUCCESSFUL"
        \/ journal[r].statut = "ECHOUE" /\ fapshi[r] = "FAILED"
    BY DEF JournalAtteste, Issues, Expiree
  <2>3. ASSUME NEW q \in References, Demande(q)
        PROVE  journal'[r].statut = journal[r].statut
    <3>1. CASE Ouvrir(q)
      BY <2>1, <3>1 DEF Ouvrir, TypeOK, JournalTypeOK
    <3>2. CASE EnregistrerReferenceExterne(q)
      BY <2>1, <3>2 DEF EnregistrerReferenceExterne, TypeOK, JournalTypeOK, Ligne
    <3>3. CASE Abandonner(q)
      BY <2>1, <3>3 DEF Abandonner, AbandonnerAffecte, TypeOK, JournalTypeOK
    <3>4. CASE UNCHANGED journal
      BY <3>4
    <3> QED
      BY <2>3, <3>1, <3>2, <3>3, <3>4 DEF Demande, OuvrirEnLigne, OuvrirHorsLigne,
         FapshiCree, InitierAccepte, InitierLeve, ConserverIdentifiant, AbandonnerDemande
  <2>4. ASSUME NEW t \in Taches, AppliquerIssue(t)
        PROVE  journal'[r].statut = journal[r].statut
    <3>1. taches[t].pc = "appliquer" /\ Appliquer(taches[t].ref, taches[t].issue)
      BY <2>4 DEF AppliquerIssue
    <3>2. CASE taches[t].ref = r
      <4>1. taches[t].issue = journal[r].statut
        BY <2>2, <3>1, <3>2 DEF TacheAttestee, Expiree
      <4> QED  BY <3>1, <3>2, <4>1 DEF Appliquer, AppliquerAffecte
    <3>3. CASE taches[t].ref # r
      BY <3>1, <3>3 DEF Appliquer, TypeOK, JournalTypeOK
    <3> QED  BY <3>2, <3>3
  <2>5. ASSUME UNCHANGED journal
        PROVE  journal'[r].statut = journal[r].statut
    BY <2>5
  <2> QED
    BY <2>3, <2>4, <2>5 DEF Next, Etape, vars, Payer, RefuserPaiement, Vieillir,
       Reconcilier, RecevoirWebhook, VerifierMaintenant, Verifier, VerifierLeve,
       Repercuter, RepercuterLeve, Redemarrer
<1>2. IInv /\ [Next]_vars =>
        [\A r \in References :
           /\ journal[r].statut \in Issues
           /\ age[r] < Expiree
           /\ demande[r] # "abandonnee"
           => journal'[r].statut = journal[r].statut]_vars
  BY <1>1
<1> QED  BY <1>2, Invariant, PTL DEF Spec, IssueFinaleAvantDelai

------------------------------------------------------------------------------
(* The journal and the domain.                                             *)

\* What the domain heard was attested by the provider, or is past the delay.
EffetsAttestes ==
  \A r \in References :
    /\ effets[r]["COMPLETE"] > 0 => fapshi[r] = "SUCCESSFUL"
    /\ effets[r]["ECHOUE"] > 0 => fapshi[r] = "FAILED" \/ age[r] = Expiree

\* Without a failure, what the journal decided was carried to the domain or is on
\* its way to it, except for the request that was given up.
RienOublie ==
  \A r \in References :
    /\ pannes = 0
    /\ journal[r].statut \in Issues
    /\ ~(journal[r].statut = "ECHOUE" /\ demande[r] = "abandonnee")
    => effets[r]["COMPLETE"] > 0 \/ effets[r]["ECHOUE"] > 0 \/ EffetEnRoute(r)

\* A handler that carries no effect takes nothing off the way by moving.
LEMMA EffetReste ==
  ASSUME TypeOK, NEW t \in Taches, NEW x, taches' = [taches EXCEPT ![t] = x],
         taches[t].pc # "repercuter", NEW r, EffetEnRoute(r)
  PROVE  EffetEnRoute(r)'
<1>1. PICK u \in Taches : taches[u].pc = "repercuter" /\ taches[u].ref = r
  BY DEF EffetEnRoute
<1>2. taches'[u] = taches[u]
  BY <1>1 DEF TypeOK
<1>. QED BY <1>1, <1>2 DEF EffetEnRoute

\* The steps outside the handlers change neither what was heard nor what is on
\* its way, and decide of nothing that is carried.
LEMMA DehorsAccorde ==
  ASSUME IInv, EffetsAttestes, RienOublie,
         \/ \E r \in References : Demande(r) \/ Payer(r) \/ RefuserPaiement(r) \/ Vieillir(r)
         \/ Redemarrer
  PROVE  EffetsAttestes' /\ RienOublie'
<1>. USE DEF IInv
<1>1. ASSUME NEW r \in References, Demande(r) PROVE EffetsAttestes' /\ RienOublie'
  <2>1. UNCHANGED <<age, taches, effets, pannes>>
    BY <1>1 DEF Demande, OuvrirEnLigne, OuvrirHorsLigne, FapshiCree, InitierAccepte,
       InitierLeve, ConserverIdentifiant, AbandonnerDemande
  <2>2. \A q \in References : fapshi'[q] = fapshi[q] \/ fapshi[q] = "INCONNUE"
    BY <1>1 DEF Demande, OuvrirEnLigne, OuvrirHorsLigne, FapshiCree, InitierAccepte,
       InitierLeve, ConserverIdentifiant, AbandonnerDemande, TypeOK
  <2>3. EffetsAttestes'
    BY <2>1, <2>2 DEF EffetsAttestes
  <2>4. ASSUME NEW q \in References, journal'[q].statut \in Issues,
               ~(journal'[q].statut = "ECHOUE" /\ demande'[q] = "abandonnee")
        PROVE  /\ journal[q].statut \in Issues
               /\ ~(journal[q].statut = "ECHOUE" /\ demande[q] = "abandonnee")
    <3>1. CASE q # r
      BY <1>1, <2>4, <3>1, JournalAilleurs DEF Demande, OuvrirEnLigne, OuvrirHorsLigne,
         FapshiCree, InitierAccepte, InitierLeve, ConserverIdentifiant, AbandonnerDemande, TypeOK
    <3>2. CASE q = r
      <4>1. CASE OuvrirEnLigne(r) \/ OuvrirHorsLigne(r)
        BY <2>4, <3>2, <4>1, JournalStatut DEF OuvrirEnLigne, OuvrirHorsLigne, TypeOK, Issues
      <4>2. CASE ConserverIdentifiant(r)
        BY <2>4, <3>2, <4>2, JournalStatut DEF ConserverIdentifiant, TypeOK
      <4>3. CASE AbandonnerDemande(r)
        BY <2>4, <3>2, <4>3, JournalStatut DEF AbandonnerDemande, TypeOK, AbandonnerAffecte, Issues
      <4>4. CASE FapshiCree(r) \/ InitierAccepte(r) \/ InitierLeve(r)
        BY <2>4, <3>2, <4>4 DEF FapshiCree, InitierAccepte, InitierLeve, TypeOK
      <4>. QED BY <1>1, <4>1, <4>2, <4>3, <4>4 DEF Demande
    <3>. QED BY <3>1, <3>2
  <2>5. RienOublie'
    BY <2>1, <2>4 DEF RienOublie, EffetEnRoute
  <2>. QED BY <2>3, <2>5
<1>2. ASSUME NEW r \in References, Payer(r) \/ RefuserPaiement(r) \/ Vieillir(r)
      PROVE  EffetsAttestes' /\ RienOublie'
  <2>1. UNCHANGED <<journal, demande, taches, effets, pannes>>
    BY <1>2 DEF Payer, RefuserPaiement, Vieillir
  <2>2. \A q \in References : /\ fapshi'[q] = fapshi[q] \/ fapshi[q] = "PENDING"
                              /\ age[q] = Expiree => age'[q] = Expiree
    BY <1>2 DEF Payer, RefuserPaiement, Vieillir, TypeOK, Expiree
  <2>3. EffetsAttestes'
    BY <2>1, <2>2 DEF EffetsAttestes
  <2>4. RienOublie'
    BY <2>1 DEF RienOublie, EffetEnRoute
  <2>. QED BY <2>3, <2>4
<1>3. CASE Redemarrer
  <2>1. pannes' # 0 /\ UNCHANGED <<age, fapshi, effets>>
    BY <1>3, MaxPannesAssumption DEF Redemarrer, TypeOK
  <2>. QED BY <2>1 DEF EffetsAttestes, RienOublie
<1>. QED BY <1>1, <1>2, <1>3

\* The steps of a handler.
LEMMA TacheAccorde ==
  ASSUME IInv, EffetsAttestes, RienOublie, NEW t \in Taches,
         \/ Etape(t) \/ Reconcilier(t)
         \/ \E r \in References : RecevoirWebhook(t, r) \/ VerifierMaintenant(t, r)
  PROVE  EffetsAttestes' /\ RienOublie'
<1>. USE DEF IInv
<1>1. CASE AppliquerIssue(t)
  <2>. DEFINE r == taches[t].ref
              s == taches[t].issue
  <2>1. /\ taches[t] \in Tache /\ r \in References /\ taches[t].pc = "appliquer"
        /\ UNCHANGED <<age, demande, fapshi, effets, pannes>>
    BY <1>1, TacheEnCours DEF AppliquerIssue, Tache
  <2>2. EffetsAttestes'
    BY <2>1 DEF EffetsAttestes
  <2>3. CASE AppliquerAffecte(r, s)
    <3>. DEFINE x == [taches[t] EXCEPT !.pc = "repercuter"]
    <3>1. taches' = [taches EXCEPT ![t] = x] /\ x.pc = "repercuter" /\ x.ref = r
      BY <1>1, <2>1, <2>3 DEF AppliquerIssue, Tache
    <3>2. \A q \in References : q # r => journal'[q] = journal[q]
      BY <1>1, <2>1, JournalAilleurs DEF AppliquerIssue, TypeOK
    <3>3. taches[t].pc # "repercuter"
      BY <2>1
    <3>4. \A q \in References : EffetEnRoute(q) => EffetEnRoute(q)'
      <4>. HIDE DEF x
      <4>. QED BY <3>1, <3>3, EffetReste
    <3>5. ASSUME NEW q \in References, pannes' = 0, journal'[q].statut \in Issues,
                 ~(journal'[q].statut = "ECHOUE" /\ demande'[q] = "abandonnee")
          PROVE  \/ effets'[q]["COMPLETE"] > 0 \/ effets'[q]["ECHOUE"] > 0
                 \/ EffetEnRoute(q)'
      <4>1. CASE q = r
        <5>1. taches'[t].pc = "repercuter" /\ taches'[t].ref = q
          BY <3>1, <4>1 DEF TypeOK
        <5>. QED BY <5>1 DEF EffetEnRoute
      <4>2. CASE q # r
        BY <2>1, <3>2, <3>4, <3>5, <4>2 DEF RienOublie
      <4>. QED BY <4>1, <4>2
    <3>. QED BY <2>2, <3>5 DEF RienOublie
  <2>4. CASE ~AppliquerAffecte(r, s)
    <3>1. UNCHANGED journal /\ Suite(t)
      BY <1>1, <2>4 DEF AppliquerIssue, Appliquer
    <3>2. PICK x : taches' = [taches EXCEPT ![t] = x]
      BY <2>1, <3>1, SuiteProchaine
    <3>. QED BY <2>1, <2>2, <3>1, <3>2, EffetReste DEF RienOublie
  <2>. QED BY <2>3, <2>4
<1>2. CASE Repercuter(t)
  <2>. DEFINE r == taches[t].ref
              s == taches[t].issue
  <2>1. /\ taches[t] \in Tache /\ r \in References /\ taches[t].pc = "repercuter"
        /\ UNCHANGED <<journal, age, demande, fapshi, pannes>>
    BY <1>2, TacheEnCours DEF Repercuter, Tache
  <2>2. \/ s = "COMPLETE" /\ fapshi[r] = "SUCCESSFUL"
        \/ s = "ECHOUE" /\ (fapshi[r] = "FAILED" \/ age[r] = Expiree)
    BY <2>1 DEF TacheAttestee
  <2>3. /\ \A q \in References : q # r => effets'[q] = effets[q]
        /\ effets'[r] = [effets[r] EXCEPT ![s] = Compter(@)]
    BY <1>2, <2>1, <2>2 DEF Repercuter, TypeOK, Issues
  <2>4. effets[r] \in [Issues -> 0 .. 2]
    BY <2>1 DEF TypeOK, PlafondEffets
  <2>5. \A i \in Issues : /\ i # s => effets'[r][i] = effets[r][i]
                          /\ effets'[r][s] > 0
    BY <2>2, <2>3, <2>4 DEF Issues, Compter, PlafondEffets
  <2>6. EffetsAttestes'
    BY <2>1, <2>2, <2>3, <2>5 DEF EffetsAttestes, Issues
  <2>7. ASSUME NEW q \in References, q # r, EffetEnRoute(q) PROVE EffetEnRoute(q)'
    <3>1. PICK u \in Taches : taches[u].pc = "repercuter" /\ taches[u].ref = q
      BY <2>7 DEF EffetEnRoute
    <3>2. PICK x : taches' = [taches EXCEPT ![t] = x]
      BY <1>2, <2>1, SuiteProchaine DEF Repercuter
    <3>3. taches'[u] = taches[u]
      BY <2>7, <3>1, <3>2 DEF TypeOK
    <3>. QED BY <3>1, <3>3 DEF EffetEnRoute
  <2>8. RienOublie'
    BY <2>1, <2>2, <2>3, <2>5, <2>7 DEF RienOublie, Issues
  <2>. QED BY <2>6, <2>8
<1>3. CASE RepercuterLeve(t)
  <2>1. pannes' # 0 /\ UNCHANGED <<age, fapshi, effets>>
    BY <1>3, MaxPannesAssumption DEF RepercuterLeve, TypeOK
  <2>. QED BY <2>1 DEF EffetsAttestes, RienOublie
<1>4. ASSUME \/ Verifier(t) \/ VerifierLeve(t) \/ Reconcilier(t)
             \/ \E r \in References : RecevoirWebhook(t, r) \/ VerifierMaintenant(t, r)
      PROVE  EffetsAttestes' /\ RienOublie'
  <2>1. UNCHANGED <<journal, age, demande, fapshi, effets, pannes>>
    BY <1>4 DEF Verifier, VerifierLeve, Reconcilier, RecevoirWebhook, VerifierMaintenant
  <2>2. taches[t].pc # "repercuter"
    <3>1. CASE Verifier(t) \/ VerifierLeve(t)
      BY <3>1 DEF Verifier, VerifierLeve
    <3>2. CASE \/ Reconcilier(t)
               \/ \E r \in References : RecevoirWebhook(t, r) \/ VerifierMaintenant(t, r)
      <4>1. taches[t] = Libre
        BY <3>2 DEF Reconcilier, RecevoirWebhook, VerifierMaintenant, Commencer
      <4>2. Libre.pc = "libre"
        BY DEF Libre
      <4>. QED BY <4>1, <4>2
    <3>. QED BY <1>4, <3>1, <3>2
  <2>3. \E x : taches' = [taches EXCEPT ![t] = x]
    <3>1. CASE Suite(t) /\ taches[t].pc = "verifier"
      BY <3>1, SuiteProchaine
    <3>2. CASE ~Suite(t) /\ Verifier(t)
      <4>1. PICK i : taches' = [taches EXCEPT ![t].pc = "appliquer", ![t].issue = i]
        BY <3>2 DEF Verifier
      <4>2. taches' = [taches EXCEPT ![t] = [taches[t] EXCEPT !.pc = "appliquer", !.issue = i]]
        BY <4>1
      <4>. QED BY <4>2
    <3>3. CASE \/ Reconcilier(t)
               \/ \E r \in References : RecevoirWebhook(t, r) \/ VerifierMaintenant(t, r)
      BY <3>3 DEF Reconcilier, RecevoirWebhook, VerifierMaintenant, Commencer, Traiter
    <3>. QED BY <1>4, <3>1, <3>2, <3>3 DEF Verifier, VerifierLeve
  <2>4. EffetsAttestes'
    BY <2>1 DEF EffetsAttestes
  <2>5. RienOublie'
    BY <2>1, <2>2, <2>3, EffetReste DEF RienOublie
  <2>. QED BY <2>4, <2>5
<1>. QED BY <1>1, <1>2, <1>3, <1>4 DEF Etape

\* As long as nothing fails and the delay is not over, the domain ends every
\* exchange knowing exactly what the journal says of a payment.
THEOREM JournalEtDomaineAccordes == Spec => []AccordJournalDomaine
<1>1. Init => EffetsAttestes /\ RienOublie
  <2>. SUFFICES ASSUME Init PROVE EffetsAttestes /\ RienOublie
    OBVIOUS
  <2>1. EffetsAttestes
    BY DEF Init, EffetsAttestes, Issues
  <2>2. RienOublie
    BY DEF Init, RienOublie, Issues, JournalInit, LigneAbsente
  <2>. QED BY <2>1, <2>2
<1>2. IInv /\ EffetsAttestes /\ RienOublie /\ [Next]_vars => EffetsAttestes' /\ RienOublie'
  <2>1. ASSUME IInv, EffetsAttestes, RienOublie, UNCHANGED vars
        PROVE  EffetsAttestes' /\ RienOublie'
    BY <2>1 DEF vars, EffetsAttestes, RienOublie, EffetEnRoute
  <2>. QED BY <2>1, DehorsAccorde, TacheAccorde DEF Next
<1>3. IInv /\ EffetsAttestes /\ RienOublie => AccordJournalDomaine
  <2>. SUFFICES ASSUME IInv, EffetsAttestes, RienOublie, NEW r \in References,
                       pannes = 0, age[r] < Expiree, ~EffetEnRoute(r)
                PROVE  /\ effets[r]["COMPLETE"] = 1 <=> journal[r].statut = "COMPLETE"
                       /\ effets[r]["ECHOUE"] = 1 => journal[r].statut = "ECHOUE"
                       /\ journal[r].statut = "ECHOUE"
                            => effets[r]["ECHOUE"] = 1 \/ demande[r] = "abandonnee"
    BY DEF AccordJournalDomaine
  <2>1. /\ effets[r]["COMPLETE"] \in Nat /\ effets[r]["ECHOUE"] \in Nat
        /\ effets[r]["COMPLETE"] + effets[r]["ECHOUE"] <= 1
    BY DEF IInv, TypeOK, Issues, PlafondEffets, EffetsSerialises, Entendu
  <2>2. effets[r]["COMPLETE"] > 0 \/ effets[r]["ECHOUE"] > 0 =>
           \/ journal[r].statut = "COMPLETE" /\ fapshi[r] = "SUCCESSFUL"
           \/ journal[r].statut = "ECHOUE" /\ fapshi[r] = "FAILED"
    BY <2>1 DEF IInv, EffetsSerialises, Entendu
  <2>3. /\ effets[r]["COMPLETE"] > 0 => fapshi[r] = "SUCCESSFUL"
        /\ effets[r]["ECHOUE"] > 0 => fapshi[r] = "FAILED"
    BY DEF EffetsAttestes, Expiree
  <2>4. /\ journal[r].statut = "COMPLETE" => fapshi[r] = "SUCCESSFUL"
        /\ journal[r].statut = "ECHOUE" => fapshi[r] = "FAILED" \/ demande[r] = "abandonnee"
    BY DEF IInv, JournalAtteste, Expiree
  <2>5. journal[r].statut \in Issues /\ ~(journal[r].statut = "ECHOUE" /\ demande[r] = "abandonnee")
          => effets[r]["COMPLETE"] > 0 \/ effets[r]["ECHOUE"] > 0
    BY DEF RienOublie
  <2>. QED BY <2>1, <2>2, <2>3, <2>4, <2>5 DEF Issues
<1>. QED BY <1>1, <1>2, <1>3, Invariant, PTL DEF Spec

------------------------------------------------------------------------------
(* Paiement implements Promesse: each step of a request, of the provider,  *)
(* of a handler or of a restart is a step of the promise or none, for any  *)
(* number of payments and of handlers.                                     *)

\* The row is opened with the request, before anything is known of it elsewhere,
\* and the provider's identifier is kept by the last step of the request.
DemandeAccordee ==
  \A r \in References :
    /\ demande[r] = "aucune" =>
         journal[r].statut = "ABSENTE" /\ fapshi[r] = "INCONNUE" /\ rang[r] = 0
    /\ demande[r] # "aucune" => journal[r].statut # "ABSENTE"
    /\ journal[r].ext => demande[r] = "finie"

\* Nothing is decided of a payment, and nothing asked, before it is opened; an
\* opening given up has no identifier of the provider.
LEMMA DemandeAccordeeInductive ==
  ASSUME TypeOK, TacheAttestee, DemandeAccordee, [Next]_vars
  PROVE  DemandeAccordee'
<1> USE DEF DemandeAccordee
<1>0. \A r \in References : journal[r] \in Ligne
  BY DEF TypeOK, JournalTypeOK
<1>1. ASSUME NEW r \in References, Demande(r) PROVE DemandeAccordee'
  <2>1. CASE OuvrirEnLigne(r) \/ OuvrirHorsLigne(r)
    <3>1. /\ journal' = [journal EXCEPT ![r] = [LigneAbsente EXCEPT !.statut = "EN_ATTENTE"]]
          /\ demande'[r] \in {"attente", "finie"} /\ fapshi' = fapshi
          /\ \A q \in References \ {r} : demande'[q] = demande[q] /\ rang'[q] = rang[q]
      BY <2>1 DEF OuvrirEnLigne, OuvrirHorsLigne, Ouvrir, Dater, TypeOK
    <3>2. /\ journal'[r].statut = "EN_ATTENTE" /\ ~journal'[r].ext
          /\ \A q \in References \ {r} : journal'[q] = journal[q]
      BY <3>1 DEF LigneAbsente, TypeOK, JournalTypeOK
    <3>. QED BY <3>1, <3>2
  <2>2. CASE FapshiCree(r) \/ InitierAccepte(r) \/ InitierLeve(r)
    BY <2>2 DEF FapshiCree, InitierAccepte, InitierLeve, TypeOK
  <2>3. CASE ConserverIdentifiant(r)
    BY <2>3, <1>0 DEF ConserverIdentifiant, EnregistrerReferenceExterne, TypeOK, JournalTypeOK, Ligne
  <2>4. CASE AbandonnerDemande(r)
    BY <2>4, <1>0 DEF AbandonnerDemande, Abandonner, AbandonnerAffecte, TypeOK, JournalTypeOK, Ligne
  <2>. QED BY <1>1, <2>1, <2>2, <2>3, <2>4 DEF Demande
<1>2. ASSUME NEW r \in References, Payer(r) \/ RefuserPaiement(r) \/ Vieillir(r)
      PROVE  DemandeAccordee'
  BY <1>2 DEF Payer, RefuserPaiement, Vieillir, TypeOK
<1>3. ASSUME NEW t \in Taches, Etape(t) PROVE DemandeAccordee'
  <2>1. CASE AppliquerIssue(t)
    <3>1. taches[t] \in Tache  BY <2>1, TacheEnCours DEF AppliquerIssue
    <3>2. UNCHANGED <<rang, demande, fapshi>>  BY <2>1 DEF AppliquerIssue
    <3>3. taches[t].issue \in Issues
      BY <2>1 DEF AppliquerIssue, TacheAttestee, Issues
    <3>. QED BY <2>1, <3>1, <3>2, <3>3, <1>0
             DEF AppliquerIssue, Appliquer, AppliquerAffecte, TypeOK, JournalTypeOK, Ligne, Tache, Issues
  <2>2. CASE ~AppliquerIssue(t)
    <3>1. UNCHANGED <<journal, rang, demande, fapshi>>
      BY <1>3, <2>2 DEF Etape, Verifier, VerifierLeve, Repercuter, RepercuterLeve
    <3>. QED BY <3>1
  <2>. QED BY <2>1, <2>2
<1>4. ASSUME NEW t \in Taches,
             Reconcilier(t) \/ \E r \in References : RecevoirWebhook(t, r) \/ VerifierMaintenant(t, r)
      PROVE  DemandeAccordee'
  BY <1>4 DEF Reconcilier, RecevoirWebhook, VerifierMaintenant
<1>5. CASE Redemarrer
  BY <1>5 DEF Redemarrer, EnCours, TypeOK
<1>6. CASE UNCHANGED vars
  BY <1>6 DEF vars
<1>. QED BY <1>1, <1>2, <1>3, <1>4, <1>5, <1>6 DEF Next

\* The request, the journal and the provider agree in every reachable state.
LEMMA DemandeToujoursAccordee == Spec => []DemandeAccordee
<1>1. Init => DemandeAccordee
  BY DEF Init, DemandeAccordee, JournalInit, LigneAbsente
<1>2. IInv /\ DemandeAccordee /\ [Next]_vars => DemandeAccordee'
  BY DemandeAccordeeInductive DEF IInv
<1>. QED BY <1>1, <1>2, Invariant, PTL DEF Spec

------------------------------------------------------------------------------
(* What is on its way to the domain, seen through a step of one handler.   *)

\* What a slot holds after its handler is done with a row carries no outcome.
LEMMA ProchaineNAnnonceRien == \A x : Prochaine(x) => x.pc # "repercuter"
<1>1. Libre.pc # "repercuter"  BY DEF Libre
<1>. QED BY <1>1 DEF Prochaine

\* A handler that neither carried an outcome nor comes to carry one leaves what
\* is about to be announced as it was.
LEMMA RienDeNouveau ==
  ASSUME TypeOK, NEW t \in Taches, NEW x, taches' = [taches EXCEPT ![t] = x],
         taches[t].pc # "repercuter", x.pc # "repercuter"
  PROVE  \A r : EnRoute(r)' = EnRoute(r)
<1>1. \A u \in Taches : /\ u # t => taches'[u] = taches[u]
                        /\ taches'[t].pc # "repercuter"
  BY DEF TypeOK
<1>2. ASSUME NEW r
      PROVE  {u \in Taches : taches'[u].pc = "repercuter" /\ taches'[u].ref = r}
               = {u \in Taches : taches[u].pc = "repercuter" /\ taches[u].ref = r}
  BY <1>1
<1>3. ASSUME NEW r, NEW u \in {u \in Taches : taches[u].pc = "repercuter" /\ taches[u].ref = r}
      PROVE  taches'[u].issue = taches[u].issue
  BY <1>1
<1>. QED BY <1>2, <1>3 DEF EnRoute

\* A handler that leaves the effect it carried: the others carry what they did.
LEMMA EnMoins ==
  ASSUME TypeOK, NEW t \in Taches, NEW x, taches' = [taches EXCEPT ![t] = x],
         taches[t].pc = "repercuter", x.pc # "repercuter", NEW r
  PROVE  /\ r # taches[t].ref => EnRoute(r)' = EnRoute(r)
         /\ r = taches[t].ref =>
              /\ taches[t].issue \in EnRoute(r)
              /\ EnRoute(r)' = EnRoute(r) \/ EnRoute(r)' = EnRoute(r) \ {taches[t].issue}
         /\ EnRoute(r)' \subseteq EnRoute(r)
<1>1. /\ \A u \in Taches \ {t} : taches'[u] = taches[u]
      /\ taches'[t].pc # "repercuter"
  BY DEF TypeOK
<1>2. EnRoute(r)' \subseteq EnRoute(r)
  <2>. SUFFICES ASSUME NEW v \in EnRoute(r)' PROVE v \in EnRoute(r)
    OBVIOUS
  <2>1. PICK u \in Taches : taches'[u].pc = "repercuter" /\ taches'[u].ref = r /\ v = taches'[u].issue
    BY DEF EnRoute
  <2>. QED BY <1>1, <2>1 DEF EnRoute
<1>3. ASSUME NEW v \in EnRoute(r), r # taches[t].ref \/ v # taches[t].issue
      PROVE  v \in EnRoute(r)'
  <2>1. PICK u \in Taches : taches[u].pc = "repercuter" /\ taches[u].ref = r /\ v = taches[u].issue
    BY DEF EnRoute
  <2>. QED BY <1>1, <1>3, <2>1 DEF EnRoute
<1>4. r = taches[t].ref => taches[t].issue \in EnRoute(r)
  BY DEF EnRoute
<1>. QED BY <1>2, <1>3, <1>4

\* A handler that just decided an outcome in the journal.
LEMMA EnPlus ==
  ASSUME TypeOK, NEW t \in Taches, taches[t].pc = "appliquer",
         taches' = [taches EXCEPT ![t].pc = "repercuter"], NEW r
  PROVE  EnRoute(r)' = IF r = taches[t].ref THEN EnRoute(r) \cup {taches[t].issue} ELSE EnRoute(r)
<1>1. /\ \A u \in Taches \ {t} : taches'[u] = taches[u]
      /\ taches'[t].pc = "repercuter"
      /\ taches'[t].ref = taches[t].ref /\ taches'[t].issue = taches[t].issue
  BY TacheEnCours DEF TypeOK, Tache
<1>2. ASSUME NEW v \in EnRoute(r)'
      PROVE  v \in EnRoute(r) \/ (r = taches[t].ref /\ v = taches[t].issue)
  <2>1. PICK u \in Taches : taches'[u].pc = "repercuter" /\ taches'[u].ref = r /\ v = taches'[u].issue
    BY DEF EnRoute
  <2>. QED BY <1>1, <2>1 DEF EnRoute
<1>3. ASSUME NEW v \in EnRoute(r) PROVE v \in EnRoute(r)'
  <2>1. PICK u \in Taches : taches[u].pc = "repercuter" /\ taches[u].ref = r /\ v = taches[u].issue
    BY DEF EnRoute
  <2>. QED BY <1>1, <2>1 DEF EnRoute
<1>4. r = taches[t].ref => taches[t].issue \in EnRoute(r)'
  BY <1>1 DEF EnRoute
<1>. QED BY <1>2, <1>3, <1>4

------------------------------------------------------------------------------
(* Each action is a step of Promesse, or none.                             *)

\* The initial states of Paiement are initial states of Promesse.
LEMMA InitTient == Init => P!InitPromesse
<1>. SUFFICES ASSUME Init PROVE P!InitPromesse
  OBVIOUS
<1>1. \A r : EnRoute(r) = {}
  BY DEF Init, EnRoute, Libre
<1>2. \A r \in References : /\ journal[r].statut = "ABSENTE" /\ fapshi[r] # "SUCCESSFUL"
                            /\ age[r] < Expiree /\ demande[r] # "abandonnee"
  BY DEF Init, JournalInit, LigneAbsente, Expiree
<1>3. effets = [r \in References |-> [s \in P!Denouements |-> 0]]
  BY DEF Init, Issues, P!Denouements
<1>. QED BY <1>1, <1>2, <1>3 DEF P!InitPromesse

\* What changes nothing in the journal, the provider, the delays nor the domain,
\* and nothing of what is about to be announced, is not a step of Promesse.
LEMMA Begaiement ==
  ASSUME UNCHANGED <<journal, age, fapshi, effets>>,
         \A r \in References : (demande'[r] = "abandonnee") = (demande[r] = "abandonnee"),
         \A r : EnRoute(r)' = EnRoute(r)
  PROVE  UNCHANGED P!varsPromesse
BY DEF P!varsPromesse

LEMMA DemandeTient ==
  ASSUME IInv, DemandeAccordee, NEW r \in References, Demande(r)
  PROVE  [P!NextPromesse]_P!varsPromesse
<1>. USE DEF IInv
<1>0. taches' = taches /\ \A q : EnRoute(q)' = EnRoute(q)
  <2>1. taches' = taches
    BY DEF Demande, OuvrirEnLigne, OuvrirHorsLigne, FapshiCree, InitierAccepte, InitierLeve,
           ConserverIdentifiant, AbandonnerDemande
  <2>. QED BY <2>1 DEF EnRoute
<1>1. CASE OuvrirEnLigne(r) \/ OuvrirHorsLigne(r)
  <2>1. /\ journal' = [journal EXCEPT ![r] = [LigneAbsente EXCEPT !.statut = "EN_ATTENTE"]]
        /\ journal[r].statut = "ABSENTE"
        /\ UNCHANGED <<age, fapshi, effets>>
        /\ \A q \in References : (demande'[q] = "abandonnee") = (demande[q] = "abandonnee")
    BY <1>1 DEF OuvrirEnLigne, OuvrirHorsLigne, Ouvrir, DemandeAccordee, TypeOK
  <2>2. \A q \in References : journal'[q].statut = IF q = r THEN "EN_ATTENTE" ELSE journal[q].statut
    BY <2>1 DEF LigneAbsente, TypeOK, JournalTypeOK
  <2>3. P!Engager(r)
    BY <1>0, <2>1, <2>2 DEF P!Engager
  <2>. QED BY <2>3 DEF P!NextPromesse
<1>2. CASE FapshiCree(r)
  BY <1>0, <1>2 DEF FapshiCree, P!varsPromesse, TypeOK
<1>3. CASE InitierAccepte(r) \/ InitierLeve(r)
  BY <1>0, <1>3, Begaiement DEF InitierAccepte, InitierLeve, TypeOK
<1>4. CASE ConserverIdentifiant(r)
  <2>1. \A q \in References : journal'[q].statut = journal[q].statut
    BY <1>4 DEF ConserverIdentifiant, EnregistrerReferenceExterne, TypeOK, JournalTypeOK, Ligne
  <2>. QED BY <1>0, <1>4, <2>1 DEF ConserverIdentifiant, P!varsPromesse, TypeOK
<1>5. CASE AbandonnerDemande(r)
  <2>1. /\ journal[r].statut # "ABSENTE" /\ ~journal[r].ext
        /\ UNCHANGED <<age, fapshi, effets>>
        /\ \A q \in References : (demande'[q] = "abandonnee") = (q = r \/ demande[q] = "abandonnee")
    BY <1>5 DEF AbandonnerDemande, DemandeAccordee, TypeOK
  <2>2. \A q \in References : journal'[q].statut =
          IF q = r /\ journal[q].statut = "EN_ATTENTE" THEN "ECHOUE" ELSE journal[q].statut
    BY <1>5, <2>1 DEF AbandonnerDemande, Abandonner, AbandonnerAffecte, TypeOK, JournalTypeOK, Ligne
  <2>3. P!Renoncer(r)
    BY <1>0, <2>1, <2>2 DEF P!Renoncer
  <2>. QED BY <2>3 DEF P!NextPromesse
<1>. QED BY <1>1, <1>2, <1>3, <1>4, <1>5 DEF Demande

LEMMA MondeTient ==
  ASSUME IInv, DemandeAccordee, NEW r \in References,
         Payer(r) \/ RefuserPaiement(r) \/ Vieillir(r)
  PROVE  [P!NextPromesse]_P!varsPromesse
<1>. USE DEF IInv
<1>0. \A q : EnRoute(q)' = EnRoute(q)
  BY DEF Payer, RefuserPaiement, Vieillir, EnRoute
<1>1. CASE Payer(r)
  <2>1. journal[r].statut # "ABSENTE"
    BY <1>1 DEF Payer, DemandeAccordee
  <2>2. /\ \A q \in References : (fapshi'[q] = "SUCCESSFUL") = (q = r \/ fapshi[q] = "SUCCESSFUL")
        /\ fapshi[r] # "SUCCESSFUL"
        /\ UNCHANGED <<journal, age, demande, effets>>
    BY <1>1 DEF Payer, TypeOK
  <2>3. P!Encaisser(r)
    BY <1>0, <2>1, <2>2 DEF P!Encaisser
  <2>. QED BY <2>3 DEF P!NextPromesse
<1>2. CASE RefuserPaiement(r)
  BY <1>0, <1>2 DEF RefuserPaiement, P!varsPromesse, TypeOK
<1>3. CASE Vieillir(r)
  <2>1. /\ journal[r].statut # "ABSENTE"
        /\ UNCHANGED <<journal, demande, fapshi, effets>>
        /\ age[r] < Expiree /\ age' = [age EXCEPT ![r] = age[r] + 1]
    BY <1>3 DEF Vieillir, Ouvertes, DemandeAccordee, TypeOK
  <2>2. CASE age'[r] < Expiree \/ demande[r] = "abandonnee"
    <3>1. \A q \in References : (age'[q] < Expiree /\ demande[q] # "abandonnee")
                                = (age[q] < Expiree /\ demande[q] # "abandonnee")
      BY <2>1, <2>2 DEF TypeOK
    <3>. QED BY <1>0, <2>1, <3>1 DEF P!varsPromesse
  <2>3. CASE ~(age'[r] < Expiree) /\ demande[r] # "abandonnee"
    <3>1. \A q \in References : (age'[q] < Expiree /\ demande[q] # "abandonnee")
                                = (q # r /\ age[q] < Expiree /\ demande[q] # "abandonnee")
      BY <2>1, <2>3 DEF TypeOK
    <3>2. P!Douter(r)
      BY <1>0, <2>1, <2>3, <3>1 DEF P!Douter
    <3>. QED BY <3>2 DEF P!NextPromesse
  <2>. QED BY <2>2, <2>3
<1>. QED BY <1>1, <1>2, <1>3

\* Once a handler leaves a row, the effect it may have carried is the only thing
\* that changed of what is about to be announced.
LEMMA PerteTient ==
  ASSUME UNCHANGED <<journal, age, fapshi, effets>>,
         \A r \in References : (demande'[r] = "abandonnee") = (demande[r] = "abandonnee"),
         \A r \in References : EnRoute(r)' \subseteq EnRoute(r)
  PROVE  P!NextPromesse
<1>1. P!Perdre
  BY DEF P!Perdre
<1>. QED BY <1>1 DEF P!NextPromesse

\* The conditional UPDATE decides, where it changes the row.
LEMMA AppliquerTient ==
  ASSUME IInv, NEW t \in Taches, AppliquerIssue(t)
  PROVE  [P!NextPromesse]_P!varsPromesse
<1>. USE DEF IInv
<1>. DEFINE r == taches[t].ref
            s == taches[t].issue
<1>1. /\ taches[t] \in Tache /\ taches[t].pc = "appliquer" /\ r \in References
      /\ UNCHANGED <<age, demande, fapshi, effets>>
  BY TacheEnCours DEF AppliquerIssue, Tache
<1>2. \/ s = "COMPLETE" /\ fapshi[r] = "SUCCESSFUL"
      \/ s = "ECHOUE" /\ (fapshi[r] = "FAILED" \/ age[r] = Expiree)
  BY <1>1 DEF TacheAttestee
<1>3. CASE AppliquerAffecte(r, s)
  <2>1. /\ taches' = [taches EXCEPT ![t].pc = "repercuter"]
        /\ journal' = [journal EXCEPT ![r].statut = s]
        /\ journal[r].statut \notin {"ABSENTE", s}
    BY <1>3 DEF AppliquerIssue, Appliquer, AppliquerAffecte
  <2>2. PICK q \in References, i \in P!Denouements : q = r /\ i = s
    BY <1>1, <1>2 DEF P!Denouements
  <2>3. \A o : EnRoute(o)' = IF o = q THEN EnRoute(o) \cup {i} ELSE EnRoute(o)
    BY <1>1, <2>1, <2>2, EnPlus
  <2>4. \A o \in References : journal'[o].statut = IF o = q THEN i ELSE journal[o].statut
    BY <2>1, <2>2 DEF TypeOK, JournalTypeOK, Ligne
  <2>5. age[q] < Expiree /\ demande[q] # "abandonnee" => journal[q].statut = "EN_ATTENTE"
    <3>1. journal[q].statut \in {"EN_ATTENTE", "COMPLETE", "ECHOUE"} \ {i}
      BY <2>1, <2>2 DEF TypeOK, JournalTypeOK, Ligne, Statuts
    <3>2. age[q] < Expiree => age[q] # Expiree
      BY DEF Expiree, TypeOK, Ages
    <3>. QED BY <1>2, <2>2, <3>1, <3>2 DEF JournalAtteste
  <2>6. i = "ECHOUE" => ~(fapshi[q] = "SUCCESSFUL" /\ age[q] < Expiree /\ demande[q] # "abandonnee")
    BY <1>2, <2>2 DEF Expiree, TypeOK, Ages
  <2>7. P!Denouer(q, i)
    BY <1>1, <1>2, <2>1, <2>2, <2>3, <2>4, <2>5, <2>6 DEF P!Denouer
  <2>. QED BY <2>7 DEF P!NextPromesse
<1>4. CASE ~AppliquerAffecte(r, s)
  <2>1. Suite(t) /\ UNCHANGED journal
    BY <1>4 DEF AppliquerIssue, Appliquer
  <2>2. PICK x : Prochaine(x) /\ taches' = [taches EXCEPT ![t] = x]
    BY <1>1, <2>1, SuiteProchaine
  <2>3. \A o : EnRoute(o)' = EnRoute(o)
    BY <1>1, <2>2, ProchaineNAnnonceRien, RienDeNouveau
  <2>. QED BY <1>1, <2>1, <2>3, Begaiement
<1>. QED BY <1>3, <1>4

\* The effect reaches the domain.
LEMMA RepercuterTient ==
  ASSUME IInv, NEW t \in Taches, Repercuter(t)
  PROVE  [P!NextPromesse]_P!varsPromesse
<1>. USE DEF IInv
<1>1. /\ taches[t] \in Tache /\ taches[t].pc = "repercuter"
      /\ UNCHANGED <<journal, age, demande, fapshi>>
  BY TacheEnCours DEF Repercuter
<1>2. PICK r \in References, s \in P!Denouements : r = taches[t].ref /\ s = taches[t].issue
  BY <1>1 DEF TacheAttestee, P!Denouements, Tache
<1>3. effets' = [effets EXCEPT ![r][s] = Compter(effets[r][s])]
  BY <1>2 DEF Repercuter, P!Denouements, Issues
<1>4. PICK x : Prochaine(x) /\ taches' = [taches EXCEPT ![t] = x]
  BY <1>1, SuiteProchaine DEF Repercuter
<1>5. /\ \A o : o # r => EnRoute(o)' = EnRoute(o)
      /\ s \in EnRoute(r)
      /\ EnRoute(r)' = EnRoute(r) \/ EnRoute(r)' = EnRoute(r) \ {s}
  BY <1>1, <1>2, <1>4, ProchaineNAnnonceRien, EnMoins
<1>6. EffetEnRoute(r)
  BY <1>1, <1>2 DEF EffetEnRoute
<1>7. age[r] < Expiree => \A d \in P!Denouements : effets[r][d] = 0
  <2>1. effets[r]["COMPLETE"] \in Nat /\ effets[r]["ECHOUE"] \in Nat
    BY DEF TypeOK, Issues, PlafondEffets
  <2>2. age[r] < Expiree => Entendu(r) <= 1 /\ Entendu(r) # 1
    BY <1>6 DEF EffetsSerialises
  <2>. QED BY <2>1, <2>2 DEF Entendu, P!Denouements
<1>8. age[r] < Expiree => EnRoute(r)' = EnRoute(r) \ {s}
  <2>. SUFFICES ASSUME age[r] < Expiree, s \in EnRoute(r)' PROVE FALSE
    BY <1>5
  <2>1. PICK u \in Taches : taches'[u].pc = "repercuter" /\ taches'[u].ref = r
    BY DEF EnRoute
  <2>2. u # t /\ taches[u] = taches'[u]
    BY <1>4, <2>1, ProchaineNAnnonceRien DEF TypeOK
  <2>. QED BY <1>1, <1>2, <2>1, <2>2 DEF EffetsSerialises
<1>9. P!Annoncer(r, s)
  <2>1. \A c \in References : age'[c] = age[c] /\ demande'[c] = demande[c]
    BY <1>1
  <2>2. effets' = [effets EXCEPT ![r][s] = IF effets[r][s] < PlafondEffets
                                           THEN effets[r][s] + 1 ELSE effets[r][s]]
    BY <1>3 DEF Compter
  <2>3. \/ [o \in References |-> EnRoute(o)]' =
              [[o \in References |-> EnRoute(o)] EXCEPT ![r] = EnRoute(r) \ {s}]
        \/ /\ ~(age[r] < Expiree)
           /\ [o \in References |-> EnRoute(o)]' = [o \in References |-> EnRoute(o)]
    BY <1>5, <1>8
  <2>. QED BY <1>1, <1>5, <1>7, <2>2, <2>3 DEF P!Annoncer
<1>. QED BY <1>9 DEF P!NextPromesse

\* A handler that begins, or reads the provider's answer, announces nothing; one
\* that fails to carry its effect loses it.
LEMMA EtapeTient ==
  ASSUME IInv, NEW t \in Taches, Etape(t)
  PROVE  [P!NextPromesse]_P!varsPromesse
<1>. USE DEF IInv
<1>1. CASE Verifier(t) \/ VerifierLeve(t)
  <2>1. /\ taches[t].pc = "verifier" /\ taches[t] \in Tache
        /\ UNCHANGED <<journal, age, demande, fapshi, effets>>
    BY <1>1, TacheEnCours DEF Verifier, VerifierLeve
  <2>2. \E x : x.pc # "repercuter" /\ taches' = [taches EXCEPT ![t] = x]
    <3>1. CASE Suite(t)
      <4>1. PICK x : Prochaine(x) /\ taches' = [taches EXCEPT ![t] = x]
        BY <2>1, <3>1, SuiteProchaine
      <4>. QED BY <4>1, ProchaineNAnnonceRien
    <3>2. CASE ~Suite(t)
      <4>1. PICK i : taches' = [taches EXCEPT ![t].pc = "appliquer", ![t].issue = i]
        BY <1>1, <3>2 DEF Verifier, VerifierLeve
      <4>2. taches' = [taches EXCEPT ![t] = [taches[t] EXCEPT !.pc = "appliquer", !.issue = i]]
        BY <4>1
      <4>3. [taches[t] EXCEPT !.pc = "appliquer", !.issue = i].pc = "appliquer"
        BY <2>1 DEF Tache
      <4>. QED BY <4>2, <4>3
    <3>. QED BY <3>1, <3>2
  <2>3. \A o : EnRoute(o)' = EnRoute(o)
    BY <2>1, <2>2, RienDeNouveau
  <2>. QED BY <2>1, <2>3, Begaiement
<1>2. CASE RepercuterLeve(t)
  <2>1. /\ taches[t].pc = "repercuter" /\ taches' = [taches EXCEPT ![t] = Libre]
        /\ UNCHANGED <<journal, age, demande, fapshi, effets>>
    BY <1>2 DEF RepercuterLeve
  <2>2. Libre.pc # "repercuter"
    BY DEF Libre
  <2>3. \A o : EnRoute(o)' \subseteq EnRoute(o)
    BY <2>1, <2>2, EnMoins
  <2>. QED BY <2>1, <2>3, PerteTient
<1>. QED BY <1>1, <1>2, AppliquerTient, RepercuterTient DEF Etape

LEMMA DebutTient ==
  ASSUME IInv, NEW t \in Taches,
         Reconcilier(t) \/ \E r \in References : RecevoirWebhook(t, r) \/ VerifierMaintenant(t, r)
  PROVE  [P!NextPromesse]_P!varsPromesse
<1>1. UNCHANGED <<journal, age, demande, fapshi, effets>>
  BY DEF Reconcilier, RecevoirWebhook, VerifierMaintenant
<1>2. taches[t] = Libre /\ \E x : x.pc # "repercuter" /\ taches' = [taches EXCEPT ![t] = x]
  BY DEF Reconcilier, RecevoirWebhook, VerifierMaintenant, Commencer, Traiter
<1>3. PICK x : x.pc # "repercuter" /\ taches' = [taches EXCEPT ![t] = x]
  BY <1>2
<1>4. taches[t].pc # "repercuter"
  BY <1>2 DEF Libre
<1>5. \A o : EnRoute(o)' = EnRoute(o)
  BY <1>3, <1>4, RienDeNouveau DEF IInv
<1>. QED BY <1>1, <1>5, Begaiement

LEMMA RedemarrerTient ==
  ASSUME TypeOK, Redemarrer
  PROVE  [P!NextPromesse]_P!varsPromesse
<1>1. \A o : EnRoute(o)' = {}
  BY DEF Redemarrer, EnRoute, Libre
<1>2. \A r \in References : (demande'[r] = "abandonnee") = (demande[r] = "abandonnee")
  BY DEF Redemarrer, EnCours, TypeOK
<1>. QED BY <1>1, <1>2, PerteTient DEF Redemarrer

\* Every step of Paiement is a step of Promesse or a stutter.
LEMMA PasTient ==
  ASSUME IInv, DemandeAccordee, [Next]_vars
  PROVE  [P!NextPromesse]_P!varsPromesse
<1>1. CASE UNCHANGED vars
  BY <1>1 DEF vars, P!varsPromesse, EnRoute
<1>2. CASE Next
  BY <1>2, DemandeTient, MondeTient, EtapeTient, DebutTient, RedemarrerTient DEF Next, IInv
<1>. QED BY <1>1, <1>2

\* Whatever number of webhooks, cron passes, return pages and restarts look at
\* whatever number of payments, together they keep the promise: the domain hears
\* of outcomes that were decided, once of a final one, and a payment that was
\* paid only fails when its outcome is not final.
THEOREM PromesseToujoursTenue == Spec => PromesseTenue
<1>1. IInv /\ DemandeAccordee /\ [Next]_vars => [P!NextPromesse]_P!varsPromesse
  BY PasTient
<1>. QED BY InitTient, <1>1, Invariant, DemandeToujoursAccordee, PTL
         DEF Spec, PromesseTenue, P!SpecPromesse

=============================================================================

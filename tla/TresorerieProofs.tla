--------------------------- MODULE TresorerieProofs ---------------------------
(***************************************************************************)
(* What the parts of the treasury keep for every value of their constants: *)
(* what a donor is promised (Don), the fees (Frais), what is noted as gone *)
(* from the account at the provider (Solde), what the members of the       *)
(* office hold (Fonds), who is called to a contribution (Collecte), one    *)
(* payment made for several people (Partage), and the schedule of a        *)
(* contribution (Echeances).                                               *)
(***************************************************************************)
EXTENDS Don, Frais, Solde, Fonds, Echeances, Collecte, Partage, Sommes

------------------------------------------------------------------------------
(* Don: for any number of donations.                                       *)

(* The inductive invariant.                                                *)

LigneDon == [statut : J!Statuts \cup {"ABSENT"}, anonyme : BOOLEAN,
             identite : SUBSET Identifiants]

TypeDon ==
  /\ journalDon \in [Dons -> J!Ligne]
  /\ dons \in [Dons -> LigneDon]
  /\ fapshiDon \in [Dons -> {"INCONNU", "CREE", "REFUSE", "PAYE"}]
  /\ demandesDon \in [Dons -> EtapesDon]
  /\ issuesDon \subseteq Dons \X {"COMPLETE", "ECHOUE"}
  /\ traces \in [Dons -> SUBSET Identifiants]
  /\ ecrasesDon \subseteq Dons

\* Before its request a donation is nowhere.
NeufVide ==
  \A r \in Dons : demandesDon[r] = "repos" =>
    /\ journalDon[r].statut = "ABSENTE"
    /\ traces[r] = {}
    /\ <<r, "COMPLETE">> \notin issuesDon /\ <<r, "ECHOUE">> \notin issuesDon

\* What says that a donation was received says so after the journal, where that
\* is final.
RecuApresJournal ==
  \A r \in Dons :
    dons[r].statut = "COMPLETE" \/ <<r, "COMPLETE">> \in issuesDon
      => journalDon[r].statut = "COMPLETE"

\* What the journal attests is in the donation, on its way to it, or written over.
JournalAnnonce ==
  \A r \in Dons \ ecrasesDon :
    journalDon[r].statut = "COMPLETE"
      => dons[r].statut = "COMPLETE" \/ <<r, "COMPLETE">> \in issuesDon

IInvDon == TypeDon /\ NeufVide /\ AnonymatReel /\ RecuApresJournal /\ JournalAnnonce

------------------------------------------------------------------------------

\* The database starts empty.
LEMMA DebutDon == InitDon => IInvDon
BY DEF InitDon, IInvDon, TypeDon, NeufVide, AnonymatReel, RecuApresJournal, JournalAnnonce,
       LigneDon, PasDeDon, EtapesDon, J!JournalInit, J!LigneAbsente, J!Ligne, J!Statuts, J!Montants

\* The request that creates the donation, before the provider is asked.
LEMMA CreationPreserve ==
  ASSUME IInvDon, NEW r \in Dons,
         (\E f \in Formulaires : CreerDon(r, f)) \/ OuvrirDon(r) \/ InitierDon(r)
  PROVE  IInvDon'
<1> USE DEF IInvDon, TypeDon, NeufVide, AnonymatReel, RecuApresJournal, JournalAnnonce,
            LigneDon, EtapesDon, Etape
<1>1. ASSUME NEW f \in Formulaires, CreerDon(r, f) PROVE IInvDon'
  <2>1. identite(f) \in SUBSET Identifiants /\ (f.anonyme => identite(f) = {})
        /\ f.anonyme \in BOOLEAN
    BY DEF Formulaires, identite
  <2>2. dons' = [dons EXCEPT ![r] = [statut |-> "EN_ATTENTE", anonyme |-> f.anonyme,
                                     identite |-> identite(f)]]
    BY <1>1 DEF CreerDon
  <2>3. TypeDon' BY <1>1, <2>1, <2>2 DEF CreerDon, J!Statuts
  <2>4. NeufVide' BY <1>1, <2>1, <2>2 DEF CreerDon, J!Statuts
  <2>5. AnonymatReel'
    <3>1. traces' = traces /\ traces[r] = {}
      BY <1>1 DEF CreerDon
    <3>2. \A q \in Dons : dons'[q] = IF q = r THEN [statut |-> "EN_ATTENTE", anonyme |-> f.anonyme,
                                                    identite |-> identite(f)]
                            ELSE dons[q]
      BY <2>2
    <3>. QED BY <2>1, <3>1, <3>2
  <2>6. RecuApresJournal' BY <1>1, <2>1, <2>2 DEF CreerDon, J!Statuts
  <2>7. JournalAnnonce' BY <1>1, <2>1, <2>2 DEF CreerDon, J!Statuts
  <2>. QED BY <2>3, <2>4, <2>5, <2>6, <2>7
<1>2. ASSUME OuvrirDon(r) PROVE IInvDon'
  <2>. USE <1>2 DEF OuvrirDon, J!Ouvrir, J!LigneAbsente, J!Ligne, J!Statuts, J!Montants,
                  Identifiants
  <2>1. TypeDon' OBVIOUS
  <2>2. NeufVide' OBVIOUS
  <2>3. AnonymatReel' OBVIOUS
  <2>4. RecuApresJournal' OBVIOUS
  <2>5. JournalAnnonce' OBVIOUS
  <2>. QED BY <2>1, <2>2, <2>3, <2>4, <2>5
<1>3. ASSUME InitierDon(r) PROVE IInvDon'
  BY <1>3 DEF InitierDon
<1>. QED BY <1>1, <1>2, <1>3

\* Keeping the identifier of the provider leaves the rows well formed.
LEMMA ExterneType ==
  ASSUME journalDon \in [Dons -> J!Ligne], NEW r \in Dons, J!EnregistrerReferenceExterne(r)
  PROVE  journalDon' \in [Dons -> J!Ligne]
<1>1. journalDon[r] \in J!Ligne
  OBVIOUS
<1>2. [journalDon[r] EXCEPT !.ext = TRUE] \in J!Ligne
  BY <1>1 DEF J!Ligne
<1>. QED BY <1>2 DEF J!EnregistrerReferenceExterne

\* What the request does with the answer of the provider.
LEMMA ReponsePreserve ==
  ASSUME IInvDon, NEW r \in Dons,
         ConclureDon(r) \/ AppliquerDon(r) \/ AbandonnerDon(r) \/ RefermerDon(r)
  PROVE  IInvDon'
<1> USE DEF IInvDon, TypeDon, NeufVide, AnonymatReel, RecuApresJournal, JournalAnnonce,
            LigneDon, EtapesDon, Etape, J!Ligne, J!Statuts
<1>1. ASSUME ConclureDon(r) PROVE IInvDon'
  <2>1. TypeDon'
    <3>1. journalDon' \in [Dons -> J!Ligne]
      BY <1>1, ExterneType DEF ConclureDon
    <3>. QED BY <1>1, <3>1 DEF ConclureDon
  <2>2. NeufVide' BY <1>1 DEF ConclureDon, J!EnregistrerReferenceExterne
  <2>3. AnonymatReel' BY <1>1 DEF ConclureDon, J!EnregistrerReferenceExterne
  <2>4. RecuApresJournal' BY <1>1 DEF ConclureDon, J!EnregistrerReferenceExterne
  <2>5. JournalAnnonce' BY <1>1 DEF ConclureDon, J!EnregistrerReferenceExterne
  <2>. QED BY <2>1, <2>2, <2>3, <2>4, <2>5
<1>2. ASSUME AppliquerDon(r) PROVE IInvDon'
  <2>1. TypeDon' BY <1>2 DEF AppliquerDon, J!Appliquer, J!AppliquerAffecte
  <2>2. NeufVide' BY <1>2 DEF AppliquerDon, J!Appliquer, J!AppliquerAffecte
  <2>3. AnonymatReel' BY <1>2 DEF AppliquerDon, J!Appliquer, J!AppliquerAffecte
  <2>4. RecuApresJournal' BY <1>2 DEF AppliquerDon, J!Appliquer, J!AppliquerAffecte
  <2>5. JournalAnnonce' BY <1>2 DEF AppliquerDon, J!Appliquer, J!AppliquerAffecte
  <2>. QED BY <2>1, <2>2, <2>3, <2>4, <2>5
<1>3. ASSUME AbandonnerDon(r) PROVE IInvDon'
  BY <1>3 DEF AbandonnerDon, J!Abandonner, J!AbandonnerAffecte
<1>4. ASSUME RefermerDon(r) PROVE IInvDon'
  BY <1>4 DEF RefermerDon
<1>. QED BY <1>1, <1>2, <1>3, <1>4

\* The payer, the notifications of the provider and what they lead to.
LEMMA IssuePreserve ==
  ASSUME IInvDon, NEW r \in Dons,
         PayerDon(r) \/ \E i \in {"COMPLETE", "ECHOUE"} : RecevoirIssueDon(r, i) \/ EffetDon(r, i)
  PROVE  IInvDon'
<1> USE DEF IInvDon, TypeDon, NeufVide, AnonymatReel, RecuApresJournal, JournalAnnonce,
            LigneDon, EtapesDon, J!Ligne, J!Statuts
<1>1. ASSUME PayerDon(r) PROVE IInvDon'
  BY <1>1 DEF PayerDon
<1>2. ASSUME NEW i \in {"COMPLETE", "ECHOUE"}, RecevoirIssueDon(r, i) PROVE IInvDon'
  BY <1>2 DEF RecevoirIssueDon, J!Appliquer, J!AppliquerAffecte
<1>3. ASSUME NEW i \in {"COMPLETE", "ECHOUE"}, EffetDon(r, i) PROVE IInvDon'
  <2>. DEFINE dits == dons[r].identite \cap (IF i = "COMPLETE" THEN Identifiants ELSE {"compte"})
  <2>1. CASE IssueAffecte(r, i)
    <3>1. /\ dons' = [dons EXCEPT ![r].statut = i]
          /\ traces' = [traces EXCEPT ![r] = traces[r] \cup dits]
          /\ ecrasesDon' = IF i = "ECHOUE" /\ journalDon[r].statut = "COMPLETE"
                           THEN ecrasesDon \cup {r} ELSE ecrasesDon
          /\ <<r, i>> \in issuesDon /\ issuesDon' = issuesDon \ {<<r, i>>}
          /\ UNCHANGED <<journalDon, fapshiDon, demandesDon>>
      BY <1>3, <2>1 DEF EffetDon
    <3>2. dits \in SUBSET Identifiants /\ (dons[r].anonyme => dits = {})
      OBVIOUS
    <3>. HIDE DEF dits
    <3>3. TypeDon' BY <3>1, <3>2
    <3>4. NeufVide' BY <3>1
    <3>5. AnonymatReel' BY <3>1, <3>2
    <3>6. RecuApresJournal' BY <3>1
    <3>7. JournalAnnonce' BY <3>1
    <3>. QED BY <3>3, <3>4, <3>5, <3>6, <3>7
  <2>2. CASE ~IssueAffecte(r, i)
    <3>1. /\ <<r, i>> \in issuesDon /\ issuesDon' = issuesDon \ {<<r, i>>}
          /\ UNCHANGED <<dons, traces, ecrasesDon, journalDon, fapshiDon, demandesDon>>
          /\ dons[r].statut = i
      BY <1>3, <2>2 DEF EffetDon, IssueAffecte
    <3>. QED BY <3>1
  <2>. QED BY <2>1, <2>2
<1>. QED BY <1>1, <1>2, <1>3

\* Every step of a request, of the provider or of an effect keeps the invariant.
LEMMA EtapeDonPreserve == IInvDon /\ [NextDon]_varsDon => IInvDon'
<1> SUFFICES ASSUME IInvDon, [NextDon]_varsDon PROVE IInvDon'
  OBVIOUS
<1>1. CASE NextDon
  BY <1>1, CreationPreserve, ReponsePreserve, IssuePreserve DEF NextDon
<1>2. CASE UNCHANGED varsDon
  BY <1>2 DEF varsDon, IInvDon, TypeDon, NeufVide, AnonymatReel, RecuApresJournal, JournalAnnonce
<1>. QED BY <1>1, <1>2

\* A donor who asked not to be known is known nowhere, and a donation is counted
\* as received exactly when the provider attests it: whatever the number of
\* donations, and the order of requests, notifications and effects.
THEOREM DonToujoursTenu == SpecDon => []DonTenu
<1>1. IInvDon => DonTenu
  BY DEF IInvDon, TypeDon, RecuApresJournal, JournalAnnonce, DonTenu, DonSuitJournal
<1>. QED BY DebutDon, EtapeDonPreserve, <1>1, PTL DEF SpecDon

------------------------------------------------------------------------------
(* Frais: for every price and every rate the environment may set.          *)

Retenue(m) == IF m = Indifferent THEN METHODE_FRAIS_PAR_DEFAUT ELSE m

\* A computation, if there was one, came out of calculerFrais.
IInvFrais ==
  /\ bareme \in tauxFraisDepuisConfig
  /\ devis # AucunDevis =>
       \E prix \in Nat, m \in MethodesPaiement \cup {Indifferent} :
         devis \in calculerFrais(prix, m, bareme)

\* A quotient rounded up covers what was divided, and by no more than one
\* divisor, on whichever side of a whole result the floating point fell.
LEMMA ArrondiEncadre ==
  ASSUME NEW a \in Nat, NEW b \in Nat \ {0}, NEW n \in ArrondiHaut(a, b)
  PROVE  n \in Nat /\ a <= n * b /\ n * b <= a + b
<1>1. a \div b \in Nat /\ a % b \in 0 .. b - 1
  OBVIOUS
<1>a. a = b * (a \div b) + (a % b)
  BY Z3
<1>2. CASE n = a \div b /\ a % b = 0
  BY <1>1, <1>a, <1>2
<1>3. CASE n = a \div b + 1
  <2>1. n * b = b * (a \div b) + b
    BY <1>1, <1>3
  <2>2. b * (a \div b) \in Int
    BY <1>1
  <2>. QED BY <1>1, <1>a, <1>3, <2>1, <2>2
<1>. QED BY <1>2, <1>3 DEF ArrondiHaut

\* Rates are thousandths, and the provider never takes all.
LEMMA TauxBornes ==
  ASSUME NEW b \in tauxFraisDepuisConfig
  PROVE  /\ b.fapshi \in 0 .. 999
         /\ b.fapshi \in TauxPossibles \cup {30}
         /\ \A m \in MethodesPaiement : b.retraitTaux[m] \in Nat /\ b.retraitFixe[m] \in Nat
<1>1. /\ b.fapshi \in TauxPossibles \cup {30}
      /\ b.retraitTaux \in [MethodesPaiement -> TauxPossibles \cup {15, 10}]
      /\ b.retraitFixe \in [MethodesPaiement -> FixesPossibles \cup {4}]
  BY DEF tauxFraisDepuisConfig, TAUX_FRAIS_PAR_DEFAUT
<1>2. TauxPossibles \cup {30} \subseteq 0 .. 999 /\ TauxPossibles \cup {15, 10} \subseteq Nat
      /\ FixesPossibles \cup {4} \subseteq Nat
  BY FraisAssumption
<1>3. \A m \in MethodesPaiement :
        b.retraitTaux[m] \in TauxPossibles \cup {15, 10} /\ b.retraitFixe[m] \in FixesPossibles \cup {4}
  BY <1>1
<1>4. b.fapshi \in 0 .. 999
  BY <1>1, <1>2
<1>. QED BY <1>1, <1>2, <1>3, <1>4

\* What one computation asks for, whatever the rates.
LEMMA DevisEncadre ==
  ASSUME NEW b \in tauxFraisDepuisConfig, NEW prix \in Nat,
         NEW m \in MethodesPaiement \cup {Indifferent},
         NEW d \in calculerFrais(prix, m, b)
  PROVE  LET cout == prix * b.retraitTaux[Retenue(m)] + b.retraitFixe[Retenue(m)] * 1000
         IN  /\ d.prixBase = prix /\ d.methode = m /\ d.montantTtc \in Nat /\ cout \in Nat
             /\ d.montantTtc * (1000 - b.fapshi) >= prix * 1000 + cout
             /\ d.montantTtc * (1000 - b.fapshi) <= prix * 1000 + cout + 1000 + (1000 - b.fapshi)
<1>. DEFINE cout == prix * b.retraitTaux[Retenue(m)] + b.retraitFixe[Retenue(m)] * 1000
<1>1. Retenue(m) \in MethodesPaiement
  BY DEF Retenue, MethodesPaiement, METHODE_FRAIS_PAR_DEFAUT
<1>2. cout \in Nat
  BY <1>1, TauxBornes
<1>3. PICK f \in ArrondiHaut(cout, 1000) : \E ttc \in MontantTtc(prix, f, b) :
        d = [prixBase |-> prix, methode |-> m, fraisRetrait |-> f,
             fraisFapshi |-> ttc - prix - f, montantTtc |-> ttc]
  BY DEF calculerFrais, Retenue
<1>. HIDE DEF cout
<1>4. f \in Nat /\ cout <= f * 1000 /\ f * 1000 <= cout + 1000
  BY <1>2, <1>3, ArrondiEncadre
<1>5. 1000 - b.fapshi \in Nat \ {0} /\ (prix + f) * 1000 \in Nat
  <2>1. b.fapshi \in 0 .. 999
    BY TauxBornes
  <2>. QED BY <1>4, <2>1
<1>6. PICK ttc \in MontantTtc(prix, f, b) :
        d = [prixBase |-> prix, methode |-> m, fraisRetrait |-> f,
             fraisFapshi |-> ttc - prix - f, montantTtc |-> ttc]
  BY <1>3
<1>7. /\ ttc \in Nat
      /\ (prix + f) * 1000 <= ttc * (1000 - b.fapshi)
      /\ ttc * (1000 - b.fapshi) <= (prix + f) * 1000 + (1000 - b.fapshi)
  BY <1>5, <1>6, ArrondiEncadre DEF MontantTtc
<1>8. d.prixBase = prix /\ d.methode = m /\ d.montantTtc = ttc
  BY <1>6
<1>9. ttc * (1000 - b.fapshi) \in Int
  BY <1>5, <1>7
<1>10. /\ ttc * (1000 - b.fapshi) >= prix * 1000 + cout
       /\ ttc * (1000 - b.fapshi) <= prix * 1000 + cout + 1000 + (1000 - b.fapshi)
  BY <1>2, <1>4, <1>5, <1>7, <1>9
<1>. QED BY <1>2, <1>7, <1>8, <1>10 DEF cout

\* Computing keeps what is known of the rates and of the computation.
LEMMA FraisPreserve == SpecFrais => []IInvFrais
<1>1. InitFrais => IInvFrais
  BY DEF InitFrais, IInvFrais
<1>2. IInvFrais /\ [NextFrais]_varsFrais => IInvFrais'
  <2> SUFFICES ASSUME IInvFrais, [NextFrais]_varsFrais PROVE IInvFrais'
    OBVIOUS
  <2>1. ASSUME NEW prix \in 1 .. PrixMax, NEW m \in MethodesPaiement \cup {Indifferent},
               Calculer(prix, m)
        PROVE  IInvFrais'
    <3>1. prix \in Nat /\ bareme' = bareme /\ devis' \in calculerFrais(prix, m, bareme)
      BY <2>1, FraisAssumption DEF Calculer
    <3>. QED BY <3>1 DEF IInvFrais, calculerFrais, MontantTtc
  <2>2. CASE UNCHANGED varsFrais
    BY <2>2 DEF varsFrais, IInvFrais, calculerFrais, MontantTtc
  <2>. QED BY <2>1, <2>2 DEF NextFrais
<1>. QED BY <1>1, <1>2, PTL DEF SpecFrais

\* "La trésorerie ne perd jamais", whatever the price and the rates.
THEOREM TresorerieToujoursCouverte == SpecFrais => []TresorerieNePerdJamais
<1>1. IInvFrais => TresorerieNePerdJamais
  <2> SUFFICES ASSUME IInvFrais, devis # AucunDevis, NEW m \in MethodesPaiement,
                      IF devis.methode = Indifferent THEN PireParDefaut(devis.prixBase)
                      ELSE m = devis.methode
               PROVE  Reste(devis.montantTtc) >= devis.prixBase * 1000 + CoutRetrait(devis.prixBase, m)
    BY DEF TresorerieNePerdJamais
  <2>1. PICK prix \in Nat, n \in MethodesPaiement \cup {Indifferent} :
          devis \in calculerFrais(prix, n, bareme)
    BY DEF IInvFrais
  <2>2. /\ devis.prixBase = prix /\ devis.methode = n
        /\ Reste(devis.montantTtc) >= prix * 1000 + CoutRetrait(prix, Retenue(n))
        /\ Reste(devis.montantTtc) \in Int
    <3>1. /\ devis.prixBase = prix /\ devis.methode = n /\ devis.montantTtc \in Nat
          /\ devis.montantTtc * (1000 - bareme.fapshi)
               >= prix * 1000 + (prix * bareme.retraitTaux[Retenue(n)]
                                 + bareme.retraitFixe[Retenue(n)] * 1000)
      BY <2>1, DevisEncadre DEF IInvFrais
    <3>2. bareme.fapshi \in 0 .. 999
      BY TauxBornes DEF IInvFrais
    <3>3. devis.montantTtc * (1000 - bareme.fapshi) \in Int
      BY <3>1, <3>2
    <3>4. Reste(devis.montantTtc) = devis.montantTtc * (1000 - bareme.fapshi)
      BY DEF Reste
    <3>5. Reste(devis.montantTtc) >= prix * 1000 + CoutRetrait(prix, Retenue(n))
      BY <3>1, Zenon DEF Reste, CoutRetrait
    <3>. QED BY <3>1, <3>3, <3>4, <3>5
  <2>3. \A k \in MethodesPaiement : CoutRetrait(prix, k) \in Nat
    BY TauxBornes DEF IInvFrais, CoutRetrait
  <2>4. CoutRetrait(prix, m) <= CoutRetrait(prix, Retenue(n))
    BY <2>2, <2>3 DEF PireParDefaut, Retenue
  <2>5. Retenue(n) \in MethodesPaiement
    BY DEF Retenue, MethodesPaiement, METHODE_FRAIS_PAR_DEFAUT
  <2>. HIDE DEF Retenue
  <2>. QED BY <2>2, <2>3, <2>4, <2>5
<1>. QED BY FraisPreserve, <1>1, PTL

\* And the payer is not charged for the rounding, as long as the provider takes
\* less than half: what the price asks for is the least, to Ecart francs.
THEOREM FraisToujoursJustes ==
  ASSUME \A t \in TauxPossibles : t < 500
  PROVE  SpecFrais => []FraisJustes
<1>1. IInvFrais => PayeurPasLese
  <2> SUFFICES ASSUME IInvFrais, devis # AucunDevis
               PROVE  Reste(devis.montantTtc - Ecart)
                        < devis.prixBase * 1000 + CoutRetrait(devis.prixBase, Retenue(devis.methode))
    BY DEF PayeurPasLese, Retenue
  <2>1. PICK prix \in Nat, n \in MethodesPaiement \cup {Indifferent} :
          devis \in calculerFrais(prix, n, bareme)
    BY DEF IInvFrais
  <2>. DEFINE ttc == devis.montantTtc
              cout == CoutRetrait(prix, Retenue(n))
              part == 1000 - bareme.fapshi
  <2>2. /\ devis.prixBase = prix /\ devis.methode = n /\ ttc \in Nat /\ cout \in Nat
        /\ ttc * part <= prix * 1000 + cout + 1000 + part
    BY <2>1, DevisEncadre DEF IInvFrais, CoutRetrait
  <2>3. part \in Nat /\ part > 500
    <3>1. bareme.fapshi \in 0 .. 999 /\ bareme.fapshi \in TauxPossibles \cup {30}
      BY TauxBornes DEF IInvFrais
    <3>2. bareme.fapshi < 500
      BY <3>1
    <3>. QED BY <3>1, <3>2
  <2>4. Reste(ttc - Ecart) = (ttc - 3) * part
    BY DEF Reste, Ecart
  <2>. HIDE DEF ttc, cout, part
  <2>5. (ttc - 3) * part = ttc * part - 3 * part /\ ttc * part \in Int
    BY <2>2, <2>3
  <2>6. (ttc - 3) * part < prix * 1000 + cout
    BY <2>2, <2>3, <2>5
  <2>. QED BY <2>2, <2>4, <2>6 DEF ttc, cout
<1>2. IInvFrais /\ TresorerieNePerdJamais => FraisJustes
  BY <1>1 DEF FraisJustes
<1>. QED BY FraisPreserve, TresorerieToujoursCouverte, <1>2, PTL

------------------------------------------------------------------------------
(* Solde: for any number of withdrawals, and any amounts.                  *)

RetraitConnu == [statut : StatutsRetrait \cup {"INCONNU", "ANNOTE"}, montant : Nat]

TypeSolde ==
  /\ compte \in [solde : Int, payouts : [Payouts -> RetraitConnu]]
  /\ credits \in [nombre : Nat, aConfirmer : Nat, aCrediter : Nat]
  /\ sorties \in [nombre : Nat, somme : Nat]
  /\ encaisse \in Nat
  /\ releves \in [payouts : [Payouts -> RetraitConnu], constates : Nat]
  /\ notes \in [Payouts -> RetraitConnu]
  /\ depuis \in Depuis
  /\ lecture \in [pc : EtapesLecture, solde : Int, payouts : [Payouts -> RetraitConnu],
                  manque : Int]
  /\ deranges \in 0 .. 2

\* What is about to be noted, when no reading mixed moments, is missing for good
\* reason: it left, and was not noted yet.
ConstatAttendu ==
  lecture.pc = "constater" =>
    /\ lecture.manque \in Nat
    /\ deranges = 0 => releves.constates + lecture.manque <= sorties.somme

IInvSolde == TypeSolde /\ ConstatAttendu /\ ConstatJuste

\* The sum of the amounts of some withdrawals, as the model writes it.
Cumul(f, R) ==
  (CHOOSE it : it = [s \in SUBSET R |->
     IF s = {} THEN 0
     ELSE f[CHOOSE x \in s : TRUE].montant + it[s \ {CHOOSE x \in s : TRUE}]])[R]

Montees(f, R) == [p \in Payouts |-> IF p \in R THEN f[p].montant ELSE 0]

LEMMA CumulEstSomme ==
  ASSUME NEW f \in [Payouts -> RetraitConnu], NEW R \in SUBSET Payouts
  PROVE  Cumul(f, R) = Somme(Montees(f, R), Payouts)
<1>. DEFINE g == Montees(f, R)
            E(it) == [s \in SUBSET R |-> IF s = {} THEN 0
                        ELSE f[CHOOSE x \in s : TRUE].montant
                               + it[s \ {CHOOSE x \in s : TRUE}]]
            c == CHOOSE it : it = E(it)
<1>1. IsFiniteSet(R) /\ IsFiniteSet(Payouts)
  BY SoldeAssumption, FS_Subset
<1>2. Cumul(f, R) = c[R]
  BY DEF Cumul
<1>3. \A it : Deroule(it, g, R) <=> it = E(it)
  <2>1. \A s \in SUBSET R : s # {} =>
          g[CHOOSE x \in s : TRUE] = f[CHOOSE x \in s : TRUE].montant
    BY DEF Montees
  <2>2. ASSUME NEW it
        PROVE  [s \in SUBSET R |-> Pas(it, g, s)] = E(it)
    BY <2>1 DEF Pas, Choix
  <2>. HIDE DEF E, g
  <2>. QED BY <2>2 DEF Deroule
<1>4. Deroule(c, g, R)
  <2>1. \E it : it = E(it)
    <3>. HIDE DEF E, g
    <3>. QED BY <1>1, <1>3, SommeExiste
  <2>. HIDE DEF E
  <2>2. c = E(c)
    BY <2>1, Zenon
  <2>. HIDE DEF c, g
  <2>. QED BY <1>3, <2>2
<1>. HIDE DEF c
<1>5. c[R] = Somme(g, R)
  <2>1. R \in SUBSET R /\ \A x \in R : g[x] = g[x]
    OBVIOUS
  <2>. HIDE DEF g
  <2>2. \A it : Deroule(it, g, R) => it[R] = Somme(g, R)
    BY <1>1, <2>1, SommePartielle
  <2>. QED BY <1>4, <2>2
<1>6. Somme(g, R) = Somme(g, Payouts)
  <2>1. (\A p \in R : g[p] \in Int) /\ (\A p \in Payouts \ R : g[p] = 0)
    BY DEF Montees, RetraitConnu
  <2>. HIDE DEF g
  <2>. QED BY <1>1, <2>1, SommeFiltre
<1>. QED BY <1>2, <1>5, <1>6

LEMMA ActifsEstCumul ==
  ASSUME NEW f
  PROVE  Actifs(f) = Cumul(f, {p \in Payouts : f[p].statut \in {"EN_COURS", "REUSSI"}})
BY Zenon DEF Actifs, Cumul, MapThenSumSet, MapThenFoldSet

LEMMA RetraitsEstCumul ==
  ASSUME NEW s
  PROVE  sommeRetraits(s) = Cumul(releves.payouts, {p \in Payouts : releves.payouts[p].statut = s})
BY Zenon DEF sommeRetraits, Cumul, MapThenSumSet, MapThenFoldSet

\* The withdrawals that succeeded or are under way are those the balance lacks.
LEMMA ActifsPartages ==
  ASSUME TypeSolde
  PROVE  /\ Actifs(releves.payouts) = sommeRetraits("REUSSI") + sommeRetraits("EN_COURS")
         /\ Actifs(compte.payouts) \in Int
         /\ sommeRetraits("REUSSI") \in Int /\ sommeRetraits("EN_COURS") \in Int
<1>. DEFINE f == releves.payouts
            De(s) == {p \in Payouts : f[p].statut = s}
            A(x) == {p \in Payouts : x[p].statut \in {"EN_COURS", "REUSSI"}}
<1>1. f \in [Payouts -> RetraitConnu] /\ compte.payouts \in [Payouts -> RetraitConnu]
  BY DEF TypeSolde
<1>2. ASSUME NEW x \in [Payouts -> RetraitConnu], NEW R \in SUBSET Payouts
      PROVE  \A p \in Payouts : Montees(x, R)[p] \in Int
  BY <1>2 DEF Montees, RetraitConnu
<1>3. IsFiniteSet(Payouts)
  BY SoldeAssumption
<1>4. ASSUME NEW x \in [Payouts -> RetraitConnu], NEW R \in SUBSET Payouts
      PROVE  Cumul(x, R) = Somme(Montees(x, R), Payouts) /\ Cumul(x, R) \in Int
  BY <1>2, <1>3, <1>4, CumulEstSomme, SommeType
<1>5. /\ Actifs(f) = Cumul(f, A(f)) /\ Actifs(compte.payouts) = Cumul(compte.payouts, A(compte.payouts))
      /\ \A s : sommeRetraits(s) = Cumul(f, De(s))
  BY ActifsEstCumul, RetraitsEstCumul
<1>6. \A p \in Payouts :
        Montees(f, A(f))[p] = Montees(f, De("REUSSI"))[p] + Montees(f, De("EN_COURS"))[p]
  BY <1>1 DEF Montees, RetraitConnu
<1>7. /\ A(f) \in SUBSET Payouts /\ A(compte.payouts) \in SUBSET Payouts
      /\ \A s : De(s) \in SUBSET Payouts
  OBVIOUS
<1>. HIDE DEF f, A, De
<1>8. Somme(Montees(f, A(f)), Payouts)
        = Somme(Montees(f, De("REUSSI")), Payouts) + Somme(Montees(f, De("EN_COURS")), Payouts)
  BY <1>1, <1>2, <1>3, <1>6, <1>7, SommesJointes
<1>9. /\ Actifs(f) = Somme(Montees(f, A(f)), Payouts)
      /\ sommeRetraits("REUSSI") = Somme(Montees(f, De("REUSSI")), Payouts)
      /\ sommeRetraits("EN_COURS") = Somme(Montees(f, De("EN_COURS")), Payouts)
      /\ Actifs(compte.payouts) \in Int
      /\ sommeRetraits("REUSSI") \in Int /\ sommeRetraits("EN_COURS") \in Int
  BY <1>1, <1>4, <1>5, <1>7
<1>. QED BY <1>8, <1>9 DEF f

\* A reading of one moment misses what left and was not noted, to the franc.
LEMMA ManqueExact ==
  ASSUME TypeSolde, Coherente
  PROVE  releves.constates + manque(lecture.solde) = sorties.somme
<1>1. /\ manque(lecture.solde) = encaisse - (sommeRetraits("REUSSI") + releves.constates)
                                   - sommeRetraits("EN_COURS") - lecture.solde
      /\ Actifs(releves.payouts) = Actifs(compte.payouts)
      /\ lecture.solde = encaisse - Actifs(compte.payouts) - sorties.somme
  BY DEF Coherente, manque
<1>2. /\ encaisse \in Int /\ releves.constates \in Int /\ sorties.somme \in Int
  BY DEF TypeSolde
<1>. QED BY <1>1, <1>2, ActifsPartages

LEMMA DebutSolde == InitSolde => IInvSolde
BY DEF InitSolde, IInvSolde, TypeSolde, ConstatAttendu, ConstatJuste, RetraitConnu, SansRetrait,
       Depuis, EtapesLecture, AuRepos

\* What moves at the provider, or when a payment is confirmed.
LEMMA PrestatairePreserve ==
  ASSUME IInvSolde, NEW m \in Nat, NEW p, NEW s,
         \/ CrediterCompte(m) \/ ConfirmerPaiement(m) \/ ConfirmerAvantCredit(m)
         \/ CrediterEnRetard(m) \/ TransfererSansTrace(m)
         \/ p \in Payouts /\ RetirerDuCompte(p, m)
         \/ p \in Payouts /\ s \in {"REUSSI", "ECHOUE"} /\ Denouer(p, s)
  PROVE  IInvSolde'
<1>1. m \in Nat
  OBVIOUS
<1>2. TypeSolde /\ ConstatAttendu /\ ConstatJuste
  BY DEF IInvSolde
<1>. USE DEF TypeSolde
<1>3. NousSansChangement
  BY DEF CrediterCompte, ConfirmerPaiement, ConfirmerAvantCredit, CrediterEnRetard,
         TransfererSansTrace, RetirerDuCompte, Denouer
<1>4. compte' \in [solde : Int, payouts : [Payouts -> RetraitConnu]]
  <2>1. CASE CrediterCompte(m) \/ CrediterEnRetard(m) \/ TransfererSansTrace(m)
    BY <1>1, <1>2, <2>1 DEF CrediterCompte, CrediterEnRetard, TransfererSansTrace
  <2>2. CASE ConfirmerPaiement(m) \/ ConfirmerAvantCredit(m)
    BY <1>2, <2>2 DEF ConfirmerPaiement, ConfirmerAvantCredit
  <2>3. CASE p \in Payouts /\ RetirerDuCompte(p, m)
    <3>. DEFINE w == [statut |-> "EN_COURS", montant |-> m]
    <3>1. w \in RetraitConnu
      BY <1>1 DEF RetraitConnu, StatutsRetrait
    <3>2. compte' = [compte EXCEPT !.solde = compte.solde - m, !.payouts = [compte.payouts EXCEPT ![p] = w]]
      BY <1>2, <2>3 DEF RetirerDuCompte
    <3>. HIDE DEF w
    <3>3. [compte.payouts EXCEPT ![p] = w] \in [Payouts -> RetraitConnu] /\ compte.solde - m \in Int
      BY <1>1, <1>2, <2>3, <3>1
    <3>. QED BY <1>2, <3>2, <3>3
  <2>4. CASE p \in Payouts /\ s \in {"REUSSI", "ECHOUE"} /\ Denouer(p, s)
    <3>1. /\ compte.payouts[p].montant \in Nat
          /\ [compte.payouts EXCEPT ![p].statut = s] \in [Payouts -> RetraitConnu]
      <4>1. compte.payouts[p] \in RetraitConnu /\ s \in StatutsRetrait
        BY <1>2, <2>4 DEF StatutsRetrait
      <4>2. [compte.payouts[p] EXCEPT !.statut = s] \in RetraitConnu
        BY <4>1 DEF RetraitConnu
      <4>. QED BY <1>2, <2>4, <4>1, <4>2 DEF RetraitConnu
    <3>2. compte'.solde \in Int /\ compte' = [compte EXCEPT !.payouts = [compte.payouts EXCEPT ![p].statut = s],
                                                            !.solde = compte'.solde]
      BY <1>2, <2>4, <3>1 DEF Denouer
    <3>. QED BY <1>2, <3>1, <3>2
  <2>. QED BY <2>1, <2>2, <2>3, <2>4
<1>5. credits' \in [nombre : Nat, aConfirmer : Nat, aCrediter : Nat] /\ encaisse' \in Nat
  <2>1. CASE CrediterCompte(m)
    <3>1. credits' = [credits EXCEPT !.nombre = credits.nombre + 1,
                                     !.aConfirmer = credits.aConfirmer + m]
      BY <1>2, <2>1 DEF CrediterCompte
    <3>2. credits \in [nombre : Nat, aConfirmer : Nat, aCrediter : Nat] /\ encaisse \in Nat
      BY <1>2
    <3>3. encaisse' \in Nat
      BY <1>1, <3>2, <2>1 DEF CrediterCompte
    <3>4. credits.nombre + 1 \in Nat /\ credits.aConfirmer + m \in Nat
      BY <1>1, <3>2
    <3>. HIDE DEF TypeSolde
    <3>. QED BY <3>1, <3>2, <3>3, <3>4
  <2>2. CASE ConfirmerPaiement(m)
    BY <1>1, <1>2, <2>2 DEF ConfirmerPaiement
  <2>3. CASE ConfirmerAvantCredit(m)
    <3>1. credits' = [credits EXCEPT !.nombre = credits.nombre + 1,
                                     !.aCrediter = credits.aCrediter + m]
      BY <1>2, <2>3 DEF ConfirmerAvantCredit
    <3>2. credits \in [nombre : Nat, aConfirmer : Nat, aCrediter : Nat] /\ encaisse \in Nat
      BY <1>2
    <3>3. encaisse' \in Nat
      BY <1>1, <3>2, <2>3 DEF ConfirmerAvantCredit
    <3>4. credits.nombre + 1 \in Nat /\ credits.aCrediter + m \in Nat
      BY <1>1, <3>2
    <3>. HIDE DEF TypeSolde
    <3>. QED BY <3>1, <3>2, <3>3, <3>4
  <2>4. CASE CrediterEnRetard(m)
    BY <1>1, <1>2, <2>4 DEF CrediterEnRetard
  <2>5. CASE UNCHANGED <<credits, encaisse>>
    BY <1>2, <2>5
  <2>. QED BY <2>1, <2>2, <2>3, <2>4, <2>5 DEF TransfererSansTrace, RetirerDuCompte, Denouer
<1>6. sorties' \in [nombre : Nat, somme : Nat] /\ sorties.somme <= sorties'.somme
  BY <1>1, <1>2 DEF CrediterCompte, ConfirmerPaiement, ConfirmerAvantCredit, CrediterEnRetard,
                    TransfererSansTrace, RetirerDuCompte, Denouer
<1>7. TypeSolde'
  BY <1>2, <1>3, <1>4, <1>5, <1>6 DEF NousSansChangement
<1>8. ConstatAttendu' /\ ConstatJuste'
  <2>1. UNCHANGED <<releves, lecture, deranges>>
    BY <1>3 DEF NousSansChangement
  <2>2. releves.constates \in Nat /\ sorties.somme \in Nat /\ sorties'.somme \in Nat
    BY <1>2, <1>6
  <2>. QED BY <1>2, <1>6, <2>1, <2>2 DEF ConstatAttendu, ConstatJuste
<1>. QED BY <1>7, <1>8 DEF IInvSolde

\* The steps of the service: a reading adds up what it read, and notes it.
LEMMA LecturePreserve ==
  ASSUME IInvSolde, LireSolde \/ PasDeReponse
  PROVE  IInvSolde'
<1>1. TypeSolde /\ ConstatAttendu /\ ConstatJuste
  BY DEF IInvSolde
<1>2. AuRepos \in [pc : EtapesLecture, solde : Int, payouts : [Payouts -> RetraitConnu], manque : Int]
  BY DEF AuRepos, EtapesLecture, RetraitConnu, SansRetrait
<1>3. UNCHANGED <<compte, credits, sorties, encaisse>> /\ UNCHANGED notes
  BY DEF LireSolde, Synchroniser, ListerRetraits, EnregistrerRetraits, ComparerSolde, constater,
         PasDeReponse, PrestataireInchange
<1>4. CASE Synchroniser \/ ListerRetraits \/ EnregistrerRetraits \/ PasDeReponse
  <2>1. UNCHANGED <<depuis, deranges>> /\ releves'.constates = releves.constates
        /\ lecture'.pc # "constater"
    <3>1. CASE Synchroniser
      BY <1>1, <3>1 DEF Synchroniser, TypeSolde
    <3>2. CASE ListerRetraits
      BY <1>1, <3>2 DEF ListerRetraits, TypeSolde
    <3>3. CASE EnregistrerRetraits
      BY <1>1, <3>3 DEF EnregistrerRetraits, TypeSolde
    <3>4. CASE PasDeReponse
      BY <1>1, <3>4 DEF PasDeReponse, AuRepos
    <3>. QED BY <1>4, <3>1, <3>2, <3>3, <3>4
  <2>2. TypeSolde'
    BY <1>1, <1>2, <1>3, <1>4, <2>1 DEF Synchroniser, ListerRetraits, EnregistrerRetraits,
       PasDeReponse, TypeSolde, EtapesLecture, AuRepos
  <2>. QED BY <1>1, <1>3, <2>1, <2>2 DEF IInvSolde, ConstatAttendu, ConstatJuste
<1>5. CASE ComparerSolde
  <2>. DEFINE m == manque(lecture.solde)
  <2>1. m \in Int
    <3>1. /\ encaisse \in Int /\ releves.constates \in Int /\ lecture.solde \in Int
          /\ sommeRetraits("REUSSI") \in Int /\ sommeRetraits("EN_COURS") \in Int
      BY <1>1, ActifsPartages DEF TypeSolde
    <3>. QED BY <3>1 DEF manque
  <2>2. /\ deranges' \in 0 .. 2
        /\ deranges' = 0 => deranges = 0 /\ Coherente
    BY <1>1, <1>5 DEF ComparerSolde, TypeSolde
  <2>3. UNCHANGED <<releves, sorties>> /\ UNCHANGED notes
    BY <1>3, <1>5 DEF ComparerSolde
  <2>4. ConstatJuste'
    BY <1>1, <2>2, <2>3 DEF ConstatJuste
  <2>5. CASE Manquant(m) /\ depuis = "mur"
    <3>1. lecture' = [lecture EXCEPT !.pc = "constater", !.manque = m] /\ depuis' = depuis
      BY <1>5, <2>5 DEF ComparerSolde
    <3>2. m \in Nat
      BY <2>1, <2>5, SoldeAssumption DEF Manquant
    <3>3. deranges' = 0 => releves.constates + m <= sorties.somme
      BY <1>1, <2>1, <2>2, ManqueExact DEF TypeSolde
    <3>. HIDE DEF m
    <3>4. TypeSolde'
      BY <1>1, <1>3, <2>1, <2>2, <2>3, <3>1 DEF TypeSolde, EtapesLecture
    <3>5. lecture'.manque = m
      BY <1>1, <3>1 DEF TypeSolde
    <3>6. ConstatAttendu'
      BY <2>3, <3>2, <3>3, <3>5 DEF ConstatAttendu
    <3>. QED BY <2>4, <3>4, <3>6 DEF IInvSolde
  <2>6. CASE ~(Manquant(m) /\ depuis = "mur")
    <3>1. lecture' = AuRepos /\ depuis' \in Depuis
      BY <1>1, <1>5, <2>6 DEF ComparerSolde, TypeSolde, Depuis
    <3>2. TypeSolde'
      BY <1>1, <1>2, <1>3, <2>2, <2>3, <3>1 DEF TypeSolde
    <3>3. ConstatAttendu'
      BY <3>1 DEF ConstatAttendu, AuRepos
    <3>. QED BY <2>4, <3>2, <3>3 DEF IInvSolde
  <2>. QED BY <2>5, <2>6
<1>6. CASE constater
  <2>1. /\ releves' = [releves EXCEPT !.constates = releves.constates + lecture.manque]
        /\ depuis' = "jamais" /\ lecture' = AuRepos /\ deranges' = deranges
        /\ lecture.manque \in Nat
        /\ deranges = 0 => releves.constates + lecture.manque <= sorties.somme
    BY <1>1, <1>6 DEF constater, ConstatAttendu
  <2>2. TypeSolde'
    BY <1>1, <1>2, <1>3, <2>1 DEF TypeSolde, Depuis
  <2>3. ConstatJuste'
    BY <1>1, <1>3, <2>1 DEF ConstatJuste, TypeSolde
  <2>4. ConstatAttendu'
    BY <2>1 DEF ConstatAttendu, AuRepos
  <2>. QED BY <2>2, <2>3, <2>4 DEF IInvSolde
<1>. QED BY <1>4, <1>5, <1>6 DEF LireSolde

\* Time passes, and the office notes a withdrawal it had read.
LEMMA AnnotationPreserve ==
  ASSUME IInvSolde, LaisserPasser \/ \E p \in Payouts : LireRetrait(p) \/ AnnoterRetrait(p)
  PROVE  IInvSolde'
<1>1. TypeSolde /\ ConstatAttendu /\ ConstatJuste
  BY DEF IInvSolde
<1>2. UNCHANGED <<compte, credits, sorties, encaisse, lecture, deranges>>
      /\ releves'.constates = releves.constates
  <2>1. ASSUME NEW p \in Payouts, AnnoterRetrait(p)
        PROVE  /\ UNCHANGED <<compte, credits, sorties, encaisse, lecture, deranges>>
               /\ releves'.constates = releves.constates
    BY <1>1, <2>1 DEF AnnoterRetrait, PrestataireInchange, TypeSolde
  <2>. QED BY <2>1 DEF LaisserPasser, LireRetrait, PrestataireInchange
<1>3. TypeSolde'
  <2>1. CASE LaisserPasser
    BY <1>1, <1>2, <2>1 DEF LaisserPasser, TypeSolde, Depuis
  <2>2. ASSUME NEW p \in Payouts, LireRetrait(p) PROVE TypeSolde'
    <3>1. releves.payouts[p] \in RetraitConnu
      BY <1>1, <2>2 DEF TypeSolde
    <3>. QED BY <1>1, <1>2, <2>2, <3>1 DEF LireRetrait, TypeSolde
  <2>3. ASSUME NEW p \in Payouts, AnnoterRetrait(p) PROVE TypeSolde'
    <3>1. notes[p] \in RetraitConnu /\ Annote \in RetraitConnu
      BY <1>1, <2>3 DEF TypeSolde, RetraitConnu, Annote
    <3>2. releves' = [releves EXCEPT !.payouts = [releves.payouts EXCEPT ![p] = notes[p]]]
      BY <1>1, <2>3 DEF AnnoterRetrait, TypeSolde
    <3>3. [releves.payouts EXCEPT ![p] = notes[p]] \in [Payouts -> RetraitConnu]
      BY <1>1, <2>3, <3>1 DEF TypeSolde
    <3>4. releves' \in [payouts : [Payouts -> RetraitConnu], constates : Nat]
      BY <1>1, <3>2, <3>3 DEF TypeSolde
    <3>5. notes' \in [Payouts -> RetraitConnu] /\ depuis' = depuis
      BY <1>1, <2>3, <3>1 DEF AnnoterRetrait, TypeSolde
    <3>. QED BY <1>1, <1>2, <3>4, <3>5 DEF TypeSolde
  <2>. QED BY <2>1, <2>2, <2>3
<1>. QED BY <1>1, <1>2, <1>3 DEF IInvSolde, ConstatAttendu, ConstatJuste

\* As long as no reading mixed figures of different moments, nothing is noted as
\* gone from the account that did not leave it, nor twice: whatever moves, at the
\* provider and here, between the steps of a reading and before it is written.
THEOREM ConstatToujoursJuste == SpecSolde => []ConstatJuste
<1>1. IInvSolde /\ [NextSolde]_varsSolde => IInvSolde'
  <2>. SUFFICES ASSUME IInvSolde, [NextSolde]_varsSolde PROVE IInvSolde'
    OBVIOUS
  <2>1. MontantsSolde \subseteq Nat
    BY SoldeAssumption
  <2>2. CASE \E m \in MontantsSolde :
               \/ CrediterCompte(m) \/ ConfirmerPaiement(m) \/ ConfirmerAvantCredit(m)
               \/ CrediterEnRetard(m) \/ TransfererSansTrace(m)
               \/ \E p \in Payouts : RetirerDuCompte(p, m)
    BY <2>1, <2>2, PrestatairePreserve
  <2>3. ASSUME NEW p \in Payouts, NEW s \in {"REUSSI", "ECHOUE"}, Denouer(p, s) PROVE IInvSolde'
    <3>1. 0 \in Nat
      OBVIOUS
    <3>. QED BY <2>3, <3>1, PrestatairePreserve
  <2>4. CASE UNCHANGED varsSolde
    BY <2>4 DEF varsSolde, IInvSolde, TypeSolde, ConstatAttendu, ConstatJuste
  <2>. QED BY <2>2, <2>3, <2>4, AnnotationPreserve, LecturePreserve DEF NextSolde
<1>2. IInvSolde => ConstatJuste
  BY DEF IInvSolde
<1>. QED BY <1>1, <1>2, DebutSolde, PTL DEF SpecSolde

------------------------------------------------------------------------------
(* Fonds: the inductive invariant.                                         *)

Depot == [statut : StatutsDepot, membre : Membres \cup {Personne}, montant : Nat]
Recette == [membre : Membres \cup {Personne}, montant : Nat]
RetraitAttribue == [reussi : BOOLEAN, detenteur : Membres \cup {Personne}, montant : Nat]

\* A request in the queue, and those that have opened a deposit.
PasDuDepot == {"ouvrir", "initier", "appele", "lancer", "appliquer", "renoncer", "refermer"}
Requete == [pc : {"enregistrer", "deposer"} \cup PasDuDepot, d : Declarations,
            ref : References \cup {Personne}]

\* What the request q asks is a way out of a pocket it has looked at.
Engagee(q) ==
  declarations[q].pc \in {"enregistrer", "deposer"} /\ declarations[q].d.type \in SORTIES

TypeFonds ==
  /\ JournalTypeOK
  /\ mouvements \in [Registre -> Nat] /\ Registre \subseteq Declarations /\ IsFiniteSet(Registre)
  /\ depots \in [References -> Depot]
  /\ preuves \in [Preuves -> Recette]
  /\ retraits \in [Retraits -> RetraitAttribue]
  /\ declarations \in [Demandeurs -> Requete \cup {Dehors}]
  /\ \A q \in Demandeurs : declarations[q].pc \in PasDuDepot => declarations[q].ref \in References
  /\ \A q \in Demandeurs : declarations[q].pc = "deposer" => declarations[q].d.type \in SORTIES
  /\ issues \subseteq References \X {"COMPLETE", "ECHOUE"}
  /\ abandons \subseteq References

\* One declaration at a time, and the pocket still holds what it is about to take.
Provision ==
  /\ \A q, o \in EnFile : q = o
  /\ \A q \in Demandeurs : Engagee(q) /\ declarations[q].d.membre \notin contestes
       => declarations[q].d.montant <= disponible(declarations[q].d.membre)

\* A deposit is in the journal once it is in the register, and reaches the platform
\* as the journal says, or is about to.
DepotAccorde(r) ==
  /\ depots[r].statut = "ABSENT" => journal[r].statut = "ABSENTE"
  /\ <<r, "COMPLETE">> \in issues \/ depots[r].statut = "VALIDE" => journal[r].statut = "COMPLETE"
  /\ journal[r].statut = "COMPLETE" /\ r \notin ecrases =>
       depots[r].statut = "VALIDE" \/ <<r, "COMPLETE">> \in issues
  /\ r \in abandons \/ (\E i \in issues : i[1] = r) => depots[r].statut # "ABSENT"

Accord ==
  /\ \A r \in References : DepotAccorde(r)
  /\ \A q \in Demandeurs : declarations[q].pc \in PasDuDepot =>
       depots[declarations[q].ref].statut # "ABSENT"

IInvFonds == TypeFonds /\ PocheSuffit /\ Provision /\ Accord

------------------------------------------------------------------------------
(* Sums as calculerPoches writes them.                                     *)

\* The sum of the movements of a bag that are like one of R.
CumulSac(B, R) ==
  (CHOOSE it : it = [s \in SUBSET R |->
     IF s = {} THEN 0
     ELSE (CHOOSE x \in s : TRUE).montant * B[CHOOSE x \in s : TRUE]
            + it[s \ {CHOOSE x \in s : TRUE}]])[R]

\* The sum of the amounts of the rows R of a table.
CumulTable(f, R) ==
  (CHOOSE it : it = [s \in SUBSET R |->
     IF s = {} THEN 0
     ELSE f[CHOOSE x \in s : TRUE].montant + it[s \ {CHOOSE x \in s : TRUE}]])[R]

\* A sum over a part of S is the sum over S of terms that are zero elsewhere.
LEMMA CumulSacSomme ==
  ASSUME NEW S, IsFiniteSet(S), NEW R \in SUBSET S, NEW B, NEW g,
         \A x \in R : g[x] = x.montant * B[x] /\ g[x] \in Int,
         \A x \in S \ R : g[x] = 0
  PROVE  CumulSac(B, R) = Somme(g, S)
<1>. DEFINE E(it) == [s \in SUBSET R |-> IF s = {} THEN 0
                        ELSE (CHOOSE x \in s : TRUE).montant * B[CHOOSE x \in s : TRUE]
                               + it[s \ {CHOOSE x \in s : TRUE}]]
            c == CHOOSE it : it = E(it)
<1>1. IsFiniteSet(R)
  BY FS_Subset
<1>2. CumulSac(B, R) = c[R]
  BY DEF CumulSac
<1>3. \A it : Deroule(it, g, R) <=> it = E(it)
  <2>1. \A s \in SUBSET R : s # {} =>
          g[CHOOSE x \in s : TRUE]
            = (CHOOSE x \in s : TRUE).montant * B[CHOOSE x \in s : TRUE]
    OBVIOUS
  <2>2. ASSUME NEW it
        PROVE  [s \in SUBSET R |-> Pas(it, g, s)] = E(it)
    BY <2>1 DEF Pas, Choix
  <2>. HIDE DEF E
  <2>. QED BY <2>2 DEF Deroule
<1>4. Deroule(c, g, R)
  <2>1. \E it : it = E(it)
    <3>. HIDE DEF E
    <3>. QED BY <1>1, <1>3, SommeExiste
  <2>. HIDE DEF E
  <2>2. c = E(c)
    BY <2>1, Zenon
  <2>. HIDE DEF c
  <2>. QED BY <1>3, <2>2
<1>. HIDE DEF c
<1>5. c[R] = Somme(g, R)
  <2>1. R \in SUBSET R /\ \A x \in R : g[x] = g[x]
    OBVIOUS
  <2>2. \A it : Deroule(it, g, R) => it[R] = Somme(g, R)
    BY <1>1, <2>1, SommePartielle
  <2>. QED BY <1>4, <2>2
<1>6. Somme(g, R) = Somme(g, S)
  BY SommeFiltre
<1>. QED BY <1>2, <1>5, <1>6

LEMMA CumulTableSomme ==
  ASSUME NEW S, IsFiniteSet(S), NEW R \in SUBSET S, NEW f, NEW g,
         \A x \in R : g[x] = f[x].montant /\ g[x] \in Int,
         \A x \in S \ R : g[x] = 0
  PROVE  CumulTable(f, R) = Somme(g, S)
<1>. DEFINE E(it) == [s \in SUBSET R |-> IF s = {} THEN 0
                        ELSE f[CHOOSE x \in s : TRUE].montant
                               + it[s \ {CHOOSE x \in s : TRUE}]]
            c == CHOOSE it : it = E(it)
<1>1. IsFiniteSet(R)
  BY FS_Subset
<1>2. CumulTable(f, R) = c[R]
  BY DEF CumulTable
<1>3. \A it : Deroule(it, g, R) <=> it = E(it)
  <2>1. \A s \in SUBSET R : s # {} =>
          g[CHOOSE x \in s : TRUE] = f[CHOOSE x \in s : TRUE].montant
    OBVIOUS
  <2>2. ASSUME NEW it
        PROVE  [s \in SUBSET R |-> Pas(it, g, s)] = E(it)
    BY <2>1 DEF Pas, Choix
  <2>. HIDE DEF E
  <2>. QED BY <2>2 DEF Deroule
<1>4. Deroule(c, g, R)
  <2>1. \E it : it = E(it)
    <3>. HIDE DEF E
    <3>. QED BY <1>1, <1>3, SommeExiste
  <2>. HIDE DEF E
  <2>2. c = E(c)
    BY <2>1, Zenon
  <2>. HIDE DEF c
  <2>. QED BY <1>3, <2>2
<1>. HIDE DEF c
<1>5. c[R] = Somme(g, R)
  <2>1. R \in SUBSET R /\ \A x \in R : g[x] = g[x]
    OBVIOUS
  <2>2. \A it : Deroule(it, g, R) => it[R] = Somme(g, R)
    BY <1>1, <2>1, SommePartielle
  <2>. QED BY <1>4, <2>2
<1>6. Somme(g, R) = Somme(g, S)
  BY SommeFiltre
<1>. QED BY <1>2, <1>5, <1>6

LEMMA MouvementsEstCumul == \A R : TotalMouvements(R) = CumulSac(mouvements, R)
BY Zenon DEF TotalMouvements, CumulSac, MapThenSumSet, MapThenFoldSet

LEMMA DepotsEstCumul ==
  \A m, s : TotalDepots(m, s) =
    CumulTable(depots, {r \in References : depots[r].membre = m /\ depots[r].statut = s})
BY Zenon DEF TotalDepots, CumulTable, MapThenSumSet, MapThenFoldSet

LEMMA RetireEstCumul ==
  \A m : retire(m) =
    CumulTable(retraits, {w \in Retraits : retraits[w].reussi /\ retraits[w].detenteur = m})
BY Zenon DEF retire, CumulTable, MapThenSumSet, MapThenFoldSet

LEMMA RecuEstCumul ==
  \A m : recu(m) = TotalMouvements({d \in Registre : d.type = "RECEPTION" /\ d.membre = m})
                     + CumulTable(preuves, {p \in Preuves : preuves[p].membre = m})
BY Zenon DEF recu, CumulTable, MapThenSumSet, MapThenFoldSet

------------------------------------------------------------------------------
(* What a pocket is made of.                                               *)

Receptions(m) == {d \in Declarations : d.type = "RECEPTION" /\ d.membre = m}
ArriveesChez(m) == {d \in Declarations : d.contrepartie = m}
Departs(m) == {d \in Declarations : d.type \in SORTIES /\ d.membre = m}

\* What each movement, proof, withdrawal and deposit counts for.
Mouvements(B, E) == [d \in DOMAIN B |-> IF d \in E THEN d.montant * B[d] ELSE 0]
Recettes(P, m) == [p \in Preuves |-> IF P[p].membre = m THEN P[p].montant ELSE 0]
Attribues(W, m) ==
  [w \in Retraits |-> IF W[w].reussi /\ W[w].detenteur = m THEN W[w].montant ELSE 0]
Places(D, m, S) ==
  [r \in References |-> IF D[r].membre = m /\ D[r].statut \in S THEN D[r].montant ELSE 0]

Sac(B) == B \in [DOMAIN B -> Nat] /\ DOMAIN B \subseteq Declarations /\ IsFiniteSet(DOMAIN B)

\* The total of the movements of E.
Porte(B, E) == Somme(Mouvements(B, E), DOMAIN B)

EnDepot == {"EN_ATTENTE", "VALIDE"}

Poche(B, P, W, D, m) ==
  Porte(B, Receptions(m)) + Somme(Recettes(P, m), Preuves) + Somme(Attribues(W, m), Retraits)
    + Porte(B, ArriveesChez(m)) - Porte(B, Departs(m)) - Somme(Places(D, m, EnDepot), References)

LEMMA DeclarationsTypees == \A d \in Declarations : d.montant \in Nat
<1>1. \A d \in Declarations : d.montant \in Sommes
  BY DEF Declarations
<1>2. Sommes \subseteq Nat
  BY FondsAssumption
<1>. QED BY <1>1, <1>2

LEMMA ProduitType == \A a, b \in Nat : a * b \in Nat /\ a * (b + 1) = a * b + a /\ a * 1 = a
OBVIOUS

LEMMA MouvementsTypes ==
  ASSUME NEW B, Sac(B), NEW E
  PROVE  \A d \in DOMAIN B : Mouvements(B, E)[d] \in Nat
<1>. SUFFICES ASSUME NEW d \in DOMAIN B PROVE Mouvements(B, E)[d] \in Nat
  OBVIOUS
<1>1. d.montant \in Nat /\ B[d] \in Nat
  BY DeclarationsTypees DEF Sac
<1>2. d.montant * B[d] \in Nat
  BY <1>1, ProduitType
<1>. QED BY <1>2 DEF Mouvements

LEMMA PorteType ==
  ASSUME NEW B, Sac(B), NEW E
  PROVE  Porte(B, E) \in Nat
<1>1. IsFiniteSet(DOMAIN B)
  BY DEF Sac
<1>2. \A d \in DOMAIN B : Mouvements(B, E)[d] \in Nat
  BY MouvementsTypes
<1>. HIDE DEF Mouvements
<1>. QED BY <1>1, <1>2, SommeType DEF Porte

\* A movement more counts for its amount where it counts.
LEMMA PorteAjoute ==
  ASSUME NEW B, Sac(B), NEW E, NEW d \in Declarations, NEW C, C = B (+) SetToBag({d})
  PROVE  Sac(C) /\ Porte(C, E) = Porte(B, E) + (IF d \in E THEN d.montant ELSE 0)
<1>. DEFINE S == DOMAIN B
            g == Mouvements(B, E)
            h == Mouvements(C, E)
<1>1. /\ DOMAIN C = S \cup {d}
      /\ \A e \in S \ {d} : C[e] = B[e]
      /\ C[d] = (IF d \in S THEN B[d] + 1 ELSE 1)
      /\ C \in [S \cup {d} -> Nat]
  BY DEF Sac, (+), SetToBag
<1>2. IsFiniteSet(S) /\ IsFiniteSet(S \cup {d}) /\ S \subseteq Declarations
  BY FS_AddElement DEF Sac
<1>3. Sac(C)
  BY <1>1, <1>2 DEF Sac
<1>4. (\A e \in S : g[e] \in Int) /\ \A e \in S \cup {d} : h[e] \in Int
  <2>1. (\A e \in S : g[e] \in Nat) /\ \A e \in DOMAIN C : h[e] \in Nat
    BY <1>3, MouvementsTypes
  <2>. QED BY <1>1, <2>1
<1>5. \A e \in S \ {d} : g[e] = h[e]
  BY <1>1 DEF Mouvements
<1>6. d.montant \in Nat
  BY DeclarationsTypees
<1>7. CASE d \in S
  <2>1. h[d] = g[d] + (IF d \in E THEN d.montant ELSE 0)
    <3>1. B[d] \in Nat /\ C[d] = B[d] + 1
      BY <1>1, <1>7 DEF Sac
    <3>2. d.montant * C[d] = d.montant * B[d] + d.montant
      BY <1>6, <3>1, ProduitType
    <3>. QED BY <1>1, <1>7, <3>2 DEF Mouvements
  <2>2. DOMAIN C = S
    BY <1>1, <1>7
  <2>3. g[d] \in Int /\ Somme(g, S) \in Int
    <3>1. \A e \in S : g[e] \in Int
      BY <1>4
    <3>. HIDE DEF g
    <3>. QED BY <1>2, <1>7, <3>1, SommeType
  <2>4. Somme(h, S) = Somme(g, S) - g[d] + h[d]
    <3>1. \A e \in S : g[e] \in Int /\ h[e] \in Int
      BY <1>4
    <3>. HIDE DEF g, h
    <3>. QED BY <1>2, <1>5, <1>7, <3>1, SommeChange
  <2>. HIDE DEF g, h, S
  <2>. QED BY <1>3, <1>6, <2>1, <2>2, <2>3, <2>4 DEF Porte, g, h, S
<1>8. CASE d \notin S
  <2>1. h[d] = (IF d \in E THEN d.montant ELSE 0)
    BY <1>1, <1>6, <1>8, ProduitType DEF Mouvements
  <2>2. Somme(h, S \cup {d}) = h[d] + Somme(h, S)
    <3>1. h[d] \in Int /\ \A e \in S : h[e] \in Int
      BY <1>4
    <3>. HIDE DEF h
    <3>. QED BY <1>2, <1>8, <3>1, SommeAjoute
  <2>3. Somme(g, S) = Somme(h, S)
    <3>1. \A e \in S : g[e] = h[e]
      BY <1>5, <1>8
    <3>. HIDE DEF g, h
    <3>. QED BY <1>2, <3>1, SommeEgale
  <2>4. Somme(g, S) \in Int
    <3>1. \A e \in S : g[e] \in Int
      BY <1>4
    <3>. HIDE DEF g
    <3>. QED BY <1>2, <3>1, SommeType
  <2>. HIDE DEF g, h, S
  <2>. QED BY <1>1, <1>3, <1>6, <2>1, <2>2, <2>3, <2>4 DEF Porte, g, h, S
<1>. QED BY <1>7, <1>8

\* Each part of a pocket is a sum of naturals.
LEMMA PartsTypees ==
  ASSUME NEW P \in [Preuves -> Recette], NEW W \in [Retraits -> RetraitAttribue],
         NEW D \in [References -> Depot], NEW m, NEW S
  PROVE  /\ \A p \in Preuves : Recettes(P, m)[p] \in Nat
         /\ \A w \in Retraits : Attribues(W, m)[w] \in Nat
         /\ \A r \in References : Places(D, m, S)[r] \in Nat
         /\ Somme(Recettes(P, m), Preuves) \in Nat
         /\ Somme(Attribues(W, m), Retraits) \in Nat
         /\ Somme(Places(D, m, S), References) \in Nat
<1>1. \A p \in Preuves : Recettes(P, m)[p] \in Nat
  BY DEF Recettes, Recette
<1>2. \A w \in Retraits : Attribues(W, m)[w] \in Nat
  BY DEF Attribues, RetraitAttribue
<1>3. \A r \in References : Places(D, m, S)[r] \in Nat
  BY DEF Places, Depot
<1>4. IsFiniteSet(Preuves) /\ IsFiniteSet(Retraits) /\ IsFiniteSet(References)
  BY TablesAssumption, ReferencesAssumption
<1>. HIDE DEF Recettes, Attribues, Places
<1>5. Somme(Recettes(P, m), Preuves) \in Nat
  BY <1>1, <1>4, SommeType
<1>6. Somme(Attribues(W, m), Retraits) \in Nat
  BY <1>2, <1>4, SommeType
<1>7. Somme(Places(D, m, S), References) \in Nat
  BY <1>3, <1>4, SommeType
<1>. QED BY <1>1, <1>2, <1>3, <1>5, <1>6, <1>7

LEMMA PocheType ==
  ASSUME NEW B, Sac(B), NEW P \in [Preuves -> Recette],
         NEW W \in [Retraits -> RetraitAttribue], NEW D \in [References -> Depot], NEW m
  PROVE  Poche(B, P, W, D, m) \in Int
<1>1. Porte(B, Receptions(m)) \in Nat /\ Porte(B, ArriveesChez(m)) \in Nat /\ Porte(B, Departs(m)) \in Nat
  BY PorteType
<1>2. /\ Somme(Recettes(P, m), Preuves) \in Nat /\ Somme(Attribues(W, m), Retraits) \in Nat
      /\ Somme(Places(D, m, EnDepot), References) \in Nat
  BY PartsTypees
<1>. QED BY <1>1, <1>2 DEF Poche

\* disponible is what calculerPoches adds up.
LEMMA DisponibleEstPoche ==
  ASSUME TypeFonds
  PROVE  \A m \in Membres : disponible(m) = Poche(mouvements, preuves, retraits, depots, m)
<1>1. /\ Sac(mouvements) /\ preuves \in [Preuves -> Recette]
      /\ retraits \in [Retraits -> RetraitAttribue] /\ depots \in [References -> Depot]
  BY DEF TypeFonds, Sac, Registre, BagToSet
<1>2. SUFFICES ASSUME NEW m \in Membres
               PROVE  disponible(m) = Poche(mouvements, preuves, retraits, depots, m)
  OBVIOUS
<1>3. IsFiniteSet(Preuves) /\ IsFiniteSet(Retraits) /\ IsFiniteSet(References)
  BY TablesAssumption, ReferencesAssumption
<1>4. ASSUME NEW E \in SUBSET Declarations
      PROVE  CumulSac(mouvements, Registre \cap E) = Porte(mouvements, E)
  <2>. DEFINE g == Mouvements(mouvements, E)
  <2>1. Registre = DOMAIN mouvements /\ IsFiniteSet(Registre) /\ Registre \cap E \in SUBSET Registre
    BY <1>1 DEF Sac, Registre, BagToSet
  <2>2. \A d \in Registre : g[d] \in Nat
    BY <1>1, <2>1, MouvementsTypes
  <2>3. /\ \A d \in Registre \cap E : g[d] = d.montant * mouvements[d]
        /\ \A d \in Registre \ (Registre \cap E) : g[d] = 0
    BY <2>1 DEF Mouvements
  <2>. HIDE DEF g
  <2>4. \A d \in Registre \cap E : g[d] = d.montant * mouvements[d] /\ g[d] \in Int
    BY <2>2, <2>3
  <2>5. CumulSac(mouvements, Registre \cap E) = Somme(g, Registre)
    BY <2>1, <2>3, <2>4, CumulSacSomme
  <2>. QED BY <2>1, <2>5 DEF Porte, g
<1>5. /\ {d \in Registre : d.type = "RECEPTION" /\ d.membre = m} = Registre \cap Receptions(m)
      /\ {d \in Registre : d.contrepartie = m} = Registre \cap ArriveesChez(m)
      /\ {d \in Registre : d.type \in SORTIES /\ d.membre = m} = Registre \cap Departs(m)
  BY <1>1 DEF Sac, Registre, BagToSet, Receptions, ArriveesChez, Departs
<1>6. /\ TotalMouvements({d \in Registre : d.type = "RECEPTION" /\ d.membre = m})
           = Porte(mouvements, Receptions(m))
      /\ TotalMouvements({d \in Registre : d.contrepartie = m}) = Porte(mouvements, ArriveesChez(m))
      /\ TotalMouvements({d \in Registre : d.type \in SORTIES /\ d.membre = m})
           = Porte(mouvements, Departs(m))
  <2>1. Receptions(m) \in SUBSET Declarations /\ ArriveesChez(m) \in SUBSET Declarations
        /\ Departs(m) \in SUBSET Declarations
    BY DEF Receptions, ArriveesChez, Departs
  <2>. QED BY <1>4, <1>5, <2>1, MouvementsEstCumul
<1>7. CumulTable(preuves, {p \in Preuves : preuves[p].membre = m}) = Somme(Recettes(preuves, m), Preuves)
  <2>. DEFINE g == Recettes(preuves, m)
              R == {p \in Preuves : preuves[p].membre = m}
  <2>1. \A p \in Preuves : g[p] \in Nat
    BY <1>1, PartsTypees
  <2>2. (\A p \in R : g[p] = preuves[p].montant) /\ \A p \in Preuves \ R : g[p] = 0
    BY DEF Recettes
  <2>3. R \in SUBSET Preuves
    OBVIOUS
  <2>. HIDE DEF g, R
  <2>4. \A p \in R : g[p] = preuves[p].montant /\ g[p] \in Int
    BY <2>1, <2>2, <2>3
  <2>5. CumulTable(preuves, R) = Somme(g, Preuves)
    BY <1>3, <2>2, <2>3, <2>4, CumulTableSomme
  <2>. QED BY <2>5 DEF g, R
<1>8. retire(m) = Somme(Attribues(retraits, m), Retraits)
  <2>. DEFINE g == Attribues(retraits, m)
              R == {w \in Retraits : retraits[w].reussi /\ retraits[w].detenteur = m}
  <2>1. \A w \in Retraits : g[w] \in Nat
    BY <1>1, PartsTypees
  <2>2. (\A w \in R : g[w] = retraits[w].montant) /\ \A w \in Retraits \ R : g[w] = 0
    BY DEF Attribues
  <2>3. R \in SUBSET Retraits
    OBVIOUS
  <2>. HIDE DEF g, R
  <2>4. \A w \in R : g[w] = retraits[w].montant /\ g[w] \in Int
    BY <2>1, <2>2, <2>3
  <2>5. CumulTable(retraits, R) = Somme(g, Retraits)
    BY <1>3, <2>2, <2>3, <2>4, CumulTableSomme
  <2>. QED BY <2>5, RetireEstCumul DEF g, R
<1>9. ASSUME NEW s
      PROVE  TotalDepots(m, s) = Somme(Places(depots, m, {s}), References)
  <2>. DEFINE g == Places(depots, m, {s})
              R == {r \in References : depots[r].membre = m /\ depots[r].statut = s}
  <2>1. \A r \in References : g[r] \in Nat
    BY <1>1, PartsTypees
  <2>2. (\A r \in R : g[r] = depots[r].montant) /\ \A r \in References \ R : g[r] = 0
    BY DEF Places
  <2>3. R \in SUBSET References
    OBVIOUS
  <2>. HIDE DEF g, R
  <2>4. \A r \in R : g[r] = depots[r].montant /\ g[r] \in Int
    BY <2>1, <2>2, <2>3
  <2>5. CumulTable(depots, R) = Somme(g, References)
    BY <1>3, <2>2, <2>3, <2>4, CumulTableSomme
  <2>. QED BY <2>5, DepotsEstCumul DEF g, R
<1>10. Somme(Places(depots, m, EnDepot), References)
         = Somme(Places(depots, m, {"VALIDE"}), References)
             + Somme(Places(depots, m, {"EN_ATTENTE"}), References)
  <2>. DEFINE g == Places(depots, m, {"VALIDE"})
              h == Places(depots, m, {"EN_ATTENTE"})
              k == Places(depots, m, EnDepot)
  <2>1. \A r \in References : g[r] \in Nat /\ h[r] \in Nat
    BY <1>1, PartsTypees
  <2>2. \A r \in References : depots[r].montant \in Nat
    BY <1>1 DEF Depot
  <2>3. \A r \in References : k[r] = g[r] + h[r]
    BY <2>2 DEF Places, EnDepot
  <2>. HIDE DEF g, h, k
  <2>4. \A r \in References : g[r] \in Int /\ h[r] \in Int /\ k[r] = g[r] + h[r]
    BY <2>1, <2>3
  <2>5. Somme(k, References) = Somme(g, References) + Somme(h, References)
    BY <1>3, <2>4, SommesJointes
  <2>. QED BY <2>5 DEF g, h, k
<1>11. /\ Porte(mouvements, Receptions(m)) \in Nat /\ Porte(mouvements, ArriveesChez(m)) \in Nat
       /\ Porte(mouvements, Departs(m)) \in Nat
  BY <1>1, PorteType
<1>12. /\ Somme(Recettes(preuves, m), Preuves) \in Nat /\ Somme(Attribues(retraits, m), Retraits) \in Nat
       /\ Somme(Places(depots, m, {"VALIDE"}), References) \in Nat
       /\ Somme(Places(depots, m, {"EN_ATTENTE"}), References) \in Nat
  BY <1>1, PartsTypees
<1>13. recu(m) = Porte(mouvements, Receptions(m)) + Somme(Recettes(preuves, m), Preuves)
  BY <1>6, <1>7, RecuEstCumul
<1>14. /\ transfertsRecus(m) = Porte(mouvements, ArriveesChez(m))
       /\ sorti(m) = Porte(mouvements, Departs(m)) + Somme(Places(depots, m, {"VALIDE"}), References)
       /\ enRoute(m) = Somme(Places(depots, m, {"EN_ATTENTE"}), References)
  BY <1>6, <1>9 DEF transfertsRecus, sorti, enRoute
<1>. QED BY <1>8, <1>10, <1>11, <1>12, <1>13, <1>14 DEF disponible, detient, Poche

\* One row changes: so does its term of the sum, and it only.
LEMMA PreuveChange ==
  ASSUME NEW P \in [Preuves -> Recette], NEW Q \in [Preuves -> Recette], NEW x \in Preuves,
         \A y \in Preuves \ {x} : Q[y] = P[y], NEW m
  PROVE  Somme(Recettes(Q, m), Preuves)
           = Somme(Recettes(P, m), Preuves) - Recettes(P, m)[x] + Recettes(Q, m)[x]
<1>. DEFINE g == Recettes(P, m)
            h == Recettes(Q, m)
<1>1. (\A y \in Preuves : g[y] \in Nat) /\ \A y \in Preuves : h[y] \in Nat
  BY DEF Recettes, Recette
<1>2. \A y \in Preuves \ {x} : g[y] = h[y]
  BY DEF Recettes
<1>. HIDE DEF g, h
<1>3. \A y \in Preuves : g[y] \in Int /\ h[y] \in Int
  BY <1>1
<1>4. Somme(h, Preuves) = Somme(g, Preuves) - g[x] + h[x]
  BY <1>2, <1>3, SommeChange, TablesAssumption
<1>. QED BY <1>4 DEF g, h

LEMMA RetraitChange ==
  ASSUME NEW P \in [Retraits -> RetraitAttribue], NEW Q \in [Retraits -> RetraitAttribue],
         NEW x \in Retraits, \A y \in Retraits \ {x} : Q[y] = P[y], NEW m
  PROVE  Somme(Attribues(Q, m), Retraits)
           = Somme(Attribues(P, m), Retraits) - Attribues(P, m)[x] + Attribues(Q, m)[x]
<1>. DEFINE g == Attribues(P, m)
            h == Attribues(Q, m)
<1>1. (\A y \in Retraits : g[y] \in Nat) /\ \A y \in Retraits : h[y] \in Nat
  BY DEF Attribues, RetraitAttribue
<1>2. \A y \in Retraits \ {x} : g[y] = h[y]
  BY DEF Attribues
<1>. HIDE DEF g, h
<1>3. \A y \in Retraits : g[y] \in Int /\ h[y] \in Int
  BY <1>1
<1>4. Somme(h, Retraits) = Somme(g, Retraits) - g[x] + h[x]
  BY <1>2, <1>3, SommeChange, TablesAssumption
<1>. QED BY <1>4 DEF g, h

LEMMA DepotChange ==
  ASSUME NEW P \in [References -> Depot], NEW Q \in [References -> Depot],
         NEW x \in References, \A y \in References \ {x} : Q[y] = P[y], NEW m, NEW S
  PROVE  Somme(Places(Q, m, S), References)
           = Somme(Places(P, m, S), References) - Places(P, m, S)[x] + Places(Q, m, S)[x]
<1>. DEFINE g == Places(P, m, S)
            h == Places(Q, m, S)
<1>1. (\A y \in References : g[y] \in Nat) /\ \A y \in References : h[y] \in Nat
  BY DEF Places, Depot
<1>2. \A y \in References \ {x} : g[y] = h[y]
  BY DEF Places
<1>. HIDE DEF g, h
<1>3. \A y \in References : g[y] \in Int /\ h[y] \in Int
  BY <1>1
<1>4. Somme(h, References) = Somme(g, References) - g[x] + h[x]
  BY <1>2, <1>3, SommeChange, ReferencesAssumption
<1>. QED BY <1>4 DEF g, h

------------------------------------------------------------------------------
(* Types.                                                                  *)

\* A request in the queue is a full record, and the only one.
LEMMA EnFileValeur ==
  ASSUME TypeFonds, NEW q \in Demandeurs, declarations[q].pc # "dehors"
  PROVE  declarations[q] \in Requete /\ q \in EnFile
<1>1. declarations[q] \in Requete \cup {Dehors}
  BY DEF TypeFonds
<1>2. declarations[q] # Dehors
  BY DEF Dehors
<1>. QED BY <1>1, <1>2 DEF EnFile

LEMMA DehorsPas == Dehors.pc = "dehors" /\ Dehors.pc \notin PasDuDepot
BY DEF Dehors, PasDuDepot

\* A request that goes on, or leaves the queue.
LEMMA AvanceType ==
  ASSUME TypeFonds, NEW q \in Demandeurs, declarations[q].pc \in PasDuDepot,
         NEW pc \in PasDuDepot, Avancer(q, pc) \/ Sortir(q)
  PROVE  /\ declarations' \in [Demandeurs -> Requete \cup {Dehors}]
         /\ \A o \in Demandeurs : declarations'[o].pc \in PasDuDepot => declarations'[o].ref \in References
         /\ \A o \in Demandeurs : declarations'[o].pc = "deposer" => declarations'[o].d.type \in SORTIES
         /\ \A o \in Demandeurs : declarations'[o] # Dehors => declarations[o] # Dehors
         /\ \A o \in Demandeurs : declarations'[o].pc \in PasDuDepot =>
              declarations[o].pc \in PasDuDepot /\ declarations'[o].ref = declarations[o].ref
         /\ \A o \in Demandeurs : declarations'[o].pc \in {"enregistrer", "deposer"} =>
              declarations'[o] = declarations[o]
<1>1. declarations[q] \in Requete /\ declarations[q].ref \in References
  BY EnFileValeur DEF TypeFonds, PasDuDepot
<1>2. declarations \in [Demandeurs -> Requete \cup {Dehors}]
  BY DEF TypeFonds
<1>3. PICK x : /\ declarations' = [declarations EXCEPT ![q] = x]
               /\ \/ x = Dehors
                  \/ x \in Requete /\ x.pc \in PasDuDepot /\ x.ref = declarations[q].ref
  <2>1. CASE Avancer(q, pc)
    <3>1. declarations' = [declarations EXCEPT ![q] = [declarations[q] EXCEPT !.pc = pc]]
      BY <2>1 DEF Avancer
    <3>2. /\ [declarations[q] EXCEPT !.pc = pc] \in Requete
          /\ [declarations[q] EXCEPT !.pc = pc].pc = pc
          /\ [declarations[q] EXCEPT !.pc = pc].ref = declarations[q].ref
      BY <1>1 DEF Requete
    <3>. QED BY <3>1, <3>2
  <2>2. CASE Sortir(q)
    BY <2>2 DEF Sortir
  <2>. QED BY <2>1, <2>2
<1>4. /\ declarations'[q] = x
      /\ \A o \in Demandeurs \ {q} : declarations'[o] = declarations[o]
      /\ declarations' \in [Demandeurs -> Requete \cup {Dehors}]
  BY <1>2, <1>3
<1>5. x.pc \notin {"enregistrer", "deposer"} /\ declarations[q] # Dehors
  BY <1>1, <1>3, DehorsPas DEF PasDuDepot
<1>6. x.pc \in PasDuDepot => x.ref = declarations[q].ref
  BY <1>3, DehorsPas
<1>. QED BY <1>1, <1>4, <1>5, <1>6 DEF TypeFonds

\* A request that leaves the queue.
LEMMA SortieType ==
  ASSUME TypeFonds, NEW q \in Demandeurs, Sortir(q)
  PROVE  /\ declarations' \in [Demandeurs -> Requete \cup {Dehors}]
         /\ declarations'[q] = Dehors
         /\ \A o \in Demandeurs \ {q} : declarations'[o] = declarations[o]
BY DEF TypeFonds, Sortir

\* What the journal, the register, the deposits and the queue become.
JournalTient == JournalTypeOK'
RegistreTient == Sac(mouvements')
DepotsTiennent == depots' \in [References -> Depot]
AutresTiennent ==
  /\ preuves' \in [Preuves -> Recette] /\ retraits' \in [Retraits -> RetraitAttribue]
  /\ issues' \subseteq References \X {"COMPLETE", "ECHOUE"} /\ abandons' \subseteq References
FileTient ==
  /\ declarations' \in [Demandeurs -> Requete \cup {Dehors}]
  /\ \A q \in Demandeurs : declarations'[q].pc \in PasDuDepot => declarations'[q].ref \in References
  /\ \A q \in Demandeurs : declarations'[q].pc = "deposer" => declarations'[q].d.type \in SORTIES

LEMMA TypesTiennent ==
  ASSUME JournalTient, RegistreTient, DepotsTiennent, AutresTiennent, FileTient
  PROVE  TypeFonds'
BY DEF JournalTient, RegistreTient, DepotsTiennent, AutresTiennent, FileTient, TypeFonds, Sac,
       Registre, BagToSet

LEMMA Inchanges ==
  ASSUME TypeFonds
  PROVE  /\ journal' = journal => JournalTient
         /\ mouvements' = mouvements => RegistreTient
         /\ depots' = depots => DepotsTiennent
         /\ preuves' = preuves /\ retraits' = retraits /\ issues' = issues /\ abandons' = abandons
              => AutresTiennent
         /\ declarations' = declarations => FileTient
BY DEF JournalTient, RegistreTient, DepotsTiennent, AutresTiennent, FileTient, TypeFonds, Sac,
       Registre, BagToSet, JournalTypeOK

LEMMA DepotEcritType ==
  ASSUME TypeFonds, NEW r \in References, NEW s \in StatutsDepot,
         depots' = [depots EXCEPT ![r].statut = s]
  PROVE  /\ DepotsTiennent
         /\ depots'[r].statut = s /\ depots'[r].membre = depots[r].membre
         /\ depots'[r].montant = depots[r].montant
         /\ \A x \in References \ {r} : depots'[x] = depots[x]
<1>1. depots \in [References -> Depot] /\ depots[r] \in Depot
  BY DEF TypeFonds
<1>2. depots' = [depots EXCEPT ![r] = [depots[r] EXCEPT !.statut = s]]
  OBVIOUS
<1>3. /\ [depots[r] EXCEPT !.statut = s] \in Depot
      /\ [depots[r] EXCEPT !.statut = s].statut = s
      /\ [depots[r] EXCEPT !.statut = s].membre = depots[r].membre
      /\ [depots[r] EXCEPT !.statut = s].montant = depots[r].montant
  BY <1>1 DEF Depot
<1>. QED BY <1>1, <1>2, <1>3 DEF DepotsTiennent

LEMMA TypeDeclarations ==
  ASSUME TypeFonds, NEW q \in Demandeurs,
         \/ \E d \in Declarations : Declarer(q, d)
         \/ \E r \in References : EnregistrerDepot(q, r)
         \/ EnregistrerMouvement(q) \/ OuvrirDepot(q) \/ InitierDepot(q) \/ ConclureDepot(q)
         \/ LancerDepot(q) \/ AppliquerDepot(q) \/ RenoncerDepot(q) \/ RefermerDepot(q)
  PROVE  TypeFonds'
<1>1. ASSUME NEW d \in Declarations, Declarer(q, d) PROVE TypeFonds'
  <2>1. PICK x : /\ declarations' = [declarations EXCEPT ![q] = x]
                 /\ x = [pc |-> IF d.type = "DEPOT_PLATEFORME" THEN "deposer" ELSE "enregistrer",
                         d |-> d, ref |-> Personne]
    BY <1>1 DEF Declarer
  <2>2. x \in Requete /\ x.pc \notin PasDuDepot /\ (x.pc = "deposer" => x.d.type \in SORTIES)
    BY <2>1 DEF Requete, PasDuDepot, SORTIES
  <2>3. FileTient
    BY <2>1, <2>2 DEF FileTient, TypeFonds
  <2>4. UNCHANGED <<journal, mouvements, depots, preuves, retraits, issues, abandons>>
    BY <1>1 DEF Declarer, RegistreInchange
  <2>. QED BY <2>3, <2>4, Inchanges, TypesTiennent
<1>2. ASSUME NEW r \in References, EnregistrerDepot(q, r) PROVE TypeFonds'
  <2>1. declarations[q] \in Requete
    BY <1>2, EnFileValeur DEF EnregistrerDepot
  <2>2. PICK x : /\ declarations' = [declarations EXCEPT ![q] = x]
                 /\ x = [declarations[q] EXCEPT !.pc = "ouvrir", !.ref = r]
    BY <1>2 DEF EnregistrerDepot
  <2>3. x \in Requete /\ x.pc = "ouvrir" /\ x.ref = r
    BY <2>1, <2>2 DEF Requete, PasDuDepot
  <2>4. FileTient
    BY <2>2, <2>3 DEF FileTient, TypeFonds
  <2>5. DepotsTiennent
    <3>1. declarations[q].d.membre \in Membres /\ declarations[q].d.montant \in Nat
      BY <2>1, DeclarationsTypees DEF Requete, Declarations
    <3>2. [statut |-> "EN_ATTENTE", membre |-> declarations[q].d.membre,
           montant |-> declarations[q].d.montant] \in Depot
      BY <3>1 DEF Depot, StatutsDepot
    <3>. QED BY <1>2, <3>2 DEF EnregistrerDepot, DepotsTiennent, TypeFonds
  <2>6. UNCHANGED <<journal, mouvements, preuves, retraits, issues, abandons>>
    BY <1>2 DEF EnregistrerDepot, ResteInchange
  <2>. QED BY <2>4, <2>5, <2>6, Inchanges, TypesTiennent
<1>3. ASSUME EnregistrerMouvement(q) PROVE TypeFonds'
  <2>1. declarations[q] \in Requete
    BY <1>3, EnFileValeur DEF EnregistrerMouvement
  <2>2. RegistreTient
    <3>1. Sac(mouvements) /\ declarations[q].d \in Declarations
      BY <2>1 DEF TypeFonds, Sac, Registre, BagToSet, Requete
    <3>2. PICK d \in Declarations : d = declarations[q].d
      BY <3>1
    <3>3. mouvements' = mouvements (+) SetToBag({d})
      BY <1>3, <3>2 DEF EnregistrerMouvement
    <3>4. PICK E \in SUBSET Declarations : TRUE
      OBVIOUS
    <3>5. PICK C : C = mouvements (+) SetToBag({d})
      OBVIOUS
    <3>6. Sac(C)
      BY <3>1, <3>5, PorteAjoute
    <3>. QED BY <3>3, <3>5, <3>6 DEF RegistreTient
  <2>3. FileTient
    BY <1>3, SortieType, DehorsPas DEF EnregistrerMouvement, FileTient, TypeFonds
  <2>4. UNCHANGED <<journal, depots, preuves, retraits, issues, abandons>>
    BY <1>3 DEF EnregistrerMouvement, ResteInchange
  <2>. QED BY <2>2, <2>3, <2>4, Inchanges, TypesTiennent
<1>4. ASSUME declarations[q].pc \in PasDuDepot,
             \/ OuvrirDepot(q) \/ InitierDepot(q) \/ ConclureDepot(q) \/ LancerDepot(q)
             \/ AppliquerDepot(q) \/ RenoncerDepot(q) \/ RefermerDepot(q)
      PROVE TypeFonds'
  <2>1. PICK r \in References : r = declarations[q].ref
    BY <1>4 DEF TypeFonds
  <2>2. JournalTient
    <3>1. JournalTypeOK /\ journal[r] \in Ligne
      BY DEF TypeFonds, JournalTypeOK
    <3>2. \/ journal' = journal
          \/ Ouvrir(r) \/ EnregistrerReferenceExterne(r) \/ Abandonner(r) \/ Appliquer(r, "COMPLETE")
      BY <1>4, <2>1 DEF OuvrirDepot, InitierDepot, ConclureDepot, LancerDepot, AppliquerDepot,
                        RenoncerDepot, RefermerDepot
    <3>3. journal' = journal \/ \E l \in Ligne : journal' = [journal EXCEPT ![r] = l]
      <4>1. CASE Ouvrir(r)
        <5>1. [LigneAbsente EXCEPT !.statut = "EN_ATTENTE"] \in Ligne
          BY DEF LigneAbsente, Ligne, Statuts, Montants
        <5>. QED BY <4>1, <5>1 DEF Ouvrir
      <4>2. CASE EnregistrerReferenceExterne(r)
        <5>1. [journal[r] EXCEPT !.ext = TRUE] \in Ligne
          BY <3>1 DEF Ligne
        <5>. QED BY <4>2, <5>1 DEF EnregistrerReferenceExterne
      <4>3. CASE Abandonner(r)
        <5>1. [journal[r] EXCEPT !.statut = "ECHOUE"] \in Ligne
          BY <3>1 DEF Ligne, Statuts
        <5>. QED BY <4>3, <5>1 DEF Abandonner
      <4>4. CASE Appliquer(r, "COMPLETE")
        <5>1. [journal[r] EXCEPT !.statut = "COMPLETE"] \in Ligne
          BY <3>1 DEF Ligne, Statuts
        <5>. QED BY <4>4, <5>1 DEF Appliquer
      <4>. QED BY <3>2, <4>1, <4>2, <4>3, <4>4
    <3>. QED BY <3>1, <3>3 DEF JournalTient, JournalTypeOK
  <2>3. mouvements' = mouvements /\ preuves' = preuves /\ retraits' = retraits /\ abandons' = abandons
    BY <1>4 DEF OuvrirDepot, InitierDepot, ConclureDepot, LancerDepot, AppliquerDepot,
                RenoncerDepot, RefermerDepot, ResteInchange, RegistreInchange
  <2>4. DepotsTiennent
    <3>1. CASE RefermerDepot(q)
      <4>1. depots' = [depots EXCEPT ![r].statut = "ECHOUE"] /\ "ECHOUE" \in StatutsDepot
        BY <2>1, <3>1 DEF RefermerDepot, StatutsDepot
      <4>. QED BY <4>1, DepotEcritType
    <3>2. CASE ~RefermerDepot(q)
      <4>1. depots' = depots
        BY <1>4, <3>2 DEF OuvrirDepot, InitierDepot, ConclureDepot, LancerDepot, AppliquerDepot,
                          RenoncerDepot
      <4>. QED BY <4>1, Inchanges
    <3>. QED BY <3>1, <3>2
  <2>5. issues' \subseteq References \X {"COMPLETE", "ECHOUE"}
    BY <1>4, <2>1 DEF OuvrirDepot, InitierDepot, ConclureDepot, LancerDepot, AppliquerDepot,
                      RenoncerDepot, RefermerDepot, ResteInchange, TypeFonds
  <2>6. AutresTiennent
    BY <2>3, <2>5 DEF AutresTiennent, TypeFonds
  <2>7. FileTient
    <3>1. Sortir(q) \/ \E pc \in PasDuDepot : Avancer(q, pc)
      BY <1>4 DEF OuvrirDepot, InitierDepot, ConclureDepot, LancerDepot, AppliquerDepot,
                  RenoncerDepot, RefermerDepot, PasDuDepot
    <3>2. PICK pc \in PasDuDepot : Avancer(q, pc) \/ Sortir(q)
      BY <3>1 DEF PasDuDepot
    <3>. QED BY <1>4, <3>2, AvanceType DEF FileTient
  <2>8. RegistreTient
    BY <2>3, Inchanges
  <2>. QED BY <2>2, <2>4, <2>6, <2>7, <2>8, TypesTiennent
<1>5. \/ OuvrirDepot(q) \/ InitierDepot(q) \/ ConclureDepot(q) \/ LancerDepot(q)
      \/ AppliquerDepot(q) \/ RenoncerDepot(q) \/ RefermerDepot(q)
      => declarations[q].pc \in PasDuDepot
  BY DEF OuvrirDepot, InitierDepot, ConclureDepot, LancerDepot, AppliquerDepot, RenoncerDepot,
         RefermerDepot, PasDuDepot
<1>. QED BY <1>1, <1>2, <1>3, <1>4, <1>5

LEMMA TypeReste ==
  ASSUME TypeFonds,
         \/ \E r \in References :
              \/ PayerDepot(r) \/ LireAbandon(r) \/ AbandonnerDepot(r)
              \/ \E i \in {"COMPLETE", "ECHOUE"} : RecevoirIssueDepot(r, i) \/ traiterIssue(r, i)
         \/ \E m \in Membres, s \in Sommes :
              \/ \E p \in Preuves : AccepterPreuve(p, m, s)
              \/ \E w \in Retraits : ReleverRetrait(w, s)
         \/ \E p \in Preuves : DefairePreuve(p)
         \/ \E w \in Retraits, m \in Membres \cup {Personne} : attribuerRetrait(w, m)
  PROVE  TypeFonds'
<1>1. ASSUME NEW r \in References, PayerDepot(r) PROVE TypeFonds'
  <2>1. UNCHANGED <<journal, mouvements, depots, declarations, preuves, retraits, issues, abandons>>
    BY <1>1 DEF PayerDepot, RegistreInchange
  <2>. QED BY <2>1, Inchanges, TypesTiennent
<1>2. ASSUME NEW r \in References, LireAbandon(r) PROVE TypeFonds'
  <2>1. JournalTient
    <3>1. journal \in [References -> Ligne] /\ journal[r] \in Ligne
      BY DEF TypeFonds, JournalTypeOK
    <3>2. [journal[r] EXCEPT !.statut = "ECHOUE"] \in Ligne
      BY <3>1 DEF Ligne, Statuts
    <3>3. journal' = journal \/ journal' = [journal EXCEPT ![r] = [journal[r] EXCEPT !.statut = "ECHOUE"]]
      BY <1>2 DEF LireAbandon, Abandonner
    <3>. QED BY <3>1, <3>2, <3>3 DEF JournalTient, JournalTypeOK
  <2>2. UNCHANGED <<mouvements, depots, declarations, preuves, retraits, issues>>
    BY <1>2 DEF LireAbandon, RegistreInchange
  <2>3. AutresTiennent
    BY <1>2, <2>2 DEF LireAbandon, AutresTiennent, TypeFonds
  <2>. QED BY <2>1, <2>2, <2>3, Inchanges, TypesTiennent
<1>3. ASSUME NEW r \in References, AbandonnerDepot(r) PROVE TypeFonds'
  <2>1. depots' = [depots EXCEPT ![r].statut = "ECHOUE"] /\ "ECHOUE" \in StatutsDepot
    BY <1>3 DEF AbandonnerDepot, StatutsDepot
  <2>2. DepotsTiennent
    BY <2>1, DepotEcritType
  <2>3. UNCHANGED <<journal, mouvements, declarations, preuves, retraits, issues>>
    BY <1>3 DEF AbandonnerDepot, RegistreInchange
  <2>4. AutresTiennent
    BY <1>3, <2>3 DEF AbandonnerDepot, AutresTiennent, TypeFonds
  <2>. QED BY <2>2, <2>3, <2>4, Inchanges, TypesTiennent
<1>4. ASSUME NEW r \in References, NEW i \in {"COMPLETE", "ECHOUE"}, RecevoirIssueDepot(r, i)
      PROVE  TypeFonds'
  <2>1. JournalTient
    <3>1. journal \in [References -> Ligne] /\ journal[r] \in Ligne
      BY DEF TypeFonds, JournalTypeOK
    <3>2. [journal[r] EXCEPT !.statut = i] \in Ligne
      BY <3>1 DEF Ligne, Statuts
    <3>3. journal' = journal \/ journal' = [journal EXCEPT ![r] = [journal[r] EXCEPT !.statut = i]]
      BY <1>4 DEF RecevoirIssueDepot, Appliquer
    <3>. QED BY <3>1, <3>2, <3>3 DEF JournalTient, JournalTypeOK
  <2>2. UNCHANGED <<mouvements, depots, declarations, preuves, retraits, abandons>>
    BY <1>4 DEF RecevoirIssueDepot, RegistreInchange
  <2>3. AutresTiennent
    BY <1>4, <2>2 DEF RecevoirIssueDepot, AutresTiennent, TypeFonds
  <2>. QED BY <2>1, <2>2, <2>3, Inchanges, TypesTiennent
<1>5. ASSUME NEW r \in References, NEW i \in {"COMPLETE", "ECHOUE"}, traiterIssue(r, i)
      PROVE  TypeFonds'
  <2>1. PICK s \in StatutsDepot : depots' = [depots EXCEPT ![r].statut = s]
    BY <1>5 DEF traiterIssue, StatutsDepot
  <2>2. DepotsTiennent
    BY <2>1, DepotEcritType
  <2>3. UNCHANGED <<journal, mouvements, declarations, preuves, retraits, abandons>>
    BY <1>5 DEF traiterIssue, RegistreInchange
  <2>4. AutresTiennent
    BY <1>5, <2>3 DEF traiterIssue, AutresTiennent, TypeFonds
  <2>. QED BY <2>2, <2>3, <2>4, Inchanges, TypesTiennent
<1>6. ASSUME NEW p \in Preuves, NEW m \in Membres, NEW s \in Sommes,
             AccepterPreuve(p, m, s) \/ DefairePreuve(p)
      PROVE  TypeFonds'
  <2>1. UNCHANGED <<journal, mouvements, depots, declarations, retraits, issues, abandons>>
    BY <1>6 DEF AccepterPreuve, DefairePreuve, HorsRegistre
  <2>2. preuves' \in [Preuves -> Recette]
    <3>1. s \in Nat
      BY FondsAssumption
    <3>2. [membre |-> m, montant |-> s] \in Recette /\ PasDePreuve \in Recette
      BY <3>1 DEF Recette, PasDePreuve
    <3>. QED BY <1>6, <3>2 DEF AccepterPreuve, DefairePreuve, TypeFonds
  <2>3. AutresTiennent
    BY <2>1, <2>2 DEF AutresTiennent, TypeFonds
  <2>. QED BY <2>1, <2>3, Inchanges, TypesTiennent
<1>7. ASSUME NEW p \in Preuves, DefairePreuve(p) PROVE TypeFonds'
  <2>1. UNCHANGED <<journal, mouvements, depots, declarations, retraits, issues, abandons>>
    BY <1>7 DEF DefairePreuve, HorsRegistre
  <2>2. PasDePreuve \in Recette
    BY DEF Recette, PasDePreuve
  <2>3. AutresTiennent
    BY <1>7, <2>1, <2>2 DEF DefairePreuve, AutresTiennent, TypeFonds
  <2>. QED BY <2>1, <2>3, Inchanges, TypesTiennent
<1>8. ASSUME NEW w \in Retraits, NEW m \in Membres \cup {Personne}, NEW s \in Nat,
             ReleverRetrait(w, s) \/ attribuerRetrait(w, m)
      PROVE  TypeFonds'
  <2>1. UNCHANGED <<journal, mouvements, depots, declarations, preuves, issues, abandons>>
    BY <1>8 DEF ReleverRetrait, attribuerRetrait, HorsRegistre
  <2>2. retraits \in [Retraits -> RetraitAttribue] /\ retraits[w] \in RetraitAttribue
    BY DEF TypeFonds
  <2>3. \/ retraits' = [retraits EXCEPT ![w] = [retraits[w] EXCEPT !.reussi = TRUE, !.montant = s]]
        \/ retraits' = [retraits EXCEPT ![w] = [retraits[w] EXCEPT !.detenteur = m]]
    BY <1>8 DEF ReleverRetrait, attribuerRetrait
  <2>4. /\ [retraits[w] EXCEPT !.reussi = TRUE, !.montant = s] \in RetraitAttribue
        /\ [retraits[w] EXCEPT !.detenteur = m] \in RetraitAttribue
    BY <2>2 DEF RetraitAttribue
  <2>5. retraits' \in [Retraits -> RetraitAttribue]
    BY <2>2, <2>3, <2>4
  <2>6. AutresTiennent
    BY <2>1, <2>5 DEF AutresTiennent, TypeFonds
  <2>. QED BY <2>1, <2>6, Inchanges, TypesTiennent
<1>9. \A s \in Sommes : s \in Nat
  BY FondsAssumption
<1>10. Personne \in Membres \cup {Personne} /\ 0 \in Nat
  OBVIOUS
<1>. QED BY <1>1, <1>2, <1>3, <1>4, <1>5, <1>6, <1>7, <1>8, <1>9, <1>10

LEMMA TypeFondsPreserve ==
  ASSUME TypeFonds, [NextFonds]_varsFonds
  PROVE  TypeFonds'
<1>1. CASE NextFonds
  BY <1>1, TypeDeclarations, TypeReste DEF NextFonds
<1>2. CASE UNCHANGED varsFonds
  BY <1>2, Inchanges, TypesTiennent DEF varsFonds
<1>. QED BY <1>1, <1>2

------------------------------------------------------------------------------
(* Deposits and the journal.                                               *)

\* What is known of the other deposits.
LEMMA AccordInchange ==
  ASSUME NEW r, DepotAccorde(r), journal'[r].statut = journal[r].statut,
         depots'[r].statut = depots[r].statut,
         \A i : <<r, i>> \in issues' <=> <<r, i>> \in issues,
         (\E i \in issues' : i[1] = r) => \E i \in issues : i[1] = r,
         r \in abandons' => r \in abandons, r \in ecrases => r \in ecrases'
  PROVE  DepotAccorde(r)'
BY DEF DepotAccorde

\* What a statement of the journal does to the status of a row.
LEMMA StatutsEcrits ==
  ASSUME TypeFonds, NEW r \in References, NEW i \in {"COMPLETE", "ECHOUE"},
         \/ Ouvrir(r) \/ EnregistrerReferenceExterne(r) \/ Abandonner(r) \/ Appliquer(r, i)
         \/ journal' = journal
  PROVE  /\ \A x \in References \ {r} : journal'[x].statut = journal[x].statut
         /\ Ouvrir(r) => journal'[r].statut = (IF journal[r].statut = "ABSENTE" THEN "EN_ATTENTE"
                                               ELSE journal[r].statut)
         /\ EnregistrerReferenceExterne(r) => journal'[r].statut = journal[r].statut
         /\ Abandonner(r) => \/ journal'[r].statut = journal[r].statut
                             \/ journal[r].statut = "EN_ATTENTE" /\ journal'[r].statut = "ECHOUE"
         /\ Appliquer(r, i) => journal'[r].statut = (IF journal[r].statut = "ABSENTE" THEN "ABSENTE"
                                                    ELSE i)
<1>1. journal \in [References -> Ligne] /\ journal[r] \in Ligne
  BY DEF TypeFonds, JournalTypeOK
<1>2. CASE Ouvrir(r)
  <2>1. [LigneAbsente EXCEPT !.statut = "EN_ATTENTE"].statut = "EN_ATTENTE"
    BY DEF LigneAbsente
  <2>. QED BY <1>1, <1>2, <2>1 DEF Ouvrir, EnregistrerReferenceExterne, Abandonner, Appliquer,
                                   AppliquerAffecte, AbandonnerAffecte, Ligne
<1>3. CASE ~Ouvrir(r)
  BY <1>1, <1>3 DEF EnregistrerReferenceExterne, Abandonner, Appliquer,
                    AppliquerAffecte, AbandonnerAffecte, Ligne
<1>. QED BY <1>2, <1>3

\* A deposit that is in the register stays there.
LEMMA FileAccordee ==
  ASSUME Accord, TypeFonds,
         \A x \in References : depots[x].statut # "ABSENT" => depots'[x].statut # "ABSENT",
         \A o \in Demandeurs : declarations'[o].pc \in PasDuDepot =>
           \/ declarations[o].pc \in PasDuDepot /\ declarations'[o].ref = declarations[o].ref
           \/ depots'[declarations'[o].ref].statut # "ABSENT"
  PROVE  \A o \in Demandeurs : declarations'[o].pc \in PasDuDepot =>
           depots'[declarations'[o].ref].statut # "ABSENT"
BY DEF Accord, TypeFonds

LEMMA AccordDeclarations ==
  ASSUME TypeFonds, Accord, NEW q \in Demandeurs,
         \/ \E d \in Declarations : Declarer(q, d)
         \/ \E r \in References : EnregistrerDepot(q, r)
         \/ EnregistrerMouvement(q) \/ OuvrirDepot(q) \/ InitierDepot(q) \/ ConclureDepot(q)
         \/ LancerDepot(q) \/ AppliquerDepot(q) \/ RenoncerDepot(q) \/ RefermerDepot(q)
  PROVE  Accord'
<1>1. ASSUME NEW d \in Declarations, Declarer(q, d) PROVE Accord'
  <2>1. UNCHANGED <<journal, depots, issues, abandons, ecrases>>
    BY <1>1 DEF Declarer, RegistreInchange
  <2>2. \A o \in Demandeurs : declarations'[o].pc \in PasDuDepot => declarations'[o] = declarations[o]
    BY <1>1 DEF Declarer, TypeFonds, PasDuDepot
  <2>. QED BY <2>1, <2>2 DEF Accord, DepotAccorde
<1>2. ASSUME EnregistrerMouvement(q) PROVE Accord'
  <2>1. UNCHANGED <<journal, depots, issues, abandons, ecrases>>
    BY <1>2 DEF EnregistrerMouvement, ResteInchange
  <2>2. \A o \in Demandeurs : declarations'[o].pc \in PasDuDepot => declarations'[o] = declarations[o]
    BY <1>2, SortieType, DehorsPas DEF EnregistrerMouvement
  <2>. QED BY <2>1, <2>2 DEF Accord, DepotAccorde
<1>3. ASSUME NEW r \in References, EnregistrerDepot(q, r) PROVE Accord'
  <2>1. UNCHANGED <<journal, issues, abandons, ecrases>>
    BY <1>3 DEF EnregistrerDepot, ResteInchange
  <2>2. /\ depots[r].statut = "ABSENT" /\ depots'[r].statut = "EN_ATTENTE"
        /\ \A x \in References \ {r} : depots'[x] = depots[x]
    <3>1. PICK x : /\ depots' = [depots EXCEPT ![r] = x]
                   /\ x = [statut |-> "EN_ATTENTE", membre |-> declarations[q].d.membre,
                           montant |-> declarations[q].d.montant]
      BY <1>3 DEF EnregistrerDepot
    <3>2. x.statut = "EN_ATTENTE" /\ depots \in [References -> Depot]
      BY <3>1 DEF TypeFonds
    <3>3. depots[r].statut = "ABSENT"
      BY <1>3 DEF EnregistrerDepot, PasDeDepot
    <3>. QED BY <3>1, <3>2, <3>3
  <2>3. declarations[q] \in Requete
    BY <1>3, EnFileValeur DEF EnregistrerDepot
  <2>4. \A o \in Demandeurs : declarations'[o].pc \in PasDuDepot =>
          (o = q /\ declarations'[o].ref = r) \/ declarations'[o] = declarations[o]
    BY <1>3, <2>3 DEF EnregistrerDepot, TypeFonds, Requete
  <2>5. \A x \in References : DepotAccorde(x)'
    BY <2>1, <2>2 DEF Accord, DepotAccorde
  <2>6. \A o \in Demandeurs : declarations'[o].pc \in PasDuDepot =>
          depots'[declarations'[o].ref].statut # "ABSENT"
    <3>1. \A x \in References : depots[x].statut # "ABSENT" => depots'[x].statut # "ABSENT"
      BY <2>2
    <3>. QED BY <2>2, <2>4, <3>1, FileAccordee
  <2>. QED BY <2>5, <2>6 DEF Accord
<1>4. ASSUME declarations[q].pc \in PasDuDepot,
             \/ OuvrirDepot(q) \/ InitierDepot(q) \/ ConclureDepot(q) \/ LancerDepot(q)
             \/ AppliquerDepot(q) \/ RenoncerDepot(q) \/ RefermerDepot(q)
      PROVE Accord'
  <2>1. PICK r \in References : r = declarations[q].ref
    BY <1>4 DEF TypeFonds
  <2>2. depots[r].statut # "ABSENT" /\ DepotAccorde(r)
    BY <1>4, <2>1 DEF Accord
  <2>3. \/ journal' = journal \/ Ouvrir(r) \/ EnregistrerReferenceExterne(r) \/ Abandonner(r)
        \/ Appliquer(r, "COMPLETE")
    BY <1>4, <2>1 DEF OuvrirDepot, InitierDepot, ConclureDepot, LancerDepot, AppliquerDepot,
                      RenoncerDepot, RefermerDepot
  <2>4. \A x \in References \ {r} : journal'[x].statut = journal[x].statut
    BY <2>3, StatutsEcrits
  <2>5. /\ \A x \in References \ {r} : depots'[x] = depots[x]
        /\ RefermerDepot(q) => depots'[r].statut = "ECHOUE" /\ ecrases' = Ecrase(r)
        /\ ~RefermerDepot(q) => depots' = depots /\ ecrases' = ecrases
    <3>1. CASE RefermerDepot(q)
      <4>1. depots' = [depots EXCEPT ![r].statut = "ECHOUE"] /\ "ECHOUE" \in StatutsDepot
        BY <2>1, <3>1 DEF RefermerDepot, StatutsDepot
      <4>2. depots'[r].statut = "ECHOUE" /\ \A x \in References \ {r} : depots'[x] = depots[x]
        BY <4>1, DepotEcritType
      <4>. QED BY <2>1, <3>1, <4>2 DEF RefermerDepot
    <3>2. CASE ~RefermerDepot(q)
      BY <1>4, <3>2 DEF OuvrirDepot, InitierDepot, ConclureDepot, LancerDepot, AppliquerDepot,
                        RenoncerDepot
    <3>. QED BY <3>1, <3>2
  <2>6. /\ AppliquerDepot(q) => issues' = IF AppliquerAffecte(r, "COMPLETE")
                                         THEN issues \cup {<<r, "COMPLETE">>} ELSE issues
        /\ ~AppliquerDepot(q) => issues' = issues
        /\ abandons' = abandons
    BY <1>4, <2>1 DEF OuvrirDepot, InitierDepot, ConclureDepot, LancerDepot, AppliquerDepot,
                      RenoncerDepot, RefermerDepot, ResteInchange
  <2>7. ASSUME NEW x \in References \ {r} PROVE DepotAccorde(x)'
    <3>1. /\ DepotAccorde(x)
          /\ journal'[x].statut = journal[x].statut /\ depots'[x].statut = depots[x].statut
      BY <2>4, <2>5 DEF Accord
    <3>2. \A i : <<x, i>> \in issues' <=> <<x, i>> \in issues
      BY <2>6, <2>7
    <3>3. (\E i \in issues' : i[1] = x) => \E i \in issues : i[1] = x
      BY <2>6, <2>7
    <3>4. ecrases \subseteq ecrases'
      BY <2>5 DEF Ecrase
    <3>. QED BY <2>6, <3>1, <3>2, <3>3, <3>4, AccordInchange
  <2>8. DepotAccorde(r)'
    <3>1. CASE RefermerDepot(q)
      <4>1. journal' = journal /\ issues' = issues
        BY <3>1 DEF RefermerDepot, ResteInchange
      <4>. QED BY <2>2, <2>5, <2>6, <3>1, <4>1 DEF DepotAccorde, Ecrase
    <3>2. CASE AppliquerDepot(q)
      <4>1. /\ Appliquer(r, "COMPLETE") /\ depots' = depots /\ ecrases' = ecrases
        BY <2>1, <3>2 DEF AppliquerDepot
      <4>2. journal'[r].statut = (IF journal[r].statut = "ABSENTE" THEN "ABSENTE" ELSE "COMPLETE")
        BY <4>1, StatutsEcrits
      <4>. QED BY <2>2, <2>6, <3>2, <4>1, <4>2 DEF DepotAccorde, AppliquerAffecte
    <3>3. CASE ~RefermerDepot(q) /\ ~AppliquerDepot(q)
      <4>1. journal' = journal \/ Ouvrir(r) \/ EnregistrerReferenceExterne(r) \/ Abandonner(r)
        BY <1>4, <2>1, <3>3 DEF OuvrirDepot, InitierDepot, ConclureDepot, LancerDepot,
                                RenoncerDepot
      <4>2. \/ journal'[r].statut = journal[r].statut
            \/ /\ journal[r].statut \in {"ABSENTE", "EN_ATTENTE"}
               /\ journal'[r].statut \in {"EN_ATTENTE", "ECHOUE"}
        BY <4>1, StatutsEcrits
      <4>3. depots' = depots /\ ecrases' = ecrases /\ issues' = issues /\ abandons' = abandons
        BY <2>5, <2>6, <3>3
      <4>. QED BY <2>2, <4>2, <4>3 DEF DepotAccorde
    <3>. QED BY <3>1, <3>2, <3>3
  <2>9. \A o \in Demandeurs : declarations'[o].pc \in PasDuDepot =>
          depots'[declarations'[o].ref].statut # "ABSENT"
    <3>1. Sortir(q) \/ \E pc \in PasDuDepot : Avancer(q, pc)
      BY <1>4 DEF OuvrirDepot, InitierDepot, ConclureDepot, LancerDepot, AppliquerDepot,
                  RenoncerDepot, RefermerDepot, PasDuDepot
    <3>2. PICK pc \in PasDuDepot : Avancer(q, pc) \/ Sortir(q)
      BY <3>1 DEF PasDuDepot
    <3>3. \A o \in Demandeurs : declarations'[o].pc \in PasDuDepot =>
            declarations[o].pc \in PasDuDepot /\ declarations'[o].ref = declarations[o].ref
      BY <1>4, <3>2, AvanceType
    <3>4. \A x \in References : depots[x].statut # "ABSENT" => depots'[x].statut # "ABSENT"
      BY <2>5
    <3>. QED BY <3>3, <3>4, FileAccordee
  <2>. QED BY <2>7, <2>8, <2>9 DEF Accord
<1>5. \/ OuvrirDepot(q) \/ InitierDepot(q) \/ ConclureDepot(q) \/ LancerDepot(q)
      \/ AppliquerDepot(q) \/ RenoncerDepot(q) \/ RefermerDepot(q)
      => declarations[q].pc \in PasDuDepot
  BY DEF OuvrirDepot, InitierDepot, ConclureDepot, LancerDepot, AppliquerDepot, RenoncerDepot,
         RefermerDepot, PasDuDepot
<1>. QED BY <1>1, <1>2, <1>3, <1>4, <1>5

LEMMA AccordReste ==
  ASSUME TypeFonds, Accord,
         \/ \E r \in References :
              \/ PayerDepot(r) \/ LireAbandon(r) \/ AbandonnerDepot(r)
              \/ \E i \in {"COMPLETE", "ECHOUE"} : RecevoirIssueDepot(r, i) \/ traiterIssue(r, i)
         \/ \E m \in Membres, s \in Sommes :
              \/ \E p \in Preuves : AccepterPreuve(p, m, s)
              \/ \E w \in Retraits : ReleverRetrait(w, s)
         \/ \E p \in Preuves : DefairePreuve(p)
         \/ \E w \in Retraits, m \in Membres \cup {Personne} : attribuerRetrait(w, m)
  PROVE  Accord'
<1>1. CASE UNCHANGED <<journal, depots, declarations, issues, abandons, ecrases>>
  BY <1>1 DEF Accord, DepotAccorde
<1>2. ASSUME NEW r \in References, LireAbandon(r) PROVE Accord'
  <2>1. /\ depots[r].statut = "EN_ATTENTE" /\ abandons' = abandons \cup {r}
        /\ UNCHANGED <<depots, declarations, issues, ecrases>>
    BY <1>2 DEF LireAbandon
  <2>2. /\ \A x \in References \ {r} : journal'[x].statut = journal[x].statut
        /\ \/ journal'[r].statut = journal[r].statut
           \/ journal[r].statut = "EN_ATTENTE" /\ journal'[r].statut = "ECHOUE"
    <3>1. Abandonner(r)
      BY <1>2 DEF LireAbandon
    <3>. QED BY <3>1, StatutsEcrits
  <2>3. \A x \in References \ {r} : DepotAccorde(x)'
    <3>1. SUFFICES ASSUME NEW x \in References \ {r} PROVE DepotAccorde(x)'
      OBVIOUS
    <3>2. /\ DepotAccorde(x)
          /\ journal'[x].statut = journal[x].statut /\ depots'[x].statut = depots[x].statut
      BY <2>1, <2>2 DEF Accord
    <3>3. \A k : <<x, k>> \in issues' <=> <<x, k>> \in issues
      BY <2>1, <2>2
    <3>4. (\E k \in issues' : k[1] = x) => \E k \in issues : k[1] = x
      BY <2>1, <2>2
    <3>5. x \in abandons' => x \in abandons
      BY <2>1, <2>2
    <3>6. ecrases \subseteq ecrases'
      BY <2>1, <2>2 DEF Ecrase
    <3>. QED BY <3>2, <3>3, <3>4, <3>5, <3>6, AccordInchange
  <2>4. DepotAccorde(r)'
    <3>1. DepotAccorde(r)
      BY DEF Accord
    <3>. QED BY <2>1, <2>2, <3>1 DEF DepotAccorde
  <2>5. \A o \in Demandeurs : declarations'[o].pc \in PasDuDepot =>
          depots'[declarations'[o].ref].statut # "ABSENT"
    <3>1. \A x \in References : depots[x].statut # "ABSENT" => depots'[x].statut # "ABSENT"
      BY <2>1
    <3>2. \A o \in Demandeurs : declarations'[o].pc \in PasDuDepot =>
            declarations[o].pc \in PasDuDepot /\ declarations'[o].ref = declarations[o].ref
      BY <2>1
    <3>. QED BY <3>1, <3>2, FileAccordee
  <2>. QED BY <2>3, <2>4, <2>5 DEF Accord
<1>5. ASSUME NEW r \in References, AbandonnerDepot(r) PROVE Accord'
  <2>1. /\ r \in abandons /\ abandons' = abandons \ {r} /\ ecrases' = Ecrase(r)
        /\ depots' = [depots EXCEPT ![r].statut = "ECHOUE"] /\ "ECHOUE" \in StatutsDepot
        /\ UNCHANGED <<journal, declarations, issues>>
    BY <1>5 DEF AbandonnerDepot, StatutsDepot
  <2>2. depots'[r].statut = "ECHOUE" /\ \A x \in References \ {r} : depots'[x] = depots[x]
    BY <2>1, DepotEcritType
  <2>3. \A x \in References \ {r} : DepotAccorde(x)'
    <3>1. SUFFICES ASSUME NEW x \in References \ {r} PROVE DepotAccorde(x)'
      OBVIOUS
    <3>2. /\ DepotAccorde(x)
          /\ journal'[x].statut = journal[x].statut /\ depots'[x].statut = depots[x].statut
      BY <2>1, <2>2 DEF Accord
    <3>3. \A k : <<x, k>> \in issues' <=> <<x, k>> \in issues
      BY <2>1, <2>2
    <3>4. (\E k \in issues' : k[1] = x) => \E k \in issues : k[1] = x
      BY <2>1, <2>2
    <3>5. x \in abandons' => x \in abandons
      BY <2>1, <2>2
    <3>6. ecrases \subseteq ecrases'
      BY <2>1, <2>2 DEF Ecrase
    <3>. QED BY <3>2, <3>3, <3>4, <3>5, <3>6, AccordInchange
  <2>4. DepotAccorde(r)'
    <3>1. DepotAccorde(r)
      BY DEF Accord
    <3>. QED BY <2>1, <2>2, <3>1 DEF DepotAccorde, Ecrase
  <2>5. \A o \in Demandeurs : declarations'[o].pc \in PasDuDepot =>
          depots'[declarations'[o].ref].statut # "ABSENT"
    <3>1. \A x \in References : depots[x].statut # "ABSENT" => depots'[x].statut # "ABSENT"
      BY <2>2
    <3>2. \A o \in Demandeurs : declarations'[o].pc \in PasDuDepot =>
            declarations[o].pc \in PasDuDepot /\ declarations'[o].ref = declarations[o].ref
      BY <2>1
    <3>. QED BY <3>1, <3>2, FileAccordee
  <2>. QED BY <2>3, <2>4, <2>5 DEF Accord
<1>6. ASSUME NEW r \in References, NEW i \in {"COMPLETE", "ECHOUE"}, RecevoirIssueDepot(r, i)
      PROVE  Accord'
  <2>1. /\ AppliquerAffecte(r, i) /\ Appliquer(r, i) /\ issues' = issues \cup {<<r, i>>}
        /\ i = "ECHOUE" => journal[r].statut = "EN_ATTENTE"
        /\ UNCHANGED <<depots, declarations, ecrases, abandons>>
    BY <1>6 DEF RecevoirIssueDepot
  <2>2. /\ \A x \in References \ {r} : journal'[x].statut = journal[x].statut
        /\ journal[r].statut # "ABSENTE" /\ journal'[r].statut = i
    <3>1. journal'[r].statut = (IF journal[r].statut = "ABSENTE" THEN "ABSENTE" ELSE i)
      BY <2>1, StatutsEcrits
    <3>2. \A x \in References \ {r} : journal'[x].statut = journal[x].statut
      BY <2>1, StatutsEcrits
    <3>. QED BY <2>1, <3>1, <3>2 DEF AppliquerAffecte
  <2>3. \A x \in References \ {r} : DepotAccorde(x)'
    <3>1. SUFFICES ASSUME NEW x \in References \ {r} PROVE DepotAccorde(x)'
      OBVIOUS
    <3>2. /\ DepotAccorde(x)
          /\ journal'[x].statut = journal[x].statut /\ depots'[x].statut = depots[x].statut
      BY <2>1, <2>2 DEF Accord
    <3>3. \A k : <<x, k>> \in issues' <=> <<x, k>> \in issues
      BY <2>1, <2>2
    <3>4. (\E k \in issues' : k[1] = x) => \E k \in issues : k[1] = x
      BY <2>1, <2>2
    <3>5. x \in abandons' => x \in abandons
      BY <2>1, <2>2
    <3>6. ecrases \subseteq ecrases'
      BY <2>1, <2>2 DEF Ecrase
    <3>. QED BY <3>2, <3>3, <3>4, <3>5, <3>6, AccordInchange
  <2>4. DepotAccorde(r)'
    <3>1. DepotAccorde(r)
      BY DEF Accord
    <3>. QED BY <2>1, <2>2, <3>1 DEF DepotAccorde
  <2>5. \A o \in Demandeurs : declarations'[o].pc \in PasDuDepot =>
          depots'[declarations'[o].ref].statut # "ABSENT"
    <3>1. \A x \in References : depots[x].statut # "ABSENT" => depots'[x].statut # "ABSENT"
      BY <2>1
    <3>2. \A o \in Demandeurs : declarations'[o].pc \in PasDuDepot =>
            declarations[o].pc \in PasDuDepot /\ declarations'[o].ref = declarations[o].ref
      BY <2>1
    <3>. QED BY <3>1, <3>2, FileAccordee
  <2>. QED BY <2>3, <2>4, <2>5 DEF Accord
<1>7. ASSUME NEW r \in References, NEW i \in {"COMPLETE", "ECHOUE"}, traiterIssue(r, i)
      PROVE  Accord'
  <2>. DEFINE s == IF i = "COMPLETE" THEN "VALIDE" ELSE "ECHOUE"
  <2>1. /\ <<r, i>> \in issues /\ issues' = issues \ {<<r, i>>}
        /\ depots' = [depots EXCEPT ![r].statut = s] /\ s \in StatutsDepot
        /\ ecrases' = IF i = "ECHOUE" THEN Ecrase(r) ELSE ecrases
        /\ UNCHANGED <<journal, declarations, abandons>>
    BY <1>7 DEF traiterIssue, StatutsDepot
  <2>2. depots'[r].statut = s /\ \A x \in References \ {r} : depots'[x] = depots[x]
    <3>. HIDE DEF s
    <3>. QED BY <2>1, DepotEcritType
  <2>3. \A x \in References \ {r} : DepotAccorde(x)'
    <3>1. SUFFICES ASSUME NEW x \in References \ {r} PROVE DepotAccorde(x)'
      OBVIOUS
    <3>2. /\ DepotAccorde(x)
          /\ journal'[x].statut = journal[x].statut /\ depots'[x].statut = depots[x].statut
      BY <2>1, <2>2 DEF Accord
    <3>3. \A k : <<x, k>> \in issues' <=> <<x, k>> \in issues
      BY <2>1, <2>2
    <3>4. (\E k \in issues' : k[1] = x) => \E k \in issues : k[1] = x
      BY <2>1, <2>2
    <3>5. x \in abandons' => x \in abandons
      BY <2>1, <2>2
    <3>6. ecrases \subseteq ecrases'
      BY <2>1, <2>2 DEF Ecrase
    <3>. QED BY <3>2, <3>3, <3>4, <3>5, <3>6, AccordInchange
  <2>4. DepotAccorde(r)'
    <3>1. DepotAccorde(r)
      BY DEF Accord
    <3>. QED BY <2>1, <2>2, <3>1 DEF DepotAccorde, Ecrase
  <2>5. \A o \in Demandeurs : declarations'[o].pc \in PasDuDepot =>
          depots'[declarations'[o].ref].statut # "ABSENT"
    <3>1. \A x \in References : depots[x].statut # "ABSENT" => depots'[x].statut # "ABSENT"
      BY <2>2
    <3>2. \A o \in Demandeurs : declarations'[o].pc \in PasDuDepot =>
            declarations[o].pc \in PasDuDepot /\ declarations'[o].ref = declarations[o].ref
      BY <2>1
    <3>. QED BY <3>1, <3>2, FileAccordee
  <2>. QED BY <2>3, <2>4, <2>5 DEF Accord
<1>3. \A r \in References : PayerDepot(r) =>
        UNCHANGED <<journal, depots, declarations, issues, abandons, ecrases>>
  BY DEF PayerDepot
<1>4. /\ \A p, m, s : AccepterPreuve(p, m, s) =>
           UNCHANGED <<journal, depots, declarations, issues, abandons, ecrases>>
      /\ \A p : DefairePreuve(p) =>
           UNCHANGED <<journal, depots, declarations, issues, abandons, ecrases>>
      /\ \A w, s : ReleverRetrait(w, s) =>
           UNCHANGED <<journal, depots, declarations, issues, abandons, ecrases>>
      /\ \A w, m : attribuerRetrait(w, m) =>
           UNCHANGED <<journal, depots, declarations, issues, abandons, ecrases>>
  BY DEF AccepterPreuve, DefairePreuve, ReleverRetrait, attribuerRetrait, HorsRegistre
<1>8. CASE \E r \in References :
              \/ PayerDepot(r) \/ LireAbandon(r) \/ AbandonnerDepot(r)
              \/ \E i \in {"COMPLETE", "ECHOUE"} : RecevoirIssueDepot(r, i) \/ traiterIssue(r, i)
  BY <1>1, <1>2, <1>3, <1>5, <1>6, <1>7, <1>8
<1>9. CASE \/ \E m \in Membres, s \in Sommes :
              \/ \E p \in Preuves : AccepterPreuve(p, m, s)
              \/ \E w \in Retraits : ReleverRetrait(w, s)
           \/ \E p \in Preuves : DefairePreuve(p)
           \/ \E w \in Retraits, m \in Membres \cup {Personne} : attribuerRetrait(w, m)
  BY <1>1, <1>4, <1>9
<1>. QED BY <1>8, <1>9

------------------------------------------------------------------------------
(* The pockets.                                                            *)

LEMMA DisponibleApres ==
  ASSUME TypeFonds'
  PROVE  \A m \in Membres : disponible(m)' = Poche(mouvements', preuves', retraits', depots', m)
<1>1. (TypeFonds => \A m \in Membres : disponible(m) = Poche(mouvements, preuves, retraits, depots, m))'
  BY DisponibleEstPoche, PTL
<1>. QED BY <1>1

\* The parts a pocket is made of have their types.
LEMMA PartsDuFonds ==
  ASSUME TypeFonds
  PROVE  /\ Sac(mouvements) /\ preuves \in [Preuves -> Recette]
         /\ retraits \in [Retraits -> RetraitAttribue] /\ depots \in [References -> Depot]
BY DEF TypeFonds, Sac, Registre, BagToSet

LEMMA DisponibleType ==
  ASSUME TypeFonds
  PROVE  \A m \in Membres : disponible(m) \in Int
BY PartsDuFonds, DisponibleEstPoche, PocheType

\* Whatever makes no pocket poorer, except those it contests, is safe.
LEMMA PochesTiennent ==
  ASSUME TypeFonds, TypeFonds', PocheSuffit, Provision, contestes \subseteq contestes',
         \A m \in Membres \ contestes' : disponible(m)' >= disponible(m),
         \A q \in Demandeurs : declarations'[q] # Dehors => declarations[q] # Dehors,
         \A q \in Demandeurs : declarations'[q].pc \in {"enregistrer", "deposer"} =>
           declarations'[q] = declarations[q]
  PROVE  PocheSuffit' /\ Provision'
<1>1. \A m \in Membres : disponible(m) \in Int
  BY DisponibleType
<1>2. \A m \in Membres : disponible(m)' \in Int
  <2>1. (TypeFonds => \A m \in Membres : disponible(m) \in Int)'
    BY DisponibleType, PTL
  <2>. QED BY <2>1
<1>3. PocheSuffit'
  BY <1>1, <1>2 DEF PocheSuffit
<1>4. \A q, o \in EnFile' : q = o
  BY DEF Provision, EnFile
<1>5. ASSUME NEW q \in Demandeurs, Engagee(q)', declarations'[q].d.membre \notin contestes'
      PROVE  declarations'[q].d.montant <= disponible(declarations[q].d.membre)'
             /\ declarations'[q].d = declarations[q].d
  <2>1. declarations'[q] = declarations[q] /\ Engagee(q)
    BY <1>5 DEF Engagee
  <2>2. declarations[q] \in Requete
    BY <2>1, EnFileValeur DEF Engagee
  <2>3. PICK m \in Membres : m = declarations[q].d.membre
    BY <2>2 DEF Requete, Declarations
  <2>4. declarations[q].d.montant \in Nat
    BY <2>2, DeclarationsTypees DEF Requete
  <2>5. m \notin contestes' /\ m \notin contestes
    BY <1>5, <2>1, <2>3
  <2>6. declarations[q].d.montant <= disponible(m)
    BY <2>1, <2>3, <2>5 DEF Provision
  <2>7. disponible(m)' >= disponible(m)
    BY <2>5
  <2>8. declarations[q].d.montant <= disponible(m)'
    BY <1>1, <1>2, <2>4, <2>6, <2>7
  <2>9. disponible(m)' = disponible(declarations[q].d.membre)'
    BY <2>3, <2>1 DEF disponible
  <2>. QED BY <2>1, <2>8, <2>9
<1>. QED BY <1>3, <1>4, <1>5 DEF Provision

\* A pocket whose parts do not move.
LEMMA PocheImmobile ==
  ASSUME TypeFonds, TypeFonds', UNCHANGED <<mouvements, preuves, retraits, depots>>
  PROVE  \A m \in Membres : disponible(m)' >= disponible(m)
<1>1. \A m \in Membres : disponible(m)' = Poche(mouvements, preuves, retraits, depots, m)
  BY DisponibleApres
<1>2. \A m \in Membres : disponible(m) \in Int
  BY DisponibleType
<1>. QED BY <1>1, <1>2, DisponibleEstPoche

\* A deposit written in a pocket: the pocket moves by what the deposit takes.
LEMMA PocheDepot ==
  ASSUME TypeFonds, TypeFonds', UNCHANGED <<mouvements, preuves, retraits>>,
         NEW r \in References, \A x \in References \ {r} : depots'[x] = depots[x],
         NEW m \in Membres
  PROVE  /\ disponible(m)' = disponible(m) + Places(depots, m, EnDepot)[r]
                                           - Places(depots', m, EnDepot)[r]
         /\ Places(depots, m, EnDepot)[r] \in Nat /\ Places(depots', m, EnDepot)[r] \in Nat
<1>1. /\ Sac(mouvements) /\ preuves \in [Preuves -> Recette]
      /\ retraits \in [Retraits -> RetraitAttribue] /\ depots \in [References -> Depot]
  BY PartsDuFonds
<1>2. depots' \in [References -> Depot]
  BY DEF TypeFonds
<1>3. /\ Somme(Places(depots', m, EnDepot), References)
           = Somme(Places(depots, m, EnDepot), References) - Places(depots, m, EnDepot)[r]
               + Places(depots', m, EnDepot)[r]
  BY <1>1, <1>2, DepotChange
<1>4. /\ Places(depots, m, EnDepot)[r] \in Nat /\ Somme(Places(depots, m, EnDepot), References) \in Nat
      /\ Somme(Recettes(preuves, m), Preuves) \in Nat /\ Somme(Attribues(retraits, m), Retraits) \in Nat
  BY <1>1, PartsTypees
<1>5. Places(depots', m, EnDepot)[r] \in Nat
  BY <1>1, <1>2, PartsTypees
<1>6. Porte(mouvements, Receptions(m)) \in Nat /\ Porte(mouvements, ArriveesChez(m)) \in Nat
      /\ Porte(mouvements, Departs(m)) \in Nat
  BY <1>1, PorteType
<1>7. disponible(m) = Poche(mouvements, preuves, retraits, depots, m)
  BY DisponibleEstPoche
<1>8. disponible(m)' = Poche(mouvements, preuves, retraits, depots', m)
  BY DisponibleApres
<1>. QED BY <1>3, <1>4, <1>5, <1>6, <1>7, <1>8 DEF Poche

LEMMA PochePreuve ==
  ASSUME TypeFonds, TypeFonds', UNCHANGED <<mouvements, depots, retraits>>,
         NEW p \in Preuves, \A x \in Preuves \ {p} : preuves'[x] = preuves[x],
         NEW m \in Membres
  PROVE  /\ disponible(m)' = disponible(m) - Recettes(preuves, m)[p] + Recettes(preuves', m)[p]
         /\ Recettes(preuves, m)[p] \in Nat /\ Recettes(preuves', m)[p] \in Nat
<1>1. /\ Sac(mouvements) /\ preuves \in [Preuves -> Recette]
      /\ retraits \in [Retraits -> RetraitAttribue] /\ depots \in [References -> Depot]
  BY PartsDuFonds
<1>2. preuves' \in [Preuves -> Recette]
  BY DEF TypeFonds
<1>3. Somme(Recettes(preuves', m), Preuves)
        = Somme(Recettes(preuves, m), Preuves) - Recettes(preuves, m)[p] + Recettes(preuves', m)[p]
  BY <1>1, <1>2, PreuveChange
<1>4. /\ Recettes(preuves, m)[p] \in Nat /\ Somme(Places(depots, m, EnDepot), References) \in Nat
      /\ Somme(Recettes(preuves, m), Preuves) \in Nat /\ Somme(Attribues(retraits, m), Retraits) \in Nat
  BY <1>1, PartsTypees
<1>5. Recettes(preuves', m)[p] \in Nat
  BY <1>1, <1>2, PartsTypees
<1>6. Porte(mouvements, Receptions(m)) \in Nat /\ Porte(mouvements, ArriveesChez(m)) \in Nat
      /\ Porte(mouvements, Departs(m)) \in Nat
  BY <1>1, PorteType
<1>7. disponible(m) = Poche(mouvements, preuves, retraits, depots, m)
  BY DisponibleEstPoche
<1>8. disponible(m)' = Poche(mouvements, preuves', retraits, depots, m)
  BY DisponibleApres
<1>. QED BY <1>3, <1>4, <1>5, <1>6, <1>7, <1>8 DEF Poche

LEMMA PocheRetrait ==
  ASSUME TypeFonds, TypeFonds', UNCHANGED <<mouvements, depots, preuves>>,
         NEW w \in Retraits, \A x \in Retraits \ {w} : retraits'[x] = retraits[x],
         NEW m \in Membres
  PROVE  /\ disponible(m)' = disponible(m) - Attribues(retraits, m)[w] + Attribues(retraits', m)[w]
         /\ Attribues(retraits, m)[w] \in Nat /\ Attribues(retraits', m)[w] \in Nat
<1>1. /\ Sac(mouvements) /\ preuves \in [Preuves -> Recette]
      /\ retraits \in [Retraits -> RetraitAttribue] /\ depots \in [References -> Depot]
  BY PartsDuFonds
<1>2. retraits' \in [Retraits -> RetraitAttribue]
  BY DEF TypeFonds
<1>3. Somme(Attribues(retraits', m), Retraits)
        = Somme(Attribues(retraits, m), Retraits) - Attribues(retraits, m)[w] + Attribues(retraits', m)[w]
  BY <1>1, <1>2, RetraitChange
<1>4. /\ Attribues(retraits, m)[w] \in Nat /\ Somme(Places(depots, m, EnDepot), References) \in Nat
      /\ Somme(Recettes(preuves, m), Preuves) \in Nat /\ Somme(Attribues(retraits, m), Retraits) \in Nat
  BY <1>1, PartsTypees
<1>5. Attribues(retraits', m)[w] \in Nat
  BY <1>1, <1>2, PartsTypees
<1>6. Porte(mouvements, Receptions(m)) \in Nat /\ Porte(mouvements, ArriveesChez(m)) \in Nat
      /\ Porte(mouvements, Departs(m)) \in Nat
  BY <1>1, PorteType
<1>7. disponible(m) = Poche(mouvements, preuves, retraits, depots, m)
  BY DisponibleEstPoche
<1>8. disponible(m)' = Poche(mouvements, preuves, retraits', depots, m)
  BY DisponibleApres
<1>. QED BY <1>3, <1>4, <1>5, <1>6, <1>7, <1>8 DEF Poche

\* A movement more: what it takes from one pocket, and what it brings to another.
LEMMA PocheMouvement ==
  ASSUME TypeFonds, TypeFonds', UNCHANGED <<depots, retraits, preuves>>,
         NEW d \in Declarations, mouvements' = mouvements (+) SetToBag({d}),
         NEW m \in Membres
  PROVE  disponible(m)' = disponible(m) + (IF d \in Receptions(m) THEN d.montant ELSE 0)
                                        + (IF d \in ArriveesChez(m) THEN d.montant ELSE 0)
                                        - (IF d \in Departs(m) THEN d.montant ELSE 0)
<1>1. /\ Sac(mouvements) /\ preuves \in [Preuves -> Recette]
      /\ retraits \in [Retraits -> RetraitAttribue] /\ depots \in [References -> Depot]
  BY PartsDuFonds
<1>2. PICK C : C = mouvements (+) SetToBag({d})
  OBVIOUS
<1>3. ASSUME NEW E
      PROVE  Porte(C, E) = Porte(mouvements, E) + (IF d \in E THEN d.montant ELSE 0)
  BY <1>1, <1>2, PorteAjoute
<1>4. /\ Somme(Places(depots, m, EnDepot), References) \in Nat
      /\ Somme(Recettes(preuves, m), Preuves) \in Nat /\ Somme(Attribues(retraits, m), Retraits) \in Nat
  BY <1>1, PartsTypees
<1>5. Porte(mouvements, Receptions(m)) \in Nat /\ Porte(mouvements, ArriveesChez(m)) \in Nat
      /\ Porte(mouvements, Departs(m)) \in Nat
  BY <1>1, PorteType
<1>6. disponible(m) = Poche(mouvements, preuves, retraits, depots, m)
  BY DisponibleEstPoche
<1>7. disponible(m)' = Poche(C, preuves, retraits, depots, m)
  <2>1. mouvements' = C
    BY <1>2
  <2>. QED BY <2>1, DisponibleApres
<1>8. d.montant \in Nat
  BY DeclarationsTypees
<1>9. /\ Porte(C, Receptions(m)) = Porte(mouvements, Receptions(m))
                                     + (IF d \in Receptions(m) THEN d.montant ELSE 0)
      /\ Porte(C, ArriveesChez(m)) = Porte(mouvements, ArriveesChez(m))
                                     + (IF d \in ArriveesChez(m) THEN d.montant ELSE 0)
      /\ Porte(C, Departs(m)) = Porte(mouvements, Departs(m))
                                     + (IF d \in Departs(m) THEN d.montant ELSE 0)
  BY <1>3
<1>. QED BY <1>4, <1>5, <1>6, <1>7, <1>8, <1>9 DEF Poche

\* ECHOUE over a deposit, or VALIDE over one that was on its way, makes no pocket
\* poorer.
LEMMA PocheDepotEcrit ==
  ASSUME TypeFonds, TypeFonds', UNCHANGED <<mouvements, preuves, retraits>>,
         NEW r \in References, NEW s \in {"VALIDE", "ECHOUE"},
         depots' = [depots EXCEPT ![r].statut = s], NEW m \in Membres,
         s = "VALIDE" => depots[r].statut \in EnDepot \/ depots[r].membre # m
  PROVE  disponible(m)' >= disponible(m)
<1>1. /\ depots'[r].statut = s /\ depots'[r].membre = depots[r].membre
      /\ depots'[r].montant = depots[r].montant
      /\ \A x \in References \ {r} : depots'[x] = depots[x]
  <2>1. s \in StatutsDepot
    BY DEF StatutsDepot
  <2>. QED BY <2>1, DepotEcritType
<1>2. /\ disponible(m)' = disponible(m) + Places(depots, m, EnDepot)[r] - Places(depots', m, EnDepot)[r]
      /\ Places(depots, m, EnDepot)[r] \in Nat /\ Places(depots', m, EnDepot)[r] \in Nat
  BY <1>1, PocheDepot
<1>3. Places(depots', m, EnDepot)[r] = 0 \/ Places(depots', m, EnDepot)[r] = Places(depots, m, EnDepot)[r]
  BY <1>1 DEF Places, EnDepot
<1>4. disponible(m) \in Int
  BY DisponibleType
<1>. QED BY <1>2, <1>3, <1>4

LEMMA PochesPreserveReste ==
  ASSUME TypeFonds, TypeFonds', PocheSuffit, Provision, Accord,
         \/ \E r \in References :
              \/ PayerDepot(r) \/ LireAbandon(r) \/ AbandonnerDepot(r)
              \/ \E i \in {"COMPLETE", "ECHOUE"} : RecevoirIssueDepot(r, i) \/ traiterIssue(r, i)
         \/ \E m \in Membres, s \in Sommes :
              \/ \E p \in Preuves : AccepterPreuve(p, m, s)
              \/ \E w \in Retraits : ReleverRetrait(w, s)
         \/ \E p \in Preuves : DefairePreuve(p)
         \/ \E w \in Retraits, m \in Membres \cup {Personne} : attribuerRetrait(w, m)
  PROVE  PocheSuffit' /\ Provision'
<1>1. declarations' = declarations
  BY DEF PayerDepot, LireAbandon, AbandonnerDepot, RecevoirIssueDepot, traiterIssue,
         AccepterPreuve, ReleverRetrait, DefairePreuve, attribuerRetrait, HorsRegistre
<1>2. SUFFICES /\ contestes \subseteq contestes'
               /\ \A m \in Membres \ contestes' : disponible(m)' >= disponible(m)
  BY <1>1, PochesTiennent
<1>3. ASSUME NEW r \in References, NEW i \in {"COMPLETE", "ECHOUE"},
             PayerDepot(r) \/ LireAbandon(r) \/ RecevoirIssueDepot(r, i)
      PROVE  /\ contestes \subseteq contestes'
             /\ \A m \in Membres \ contestes' : disponible(m)' >= disponible(m)
  <2>1. UNCHANGED <<mouvements, preuves, retraits, depots, contestes>>
    BY <1>3 DEF PayerDepot, LireAbandon, RecevoirIssueDepot, RegistreInchange
  <2>. QED BY <2>1, PocheImmobile
<1>4. ASSUME NEW r \in References, AbandonnerDepot(r)
      PROVE  /\ contestes \subseteq contestes'
             /\ \A m \in Membres \ contestes' : disponible(m)' >= disponible(m)
  <2>1. /\ UNCHANGED <<mouvements, preuves, retraits, contestes>>
        /\ depots' = [depots EXCEPT ![r].statut = "ECHOUE"]
    BY <1>4 DEF AbandonnerDepot, RegistreInchange
  <2>. QED BY <2>1, PocheDepotEcrit
<1>5. ASSUME NEW r \in References, NEW i \in {"COMPLETE", "ECHOUE"}, traiterIssue(r, i)
      PROVE  /\ contestes \subseteq contestes'
             /\ \A m \in Membres \ contestes' : disponible(m)' >= disponible(m)
  <2>1. /\ UNCHANGED <<mouvements, preuves, retraits>>
        /\ <<r, i>> \in issues
        /\ contestes' = IF i = "COMPLETE" /\ depots[r].statut = "ECHOUE"
                        THEN contestes \cup {depots[r].membre} ELSE contestes
    BY <1>5 DEF traiterIssue, RegistreInchange
  <2>2. PICK s \in {"VALIDE", "ECHOUE"} :
          depots' = [depots EXCEPT ![r].statut = s] /\ (s = "VALIDE" => i = "COMPLETE")
    BY <1>5 DEF traiterIssue
  <2>3. depots[r].statut \in {"EN_ATTENTE", "VALIDE", "ECHOUE"}
    <3>1. \E k \in issues : k[1] = r
      BY <2>1
    <3>2. depots[r].statut # "ABSENT"
      BY <3>1 DEF Accord, DepotAccorde
    <3>3. depots[r].statut \in StatutsDepot
      BY DEF TypeFonds, Depot
    <3>. QED BY <3>2, <3>3 DEF StatutsDepot
  <2>4. ASSUME NEW m \in Membres \ contestes' PROVE disponible(m)' >= disponible(m)
    <3>1. s = "VALIDE" => depots[r].statut \in EnDepot \/ depots[r].membre # m
      BY <2>1, <2>2, <2>3, <2>4 DEF EnDepot
    <3>. QED BY <2>1, <2>2, <3>1, PocheDepotEcrit
  <2>. QED BY <2>1, <2>4
<1>6. ASSUME NEW p \in Preuves, NEW n \in Membres, NEW s, AccepterPreuve(p, n, s)
      PROVE  /\ contestes \subseteq contestes'
             /\ \A m \in Membres \ contestes' : disponible(m)' >= disponible(m)
  <2>1. /\ UNCHANGED <<mouvements, depots, retraits, contestes>>
        /\ preuves[p] = PasDePreuve
        /\ preuves' = [preuves EXCEPT ![p] = [membre |-> n, montant |-> s]]
    BY <1>6 DEF AccepterPreuve, HorsRegistre
  <2>2. \A x \in Preuves \ {p} : preuves'[x] = preuves[x]
    BY <2>1 DEF TypeFonds
  <2>3. ASSUME NEW m \in Membres \ contestes' PROVE disponible(m)' >= disponible(m)
    <3>1. /\ disponible(m)' = disponible(m) - Recettes(preuves, m)[p] + Recettes(preuves', m)[p]
          /\ Recettes(preuves, m)[p] \in Nat /\ Recettes(preuves', m)[p] \in Nat
      BY <2>1, <2>2, PochePreuve
    <3>2. Recettes(preuves, m)[p] = 0
      BY <2>1 DEF Recettes, PasDePreuve
    <3>3. disponible(m) \in Int
      BY DisponibleType
    <3>. QED BY <3>1, <3>2, <3>3
  <2>. QED BY <2>1, <2>3
<1>7. ASSUME NEW p \in Preuves, DefairePreuve(p)
      PROVE  /\ contestes \subseteq contestes'
             /\ \A m \in Membres \ contestes' : disponible(m)' >= disponible(m)
  <2>1. /\ UNCHANGED <<mouvements, depots, retraits>>
        /\ preuves' = [preuves EXCEPT ![p] = PasDePreuve]
        /\ contestes' = contestes \cup {preuves[p].membre}
    BY <1>7 DEF DefairePreuve, HorsRegistre
  <2>2. \A x \in Preuves \ {p} : preuves'[x] = preuves[x]
    BY <2>1 DEF TypeFonds
  <2>3. ASSUME NEW m \in Membres \ contestes' PROVE disponible(m)' >= disponible(m)
    <3>1. /\ disponible(m)' = disponible(m) - Recettes(preuves, m)[p] + Recettes(preuves', m)[p]
          /\ Recettes(preuves, m)[p] \in Nat /\ Recettes(preuves', m)[p] \in Nat
      BY <2>1, <2>2, PochePreuve
    <3>2. Recettes(preuves, m)[p] = 0
      BY <2>1, <2>3 DEF Recettes
    <3>3. disponible(m) \in Int
      BY DisponibleType
    <3>. QED BY <3>1, <3>2, <3>3
  <2>. QED BY <2>1, <2>3
<1>8. ASSUME NEW w \in Retraits, NEW s, NEW n \in Membres \cup {Personne},
             ReleverRetrait(w, s) \/ attribuerRetrait(w, n)
      PROVE  /\ contestes \subseteq contestes'
             /\ \A m \in Membres \ contestes' : disponible(m)' >= disponible(m)
  <2>1. UNCHANGED <<mouvements, depots, preuves>> /\ contestes \subseteq contestes'
    BY <1>8 DEF ReleverRetrait, attribuerRetrait, HorsRegistre
  <2>2. retraits \in [Retraits -> RetraitAttribue] /\ retraits[w] \in RetraitAttribue
    BY DEF TypeFonds
  <2>3. \/ /\ ~retraits[w].reussi
           /\ retraits' = [retraits EXCEPT ![w] = [retraits[w] EXCEPT !.reussi = TRUE, !.montant = s]]
        \/ /\ retraits' = [retraits EXCEPT ![w] = [retraits[w] EXCEPT !.detenteur = n]]
           /\ contestes' = contestes \cup ({retraits[w].detenteur} \ {n, Personne})
    BY <1>8 DEF ReleverRetrait, attribuerRetrait
  <2>4. \A x \in Retraits \ {w} : retraits'[x] = retraits[x]
    BY <2>2, <2>3
  <2>5. ASSUME NEW m \in Membres \ contestes' PROVE disponible(m)' >= disponible(m)
    <3>1. /\ disponible(m)' = disponible(m) - Attribues(retraits, m)[w] + Attribues(retraits', m)[w]
          /\ Attribues(retraits, m)[w] \in Nat /\ Attribues(retraits', m)[w] \in Nat
      BY <2>1, <2>4, PocheRetrait
    <3>2. Attribues(retraits, m)[w] = 0 \/ Attribues(retraits, m)[w] = Attribues(retraits', m)[w]
      <4>1. CASE retraits[w].reussi /\ retraits[w].detenteur = m
        <5>1. m # Personne
          BY FondsAssumption
        <5>2. /\ retraits' = [retraits EXCEPT ![w] = [retraits[w] EXCEPT !.detenteur = n]]
              /\ n = m
          BY <2>3, <2>5, <4>1, <5>1
        <5>3. retraits'[w].reussi /\ retraits'[w].detenteur = m /\ retraits'[w].montant = retraits[w].montant
          BY <2>2, <4>1, <5>2 DEF RetraitAttribue
        <5>. QED BY <4>1, <5>3 DEF Attribues
      <4>2. CASE ~(retraits[w].reussi /\ retraits[w].detenteur = m)
        BY <4>2 DEF Attribues
      <4>. QED BY <4>1, <4>2
    <3>3. disponible(m) \in Int
      BY DisponibleType
    <3>. QED BY <3>1, <3>2, <3>3
  <2>. QED BY <2>1, <2>5
<1>9. CASE \E r \in References :
              \/ PayerDepot(r) \/ LireAbandon(r) \/ AbandonnerDepot(r)
              \/ \E i \in {"COMPLETE", "ECHOUE"} : RecevoirIssueDepot(r, i) \/ traiterIssue(r, i)
  BY <1>3, <1>4, <1>5, <1>9
<1>10. CASE \/ \E m \in Membres, s \in Sommes :
                 \/ \E p \in Preuves : AccepterPreuve(p, m, s)
                 \/ \E w \in Retraits : ReleverRetrait(w, s)
            \/ \E p \in Preuves : DefairePreuve(p)
            \/ \E w \in Retraits, m \in Membres \cup {Personne} : attribuerRetrait(w, m)
  BY <1>6, <1>7, <1>8, <1>10
<1>. QED BY <1>9, <1>10

LEMMA PochesPreserveFile ==
  ASSUME TypeFonds, TypeFonds', PocheSuffit, Provision, NEW q \in Demandeurs,
         \/ \E d \in Declarations : Declarer(q, d)
         \/ \E r \in References : EnregistrerDepot(q, r)
         \/ EnregistrerMouvement(q) \/ OuvrirDepot(q) \/ InitierDepot(q) \/ ConclureDepot(q)
         \/ LancerDepot(q) \/ AppliquerDepot(q) \/ RenoncerDepot(q) \/ RefermerDepot(q)
  PROVE  PocheSuffit' /\ Provision'
<1>1. ASSUME NEW d \in Declarations, Declarer(q, d) PROVE PocheSuffit' /\ Provision'
  <2>1. PICK x : /\ declarations' = [declarations EXCEPT ![q] = x]
                 /\ x = [pc |-> IF d.type = "DEPOT_PLATEFORME" THEN "deposer" ELSE "enregistrer",
                         d |-> d, ref |-> Personne]
    BY <1>1 DEF Declarer
  <2>2. x.d = d
    BY <2>1
  <2>3. /\ declarations'[q] = x
        /\ \A o \in Demandeurs \ {q} : declarations'[o] = Dehors
        /\ EnFile' \subseteq {q}
    BY <1>1, <2>1 DEF Declarer, SonTour, EnFile, TypeFonds
  <2>4. UNCHANGED <<mouvements, preuves, retraits, depots, contestes>>
    BY <1>1 DEF Declarer, RegistreInchange
  <2>5. \A m \in Membres : disponible(m)' = disponible(m)
    <3>1. \A m \in Membres : disponible(m)' = Poche(mouvements, preuves, retraits, depots, m)
      BY <2>4, DisponibleApres
    <3>. QED BY <3>1, DisponibleEstPoche
  <2>6. PocheSuffit'
    BY <2>4, <2>5 DEF PocheSuffit
  <2>7. \A o, u \in EnFile' : o = u
    BY <2>3
  <2>8. ASSUME NEW o \in Demandeurs, Engagee(o)', declarations'[o].d.membre \notin contestes'
        PROVE  declarations'[o].d.montant <= disponible(declarations[o].d.membre)'
    <3>1. o = q /\ d.type \in SORTIES /\ declarations'[o].d = d
      <4>1. o = q
        BY <2>3, <2>8, DehorsPas DEF Engagee
      <4>. QED BY <2>2, <2>3, <2>8, <4>1 DEF Engagee
    <3>2. PICK m \in Membres : m = d.membre
      BY DEF Declarations
    <3>3. d.montant <= disponible(m)
      BY <1>1, <3>1, <3>2 DEF Declarer
    <3>4. d.montant <= disponible(m)'
      BY <2>5, <3>3
    <3>5. disponible(m)' = disponible(declarations[o].d.membre)'
      BY <3>1, <3>2
    <3>. QED BY <3>1, <3>4, <3>5
  <2>. QED BY <2>6, <2>7, <2>8 DEF Provision
<1>2. ASSUME NEW r \in References, EnregistrerDepot(q, r) PROVE PocheSuffit' /\ Provision'
  <2>1. declarations[q] \in Requete /\ q \in EnFile /\ Engagee(q)
    BY <1>2, EnFileValeur DEF EnregistrerDepot, TypeFonds, Engagee
  <2>2. PICK n \in Membres, s \in Nat : n = declarations[q].d.membre /\ s = declarations[q].d.montant
    BY <2>1, DeclarationsTypees DEF Requete, Declarations
  <2>3. UNCHANGED <<mouvements, preuves, retraits, contestes>>
    BY <1>2 DEF EnregistrerDepot, ResteInchange
  <2>4. PICK y : /\ depots' = [depots EXCEPT ![r] = y]
                 /\ y = [statut |-> "EN_ATTENTE", membre |-> n, montant |-> s]
    BY <1>2, <2>2 DEF EnregistrerDepot
  <2>5. y.statut = "EN_ATTENTE" /\ y.membre = n /\ y.montant = s
    BY <2>4
  <2>6. depots'[r] = y /\ \A x \in References \ {r} : depots'[x] = depots[x]
    BY <2>4 DEF TypeFonds
  <2>7. depots[r].statut = "ABSENT"
    BY <1>2 DEF EnregistrerDepot, PasDeDepot
  <2>8. ASSUME NEW m \in Membres
        PROVE  /\ m # n => disponible(m)' = disponible(m)
               /\ m = n => disponible(m)' = disponible(m) - s
    <3>1. disponible(m)' = disponible(m) + Places(depots, m, EnDepot)[r] - Places(depots', m, EnDepot)[r]
      BY <2>3, <2>6, PocheDepot
    <3>2. /\ Places(depots, m, EnDepot)[r] = 0
          /\ Places(depots', m, EnDepot)[r] = (IF n = m THEN s ELSE 0)
      BY <2>5, <2>6, <2>7 DEF Places, EnDepot
    <3>3. disponible(m) \in Int
      BY DisponibleType
    <3>. QED BY <3>1, <3>2, <3>3
  <2>9. PocheSuffit'
    <3>1. n \notin contestes => s <= disponible(n)
      BY <2>1, <2>2 DEF Provision
    <3>2. \A m \in Membres : disponible(m) \in Int
      BY DisponibleType
    <3>. QED BY <2>3, <2>8, <3>1, <3>2 DEF PocheSuffit
  <2>10. \A o \in Demandeurs : declarations'[o] # Dehors => declarations[o] # Dehors
    BY <1>2, <2>1 DEF EnregistrerDepot, TypeFonds, EnFile
  <2>11. \A o \in Demandeurs : ~Engagee(o)'
    <3>1. PICK z : /\ declarations' = [declarations EXCEPT ![q] = z]
                   /\ z = [declarations[q] EXCEPT !.pc = "ouvrir", !.ref = r]
      BY <1>2 DEF EnregistrerDepot
    <3>2. z.pc = "ouvrir" /\ declarations'[q] = z
      BY <2>1, <3>1 DEF Requete, TypeFonds
    <3>3. \A o \in Demandeurs \ {q} : declarations'[o] = Dehors
      BY <2>1, <3>1 DEF Provision, EnFile, TypeFonds
    <3>. QED BY <3>2, <3>3, DehorsPas DEF Engagee
  <2>. QED BY <2>9, <2>10, <2>11 DEF Provision, EnFile
<1>3. ASSUME EnregistrerMouvement(q) PROVE PocheSuffit' /\ Provision'
  <2>1. declarations[q] \in Requete /\ q \in EnFile
    BY <1>3, EnFileValeur DEF EnregistrerMouvement
  <2>2. PICK d \in Declarations : d = declarations[q].d
    BY <2>1 DEF Requete
  <2>3. UNCHANGED <<depots, preuves, retraits, contestes>>
    BY <1>3 DEF EnregistrerMouvement, ResteInchange
  <2>4. mouvements' = mouvements (+) SetToBag({d})
    BY <1>3, <2>2 DEF EnregistrerMouvement
  <2>5. d.montant \in Nat
    BY DeclarationsTypees
  <2>6. d.type \in SORTIES /\ d.membre \notin contestes => d.montant <= disponible(d.membre)
    BY <1>3, <2>2 DEF EnregistrerMouvement, Provision, Engagee
  <2>7. ASSUME NEW m \in Membres \ contestes PROVE disponible(m)' >= 0
    <3>1. disponible(m)' = disponible(m) + (IF d \in Receptions(m) THEN d.montant ELSE 0)
                                         + (IF d \in ArriveesChez(m) THEN d.montant ELSE 0)
                                         - (IF d \in Departs(m) THEN d.montant ELSE 0)
      BY <2>3, <2>4, PocheMouvement
    <3>2. disponible(m) \in Int /\ disponible(m) >= 0
      BY DisponibleType DEF PocheSuffit
    <3>3. d \in Departs(m) => d.montant <= disponible(m)
      <4>1. d \in Departs(m) => d.type \in SORTIES /\ d.membre = m
        BY DEF Departs
      <4>. QED BY <2>6, <2>7, <4>1
    <3>. QED BY <2>5, <3>1, <3>2, <3>3
  <2>8. \A o \in Demandeurs : declarations'[o] = Dehors
    BY <1>3, <2>1, SortieType DEF EnregistrerMouvement, Provision, EnFile
  <2>9. PocheSuffit'
    BY <2>3, <2>7 DEF PocheSuffit
  <2>10. \A o \in Demandeurs : ~Engagee(o)'
    BY <2>8, DehorsPas DEF Engagee
  <2>. QED BY <2>8, <2>9, <2>10 DEF Provision, EnFile
<1>4. ASSUME declarations[q].pc \in PasDuDepot,
             \/ OuvrirDepot(q) \/ InitierDepot(q) \/ ConclureDepot(q) \/ LancerDepot(q)
             \/ AppliquerDepot(q) \/ RenoncerDepot(q) \/ RefermerDepot(q)
      PROVE PocheSuffit' /\ Provision'
  <2>1. PICK r \in References : r = declarations[q].ref
    BY <1>4 DEF TypeFonds
  <2>2. UNCHANGED <<mouvements, preuves, retraits, contestes>>
    BY <1>4 DEF OuvrirDepot, InitierDepot, ConclureDepot, LancerDepot, AppliquerDepot,
                RenoncerDepot, RefermerDepot, ResteInchange, RegistreInchange
  <2>3. \A m \in Membres : disponible(m)' >= disponible(m)
    <3>1. CASE RefermerDepot(q)
      <4>1. depots' = [depots EXCEPT ![r].statut = "ECHOUE"]
        BY <2>1, <3>1 DEF RefermerDepot
      <4>. QED BY <2>2, <4>1, PocheDepotEcrit
    <3>2. CASE ~RefermerDepot(q)
      <4>1. depots' = depots
        BY <1>4, <3>2 DEF OuvrirDepot, InitierDepot, ConclureDepot, LancerDepot, AppliquerDepot,
                          RenoncerDepot
      <4>. QED BY <2>2, <4>1, PocheImmobile
    <3>. QED BY <3>1, <3>2
  <2>4. Sortir(q) \/ \E pc \in PasDuDepot : Avancer(q, pc)
    BY <1>4 DEF OuvrirDepot, InitierDepot, ConclureDepot, LancerDepot, AppliquerDepot,
                RenoncerDepot, RefermerDepot, PasDuDepot
  <2>5. PICK pc \in PasDuDepot : Avancer(q, pc) \/ Sortir(q)
    BY <2>4 DEF PasDuDepot
  <2>6. /\ \A o \in Demandeurs : declarations'[o] # Dehors => declarations[o] # Dehors
        /\ \A o \in Demandeurs : declarations'[o].pc \in {"enregistrer", "deposer"} =>
             declarations'[o] = declarations[o]
    BY <1>4, <2>5, AvanceType
  <2>. QED BY <2>2, <2>3, <2>6, PochesTiennent
<1>5. \/ OuvrirDepot(q) \/ InitierDepot(q) \/ ConclureDepot(q) \/ LancerDepot(q)
      \/ AppliquerDepot(q) \/ RenoncerDepot(q) \/ RefermerDepot(q)
      => declarations[q].pc \in PasDuDepot
  BY DEF OuvrirDepot, InitierDepot, ConclureDepot, LancerDepot, AppliquerDepot, RenoncerDepot,
         RefermerDepot, PasDuDepot
<1>. QED BY <1>1, <1>2, <1>3, <1>4, <1>5

LEMMA InvariantFondsInit == InitFonds => IInvFonds
<1>. SUFFICES ASSUME InitFonds PROVE IInvFonds
  OBVIOUS
<1>1. TypeFonds
  <2>1. LigneAbsente \in Ligne
    BY DEF LigneAbsente, Ligne, Statuts, Montants
  <2>2. Registre = {} /\ mouvements \in [Registre -> Nat] /\ IsFiniteSet(Registre)
    BY FS_EmptySet DEF InitFonds, Registre, BagToSet, EmptyBag, SetToBag
  <2>3. PasDeDepot \in Depot /\ PasDePreuve \in Recette /\ PasDeRetrait \in RetraitAttribue
    BY DEF PasDeDepot, PasDePreuve, PasDeRetrait, Depot, StatutsDepot, Recette, RetraitAttribue
  <2>4. /\ declarations \in [Demandeurs -> Requete \cup {Dehors}]
        /\ \A q \in Demandeurs : declarations[q].pc \notin PasDuDepot /\ declarations[q].pc # "deposer"
    BY DehorsPas DEF InitFonds
  <2>. QED BY <2>1, <2>2, <2>3, <2>4 DEF TypeFonds, InitFonds, JournalInit, JournalTypeOK
<1>2. Accord
  BY DehorsPas DEF InitFonds, JournalInit, Accord, DepotAccorde, LigneAbsente, PasDeDepot
<1>3. Provision
  BY DehorsPas DEF InitFonds, Provision, EnFile, Engagee
<1>4. ASSUME NEW m \in Membres PROVE disponible(m) >= 0
  <2>1. disponible(m) = Poche(mouvements, preuves, retraits, depots, m)
    BY <1>1, DisponibleEstPoche
  <2>2. m # Personne
    BY FondsAssumption
  <2>3. /\ \A r \in References : Places(depots, m, EnDepot)[r] = 0
        /\ DOMAIN mouvements = {}
    BY DEF InitFonds, Places, PasDeDepot, EnDepot, EmptyBag, SetToBag
  <2>4. Somme(Places(depots, m, EnDepot), References) = 0
    <3>. HIDE DEF Places
    <3>. QED BY <2>3, SommeNulle, ReferencesAssumption
  <2>5. \A E : Porte(mouvements, E) = 0
    BY <2>3, SommeVide DEF Porte
  <2>6. Somme(Recettes(preuves, m), Preuves) \in Nat /\ Somme(Attribues(retraits, m), Retraits) \in Nat
    BY <1>1, PartsDuFonds, PartsTypees
  <2>7. Poche(mouvements, preuves, retraits, depots, m)
          = 0 + Somme(Recettes(preuves, m), Preuves) + Somme(Attribues(retraits, m), Retraits) + 0 - 0 - 0
    BY <2>4, <2>5 DEF Poche
  <2>. QED BY <2>1, <2>6, <2>7
<1>. QED BY <1>1, <1>2, <1>3, <1>4 DEF IInvFonds, PocheSuffit

\* The pockets and the deposits stay right, whatever declarations, issues,
\* abandonments, proofs and withdrawals come in between.
THEOREM InvariantFonds == SpecFonds => []IInvFonds
<1>1. IInvFonds /\ [NextFonds]_varsFonds => IInvFonds'
  <2>. SUFFICES ASSUME IInvFonds, [NextFonds]_varsFonds PROVE IInvFonds'
    OBVIOUS
  <2>1. TypeFonds /\ PocheSuffit /\ Provision /\ Accord
    BY DEF IInvFonds
  <2>2. TypeFonds'
    BY <2>1, TypeFondsPreserve
  <2>3. CASE NextFonds
    <3>1. Accord'
      BY <2>1, <2>3, AccordDeclarations, AccordReste DEF NextFonds
    <3>2. PocheSuffit' /\ Provision'
      BY <2>1, <2>2, <2>3, PochesPreserveFile, PochesPreserveReste DEF NextFonds
    <3>. QED BY <2>2, <3>1, <3>2 DEF IInvFonds
  <2>4. CASE UNCHANGED varsFonds
    <3>1. Accord'
      BY <2>1, <2>4 DEF varsFonds, Accord, DepotAccorde
    <3>2. UNCHANGED <<mouvements, preuves, retraits, depots, contestes, declarations>>
      BY <2>4 DEF varsFonds
    <3>3. PocheSuffit' /\ Provision'
      BY <2>1, <2>2, <3>2, PocheImmobile, PochesTiennent
    <3>. QED BY <2>2, <3>1, <3>3 DEF IInvFonds
  <2>. QED BY <2>3, <2>4
<1>. QED BY <1>1, InvariantFondsInit, PTL DEF SpecFonds

\* No money is spent twice, by two declarations or while a deposit is pending, and
\* a deposit left a pocket exactly when the journal says it reached the platform.
THEOREM FondsToujoursJustes == SpecFonds => []FondsJustes
<1>1. IInvFonds => FondsJustes
  BY DEF IInvFonds, FondsJustes, Accord, DepotAccorde, DepotSuitJournal
<1>. QED BY <1>1, InvariantFonds, PTL

------------------------------------------------------------------------------
(* Collecte: for any number of requests and of people.                     *)

Lue == [statut : StatutsCollecte, du : MontantsCollecte \cup {0}, cibles : SUBSET Populations]

EtapesDuGeste == {"recenser", "creer", "annoncer", "ouvrir", "ecrire", "effacer"}
OperationsDuGeste == {"retoucher", "ouvrir", "supprimer", "rattraper", "consulter"}

GesteEnVol == [op : OperationsDuGeste, pc : EtapesDuGeste, lue : Lue, qui : SUBSET Appelables]

\* The values of the variables.
TypeCollecte ==
  /\ collecte \in Lue
  /\ collecte.statut # "ABSENTE" => collecte.du \in MontantsCollecte
  /\ profils \in [Appelables -> SUBSET Populations]
  /\ parts \in [Appelables -> MontantsCollecte \cup {SansPart}]
  /\ appels \in [Appelables -> Nat]
  /\ gestes \in [Tous -> GesteEnVol \cup {Oisif}]
  /\ \A g \in Tous : gestes[g] # Oisif => gestes[g].lue.du \in MontantsCollecte
  /\ venues \in Nat /\ croisee \in BOOLEAN

\* Who makes which request, at which step.
AQuiEstLeGeste ==
  \A g \in Tous : gestes[g] # Oisif =>
    /\ gestes[g].op \in {"retoucher", "ouvrir", "supprimer"} => g \in Guichets
    /\ gestes[g].pc = "ecrire" <=> gestes[g].op = "retoucher"
    /\ gestes[g].pc = "effacer" <=> gestes[g].op = "supprimer"
    /\ gestes[g].pc = "ouvrir" => gestes[g].op = "ouvrir"

\* Who is about to be told of the contribution has just been entered in it, by
\* one request only, and nobody else was told.
UnSeulAppel ==
  \A p \in Appelables :
    /\ appels[p] <= 1
    /\ collecte.statut # "SUPPRIMEE" /\ parts[p] = SansPart =>
         /\ appels[p] = 0
         /\ \A g \in Tous : gestes[g].pc = "annoncer" => p \notin gestes[g].qui
    /\ \A g \in Tous : gestes[g].pc = "annoncer" /\ p \in gestes[g].qui =>
         /\ appels[p] = 0
         /\ \A h \in Tous : gestes[h].pc = "annoncer" /\ p \in gestes[h].qui => g = h

\* A request of the treasury on the contribution itself.
DeTresorerie(g) == gestes[g] # Oisif /\ gestes[g].op \in {"retoucher", "ouvrir", "supprimer"}

\* Until it is open, only the treasury acts on a contribution; and while its
\* requests do not meet, an amount is corrected before anybody owes it.
MontantTenu ==
  /\ collecte.statut = "ABSENTE" => \A g \in Tous : gestes[g] = Oisif
  /\ collecte.statut = "BROUILLON" =>
       \A g \in Tous : gestes[g] # Oisif => DeTresorerie(g)
  /\ ~croisee =>
       /\ \A g, h \in Guichets : DeTresorerie(g) /\ DeTresorerie(h) => g = h
       /\ \A g \in Guichets : gestes[g] # Oisif /\ gestes[g].op = "retoucher" =>
            collecte.statut = "BROUILLON"
       /\ collecte.statut # "SUPPRIMEE" =>
            /\ \A g \in Tous : gestes[g] # Oisif /\ gestes[g].pc \in {"recenser", "creer"} =>
                 gestes[g].lue.du = collecte.du
            /\ \A p \in Appelables : parts[p] \in {SansPart, collecte.du}
       /\ collecte.statut \in {"ABSENTE", "BROUILLON"} =>
            \/ \A p \in Appelables : parts[p] = SansPart
            \/ \E g \in Guichets : gestes[g] # Oisif /\ gestes[g].op = "ouvrir"

IInvCollecte == TypeCollecte /\ AQuiEstLeGeste /\ UnSeulAppel /\ MontantTenu


LEMMA OisifPas == Oisif.pc = "oisif" /\ Oisif \notin GesteEnVol
<1>1. Oisif.pc = "oisif"
  BY DEF Oisif
<1>. QED BY <1>1 DEF GesteEnVol, EtapesDuGeste

LEMMA EnVol ==
  ASSUME TypeCollecte, NEW g \in Tous
  PROVE  /\ gestes[g] # Oisif <=> gestes[g] \in GesteEnVol
         /\ gestes[g] # Oisif <=> gestes[g].pc \in EtapesDuGeste
         /\ gestes[g] # Oisif => gestes[g].pc # "oisif"
<1>1. gestes[g] \in GesteEnVol \cup {Oisif}
  BY DEF TypeCollecte
<1>2. gestes[g] \in GesteEnVol => gestes[g].pc \in EtapesDuGeste
  BY DEF GesteEnVol
<1>. QED BY <1>1, <1>2, OisifPas DEF EtapesDuGeste

\* What a request becomes when it goes on.
LEMMA GesteSuivi ==
  ASSUME TypeCollecte, NEW g \in Tous, gestes[g] # Oisif,
         NEW pc \in EtapesDuGeste \cup {"oisif"}, NEW qui \in SUBSET Appelables, Suivre(g, pc, qui)
  PROVE  \E x \in GesteEnVol \cup {Oisif} :
           /\ gestes' = [gestes EXCEPT ![g] = x]
           /\ x = Oisif <=> pc = "oisif"
           /\ x # Oisif => x.op = gestes[g].op /\ x.lue = gestes[g].lue /\ x.pc = pc /\ x.qui = qui
<1>1. gestes[g] \in GesteEnVol
  BY EnVol
<1>2. CASE pc = "oisif"
  BY <1>2 DEF Suivre
<1>3. CASE pc # "oisif"
  <2>1. PICK x : x = [gestes[g] EXCEPT !.pc = pc, !.qui = qui]
    OBVIOUS
  <2>2. x \in GesteEnVol /\ x.op = gestes[g].op /\ x.lue = gestes[g].lue /\ x.pc = pc /\ x.qui = qui
    BY <1>1, <1>3, <2>1 DEF GesteEnVol
  <2>3. gestes' = [gestes EXCEPT ![g] = x]
    BY <1>3, <2>1 DEF Suivre
  <2>. QED BY <1>3, <2>2, <2>3, OisifPas
<1>. QED BY <1>2, <1>3

\* What a request is when it starts.
LEMMA GesteEntre ==
  ASSUME TypeCollecte, collecte.statut # "ABSENTE",
         NEW op \in OperationsDuGeste, NEW pc \in EtapesDuGeste
  PROVE  /\ Geste(op, pc) \in GesteEnVol
         /\ Geste(op, pc) # Oisif
         /\ Geste(op, pc).op = op /\ Geste(op, pc).pc = pc /\ Geste(op, pc).lue = collecte
         /\ Geste(op, pc).qui = {}
         /\ Geste(op, pc).lue.du \in MontantsCollecte
<1>1. Geste(op, pc) \in GesteEnVol
  BY DEF Geste, GesteEnVol, TypeCollecte
<1>2. Geste(op, pc).op = op /\ Geste(op, pc).pc = pc /\ Geste(op, pc).lue = collecte /\ Geste(op, pc).qui = {}
  BY DEF Geste
<1>. QED BY <1>1, <1>2, OisifPas DEF TypeCollecte

\* The requests after one of them moved.
LEMMA GestesApres ==
  ASSUME TypeCollecte, NEW g \in Tous, NEW x \in GesteEnVol \cup {Oisif},
         gestes' = [gestes EXCEPT ![g] = x],
         x # Oisif => x.lue.du \in MontantsCollecte
  PROVE  /\ gestes' \in [Tous -> GesteEnVol \cup {Oisif}]
         /\ gestes'[g] = x
         /\ \A h \in Tous \ {g} : gestes'[h] = gestes[h]
         /\ \A h \in Tous : gestes'[h] # Oisif => gestes'[h].lue.du \in MontantsCollecte
BY DEF TypeCollecte

\* Requests start: the pass, the treasury or a visit, on a contribution that is
\* open, and the requests of the treasury that read it first.
LEMMA DebutsTiennent ==
  ASSUME IInvCollecte, NEW g \in Tous,
         NEW op \in OperationsDuGeste, NEW pc \in EtapesDuGeste, NEW qui \in SUBSET Appelables,
         gestes[g] = Oisif,
         gestes' = [gestes EXCEPT ![g] = [Geste(op, pc) EXCEPT !.qui = qui]],
         UNCHANGED <<collecte, profils, parts, appels, venues>>,
         \/ /\ op \in {"rattraper", "consulter"} /\ pc \in {"recenser", "creer"}
            /\ collecte.statut = "OUVERTE" /\ croisee' = croisee
         \/ /\ g \in Guichets
            /\ croisee' = (croisee \/ \E h \in Guichets \ {g} : gestes[h] # Oisif)
            /\ \/ op = "retoucher" /\ pc = "ecrire" /\ collecte.statut = "BROUILLON"
               \/ op = "ouvrir" /\ pc = "recenser" /\ collecte.statut \in {"BROUILLON", "OUVERTE"}
               \/ op = "supprimer" /\ pc = "effacer" /\ collecte.statut = "BROUILLON"
  PROVE  IInvCollecte'
<1>. USE DEF IInvCollecte
<1>1. PICK x : x = [Geste(op, pc) EXCEPT !.qui = qui]
  OBVIOUS
<1>2. /\ x \in GesteEnVol /\ x # Oisif /\ x.op = op /\ x.pc = pc /\ x.lue = collecte /\ x.qui = qui
      /\ x.lue.du \in MontantsCollecte
  <2>1. collecte.statut # "ABSENTE"
    OBVIOUS
  <2>2. /\ Geste(op, pc) \in GesteEnVol
        /\ Geste(op, pc).op = op /\ Geste(op, pc).pc = pc /\ Geste(op, pc).lue = collecte
        /\ Geste(op, pc).lue.du \in MontantsCollecte
    BY <2>1, GesteEntre
  <2>3. x \in GesteEnVol /\ x.op = op /\ x.pc = pc /\ x.lue = collecte /\ x.qui = qui
    BY <1>1, <2>2 DEF GesteEnVol
  <2>. QED BY <2>2, <2>3, OisifPas
<1>3. /\ gestes' \in [Tous -> GesteEnVol \cup {Oisif}]
      /\ gestes'[g] = x
      /\ \A h \in Tous \ {g} : gestes'[h] = gestes[h]
      /\ \A h \in Tous : gestes'[h] # Oisif => gestes'[h].lue.du \in MontantsCollecte
  BY <1>1, <1>2, GestesApres
<1>4. croisee' \in BOOLEAN /\ (croisee => croisee')
  BY DEF TypeCollecte
<1>5. TypeCollecte'
  BY <1>3, <1>4 DEF TypeCollecte
<1>6. AQuiEstLeGeste'
  BY <1>2, <1>3 DEF AQuiEstLeGeste
<1>7. \A h \in Tous : gestes'[h].pc = "annoncer" => gestes[h].pc = "annoncer" /\ gestes'[h].qui = gestes[h].qui
  BY <1>2, <1>3
<1>8. UnSeulAppel'
  BY <1>7 DEF UnSeulAppel
<1>9. \A h \in Tous \ {g} : DeTresorerie(h)' <=> DeTresorerie(h)
  BY <1>3 DEF DeTresorerie
<1>10. ASSUME ~croisee', NEW h \in Guichets, DeTresorerie(h)', NEW k \in Guichets, DeTresorerie(k)'
       PROVE  h = k
  <2>1. h \in Tous /\ k \in Tous
    BY DEF Tous
  <2>2. CASE DeTresorerie(g)'
    <3>1. \A e \in Guichets \ {g} : gestes[e] = Oisif
      BY <1>2, <1>3, <1>10, <2>2 DEF DeTresorerie
    <3>. QED BY <1>9, <1>10, <2>1, <3>1 DEF DeTresorerie
  <2>3. CASE ~DeTresorerie(g)'
    BY <1>4, <1>9, <1>10, <2>1, <2>3 DEF MontantTenu
  <2>. QED BY <2>2, <2>3
<1>11. ASSUME NEW h \in Guichets, gestes'[h] # Oisif, gestes'[h].op = "retoucher", ~croisee'
       PROVE  collecte'.statut = "BROUILLON"
  <2>1. h \in Tous
    BY DEF Tous
  <2>. QED BY <1>2, <1>3, <1>4, <1>11, <2>1 DEF MontantTenu
<1>12. ASSUME ~croisee', collecte'.statut # "SUPPRIMEE"
       PROVE  /\ \A h \in Tous : gestes'[h] # Oisif /\ gestes'[h].pc \in {"recenser", "creer"} =>
                   gestes'[h].lue.du = collecte'.du
              /\ \A p \in Appelables : parts'[p] \in {SansPart, collecte'.du}
  BY <1>2, <1>3, <1>4, <1>12 DEF MontantTenu
<1>13. ASSUME ~croisee', collecte'.statut \in {"ABSENTE", "BROUILLON"}
       PROVE  \/ \A p \in Appelables : parts'[p] = SansPart
              \/ \E h \in Guichets : gestes'[h] # Oisif /\ gestes'[h].op = "ouvrir"
  <2>1. Guichets \subseteq Tous
    BY DEF Tous
  <2>2. \/ \A p \in Appelables : parts[p] = SansPart
        \/ \E h \in Guichets : gestes[h] # Oisif /\ gestes[h].op = "ouvrir"
    BY <1>4, <1>13 DEF MontantTenu
  <2>. QED BY <1>3, <2>1, <2>2
<1>14. collecte'.statut = "BROUILLON" => \A h \in Tous : gestes'[h] # Oisif => DeTresorerie(h)'
  BY <1>2, <1>3 DEF MontantTenu, DeTresorerie
<1>15. MontantTenu'
  BY <1>10, <1>11, <1>12, <1>13, <1>14 DEF MontantTenu
<1>. QED BY <1>5, <1>6, <1>8, <1>15

\* A request ends, or goes on to what it still has to do, and nothing else moves.
LEMMA Creees ==
  ASSUME TypeCollecte, NEW g \in Tous, gestes[g] # Oisif
  PROVE  /\ ACreer(g) \in SUBSET Appelables /\ Nouvelles(g) \in SUBSET Appelables
         /\ Ensuite(g) \in {"ouvrir", "oisif"}
BY EnVol DEF ACreer, Nouvelles, Vises, Ensuite, GesteEnVol

\* A request goes on: the contribution stays as it is, and who enters it owes
\* what the request read.
LEMMA SuitesTiennent ==
  ASSUME IInvCollecte, NEW g \in Tous, gestes[g] # Oisif,
         gestes[g].pc \in {"recenser", "creer", "annoncer"},
         NEW x \in GesteEnVol \cup {Oisif},
         gestes' = [gestes EXCEPT ![g] = x],
         x # Oisif => /\ x.op = gestes[g].op /\ x.lue = gestes[g].lue
                      /\ x.pc \in {"creer", "annoncer", "ouvrir"}
                      /\ x.pc = "ouvrir" => x.op = "ouvrir"
                      /\ x.pc = "creer" => gestes[g].pc = "recenser",
         x = Oisif => \/ gestes[g].op # "ouvrir"
                      \/ collecte.statut \in {"ABSENTE", "SUPPRIMEE"},
         UNCHANGED <<collecte, profils, venues, croisee>>,
         \/ parts' = parts
         \/ /\ gestes[g].pc = "creer" /\ Existe
            /\ \E s \in SUBSET Appelables :
                 parts' = [p \in Appelables |-> IF p \in s THEN gestes[g].lue.du ELSE parts[p]],
         appels' \in [Appelables -> Nat]
  PROVE  TypeCollecte' /\ AQuiEstLeGeste' /\ MontantTenu'
<1>. USE DEF IInvCollecte
<1>1. gestes[g].lue.du \in MontantsCollecte
  BY DEF TypeCollecte
<1>2. /\ gestes' \in [Tous -> GesteEnVol \cup {Oisif}]
      /\ gestes'[g] = x
      /\ \A h \in Tous \ {g} : gestes'[h] = gestes[h]
      /\ \A h \in Tous : gestes'[h] # Oisif => gestes'[h].lue.du \in MontantsCollecte
  BY <1>1, GestesApres
<1>3. parts' \in [Appelables -> MontantsCollecte \cup {SansPart}]
  BY <1>1 DEF TypeCollecte
<1>4. TypeCollecte'
  BY <1>2, <1>3 DEF TypeCollecte
<1>5. AQuiEstLeGeste'
  BY <1>2 DEF AQuiEstLeGeste
<1>6. \A h \in Tous : gestes'[h] # Oisif =>
        /\ gestes[h] # Oisif /\ gestes'[h].op = gestes[h].op /\ gestes'[h].lue = gestes[h].lue
        /\ gestes'[h].pc \in {"recenser", "creer"} => gestes[h].pc \in {"recenser", "creer"}
  BY <1>2
<1>7. \A h \in Tous : DeTresorerie(h)' => DeTresorerie(h)
  BY <1>6 DEF DeTresorerie
<1>8. /\ collecte'.statut = "ABSENTE" => \A h \in Tous : gestes'[h] = Oisif
      /\ collecte'.statut = "BROUILLON" => \A h \in Tous : gestes'[h] # Oisif => DeTresorerie(h)'
  BY <1>6 DEF MontantTenu, DeTresorerie
<1>9. ASSUME ~croisee' PROVE \A h, k \in Guichets : DeTresorerie(h)' /\ DeTresorerie(k)' => h = k
  BY <1>7, <1>9 DEF MontantTenu, Tous
<1>10. ASSUME ~croisee', NEW h \in Guichets, gestes'[h] # Oisif, gestes'[h].op = "retoucher"
       PROVE  collecte'.statut = "BROUILLON"
  BY <1>6, <1>10 DEF MontantTenu, Tous
<1>11. ASSUME ~croisee', collecte'.statut # "SUPPRIMEE"
       PROVE  /\ \A h \in Tous : gestes'[h] # Oisif /\ gestes'[h].pc \in {"recenser", "creer"} =>
                   gestes'[h].lue.du = collecte'.du
              /\ \A p \in Appelables : parts'[p] \in {SansPart, collecte'.du}
  <2>1. \A h \in Tous : gestes[h] # Oisif /\ gestes[h].pc \in {"recenser", "creer"} =>
          gestes[h].lue.du = collecte.du
    BY <1>11 DEF MontantTenu
  <2>2. \A p \in Appelables : parts[p] \in {SansPart, collecte.du}
    BY <1>11 DEF MontantTenu
  <2>. QED BY <1>6, <2>1, <2>2
<1>12. ASSUME ~croisee', collecte'.statut \in {"ABSENTE", "BROUILLON"}
       PROVE  \/ \A p \in Appelables : parts'[p] = SansPart
              \/ \E h \in Guichets : gestes'[h] # Oisif /\ gestes'[h].op = "ouvrir"
  <2>1. collecte.statut = "BROUILLON" /\ DeTresorerie(g)
    BY <1>12 DEF MontantTenu
  <2>2. g \in Guichets
    BY <2>1 DEF AQuiEstLeGeste, DeTresorerie
  <2>3. gestes[g].op = "ouvrir"
    BY <2>1 DEF AQuiEstLeGeste, DeTresorerie
  <2>4. x # Oisif
    BY <2>1, <2>3
  <2>. QED BY <1>2, <2>2, <2>3, <2>4
<1>. QED BY <1>4, <1>5, <1>8, <1>9, <1>10, <1>11, <1>12 DEF MontantTenu

LEMMA RecenserTient ==
  ASSUME IInvCollecte, NEW g \in Tous, Recenser(g)
  PROVE  IInvCollecte'
<1>. USE DEF IInvCollecte
<1>1. gestes[g] # Oisif /\ gestes[g].pc = "recenser"
  BY EnVol, OisifPas DEF Recenser
<1>2. PICK pc, qui : /\ pc = IF ACreer(g) = {} THEN Ensuite(g) ELSE "creer"
                     /\ qui = ACreer(g) /\ Suivre(g, pc, qui)
  BY DEF Recenser
<1>3. pc \in EtapesDuGeste \cup {"oisif"} /\ qui \in SUBSET Appelables
  BY <1>1, <1>2, Creees DEF EtapesDuGeste
<1>4. PICK x \in GesteEnVol \cup {Oisif} :
           /\ gestes' = [gestes EXCEPT ![g] = x]
           /\ x = Oisif <=> pc = "oisif"
           /\ x # Oisif => x.op = gestes[g].op /\ x.lue = gestes[g].lue /\ x.pc = pc /\ x.qui = qui
  BY <1>1, <1>2, <1>3, GesteSuivi
<1>5. UNCHANGED <<collecte, profils, parts, appels, venues, croisee>>
  BY DEF Recenser
<1>6. /\ pc \in {"creer", "ouvrir", "oisif"}
      /\ pc = "ouvrir" => gestes[g].op = "ouvrir"
      /\ pc = "oisif" => gestes[g].op # "ouvrir"
  BY <1>2 DEF Ensuite
<1>7. appels' \in [Appelables -> Nat]
  BY <1>5 DEF TypeCollecte
<1>8. TypeCollecte' /\ AQuiEstLeGeste' /\ MontantTenu'
  BY <1>1, <1>4, <1>5, <1>6, <1>7, SuitesTiennent
<1>9. \A h \in Tous : gestes'[h].pc = "annoncer" =>
        gestes[h].pc = "annoncer" /\ gestes'[h].qui = gestes[h].qui
  BY <1>4, <1>6, OisifPas DEF TypeCollecte
<1>10. UnSeulAppel'
  BY <1>5, <1>9 DEF UnSeulAppel
<1>. QED BY <1>8, <1>10

LEMMA CreerTient ==
  ASSUME IInvCollecte, NEW g \in Tous, CreerParts(g)
  PROVE  IInvCollecte'
<1>. USE DEF IInvCollecte
<1>1. gestes[g] # Oisif /\ gestes[g].pc = "creer"
  BY EnVol, OisifPas DEF CreerParts
<1>2. gestes[g].lue.du \in MontantsCollecte /\ gestes[g].lue.du # SansPart
  BY <1>1, CollecteAssumption DEF TypeCollecte, SansPart
<1>3. UNCHANGED <<collecte, profils, appels, venues, croisee>>
  BY DEF CreerParts
<1>4. appels' \in [Appelables -> Nat]
  BY <1>3 DEF TypeCollecte
<1>5. CASE Existe
  <2>1. PICK pc, qui : /\ pc = IF Nouvelles(g) = {} THEN Ensuite(g) ELSE "annoncer"
                       /\ qui = Nouvelles(g) /\ Suivre(g, pc, qui)
    BY <1>5 DEF CreerParts
  <2>2. pc \in EtapesDuGeste \cup {"oisif"} /\ qui \in SUBSET Appelables
    BY <1>1, <2>1, Creees DEF EtapesDuGeste
  <2>3. PICK x \in GesteEnVol \cup {Oisif} :
           /\ gestes' = [gestes EXCEPT ![g] = x]
           /\ x = Oisif <=> pc = "oisif"
           /\ x # Oisif => x.op = gestes[g].op /\ x.lue = gestes[g].lue /\ x.pc = pc /\ x.qui = qui
    BY <1>1, <2>1, <2>2, GesteSuivi
  <2>4. parts' = [p \in Appelables |-> IF p \in qui THEN gestes[g].lue.du ELSE parts[p]]
    BY <1>5, <2>1 DEF CreerParts
  <2>5. /\ pc \in {"annoncer", "ouvrir", "oisif"}
        /\ pc = "ouvrir" => gestes[g].op = "ouvrir"
        /\ pc = "oisif" => gestes[g].op # "ouvrir"
    BY <2>1 DEF Ensuite
  <2>6. TypeCollecte' /\ AQuiEstLeGeste' /\ MontantTenu'
    BY <1>1, <1>3, <1>4, <1>5, <2>2, <2>3, <2>4, <2>5, SuitesTiennent
  <2>7. \A p \in qui : parts[p] = SansPart
    BY <2>1 DEF Nouvelles
  <2>8. collecte.statut # "SUPPRIMEE"
    BY <1>5 DEF Existe
  <2>9. /\ \A h \in Tous \ {g} : gestes'[h] = gestes[h]
        /\ gestes'[g].pc = "annoncer" => gestes'[g].qui = qui
    BY <2>3, OisifPas DEF TypeCollecte
  <2>10. ASSUME NEW p \in Appelables
         PROVE  /\ appels'[p] <= 1
                /\ parts'[p] = SansPart =>
                     /\ appels'[p] = 0
                     /\ \A h \in Tous : gestes'[h].pc = "annoncer" => p \notin gestes'[h].qui
                /\ \A h \in Tous : gestes'[h].pc = "annoncer" /\ p \in gestes'[h].qui =>
                     /\ appels'[p] = 0
                     /\ \A k \in Tous : gestes'[k].pc = "annoncer" /\ p \in gestes'[k].qui => h = k
    <3>1. CASE p \in qui
      <4>1. parts[p] = SansPart /\ parts'[p] # SansPart
        BY <1>2, <2>4, <2>7, <3>1
      <4>2. /\ appels[p] = 0
            /\ \A h \in Tous : gestes[h].pc = "annoncer" => p \notin gestes[h].qui
        BY <2>8, <4>1 DEF UnSeulAppel
      <4>. QED BY <1>3, <2>9, <4>1, <4>2
    <3>2. CASE p \notin qui
      <4>1. parts'[p] = parts[p]
        BY <2>4, <3>2
      <4>2. \A h \in Tous : gestes'[h].pc = "annoncer" /\ p \in gestes'[h].qui =>
              gestes[h].pc = "annoncer" /\ p \in gestes[h].qui
        BY <2>9, <3>2
      <4>. QED BY <1>3, <2>8, <4>1, <4>2 DEF UnSeulAppel
    <3>. QED BY <3>1, <3>2
  <2>11. UnSeulAppel'
    BY <2>10 DEF UnSeulAppel
  <2>. QED BY <2>6, <2>11
<1>6. CASE ~Existe
  <2>1. gestes' = [gestes EXCEPT ![g] = Oisif] /\ parts' = parts
    BY <1>6 DEF CreerParts, Finir
  <2>2. collecte.statut \in {"ABSENTE", "SUPPRIMEE"}
    BY <1>6 DEF Existe
  <2>3. TypeCollecte' /\ AQuiEstLeGeste' /\ MontantTenu'
    BY <1>1, <1>3, <1>4, <2>1, <2>2, SuitesTiennent
  <2>4. \A h \in Tous : gestes'[h].pc = "annoncer" =>
          gestes[h].pc = "annoncer" /\ gestes'[h].qui = gestes[h].qui
    BY <2>1, OisifPas DEF TypeCollecte
  <2>5. UnSeulAppel'
    BY <1>3, <2>1, <2>4 DEF UnSeulAppel
  <2>. QED BY <2>3, <2>5
<1>. QED BY <1>5, <1>6

LEMMA AnnoncerTient ==
  ASSUME IInvCollecte, NEW g \in Tous, AnnoncerOuverture(g)
  PROVE  IInvCollecte'
<1>. USE DEF IInvCollecte
<1>1. gestes[g] # Oisif /\ gestes[g].pc = "annoncer"
  BY EnVol, OisifPas DEF AnnoncerOuverture
<1>2. UNCHANGED <<collecte, profils, parts, venues, croisee>>
  BY DEF AnnoncerOuverture
<1>3. PICK pc : pc = Ensuite(g) /\ Suivre(g, pc, {})
  BY DEF AnnoncerOuverture
<1>4. /\ pc \in {"ouvrir", "oisif"}
      /\ pc = "ouvrir" => gestes[g].op = "ouvrir"
      /\ pc = "oisif" => gestes[g].op # "ouvrir"
  BY <1>3 DEF Ensuite
<1>5. PICK x \in GesteEnVol \cup {Oisif} :
           /\ gestes' = [gestes EXCEPT ![g] = x]
           /\ x = Oisif <=> pc = "oisif"
           /\ x # Oisif => x.op = gestes[g].op /\ x.lue = gestes[g].lue /\ x.pc = pc /\ x.qui = {}
  <2>1. pc \in EtapesDuGeste \cup {"oisif"} /\ {} \in SUBSET Appelables
    BY <1>4 DEF EtapesDuGeste
  <2>. QED BY <1>1, <1>3, <2>1, GesteSuivi
<1>6. appels' = [p \in Appelables |-> appels[p] + IF p \in gestes[g].qui THEN 1 ELSE 0]
  BY DEF AnnoncerOuverture
<1>7. appels' \in [Appelables -> Nat]
  BY <1>6 DEF TypeCollecte
<1>8. TypeCollecte' /\ AQuiEstLeGeste' /\ MontantTenu'
  BY <1>1, <1>2, <1>4, <1>5, <1>7, SuitesTiennent
<1>9. /\ \A h \in Tous \ {g} : gestes'[h] = gestes[h]
      /\ gestes'[g].pc # "annoncer"
  BY <1>4, <1>5, OisifPas DEF TypeCollecte
<1>10. ASSUME NEW p \in Appelables
       PROVE  /\ appels'[p] <= 1
              /\ collecte'.statut # "SUPPRIMEE" /\ parts'[p] = SansPart =>
                   /\ appels'[p] = 0
                   /\ \A h \in Tous : gestes'[h].pc = "annoncer" => p \notin gestes'[h].qui
              /\ \A h \in Tous : gestes'[h].pc = "annoncer" /\ p \in gestes'[h].qui =>
                   /\ appels'[p] = 0
                   /\ \A k \in Tous : gestes'[k].pc = "annoncer" /\ p \in gestes'[k].qui => h = k
  <2>1. CASE p \in gestes[g].qui
    <3>1. appels[p] = 0 /\ appels'[p] = 1
      BY <1>1, <1>6, <2>1 DEF UnSeulAppel
    <3>2. \A h \in Tous : gestes'[h].pc = "annoncer" => p \notin gestes'[h].qui
      BY <1>1, <1>9, <2>1 DEF UnSeulAppel
    <3>3. ~(collecte.statut # "SUPPRIMEE" /\ parts[p] = SansPart)
      BY <1>1, <2>1 DEF UnSeulAppel
    <3>. QED BY <1>2, <3>1, <3>2, <3>3
  <2>2. CASE p \notin gestes[g].qui
    <3>1. appels'[p] = appels[p]
      BY <1>6, <2>2 DEF TypeCollecte
    <3>. QED BY <1>2, <1>9, <3>1 DEF UnSeulAppel
  <2>. QED BY <2>1, <2>2
<1>11. UnSeulAppel'
  BY <1>10 DEF UnSeulAppel
<1>. QED BY <1>8, <1>11

\* The requests of the treasury that end by a write.
LEMMA FinsTiennent ==
  ASSUME IInvCollecte, NEW g \in Tous, gestes[g] # Oisif,
         gestes[g].pc \in {"ecrire", "ouvrir", "effacer"},
         Finir(g), UNCHANGED <<profils, appels, venues, croisee>>,
         \/ /\ gestes[g].pc = "ecrire" /\ parts' = parts
            /\ \E m \in MontantsCollecte, c \in SUBSET Populations :
                 collecte' = IF Existe THEN [collecte EXCEPT !.du = m, !.cibles = c] ELSE collecte
         \/ /\ gestes[g].pc = "ouvrir" /\ parts' = parts
            /\ collecte' = IF Existe THEN [collecte EXCEPT !.statut = "OUVERTE"] ELSE collecte
         \/ /\ gestes[g].pc = "effacer"
            /\ parts' = [p \in Appelables |-> SansPart]
            /\ collecte' = [collecte EXCEPT !.statut = "SUPPRIMEE"]
  PROVE  IInvCollecte'
<1>. USE DEF IInvCollecte
<1>1. collecte.statut # "ABSENTE"
  BY DEF MontantTenu
<1>2. gestes' = [gestes EXCEPT ![g] = Oisif]
  BY DEF Finir
<1>3. /\ gestes' \in [Tous -> GesteEnVol \cup {Oisif}]
      /\ gestes'[g] = Oisif
      /\ \A h \in Tous \ {g} : gestes'[h] = gestes[h]
      /\ \A h \in Tous : gestes'[h] # Oisif => gestes'[h].lue.du \in MontantsCollecte
  BY <1>2, GestesApres
<1>4. /\ collecte' \in Lue /\ collecte'.statut # "ABSENTE" /\ collecte'.du \in MontantsCollecte
      /\ gestes[g].pc # "ecrire" => collecte'.du = collecte.du
      /\ collecte'.statut \in {collecte.statut, "OUVERTE", "SUPPRIMEE"}
      /\ collecte.statut = "SUPPRIMEE" => collecte'.statut = "SUPPRIMEE"
      /\ collecte'.statut = "OUVERTE" => collecte.statut = "OUVERTE" \/ gestes[g].pc = "ouvrir"
      /\ collecte'.statut = "SUPPRIMEE" => collecte.statut = "SUPPRIMEE" \/ gestes[g].pc = "effacer"
  BY <1>1 DEF TypeCollecte, Lue, StatutsCollecte, Existe
<1>5. TypeCollecte'
  <2>1. parts' \in [Appelables -> MontantsCollecte \cup {SansPart}]
    BY DEF TypeCollecte
  <2>. QED BY <1>3, <1>4, <2>1 DEF TypeCollecte
<1>6. AQuiEstLeGeste'
  BY <1>3 DEF AQuiEstLeGeste
<1>7. \A h \in Tous : gestes'[h].pc = "annoncer" =>
        gestes[h].pc = "annoncer" /\ gestes'[h].qui = gestes[h].qui
  BY <1>3, OisifPas
<1>8. \A p \in Appelables : collecte'.statut # "SUPPRIMEE" /\ parts'[p] = SansPart =>
        collecte.statut # "SUPPRIMEE" /\ parts[p] = SansPart
  BY <1>4 DEF Lue, TypeCollecte
<1>9. UnSeulAppel'
  BY <1>7, <1>8 DEF UnSeulAppel
<1>10. \A h \in Tous : gestes'[h] # Oisif => gestes[h] # Oisif /\ h # g /\ gestes'[h] = gestes[h]
  BY <1>3
<1>11. \A h \in Tous : DeTresorerie(h)' => DeTresorerie(h) /\ h # g
  BY <1>10 DEF DeTresorerie
<1>12. g \in Guichets /\ DeTresorerie(g)
  BY DEF AQuiEstLeGeste, DeTresorerie
<1>13. collecte'.statut = "BROUILLON" => \A h \in Tous : gestes'[h] # Oisif => DeTresorerie(h)'
  BY <1>4, <1>10 DEF MontantTenu, DeTresorerie
<1>14. ASSUME ~croisee'
       PROVE  /\ \A h, k \in Guichets : DeTresorerie(h)' /\ DeTresorerie(k)' => h = k
              /\ \A h \in Guichets : gestes'[h] # Oisif => gestes'[h].op \notin {"retoucher", "ouvrir"}
  <2>1. \A h, k \in Guichets : DeTresorerie(h) /\ DeTresorerie(k) => h = k
    BY <1>14 DEF MontantTenu
  <2>2. \A h \in Guichets : ~DeTresorerie(h)'
    BY <1>11, <1>12, <2>1 DEF Tous
  <2>. QED BY <2>2 DEF DeTresorerie
<1>15. ASSUME ~croisee', collecte'.statut # "SUPPRIMEE"
       PROVE  /\ \A h \in Tous : gestes'[h] # Oisif /\ gestes'[h].pc \in {"recenser", "creer"} =>
                   gestes'[h].lue.du = collecte'.du
              /\ \A p \in Appelables : parts'[p] \in {SansPart, collecte'.du}
  <2>1. /\ \A h \in Tous : gestes[h] # Oisif /\ gestes[h].pc \in {"recenser", "creer"} =>
             gestes[h].lue.du = collecte.du
        /\ \A p \in Appelables : parts[p] \in {SansPart, collecte.du}
    BY <1>4, <1>15 DEF MontantTenu
  <2>2. CASE gestes[g].pc = "ecrire"
    <3>1. gestes[g].op = "retoucher"
      BY <2>2 DEF AQuiEstLeGeste
    <3>2. collecte.statut = "BROUILLON"
      BY <1>12, <1>15, <3>1 DEF MontantTenu
    <3>3. \A h \in Tous : gestes'[h] = Oisif
      <4>1. ASSUME NEW h \in Tous, gestes'[h] # Oisif PROVE FALSE
        <5>1. DeTresorerie(h) /\ h # g
          BY <1>10, <3>2, <4>1 DEF MontantTenu
        <5>2. h \in Guichets
          BY <5>1 DEF AQuiEstLeGeste, DeTresorerie
        <5>. QED BY <1>12, <1>15, <5>1, <5>2 DEF MontantTenu
      <4>. QED BY <4>1
    <3>4. \A p \in Appelables : parts[p] = SansPart
      <4>1. ASSUME NEW h \in Guichets, gestes[h] # Oisif, gestes[h].op = "ouvrir" PROVE FALSE
        BY <1>12, <1>15, <3>1, <4>1 DEF MontantTenu, DeTresorerie
      <4>. QED BY <1>15, <3>2, <4>1 DEF MontantTenu
    <3>. QED BY <2>2, <3>3, <3>4
  <2>3. CASE gestes[g].pc # "ecrire"
    <3>1. parts' = parts /\ collecte'.du = collecte.du
      BY <1>4, <1>15, <2>3 DEF TypeCollecte, Lue
    <3>. QED BY <1>10, <2>1, <3>1
  <2>. QED BY <2>2, <2>3
<1>16. ASSUME ~croisee', collecte'.statut \in {"ABSENTE", "BROUILLON"}
       PROVE  \A p \in Appelables : parts'[p] = SansPart
  <2>1. collecte.statut = "BROUILLON" /\ gestes[g].pc # "ouvrir"
    BY <1>1, <1>4, <1>16 DEF TypeCollecte, Lue, Existe
  <2>2. gestes[g].op # "ouvrir"
    BY <2>1 DEF AQuiEstLeGeste
  <2>3. \A h \in Guichets : gestes[h] # Oisif => gestes[h].op # "ouvrir"
    BY <1>12, <1>16, <2>2 DEF MontantTenu, DeTresorerie
  <2>. QED BY <1>16, <2>1, <2>3 DEF MontantTenu
<1>17. MontantTenu'
  BY <1>4, <1>13, <1>14, <1>15, <1>16 DEF MontantTenu
<1>. QED BY <1>5, <1>6, <1>9, <1>17

\* The creation of the contribution, and its closing, which takes no turn.
LEMMA StatutsTiennent ==
  ASSUME IInvCollecte, Creer \/ Clore
  PROVE  IInvCollecte'
<1>. USE DEF IInvCollecte
<1>1. CASE Creer
  <2>1. PICK m \in MontantsCollecte, c \in SUBSET Populations :
          /\ collecte.statut = "ABSENTE"
          /\ collecte' = [statut |-> "BROUILLON", du |-> m, cibles |-> c]
          /\ UNCHANGED <<profils, parts, appels, gestes, venues, croisee>>
    BY <1>1 DEF Creer
  <2>2. \A g \in Tous : gestes[g] = Oisif
    BY <2>1 DEF MontantTenu
  <2>3. collecte' \in Lue /\ collecte'.du = m /\ collecte'.statut = "BROUILLON"
    BY <2>1 DEF Lue, StatutsCollecte
  <2>4. TypeCollecte'
    BY <2>1, <2>3 DEF TypeCollecte
  <2>5. AQuiEstLeGeste' /\ UnSeulAppel'
    BY <2>1 DEF AQuiEstLeGeste, UnSeulAppel
  <2>6. ~croisee => \A p \in Appelables : parts[p] = SansPart
    BY <2>1, <2>2 DEF MontantTenu, Tous
  <2>7. \A g \in Guichets : ~DeTresorerie(g)' /\ gestes'[g] = Oisif
    BY <2>1, <2>2 DEF DeTresorerie, Tous
  <2>8. MontantTenu'
    BY <2>1, <2>2, <2>3, <2>6, <2>7 DEF MontantTenu
  <2>. QED BY <2>4, <2>5, <2>8
<1>2. CASE Clore
  <2>1. PICK g \in Guichets :
          /\ Existe /\ gestes[g] = Oisif
          /\ collecte' = [collecte EXCEPT !.statut = "CLOSE"]
          /\ croisee' = (croisee \/ \E h \in Guichets : gestes[h] # Oisif)
          /\ UNCHANGED <<profils, parts, appels, gestes, venues>>
    BY <1>2 DEF Clore
  <2>2. /\ collecte' \in Lue /\ collecte'.statut = "CLOSE" /\ collecte'.du = collecte.du
        /\ collecte.statut \notin {"ABSENTE", "SUPPRIMEE"}
    BY <2>1 DEF TypeCollecte, Lue, StatutsCollecte, Existe
  <2>3. TypeCollecte'
    BY <2>1, <2>2 DEF TypeCollecte
  <2>4. AQuiEstLeGeste' /\ UnSeulAppel'
    BY <2>1, <2>2 DEF AQuiEstLeGeste, UnSeulAppel
  <2>5. ~croisee' => ~croisee /\ \A h \in Guichets : gestes'[h] = Oisif /\ ~DeTresorerie(h)'
    BY <2>1 DEF TypeCollecte, DeTresorerie
  <2>6. MontantTenu'
    BY <2>1, <2>2, <2>5 DEF MontantTenu
  <2>. QED BY <2>3, <2>4, <2>6
<1>. QED BY <1>1, <1>2

\* Situations change, and the server restarts.
LEMMA MondeTient ==
  ASSUME IInvCollecte, RedemarrerCollecte \/ \E p \in Appelables : ChangerDeProfil(p)
  PROVE  IInvCollecte'
<1>. USE DEF IInvCollecte
<1>1. CASE RedemarrerCollecte
  <2>1. /\ gestes' = [g \in Tous |-> Oisif] /\ venues' = venues + 1
        /\ croisee' = (croisee \/ \E g \in Guichets : gestes[g] # Oisif /\ gestes[g].op = "ouvrir")
        /\ UNCHANGED <<collecte, profils, parts, appels>>
    BY <1>1 DEF RedemarrerCollecte
  <2>2. \A g \in Tous : gestes'[g] = Oisif /\ gestes'[g].pc # "annoncer"
    BY <2>1, OisifPas
  <2>3. TypeCollecte'
    BY <2>1, <2>2 DEF TypeCollecte
  <2>4. AQuiEstLeGeste' /\ UnSeulAppel'
    BY <2>1, <2>2 DEF AQuiEstLeGeste, UnSeulAppel
  <2>5. \A g \in Guichets : gestes'[g] = Oisif /\ ~DeTresorerie(g)'
    BY <2>2 DEF Tous, DeTresorerie
  <2>6. ~croisee' => ~croisee /\ ~\E g \in Guichets : gestes[g] # Oisif /\ gestes[g].op = "ouvrir"
    BY <2>1 DEF TypeCollecte
  <2>7. MontantTenu'
    BY <2>1, <2>2, <2>5, <2>6 DEF MontantTenu
  <2>. QED BY <2>3, <2>4, <2>7
<1>2. CASE \E p \in Appelables : ChangerDeProfil(p)
  <2>1. PICK p \in Appelables, s \in SUBSET Populations :
          /\ profils' = [profils EXCEPT ![p] = s] /\ venues' = venues + 1
          /\ UNCHANGED <<collecte, parts, appels, gestes, croisee>>
    BY <1>2 DEF ChangerDeProfil
  <2>2. TypeCollecte'
    BY <2>1 DEF TypeCollecte
  <2>3. AQuiEstLeGeste' /\ UnSeulAppel' /\ MontantTenu'
    BY <2>1 DEF AQuiEstLeGeste, UnSeulAppel, MontantTenu, DeTresorerie
  <2>. QED BY <2>2, <2>3
<1>. QED BY <1>1, <1>2

\* The calls stay right, whatever openings, passes, visits, corrections and
\* restarts meet.
THEOREM InvariantCollecte == SpecCollecte => []IInvCollecte
<1>1. InitCollecte => IInvCollecte
  <2>. SUFFICES ASSUME InitCollecte PROVE IInvCollecte
    OBVIOUS
  <2>1. \A g \in Tous : gestes[g] = Oisif /\ gestes[g].pc # "annoncer"
    BY OisifPas DEF InitCollecte
  <2>2. TypeCollecte
    BY <2>1 DEF InitCollecte, TypeCollecte, Lue, StatutsCollecte
  <2>3. AQuiEstLeGeste /\ UnSeulAppel
    BY <2>1 DEF InitCollecte, AQuiEstLeGeste, UnSeulAppel
  <2>4. \A g \in Guichets : gestes[g] = Oisif /\ ~DeTresorerie(g)
    BY <2>1 DEF Tous, DeTresorerie
  <2>5. MontantTenu
    BY <2>1, <2>4 DEF InitCollecte, MontantTenu
  <2>. QED BY <2>2, <2>3, <2>5 DEF IInvCollecte
<1>2. IInvCollecte /\ [NextCollecte]_varsCollecte => IInvCollecte'
  <2>. SUFFICES ASSUME IInvCollecte, [NextCollecte]_varsCollecte PROVE IInvCollecte'
    OBVIOUS
  <2>1. CASE Creer \/ Clore \/ RedemarrerCollecte
    BY <2>1, StatutsTiennent, MondeTient
  <2>2. ASSUME NEW p \in Appelables, Consulter(p) PROVE IInvCollecte'
    <3>1. /\ p \in Tous /\ gestes[p] = Oisif /\ collecte.statut = "OUVERTE"
          /\ gestes' = [gestes EXCEPT ![p] = [Geste("consulter", "creer") EXCEPT !.qui = {p}]]
          /\ UNCHANGED <<collecte, profils, parts, appels, venues, croisee>>
      BY <2>2 DEF Consulter, Tous
    <3>2. /\ "consulter" \in OperationsDuGeste /\ "creer" \in EtapesDuGeste
          /\ {p} \in SUBSET Appelables
      BY DEF OperationsDuGeste, EtapesDuGeste
    <3>. QED BY <3>1, <3>2, DebutsTiennent
  <2>3. ASSUME NEW g \in {Passe} \cup Guichets, Rattraper(g) PROVE IInvCollecte'
    <3>1. /\ g \in Tous /\ gestes[g] = Oisif /\ collecte.statut = "OUVERTE"
          /\ gestes' = [gestes EXCEPT ![g] = Geste("rattraper", "recenser")]
          /\ UNCHANGED <<collecte, profils, parts, appels, venues, croisee>>
      BY <2>3 DEF Rattraper, Tous
    <3>2. /\ "rattraper" \in OperationsDuGeste /\ "recenser" \in EtapesDuGeste
          /\ {} \in SUBSET Appelables
      BY DEF OperationsDuGeste, EtapesDuGeste
    <3>3. Geste("rattraper", "recenser") = [Geste("rattraper", "recenser") EXCEPT !.qui = {}]
      BY DEF Geste
    <3>. QED BY <3>1, <3>2, <3>3, DebutsTiennent
  <2>4. ASSUME NEW g \in Guichets,
               LireRetouche(g) \/ LireOuverture(g) \/ LireSuppressionCollecte(g)
        PROVE  IInvCollecte'
    <3>1. PICK op, pc :
            /\ EntrerEnGeste(g, Geste(op, pc))
            /\ UNCHANGED <<collecte, profils, parts, appels, venues>>
            /\ \/ op = "retoucher" /\ pc = "ecrire" /\ collecte.statut = "BROUILLON"
               \/ op = "ouvrir" /\ pc = "recenser" /\ Existe /\ collecte.statut # "CLOSE"
               \/ op = "supprimer" /\ pc = "effacer" /\ collecte.statut = "BROUILLON"
      BY <2>4 DEF LireRetouche, LireOuverture, LireSuppressionCollecte, Modifiable
    <3>2. op \in OperationsDuGeste /\ pc \in EtapesDuGeste /\ {} \in SUBSET Appelables
      BY <3>1 DEF OperationsDuGeste, EtapesDuGeste
    <3>3. Geste(op, pc) = [Geste(op, pc) EXCEPT !.qui = {}]
      BY DEF Geste
    <3>4. /\ g \in Tous /\ gestes[g] = Oisif
          /\ gestes' = [gestes EXCEPT ![g] = Geste(op, pc)]
          /\ croisee' = (croisee \/ \E h \in Guichets \ {g} : gestes[h] # Oisif)
      BY <3>1 DEF EntrerEnGeste, Tous
    <3>5. \/ op = "retoucher" /\ pc = "ecrire" /\ collecte.statut = "BROUILLON"
          \/ op = "ouvrir" /\ pc = "recenser" /\ collecte.statut \in {"BROUILLON", "OUVERTE"}
          \/ op = "supprimer" /\ pc = "effacer" /\ collecte.statut = "BROUILLON"
      BY <3>1 DEF IInvCollecte, TypeCollecte, Lue, StatutsCollecte, Existe
    <3>. QED BY <3>1, <3>2, <3>3, <3>4, <3>5, DebutsTiennent
  <2>5. ASSUME NEW g \in Tous, EcrireRetouche(g) \/ EcrireOuverture(g) \/ Supprimer(g)
        PROVE  IInvCollecte'
    <3>1. gestes[g] # Oisif /\ gestes[g].pc \in {"ecrire", "ouvrir", "effacer"}
      BY <2>5, OisifPas DEF EcrireRetouche, EcrireOuverture, Supprimer
    <3>. QED BY <2>5, <3>1, FinsTiennent DEF EcrireRetouche, EcrireOuverture, Supprimer
  <2>6. ASSUME NEW g \in Tous, PasDeGeste(g) PROVE IInvCollecte'
    BY <2>5, <2>6, RecenserTient, CreerTient, AnnoncerTient DEF PasDeGeste
  <2>7. ASSUME NEW p \in Appelables, ChangerDeProfil(p) PROVE IInvCollecte'
    BY <2>7, MondeTient
  <2>8. CASE UNCHANGED varsCollecte
    BY <2>8 DEF varsCollecte, IInvCollecte, TypeCollecte, AQuiEstLeGeste, UnSeulAppel,
                MontantTenu, DeTresorerie
  <2>9. Guichets \subseteq Tous
    BY DEF Tous
  <2>. QED BY <2>1, <2>2, <2>3, <2>4, <2>5, <2>6, <2>7, <2>8, <2>9 DEF NextCollecte
<1>. QED BY <1>1, <1>2, PTL DEF SpecCollecte

\* Nobody is told twice of a contribution, everybody told of it is in it, and owes
\* the amount it shows unless requests of the treasury met.
THEOREM AppelsToujoursJustes == SpecCollecte => []AppelsJustes
<1>1. IInvCollecte => AppelsJustes
  BY DEF IInvCollecte, AppelsJustes, AppelUnique, DuFige, UnSeulAppel, MontantTenu
<1>. QED BY <1>1, InvariantCollecte, PTL

------------------------------------------------------------------------------
(* Partage: for any number of people and of requests.                      *)

Visees(l) == ToSet(lots[l].pour)

SousFiles == {"lire", "ecrire", "defaire"}
AvantOuverture == {"repos", "verrous", "lire", "ecrire", "defaire", "ouvrir"}

LotType == [pc : EtapesLot, pour : Demandes \cup {<< >>}, rang : Nat]

Suite == [lot : Lots, issue : {"COMPLETE", "ECHOUE"}, pour : SUBSET Cotisants]

\* What a request stands at.
Situe(l) ==
  /\ lots[l].pc = "repos" => lots[l].pour = << >>
  /\ lots[l].pc # "repos" => lots[l].pour \in Demandes
  /\ lots[l].pc \in SousFiles \cup {"verrous"} => lots[l].rang \in 1 .. Len(lots[l].pour)

\* The values of the variables.
TypePartage ==
  /\ journalPartage \in [Lots -> JL!Ligne]
  /\ reglementsLot \in [Lots -> [Cotisants -> JL!Statuts \cup {"AUCUN"}]]
  /\ soldes \in [Cotisants -> Nat]
  /\ appelOuvert \in BOOLEAN
  /\ files \in [Cotisants -> Seq(Lots)]
  /\ lots \in [Lots -> LotType] /\ \A l \in Lots : Situe(l)
  /\ fapshiLot \in [Lots -> EtatsFapshi]
  /\ suites \subseteq Suite
  /\ renoncements \in [Lots -> {"repos", "expirer", "appliquer", "refermer"}]
  /\ echoues \subseteq Lots /\ meles \subseteq Lots

\* Who has a payment in a lot, and since when the journal has its row.
ReserveDe(l) ==
  /\ lots[l].pc \in {"repos", "verrous"} => Rangs(l) = {}
  /\ lots[l].pc \in SousFiles =>
       Rangs(l) = {lots[l].pour[i] : i \in 1 .. lots[l].rang - 1}
  /\ lots[l].pc \in {"ouvrir", "initier", "appele", "appliquer", "abandonner", "refermer"} =>
       Rangs(l) = Visees(l)
  /\ lots[l].pc = "fini" => \/ Rangs(l) = Visees(l) /\ journalPartage[l].statut # "ABSENTE"
                            \/ Rangs(l) = {} /\ journalPartage[l].statut = "ABSENTE"
  /\ lots[l].pc \in AvantOuverture => journalPartage[l].statut = "ABSENTE"
  /\ lots[l].pc \in EtapesLot \ (AvantOuverture \cup {"fini"}) => journalPartage[l].statut # "ABSENTE"
  /\ lots[l].pc \in AvantOuverture \cup {"initier"} => fapshiLot[l] = "INCONNU"
  /\ lots[l].pc \in {"initier", "appele"} => ~journalPartage[l].ext
  /\ journalPartage[l].statut = "ABSENTE" => ~journalPartage[l].ext
  /\ journalPartage[l].statut = "COMPLETE" => fapshiLot[l] = "PAYE"
  /\ lots[l].pc = "appliquer" => fapshiLot[l] = "PAYE"
  /\ \A s \in suites : s.lot = l =>
       /\ s.pour # {} /\ s.pour \subseteq Rangs(l)
       /\ journalPartage[l].statut # "ABSENTE"
  /\ \A p \in Cotisants : reglementsLot[l][p] = "ECHOUE" => l \in echoues

\* A lot holds the queues it went through, and waits in the next one.
Tient(l, p) == files[p] # << >> /\ Head(files[p]) = l

Attend(l, p) == \E k \in DOMAIN files[p] : files[p][k] = l

Verrous(l) ==
  /\ lots[l].pc = "verrous" =>
       /\ \A i \in 1 .. lots[l].rang - 1 : Tient(l, Cles(lots[l].pour)[i])
       /\ Attend(l, Cles(lots[l].pour)[lots[l].rang])
  /\ lots[l].pc \in SousFiles => \A p \in Visees(l) : Tient(l, p)

\* The payments of a lot are in one state, but for those an issue on its way has
\* not reached; that state, or the issue, is what the journal says.
Carnet(l) ==
  /\ \A s, t \in suites : s.lot = l /\ t.lot = l => s = t
  /\ renoncements[l] # "repos" => lots[l].pc = "fini" /\ \A s \in suites : s.lot # l
  /\ lots[l].pc \in {"abandonner", "refermer"} => \A s \in suites : s.lot # l
  /\ renoncements[l] # "repos" \/ lots[l].pc \in {"abandonner", "refermer"} =>
       journalPartage[l].statut # "COMPLETE"
  /\ lots[l].pc \in SousFiles => \A p \in Rangs(l) : reglementsLot[l][p] = "EN_ATTENTE"
  /\ lots[l].pc \in {"initier", "appele"} /\ fapshiLot[l] # "PAYE" =>
       journalPartage[l].statut = "EN_ATTENTE" /\ \A s \in suites : s.lot # l
  /\ \A s \in suites : s.lot = l =>
       /\ s.issue = journalPartage[l].statut
       /\ \A p \in Visees(l) \ s.pour : reglementsLot[l][p] = s.issue
       /\ \A p \in s.pour : reglementsLot[l][p] # "COMPLETE"
       /\ \A p, q \in s.pour : reglementsLot[l][p] = reglementsLot[l][q]
  /\ (\A s \in suites : s.lot # l) /\ lots[l].pc \notin SousFiles =>
       \A p, q \in Visees(l) :
         /\ reglementsLot[l][p] = reglementsLot[l][q]
         /\ reglementsLot[l][p] = "COMPLETE" <=> journalPartage[l].statut = "COMPLETE"

Payes(p) == {l \in Lots : reglementsLot[l][p] = "COMPLETE"}
Engages(p) == {l \in Lots : reglementsLot[l][p] \in {"COMPLETE", "EN_ATTENTE"}}

\* Nothing was paid after it was given up or refused.
SansRetour(p) == \A l \in echoues : p \in Visees(l) => fapshiLot[l] # "PAYE"

\* What is credited is what lots paid, and what is engaged what is due at most,
\* less what a lot is about to engage.
Comptes ==
  meles = {} => \A p \in Cotisants :
    /\ soldes[p] = Cardinality(Payes(p))
    /\ SansRetour(p) =>
         /\ Cardinality(Engages(p)) <= DuPartage
         /\ \A l \in Lots : lots[l].pc = "ecrire" /\ lots[l].pour[lots[l].rang] = p =>
              Cardinality(Engages(p)) < DuPartage

IInvPartage ==
  /\ TypePartage /\ Comptes
  /\ \A l \in Lots : ReserveDe(l) /\ Verrous(l)
  /\ \A l \in Lots \ meles : Carnet(l)


------------------------------------------------------------------------------
(* The queues are taken in one order.                                      *)

Croissante(s, n) == \A i, j \in 1 .. n : i < j => s[i] < s[j]

\* A finite set of numbers can be put in order.
LEMMA Rangement ==
  ASSUME NEW S \in SUBSET Nat, IsFiniteSet(S)
  PROVE  \E s \in [1 .. Cardinality(S) -> S] : Croissante(s, Cardinality(S))
<1>. DEFINE B == {T \in SUBSET S : \E s \in [1 .. Cardinality(T) -> T] : Croissante(s, Cardinality(T))}
<1>1. {} \in B
  <2>1. Cardinality({}) = 0
    BY FS_EmptySet
  <2>2. [i \in 1 .. 0 |-> 0] \in [1 .. 0 -> {}] /\ Croissante([i \in 1 .. 0 |-> 0], 0)
    BY DEF Croissante
  <2>. QED BY <2>1, <2>2
<1>2. ASSUME NEW T \in SUBSET S, T # {}, \A x \in T : T \ {x} \in B
      PROVE  T \in B
  <2>1. IsFiniteSet(T) /\ Cardinality(T) \in Nat
    BY FS_Subset, FS_CardinalityType
  <2>2. PICK x \in T : \A y \in T : x <= y
    <3>1. T \subseteq Nat
      OBVIOUS
    <3>. QED BY <1>2, <3>1, PlusPetit
  <2>3. T \ {x} \in B
    BY <1>2
  <2>4. PICK n \in Nat : n = Cardinality(T \ {x}) /\ Cardinality(T) = n + 1
    <3>1. Cardinality(T \ {x}) = Cardinality(T) - 1 /\ IsFiniteSet(T \ {x})
      BY <2>1, FS_RemoveElement
    <3>2. Cardinality(T \ {x}) \in Nat
      BY <3>1, FS_CardinalityType
    <3>. QED BY <2>1, <3>1, <3>2
  <2>5. PICK s \in [1 .. n -> T \ {x}] : Croissante(s, n)
    BY <2>3, <2>4
  <2>. DEFINE u == [i \in 1 .. n + 1 |-> IF i = 1 THEN x ELSE s[i - 1]]
  <2>6. \A i \in 1 .. n + 1 : i = 1 \/ i - 1 \in 1 .. n
    BY <2>4
  <2>7. u \in [1 .. n + 1 -> T]
    BY <2>5, <2>6
  <2>8. ASSUME NEW i \in 1 .. n + 1, NEW j \in 1 .. n + 1, i < j PROVE u[i] < u[j]
    <3>1. j # 1 /\ j - 1 \in 1 .. n /\ u[j] = s[j - 1] /\ s[j - 1] \in T \ {x}
      BY <2>5, <2>6, <2>8
    <3>2. CASE i = 1
      <4>1. u[i] = x /\ x \in Nat /\ s[j - 1] \in Nat
        BY <2>7, <3>1, <3>2
      <4>2. x <= s[j - 1] /\ x # s[j - 1]
        BY <2>2, <3>1
      <4>. QED BY <3>1, <4>1, <4>2
    <3>3. CASE i # 1
      <4>1. i - 1 \in 1 .. n /\ i - 1 < j - 1 /\ u[i] = s[i - 1]
        BY <2>6, <2>8, <3>3
      <4>. QED BY <2>5, <3>1, <4>1 DEF Croissante
    <3>. QED BY <3>2, <3>3
  <2>9. Croissante(u, n + 1)
    <3>. HIDE DEF u
    <3>. QED BY <2>8 DEF Croissante
  <2>. QED BY <2>4, <2>7, <2>9
<1>3. SUBSET S \subseteq B
  <2>. HIDE DEF B
  <2>. QED BY <1>1, <1>2, RecurrenceFinie
<1>. QED BY <1>3

\* The keys of a request are the participations it asks for, each once.
LEMMA ClesBien ==
  ASSUME NEW d \in Demandes
  PROVE  /\ d \in Seq(Cotisants) /\ Len(d) \in Nat \ {0}
         /\ ToSet(d) \subseteq Cotisants
         /\ Cles(d) \in [1 .. Len(d) -> ToSet(d)]
         /\ \A p \in ToSet(d) : \E i \in 1 .. Len(d) : Cles(d)[i] = p
         /\ \A i, j \in 1 .. Len(d) : d[i] = d[j] => i = j
<1>1. d \in Seq(Cotisants) /\ d # << >> /\ IsInjective(d) /\ Cotisants \subseteq Nat
  BY PartageAssumption
<1>2. PICK n \in Nat \ {0} : n = Len(d) /\ DOMAIN d = 1 .. n
  BY <1>1
<1>3. \A i, j \in 1 .. n : d[i] = d[j] => i = j
  BY <1>1, <1>2 DEF IsInjective
<1>4. ToSet(d) = {d[i] : i \in 1 .. n} /\ ToSet(d) \in SUBSET Nat /\ ToSet(d) \subseteq Cotisants
  <2>1. ToSet(d) = {d[i] : i \in 1 .. n}
    BY <1>2 DEF ToSet
  <2>2. \A i \in 1 .. n : d[i] \in Cotisants
    BY <1>1, <1>2
  <2>3. ToSet(d) \subseteq Cotisants
    BY <2>1, <2>2
  <2>. QED BY <1>1, <2>1, <2>3
<1>5. IsFiniteSet(1 .. n) /\ Cardinality(1 .. n) = n
  BY FS_Interval
<1>6. IsFiniteSet(ToSet(d)) /\ Cardinality(ToSet(d)) = n
  <2>1. d \in Bijection(1 .. n, ToSet(d))
    BY <1>1, <1>2, <1>3, <1>4 DEF Bijection, Injection, Surjection, IsInjective
  <2>2. ExistsBijection(1 .. n, ToSet(d))
    BY <2>1 DEF ExistsBijection
  <2>. QED BY <1>5, <2>2, FS_Bijection
<1>7. \E s \in [1 .. n -> ToSet(d)] : Croissante(s, n)
  BY <1>4, <1>6, Rangement
<1>8. Cles(d) = CHOOSE s \in [1 .. n -> ToSet(d)] : Croissante(s, n)
  BY <1>2 DEF Cles, Croissante
<1>9. Cles(d) \in [1 .. n -> ToSet(d)] /\ Croissante(Cles(d), n)
  BY <1>7, <1>8
<1>10. \A i, j \in 1 .. n : Cles(d)[i] = Cles(d)[j] => i = j
  <2>1. ASSUME NEW i \in 1 .. n, NEW j \in 1 .. n, i < j PROVE Cles(d)[i] # Cles(d)[j]
    <3>1. Cles(d)[i] \in Nat /\ Cles(d)[j] \in Nat /\ Cles(d)[i] < Cles(d)[j]
      BY <1>4, <1>9, <2>1 DEF Croissante
    <3>. QED BY <3>1
  <2>. QED BY <2>1
<1>11. Cles(d) \in Injection(1 .. n, ToSet(d))
  BY <1>9, <1>10 DEF Injection, IsInjective
<1>12. Cles(d) \in Surjection(1 .. n, ToSet(d))
  BY <1>5, <1>6, <1>11, FS_Injection
<1>13. \A p \in ToSet(d) : \E i \in 1 .. n : Cles(d)[i] = p
  BY <1>12 DEF Surjection
<1>. QED BY <1>1, <1>2, <1>3, <1>4, <1>9, <1>13

------------------------------------------------------------------------------
(* What the steps are made of.                                             *)

\* What a statement of the journal makes of the row of a lot, and of the others.
LEMMA LigneDuLot ==
  ASSUME journalPartage \in [Lots -> JL!Ligne], NEW l \in Lots
  PROVE  /\ journalPartage[l] \in JL!Ligne
         /\ \/ JL!Ouvrir(l) \/ JL!EnregistrerReferenceExterne(l) \/ JL!Abandonner(l)
            \/ JL!Appliquer(l, "COMPLETE") \/ JL!Appliquer(l, "ECHOUE")
            => /\ journalPartage' \in [Lots -> JL!Ligne]
               /\ \A m \in Lots \ {l} : journalPartage'[m] = journalPartage[m]
         /\ JL!Ouvrir(l) /\ journalPartage[l].statut = "ABSENTE" =>
              journalPartage'[l].statut = "EN_ATTENTE" /\ ~journalPartage'[l].ext
         /\ JL!EnregistrerReferenceExterne(l) =>
              /\ journalPartage'[l].statut = journalPartage[l].statut
              /\ journalPartage[l].statut = "ABSENTE" => journalPartage'[l].ext = journalPartage[l].ext
         /\ JL!Abandonner(l) =>
              /\ journalPartage'[l].statut =
                   IF journalPartage[l].statut = "EN_ATTENTE" /\ ~journalPartage[l].ext
                   THEN "ECHOUE" ELSE journalPartage[l].statut
              /\ journalPartage'[l].ext = journalPartage[l].ext
         /\ \A i \in {"COMPLETE", "ECHOUE"} : JL!Appliquer(l, i) =>
              /\ journalPartage'[l].statut =
                   IF journalPartage[l].statut = "ABSENTE" THEN "ABSENTE" ELSE i
              /\ journalPartage'[l].ext = journalPartage[l].ext
<1>. DEFINE j == journalPartage[l]
<1>1. j \in JL!Ligne
  OBVIOUS
<1>2. JL!LigneAbsente \in JL!Ligne
  BY DEF JL!LigneAbsente, JL!Ligne, JL!Statuts, JL!Montants
<1>3. ASSUME JL!Ouvrir(l)
      PROVE  /\ journalPartage' \in [Lots -> JL!Ligne]
             /\ \A m \in Lots \ {l} : journalPartage'[m] = journalPartage[m]
             /\ j.statut = "ABSENTE" =>
                  journalPartage'[l].statut = "EN_ATTENTE" /\ ~journalPartage'[l].ext
  <2>1. PICK x : x = [JL!LigneAbsente EXCEPT !.statut = "EN_ATTENTE"]
    OBVIOUS
  <2>2. x \in JL!Ligne /\ x.statut = "EN_ATTENTE" /\ ~x.ext
    BY <1>2, <2>1 DEF JL!LigneAbsente, JL!Ligne, JL!Statuts
  <2>3. journalPartage' = IF j.statut = "ABSENTE" THEN [journalPartage EXCEPT ![l] = x] ELSE journalPartage
    BY <1>3, <2>1 DEF JL!Ouvrir
  <2>. QED BY <2>2, <2>3
<1>4. ASSUME JL!EnregistrerReferenceExterne(l)
      PROVE  /\ journalPartage' \in [Lots -> JL!Ligne]
             /\ \A m \in Lots \ {l} : journalPartage'[m] = journalPartage[m]
             /\ journalPartage'[l].statut = j.statut
             /\ j.statut = "ABSENTE" => journalPartage'[l].ext = j.ext
  <2>1. PICK x : x = [j EXCEPT !.ext = TRUE]
    OBVIOUS
  <2>2. x \in JL!Ligne /\ x.statut = j.statut
    BY <1>1, <2>1 DEF JL!Ligne
  <2>3. journalPartage' = IF j.statut = "ABSENTE" THEN journalPartage ELSE [journalPartage EXCEPT ![l] = x]
    BY <1>4, <2>1 DEF JL!EnregistrerReferenceExterne
  <2>. QED BY <2>2, <2>3
<1>5. ASSUME NEW s \in {"COMPLETE", "ECHOUE"}, NEW b \in BOOLEAN,
             journalPartage' = IF b THEN [journalPartage EXCEPT ![l].statut = s] ELSE journalPartage
      PROVE  /\ journalPartage' \in [Lots -> JL!Ligne]
             /\ \A m \in Lots \ {l} : journalPartage'[m] = journalPartage[m]
             /\ journalPartage'[l].statut = IF b THEN s ELSE j.statut
             /\ journalPartage'[l].ext = j.ext
  <2>1. PICK x : x = [j EXCEPT !.statut = s]
    OBVIOUS
  <2>2. x \in JL!Ligne /\ x.statut = s /\ x.ext = j.ext
    BY <1>1, <2>1 DEF JL!Ligne, JL!Statuts
  <2>3. journalPartage' = IF b THEN [journalPartage EXCEPT ![l] = x] ELSE journalPartage
    BY <1>5, <2>1
  <2>. QED BY <2>2, <2>3
<1>6. ASSUME JL!Abandonner(l)
      PROVE  /\ journalPartage' \in [Lots -> JL!Ligne]
             /\ \A m \in Lots \ {l} : journalPartage'[m] = journalPartage[m]
             /\ journalPartage'[l].statut = IF j.statut = "EN_ATTENTE" /\ ~j.ext THEN "ECHOUE" ELSE j.statut
             /\ journalPartage'[l].ext = j.ext
  <2>1. PICK b \in BOOLEAN : b = (j.statut = "EN_ATTENTE" /\ ~j.ext)
    OBVIOUS
  <2>2. journalPartage' = IF b THEN [journalPartage EXCEPT ![l].statut = "ECHOUE"] ELSE journalPartage
    BY <1>6, <2>1 DEF JL!Abandonner, JL!AbandonnerAffecte
  <2>. QED BY <1>5, <2>1, <2>2
<1>7. ASSUME NEW i \in {"COMPLETE", "ECHOUE"}, JL!Appliquer(l, i)
      PROVE  /\ journalPartage' \in [Lots -> JL!Ligne]
             /\ \A m \in Lots \ {l} : journalPartage'[m] = journalPartage[m]
             /\ journalPartage'[l].statut = IF j.statut = "ABSENTE" THEN "ABSENTE" ELSE i
             /\ journalPartage'[l].ext = j.ext
  <2>1. PICK b \in BOOLEAN : b = (j.statut \notin {"ABSENTE", i})
    OBVIOUS
  <2>2. journalPartage' = IF b THEN [journalPartage EXCEPT ![l].statut = i] ELSE journalPartage
    BY <1>7, <2>1 DEF JL!Appliquer, JL!AppliquerAffecte
  <2>. QED BY <1>5, <2>1, <2>2
<1>. QED BY <1>1, <1>3, <1>4, <1>6, <1>7

\* A lot nothing is done to stays as it is.
LEMMA LotAilleurs ==
  ASSUME TypePartage, NEW l \in Lots,
         lots'[l] = lots[l], reglementsLot'[l] = reglementsLot[l],
         journalPartage'[l] = journalPartage[l], fapshiLot'[l] = fapshiLot[l],
         renoncements'[l] = renoncements[l],
         \A s \in Suite : s.lot = l => (s \in suites' <=> s \in suites),
         suites' \subseteq Suite,
         echoues \subseteq echoues'
  PROVE  /\ ReserveDe(l) => ReserveDe(l)'
         /\ Carnet(l) => Carnet(l)'
<1>1. suites \subseteq Suite
  BY DEF TypePartage
<1>2. \A s : s \in suites' /\ s.lot = l <=> s \in suites /\ s.lot = l
  BY <1>1
<1>3. Rangs(l)' = Rangs(l) /\ Visees(l)' = Visees(l)
  BY DEF Rangs, Visees
<1>4. ReserveDe(l) => ReserveDe(l)'
  BY <1>2, <1>3 DEF ReserveDe
<1>5. Carnet(l) => Carnet(l)'
  BY <1>2, <1>3 DEF Carnet
<1>. QED BY <1>4, <1>5

\* What one lot becomes, and the others.
LEMMA LotEcrit ==
  ASSUME TypePartage, NEW l \in Lots, NEW pc \in EtapesLot, Allerlot(l, pc)
  PROVE  /\ lots' \in [Lots -> LotType]
         /\ lots'[l].pc = pc /\ lots'[l].pour = lots[l].pour /\ lots'[l].rang = lots[l].rang
         /\ \A m \in Lots \ {l} : lots'[m] = lots[m]
         /\ Visees(l)' = Visees(l)
<1>1. lots[l] \in LotType
  BY DEF TypePartage
<1>2. PICK x : x = [lots[l] EXCEPT !.pc = pc]
  OBVIOUS
<1>3. x \in LotType /\ x.pc = pc /\ x.pour = lots[l].pour /\ x.rang = lots[l].rang
  BY <1>1, <1>2 DEF LotType
<1>4. lots' = [lots EXCEPT ![l] = x]
  BY <1>2 DEF Allerlot
<1>5. lots' \in [Lots -> LotType] /\ lots'[l] = x /\ \A m \in Lots \ {l} : lots'[m] = lots[m]
  BY <1>3, <1>4 DEF TypePartage
<1>. QED BY <1>3, <1>5 DEF Visees

\* What the lots are, but for their queues and what they add up to.
Corps ==
  /\ TypePartage
  /\ \A l \in Lots : ReserveDe(l)
  /\ \A l \in Lots \ meles : Carnet(l)

\* The values of the variables, but for where the requests stand.
Valeurs ==
  /\ journalPartage \in [Lots -> JL!Ligne]
  /\ reglementsLot \in [Lots -> [Cotisants -> JL!Statuts \cup {"AUCUN"}]]
  /\ soldes \in [Cotisants -> Nat]
  /\ appelOuvert \in BOOLEAN
  /\ files \in [Cotisants -> Seq(Lots)]
  /\ lots \in [Lots -> LotType]
  /\ fapshiLot \in [Lots -> EtatsFapshi]
  /\ suites \subseteq Suite
  /\ renoncements \in [Lots -> {"repos", "expirer", "appliquer", "refermer"}]
  /\ echoues \subseteq Lots /\ meles \subseteq Lots

\* A step of one lot.
LEMMA Reunir ==
  ASSUME Corps, NEW l \in Lots, Valeurs', Situe(l)',
         \A m \in Lots \ {l} :
           /\ lots'[m] = lots[m] /\ reglementsLot'[m] = reglementsLot[m]
           /\ journalPartage'[m] = journalPartage[m] /\ fapshiLot'[m] = fapshiLot[m]
           /\ renoncements'[m] = renoncements[m],
         \A s \in Suite : s.lot # l => (s \in suites' <=> s \in suites),
         echoues \subseteq echoues', meles \subseteq meles',
         ReserveDe(l)', l \notin meles' => Carnet(l)'
  PROVE  Corps'
<1>1. suites' \subseteq Suite
  BY DEF Valeurs
<1>2. ASSUME NEW m \in Lots \ {l}
      PROVE  ReserveDe(m)' /\ (m \notin meles' => Carnet(m)') /\ Situe(m)'
  <2>1. /\ ReserveDe(m) => ReserveDe(m)'
        /\ Carnet(m) => Carnet(m)'
    BY <1>1, <1>2, LotAilleurs DEF Corps
  <2>2. Situe(m)'
    BY <1>2 DEF Corps, TypePartage, Situe
  <2>. QED BY <1>2, <2>1, <2>2 DEF Corps
<1>3. TypePartage'
  <2>1. \A m \in Lots : Situe(m)'
    BY <1>2
  <2>. QED BY <2>1 DEF TypePartage, Valeurs
<1>. QED BY <1>2, <1>3 DEF Corps

LEMMA DemanderTient ==
  ASSUME Corps, NEW l \in Lots, Demander(l)
  PROVE  Corps'
<1>. USE DEF Corps
<1>1. PICK d \in Demandes :
        /\ lots[l] = Repos
        /\ lots' = [lots EXCEPT ![l] = [pc |-> "verrous", pour |-> d, rang |-> 1]]
        /\ files' = [files EXCEPT ![Cles(d)[1]] = Append(@, l)]
        /\ UNCHANGED <<journalPartage, reglementsLot, soldes, appelOuvert, fapshiLot, suites,
                       renoncements, echoues, meles>>
  BY DEF Demander
<1>2. PICK x : x = [pc |-> "verrous", pour |-> d, rang |-> 1]
  OBVIOUS
<1>3. x \in LotType /\ x.pc = "verrous" /\ x.pour = d /\ x.rang = 1
  BY <1>2 DEF LotType, EtapesLot
<1>4. lots' = [lots EXCEPT ![l] = x]
  BY <1>1, <1>2
<1>5. lots' \in [Lots -> LotType] /\ lots'[l] = x /\ \A m \in Lots \ {l} : lots'[m] = lots[m]
  BY <1>3, <1>4 DEF TypePartage
<1>6. Len(d) \in Nat \ {0} /\ Cles(d)[1] \in Cotisants
  <2>1. Len(d) \in Nat \ {0} /\ Cles(d) \in [1 .. Len(d) -> ToSet(d)] /\ ToSet(d) \subseteq Cotisants
    BY ClesBien
  <2>. QED BY <2>1
<1>7. Valeurs' /\ Situe(l)'
  <2>1. files' \in [Cotisants -> Seq(Lots)]
    BY <1>1, <1>6 DEF TypePartage
  <2>2. d # << >> /\ 1 \in 1 .. Len(d)
    BY <1>6, PartageAssumption
  <2>3. Situe(l)'
    BY <1>3, <1>5, <2>2 DEF Situe
  <2>. QED BY <1>1, <1>5, <2>1, <2>3 DEF TypePartage, Valeurs
<1>8. lots[l].pc = "repos"
  BY <1>1 DEF Repos
<1>9. /\ Rangs(l) = {} /\ journalPartage[l].statut = "ABSENTE" /\ fapshiLot[l] = "INCONNU"
      /\ ~journalPartage[l].ext /\ \A s \in suites : s.lot # l
  BY <1>8 DEF ReserveDe, AvantOuverture
<1>10. Rangs(l)' = {}
  BY <1>1, <1>9 DEF Rangs
<1>11. ReserveDe(l)'
  BY <1>1, <1>3, <1>5, <1>9, <1>10 DEF ReserveDe, SousFiles, AvantOuverture
<1>12. \A p \in Cotisants : reglementsLot[l][p] = "AUCUN"
  BY <1>9 DEF Rangs
<1>13. ToSet(d) \subseteq Cotisants
  BY ClesBien
<1>14. ASSUME l \notin meles' PROVE Carnet(l)'
  <2>1. Carnet(l)
    BY <1>1, <1>14
  <2>2. renoncements[l] = "repos"
    BY <1>8, <2>1 DEF Carnet
  <2>3. Visees(l)' \subseteq Cotisants
    BY <1>3, <1>5, <1>13 DEF Visees
  <2>. QED BY <1>1, <1>3, <1>5, <1>9, <1>12, <2>1, <2>2, <2>3 DEF Carnet, SousFiles
<1>. QED BY <1>1, <1>5, <1>7, <1>11, <1>14, Reunir

\* What Obtenir makes of the request: one more queue, or all of them held.
LEMMA ObtenirEcrit ==
  ASSUME TypePartage, NEW l \in Lots, Obtenir(l)
  PROVE  /\ lots[l].pc = "verrous" /\ lots[l].pour \in Demandes
         /\ lots[l].rang \in 1 .. Len(lots[l].pour)
         /\ Head(files[Cles(lots[l].pour)[lots[l].rang]]) = l
         /\ lots' \in [Lots -> LotType] /\ \A m \in Lots \ {l} : lots'[m] = lots[m]
         /\ lots'[l].pour = lots[l].pour
         /\ \/ /\ lots'[l].pc = "verrous" /\ lots'[l].rang = lots[l].rang + 1
               /\ lots'[l].rang \in 1 .. Len(lots[l].pour)
               /\ files' = [files EXCEPT ![Cles(lots[l].pour)[lots[l].rang + 1]] = Append(@, l)]
            \/ /\ lots'[l].pc = "lire" /\ lots'[l].rang = 1
               /\ lots[l].rang = Len(lots[l].pour) /\ files' = files
         /\ files' \in [Cotisants -> Seq(Lots)]
         /\ UNCHANGED <<journalPartage, reglementsLot, soldes, appelOuvert, fapshiLot, suites,
                        renoncements, echoues, meles>>
<1>1. lots[l].pc = "verrous" /\ lots[l] \in LotType /\ Situe(l)
  BY DEF Obtenir, TypePartage
<1>2. lots[l].pour \in Demandes /\ lots[l].rang \in 1 .. Len(lots[l].pour)
  BY <1>1 DEF Situe
<1>3. PICK d \in Demandes : d = lots[l].pour
  BY <1>2
<1>4. PICK r \in Nat : r = lots[l].rang /\ r \in 1 .. Len(d)
  BY <1>1, <1>2, <1>3 DEF LotType
<1>5. PICK cles : cles = Cles(d)
  OBVIOUS
<1>6. Len(d) \in Nat \ {0} /\ cles \in [1 .. Len(d) -> ToSet(d)] /\ ToSet(d) \subseteq Cotisants
  BY <1>5, ClesBien
<1>7. cles \in [1 .. Len(d) -> Cotisants] /\ Len(cles) = Len(d)
  BY <1>6
<1>8. /\ Head(files[cles[r]]) = l
      /\ IF r < Len(cles)
         THEN /\ lots' = [lots EXCEPT ![l].rang = r + 1]
              /\ files' = [files EXCEPT ![cles[r + 1]] = Append(@, l)]
         ELSE /\ lots' = [lots EXCEPT ![l].rang = 1, ![l].pc = "lire"]
              /\ UNCHANGED files
      /\ UNCHANGED <<journalPartage, reglementsLot, soldes, appelOuvert, fapshiLot, suites,
                     renoncements, echoues, meles>>
  BY <1>3, <1>4, <1>5 DEF Obtenir
<1>9. CASE r < Len(d)
  <2>1. PICK x : x = [lots[l] EXCEPT !.rang = r + 1]
    OBVIOUS
  <2>2. x \in LotType /\ x.pc = "verrous" /\ x.pour = d /\ x.rang = r + 1
    BY <1>1, <1>3, <2>1 DEF LotType
  <2>3. lots' = [lots EXCEPT ![l] = x] /\ files' = [files EXCEPT ![cles[r + 1]] = Append(@, l)]
    BY <1>7, <1>8, <1>9, <2>1
  <2>4. r + 1 \in 1 .. Len(d)
    BY <1>4, <1>6, <1>9
  <2>5. PICK k \in Cotisants : k = cles[r + 1]
    BY <1>7, <2>4
  <2>6. files \in [Cotisants -> Seq(Lots)] /\ files[k] \in Seq(Lots)
    BY DEF TypePartage
  <2>7. Append(files[k], l) \in Seq(Lots)
    BY <2>6
  <2>8. files' \in [Cotisants -> Seq(Lots)]
    BY <2>3, <2>5, <2>6, <2>7
  <2>9. lots' \in [Lots -> LotType] /\ lots'[l] = x /\ \A m \in Lots \ {l} : lots'[m] = lots[m]
    BY <2>2, <2>3 DEF TypePartage
  <2>. QED BY <1>1, <1>2, <1>3, <1>4, <1>5, <1>8, <2>2, <2>3, <2>4, <2>8, <2>9
<1>10. CASE ~(r < Len(d))
  <2>1. PICK x : x = [[lots[l] EXCEPT !.rang = 1] EXCEPT !.pc = "lire"]
    OBVIOUS
  <2>2. x \in LotType /\ x.pc = "lire" /\ x.pour = d /\ x.rang = 1
    BY <1>1, <1>3, <2>1 DEF LotType, EtapesLot
  <2>3. lots' = [lots EXCEPT ![l] = x] /\ files' = files
    BY <1>7, <1>8, <1>10, <2>1 DEF TypePartage
  <2>4. r = Len(d)
    BY <1>4, <1>6, <1>10
  <2>5. lots' \in [Lots -> LotType] /\ lots'[l] = x /\ \A m \in Lots \ {l} : lots'[m] = lots[m]
    BY <2>2, <2>3 DEF TypePartage
  <2>6. files' \in [Cotisants -> Seq(Lots)]
    BY <2>3 DEF TypePartage
  <2>. QED BY <1>1, <1>2, <1>3, <1>4, <1>5, <1>8, <2>2, <2>3, <2>4, <2>5, <2>6
<1>. QED BY <1>9, <1>10

LEMMA ObtenirTient ==
  ASSUME Corps, NEW l \in Lots, Obtenir(l)
  PROVE  Corps'
<1>. USE DEF Corps
<1>1. /\ lots[l].pc = "verrous" /\ lots[l].pour \in Demandes
      /\ lots' \in [Lots -> LotType] /\ \A m \in Lots \ {l} : lots'[m] = lots[m]
      /\ lots'[l].pour = lots[l].pour
      /\ \/ lots'[l].pc = "verrous" /\ lots'[l].rang \in 1 .. Len(lots[l].pour)
         \/ lots'[l].pc = "lire" /\ lots'[l].rang = 1
      /\ files' \in [Cotisants -> Seq(Lots)]
      /\ UNCHANGED <<journalPartage, reglementsLot, soldes, appelOuvert, fapshiLot, suites,
                     renoncements, echoues, meles>>
  BY ObtenirEcrit
<1>2. 1 \in 1 .. Len(lots[l].pour)
  <2>1. Len(lots[l].pour) \in Nat \ {0}
    BY <1>1, ClesBien
  <2>. QED BY <2>1
<1>3. Situe(l)'
  BY <1>1, <1>2 DEF Situe
<1>4. Valeurs'
  BY <1>1 DEF TypePartage, Valeurs
<1>8. /\ Rangs(l) = {} /\ journalPartage[l].statut = "ABSENTE" /\ fapshiLot[l] = "INCONNU"
      /\ ~journalPartage[l].ext /\ \A s \in suites : s.lot # l
  BY <1>1 DEF ReserveDe, AvantOuverture
<1>9. Rangs(l)' = {} /\ (lots'[l].pc = "lire" => 1 .. lots'[l].rang - 1 = {})
  BY <1>1, <1>8 DEF Rangs
<1>10. ReserveDe(l)'
  BY <1>1, <1>8, <1>9 DEF ReserveDe, SousFiles, AvantOuverture
<1>11. Visees(l)' = Visees(l)
  BY <1>1 DEF Visees
<1>12. ASSUME l \notin meles' PROVE Carnet(l)'
  <2>1. Carnet(l) /\ renoncements[l] = "repos"
    BY <1>1, <1>12 DEF Carnet
  <2>. QED BY <1>1, <1>8, <1>9, <1>11, <2>1 DEF Carnet, SousFiles
<1>. QED BY <1>1, <1>3, <1>4, <1>10, <1>12, Reunir

LEMMA LireTient ==
  ASSUME Corps, NEW l \in Lots, LireLigne(l)
  PROVE  Corps'
<1>. USE DEF Corps
<1>1. PICK pc \in {"ecrire", "defaire"} : Allerlot(l, pc)
  BY DEF LireLigne
<1>2. /\ lots[l].pc = "lire"
      /\ UNCHANGED <<journalPartage, reglementsLot, soldes, appelOuvert, files, fapshiLot, suites,
                     renoncements, echoues, meles>>
  BY DEF LireLigne
<1>3. /\ lots' \in [Lots -> LotType]
      /\ lots'[l].pc = pc /\ lots'[l].pour = lots[l].pour /\ lots'[l].rang = lots[l].rang
      /\ \A m \in Lots \ {l} : lots'[m] = lots[m]
      /\ Visees(l)' = Visees(l)
  <2>1. pc \in EtapesLot
    BY DEF EtapesLot
  <2>. QED BY <1>1, <2>1, LotEcrit
<1>4. Valeurs'
  BY <1>2, <1>3 DEF TypePartage, Valeurs
<1>5. Situe(l)'
  BY <1>2, <1>3 DEF TypePartage, Situe, SousFiles
<1>6. Rangs(l)' = Rangs(l)
  BY <1>2 DEF Rangs
<1>7. ReserveDe(l)'
  BY <1>2, <1>3, <1>6 DEF ReserveDe, SousFiles, AvantOuverture
<1>8. ASSUME l \notin meles' PROVE Carnet(l)'
  <2>1. Carnet(l)
    BY <1>2, <1>8
  <2>. QED BY <1>2, <1>3, <1>6, <2>1 DEF Carnet, SousFiles
<1>. QED BY <1>2, <1>3, <1>4, <1>5, <1>7, <1>8, Reunir

\* The queues given back.
LEMMA RenduesBien ==
  ASSUME TypePartage, NEW l \in Lots
  PROVE  /\ Rendues(l) \in [Cotisants -> Seq(Lots)]
         /\ \A m \in Lots \ {l}, p \in Cotisants :
              /\ files[p] # << >> /\ Head(files[p]) = m =>
                   Rendues(l)[p] # << >> /\ Head(Rendues(l)[p]) = m
              /\ (\E k \in DOMAIN files[p] : files[p][k] = m) =>
                   \E k \in DOMAIN Rendues(l)[p] : Rendues(l)[p][k] = m
<1>1. ASSUME NEW p \in Cotisants
      PROVE  /\ Rendues(l)[p] \in Seq(Lots)
             /\ \A m \in Lots \ {l} :
                  /\ files[p] # << >> /\ Head(files[p]) = m =>
                       Rendues(l)[p] # << >> /\ Head(Rendues(l)[p]) = m
                  /\ (\E k \in DOMAIN files[p] : files[p][k] = m) =>
                       \E k \in DOMAIN Rendues(l)[p] : Rendues(l)[p][k] = m
  <2>1. PICK f \in Seq(Lots) : f = files[p]
    BY DEF TypePartage
  <2>2. Rendues(l)[p] = IF f # << >> /\ Head(f) = l THEN Tail(f) ELSE f
    BY <2>1 DEF Rendues
  <2>3. CASE f # << >> /\ Head(f) = l
    <3>1. PICK n \in Nat : Len(f) = n + 1
      BY <2>3
    <3>2. Tail(f) \in Seq(Lots) /\ Len(Tail(f)) = n /\ \A k \in 1 .. n : Tail(f)[k] = f[k + 1]
      BY <2>3, <3>1
    <3>3. DOMAIN Tail(f) = 1 .. n /\ DOMAIN f = 1 .. n + 1
      BY <3>1, <3>2
    <3>4. ASSUME NEW m \in Lots \ {l}, NEW k \in 1 .. n + 1, f[k] = m
          PROVE  \E i \in 1 .. n : Tail(f)[i] = m
      <4>1. f[1] = l
        BY <2>3
      <4>2. k # 1
        BY <3>4, <4>1
      <4>3. k - 1 \in 1 .. n /\ (k - 1) + 1 = k
        BY <4>2
      <4>4. Tail(f)[k - 1] = f[k]
        BY <3>2, <4>3
      <4>. QED BY <3>4, <4>3, <4>4
    <3>5. Rendues(l)[p] = Tail(f)
      BY <2>2, <2>3
    <3>6. \A m \in Lots \ {l} : (\E k \in DOMAIN files[p] : files[p][k] = m) =>
             \E k \in DOMAIN Rendues(l)[p] : Rendues(l)[p][k] = m
      <4>. HIDE DEF Rendues
      <4>. QED BY <2>1, <3>3, <3>4, <3>5
    <3>. QED BY <2>1, <2>3, <3>2, <3>5, <3>6
  <2>4. CASE ~(f # << >> /\ Head(f) = l)
    BY <2>1, <2>2, <2>4
  <2>. QED BY <2>3, <2>4
<1>2. Rendues(l) \in [Cotisants -> Seq(Lots)]
  BY <1>1 DEF Rendues
<1>. QED BY <1>1, <1>2

LEMMA EcrireEcrit ==
  ASSUME TypePartage, NEW l \in Lots, EcrireLigne(l)
  PROVE  /\ lots[l].pc = "ecrire" /\ lots[l].pour \in Demandes
         /\ lots[l].rang \in 1 .. Len(lots[l].pour) /\ lots[l].pour[lots[l].rang] \in Cotisants
         /\ reglementsLot' \in [Lots -> [Cotisants -> JL!Statuts \cup {"AUCUN"}]]
         /\ \A m \in Lots \ {l} : reglementsLot'[m] = reglementsLot[m] /\ lots'[m] = lots[m]
         /\ \A p \in Cotisants : reglementsLot'[l][p] =
              IF p = lots[l].pour[lots[l].rang] THEN "EN_ATTENTE" ELSE reglementsLot[l][p]
         /\ lots' \in [Lots -> LotType] /\ lots'[l].pour = lots[l].pour
         /\ \/ /\ lots'[l].pc = "lire" /\ lots'[l].rang = lots[l].rang + 1
               /\ lots'[l].rang \in 1 .. Len(lots[l].pour) /\ files' = files
            \/ /\ lots'[l].pc = "ouvrir" /\ lots[l].rang = Len(lots[l].pour)
               /\ files' = Rendues(l)
         /\ files' \in [Cotisants -> Seq(Lots)]
         /\ UNCHANGED <<journalPartage, soldes, appelOuvert, fapshiLot, suites, renoncements, echoues, meles>>
<1>1. lots[l].pc = "ecrire" /\ lots[l] \in LotType /\ Situe(l)
  BY DEF EcrireLigne, TypePartage
<1>2. lots[l].pour \in Demandes /\ lots[l].rang \in 1 .. Len(lots[l].pour)
  BY <1>1 DEF Situe, SousFiles
<1>3. PICK d \in Demandes : d = lots[l].pour
  BY <1>2
<1>4. d \in Seq(Cotisants) /\ Len(d) \in Nat \ {0}
  BY ClesBien
<1>5. PICK r \in Nat : r = lots[l].rang /\ r \in 1 .. Len(d)
  BY <1>1, <1>2, <1>3 DEF LotType
<1>6. PICK q \in Cotisants : q = d[r]
  BY <1>4, <1>5
<1>7. /\ reglementsLot' = [reglementsLot EXCEPT ![l][q] = "EN_ATTENTE"]
      /\ IF r < Len(d)
         THEN lots' = [lots EXCEPT ![l].rang = r + 1, ![l].pc = "lire"] /\ UNCHANGED files
         ELSE Allerlot(l, "ouvrir") /\ files' = Rendues(l)
      /\ UNCHANGED <<journalPartage, soldes, appelOuvert, fapshiLot, suites, renoncements, echoues, meles>>
  BY <1>3, <1>5, <1>6 DEF EcrireLigne
<1>8. PICK y : y = [reglementsLot[l] EXCEPT ![q] = "EN_ATTENTE"]
  OBVIOUS
<1>9. y \in [Cotisants -> JL!Statuts \cup {"AUCUN"}]
      /\ \A p \in Cotisants : y[p] = IF p = q THEN "EN_ATTENTE" ELSE reglementsLot[l][p]
  BY <1>8 DEF TypePartage, JL!Statuts
<1>10. reglementsLot' = [reglementsLot EXCEPT ![l] = y]
  BY <1>7, <1>8
<1>11. /\ reglementsLot' \in [Lots -> [Cotisants -> JL!Statuts \cup {"AUCUN"}]]
       /\ reglementsLot'[l] = y /\ \A m \in Lots \ {l} : reglementsLot'[m] = reglementsLot[m]
  BY <1>9, <1>10 DEF TypePartage
<1>12. /\ lots' \in [Lots -> LotType] /\ lots'[l].pour = d
       /\ \A m \in Lots \ {l} : lots'[m] = lots[m]
       /\ \/ lots'[l].pc = "lire" /\ lots'[l].rang = r + 1 /\ r + 1 \in 1 .. Len(d) /\ files' = files
          \/ lots'[l].pc = "ouvrir" /\ r = Len(d) /\ files' = Rendues(l)
  <2>1. CASE r < Len(d)
    <3>1. PICK x : x = [[lots[l] EXCEPT !.rang = r + 1] EXCEPT !.pc = "lire"]
      OBVIOUS
    <3>2. x \in LotType /\ x.pc = "lire" /\ x.pour = d /\ x.rang = r + 1
      <4>1. PICK z : z = [lots[l] EXCEPT !.rang = r + 1]
        OBVIOUS
      <4>2. z \in LotType /\ z.pour = d /\ z.rang = r + 1
        BY <1>1, <1>3, <1>5, <4>1 DEF LotType
      <4>3. x = [z EXCEPT !.pc = "lire"]
        BY <3>1, <4>1
      <4>. QED BY <4>2, <4>3 DEF LotType, EtapesLot
    <3>3. lots' = [lots EXCEPT ![l] = x] /\ files' = files
      BY <1>7, <2>1, <3>1 DEF TypePartage
    <3>4. r + 1 \in 1 .. Len(d)
      BY <1>4, <1>5, <2>1
    <3>5. lots' \in [Lots -> LotType] /\ lots'[l] = x /\ \A m \in Lots \ {l} : lots'[m] = lots[m]
      BY <3>2, <3>3 DEF TypePartage
    <3>. QED BY <3>2, <3>3, <3>4, <3>5
  <2>2. CASE ~(r < Len(d))
    <3>1. Allerlot(l, "ouvrir") /\ files' = Rendues(l) /\ r = Len(d) /\ "ouvrir" \in EtapesLot
      BY <1>4, <1>5, <1>7, <2>2 DEF EtapesLot
    <3>. QED BY <1>3, <3>1, LotEcrit
  <2>. QED BY <2>1, <2>2
<1>13. files' \in [Cotisants -> Seq(Lots)]
  <2>1. Rendues(l) \in [Cotisants -> Seq(Lots)]
    BY RenduesBien
  <2>. QED BY <1>12, <2>1 DEF TypePartage
<1>. QED BY <1>1, <1>2, <1>3, <1>5, <1>6, <1>7, <1>9, <1>11, <1>12, <1>13

LEMMA EcrireTient ==
  ASSUME Corps, NEW l \in Lots, EcrireLigne(l)
  PROVE  Corps'
<1>. USE DEF Corps
<1>1. /\ lots[l].pc = "ecrire" /\ lots[l].pour \in Demandes
      /\ lots[l].rang \in 1 .. Len(lots[l].pour) /\ lots[l].pour[lots[l].rang] \in Cotisants
      /\ reglementsLot' \in [Lots -> [Cotisants -> JL!Statuts \cup {"AUCUN"}]]
      /\ \A m \in Lots \ {l} : reglementsLot'[m] = reglementsLot[m] /\ lots'[m] = lots[m]
      /\ \A p \in Cotisants : reglementsLot'[l][p] =
           IF p = lots[l].pour[lots[l].rang] THEN "EN_ATTENTE" ELSE reglementsLot[l][p]
      /\ lots' \in [Lots -> LotType] /\ lots'[l].pour = lots[l].pour
      /\ \/ /\ lots'[l].pc = "lire" /\ lots'[l].rang = lots[l].rang + 1
            /\ lots'[l].rang \in 1 .. Len(lots[l].pour) /\ files' = files
         \/ /\ lots'[l].pc = "ouvrir" /\ lots[l].rang = Len(lots[l].pour)
            /\ files' = Rendues(l)
      /\ files' \in [Cotisants -> Seq(Lots)]
      /\ UNCHANGED <<journalPartage, soldes, appelOuvert, fapshiLot, suites, renoncements, echoues, meles>>
  BY EcrireEcrit
<1>2. Valeurs'
  BY <1>1 DEF TypePartage, Valeurs
<1>3. Situe(l)'
  BY <1>1 DEF Situe, SousFiles
<1>4. PICK d \in Demandes : d = lots[l].pour
  BY <1>1
<1>5. Len(d) \in Nat \ {0} /\ ToSet(d) = {d[i] : i \in 1 .. Len(d)}
  <2>1. d \in Seq(Cotisants) /\ Len(d) \in Nat \ {0}
    BY ClesBien
  <2>. QED BY <2>1 DEF ToSet
<1>6. PICK r \in Nat : r = lots[l].rang /\ r \in 1 .. Len(d)
  BY <1>1, <1>4, <1>5
<1>7. /\ Rangs(l) = {d[i] : i \in 1 .. r - 1} /\ journalPartage[l].statut = "ABSENTE"
      /\ fapshiLot[l] = "INCONNU" /\ ~journalPartage[l].ext /\ \A s \in suites : s.lot # l
  <2>1. ReserveDe(l)
    OBVIOUS
  <2>2. Rangs(l) = {lots[l].pour[i] : i \in 1 .. lots[l].rang - 1}
    BY <1>1, <2>1 DEF ReserveDe, SousFiles
  <2>3. /\ journalPartage[l].statut = "ABSENTE" /\ fapshiLot[l] = "INCONNU"
        /\ ~journalPartage[l].ext /\ \A s \in suites : s.lot # l
    BY <1>1, <2>1 DEF ReserveDe, AvantOuverture
  <2>. QED BY <1>4, <1>6, <2>2, <2>3
<1>8. Rangs(l)' = {d[i] : i \in 1 .. r}
  <2>1. d[r] \in Cotisants
    BY <1>1, <1>4, <1>6
  <2>2. Rangs(l)' = Rangs(l) \cup {d[r]}
    BY <1>1, <1>4, <1>6, <2>1 DEF Rangs
  <2>3. 1 .. r = (1 .. r - 1) \cup {r}
    BY <1>6
  <2>. QED BY <1>7, <2>2, <2>3
<1>9. Visees(l)' = Visees(l) /\ Visees(l) = {d[i] : i \in 1 .. Len(d)}
  BY <1>1, <1>4, <1>5 DEF Visees
<1>10. \A p \in Cotisants : reglementsLot'[l][p] = "ECHOUE" => l \in echoues'
  BY <1>1 DEF ReserveDe
<1>11. ReserveDe(l)'
  <2>1. CASE lots'[l].pc = "lire"
    <3>1. (lots'[l].rang) - 1 = r /\ lots'[l].pour = d
      BY <1>1, <1>4, <1>6, <2>1
    <3>. QED BY <1>1, <1>7, <1>8, <1>10, <2>1, <3>1 DEF ReserveDe, SousFiles, AvantOuverture
  <2>2. CASE lots'[l].pc = "ouvrir"
    <3>1. r = Len(d)
      BY <1>1, <1>4, <1>6, <2>2
    <3>. QED BY <1>1, <1>7, <1>8, <1>9, <1>10, <2>2, <3>1 DEF ReserveDe, SousFiles, AvantOuverture
  <2>. QED BY <1>1, <2>1, <2>2
<1>12. ASSUME l \notin meles' PROVE Carnet(l)'
  <2>1. Carnet(l) /\ renoncements[l] = "repos"
    BY <1>1, <1>12 DEF Carnet
  <2>2. \A p \in Rangs(l) : reglementsLot[l][p] = "EN_ATTENTE"
    BY <1>1, <2>1 DEF Carnet, SousFiles
  <2>3. \A p \in Rangs(l)' : reglementsLot'[l][p] = "EN_ATTENTE"
    <3>1. \A p \in Rangs(l)' : p \in Cotisants /\ (p = d[r] \/ p \in Rangs(l))
      BY <1>1, <1>4, <1>6 DEF Rangs
    <3>. QED BY <1>1, <1>4, <1>6, <2>2, <3>1
  <2>4. CASE lots'[l].pc = "lire"
    BY <1>1, <1>7, <2>1, <2>3, <2>4 DEF Carnet, SousFiles
  <2>5. CASE lots'[l].pc = "ouvrir"
    <3>1. r = Len(d)
      BY <1>1, <1>4, <1>6, <2>5
    <3>2. \A p \in Visees(l)' : reglementsLot'[l][p] = "EN_ATTENTE"
      BY <1>8, <1>9, <2>3, <3>1
    <3>. QED BY <1>1, <1>7, <2>1, <2>5, <3>2 DEF Carnet, SousFiles
  <2>. QED BY <1>1, <2>4, <2>5
<1>. QED BY <1>1, <1>2, <1>3, <1>11, <1>12, Reunir

LEMMA DefaireTient ==
  ASSUME Corps, NEW l \in Lots, DefaireLot(l)
  PROVE  Corps'
<1>. USE DEF Corps
<1>1. /\ lots[l].pc = "defaire"
      /\ reglementsLot' = [reglementsLot EXCEPT ![l] = [p \in Cotisants |-> "AUCUN"]]
      /\ Allerlot(l, "fini")
      /\ files' = Rendues(l)
      /\ UNCHANGED <<journalPartage, soldes, appelOuvert, fapshiLot, suites, renoncements, echoues, meles>>
  BY DEF DefaireLot
<1>2. /\ lots' \in [Lots -> LotType]
      /\ lots'[l].pc = "fini" /\ lots'[l].pour = lots[l].pour /\ lots'[l].rang = lots[l].rang
      /\ \A m \in Lots \ {l} : lots'[m] = lots[m]
      /\ Visees(l)' = Visees(l)
  <2>1. "fini" \in EtapesLot
    BY DEF EtapesLot
  <2>. QED BY <1>1, <2>1, LotEcrit
<1>3. Rendues(l) \in [Cotisants -> Seq(Lots)]
  BY RenduesBien
<1>4. PICK y \in [Cotisants -> JL!Statuts \cup {"AUCUN"}] :
        (\A p \in Cotisants : y[p] = "AUCUN") /\ reglementsLot' = [reglementsLot EXCEPT ![l] = y]
  BY <1>1
<1>5. /\ reglementsLot' \in [Lots -> [Cotisants -> JL!Statuts \cup {"AUCUN"}]]
      /\ reglementsLot'[l] = y /\ \A m \in Lots \ {l} : reglementsLot'[m] = reglementsLot[m]
  BY <1>4 DEF TypePartage
<1>6. Valeurs'
  BY <1>1, <1>2, <1>3, <1>5 DEF TypePartage, Valeurs
<1>7. Situe(l)'
  BY <1>1, <1>2 DEF TypePartage, Situe, SousFiles
<1>8. /\ journalPartage[l].statut = "ABSENTE"
      /\ fapshiLot[l] = "INCONNU" /\ ~journalPartage[l].ext /\ \A s \in suites : s.lot # l
  BY <1>1 DEF ReserveDe, AvantOuverture
<1>9. Rangs(l)' = {}
  BY <1>4, <1>5 DEF Rangs
<1>10. ReserveDe(l)'
  BY <1>1, <1>2, <1>4, <1>5, <1>8, <1>9 DEF ReserveDe, SousFiles, AvantOuverture
<1>11. Visees(l) \subseteq Cotisants
  <2>1. lots[l].pour \in Demandes
    BY <1>1 DEF TypePartage, Situe
  <2>. QED BY <2>1, ClesBien DEF Visees
<1>12. ASSUME l \notin meles' PROVE Carnet(l)'
  <2>1. Carnet(l) /\ renoncements[l] = "repos"
    BY <1>1, <1>12 DEF Carnet
  <2>2. \A p \in Visees(l)' : reglementsLot'[l][p] = "AUCUN"
    BY <1>2, <1>4, <1>5, <1>11
  <2>. QED BY <1>1, <1>2, <1>8, <2>1, <2>2 DEF Carnet, SousFiles
<1>. QED BY <1>1, <1>2, <1>5, <1>6, <1>7, <1>10, <1>12, Reunir

LEMMA OuvrirTient ==
  ASSUME Corps, NEW l \in Lots, OuvrirLot(l)
  PROVE  Corps'
<1>. USE DEF Corps
<1>1. /\ lots[l].pc = "ouvrir" /\ JL!Ouvrir(l) /\ Allerlot(l, "initier")
      /\ UNCHANGED <<reglementsLot, soldes, appelOuvert, files, fapshiLot, suites, renoncements,
                     echoues, meles>>
  BY DEF OuvrirLot
<1>2. /\ lots' \in [Lots -> LotType]
      /\ lots'[l].pc = "initier" /\ lots'[l].pour = lots[l].pour
      /\ \A m \in Lots \ {l} : lots'[m] = lots[m]
      /\ Visees(l)' = Visees(l)
  <2>1. "initier" \in EtapesLot
    BY DEF EtapesLot
  <2>. QED BY <1>1, <2>1, LotEcrit
<1>3. /\ journalPartage[l].statut = "ABSENTE" /\ fapshiLot[l] = "INCONNU"
      /\ Rangs(l) = Visees(l) /\ \A s \in suites : s.lot # l
  BY <1>1 DEF ReserveDe, AvantOuverture
<1>4. /\ journalPartage' \in [Lots -> JL!Ligne]
      /\ \A m \in Lots \ {l} : journalPartage'[m] = journalPartage[m]
      /\ journalPartage'[l].statut = "EN_ATTENTE" /\ ~journalPartage'[l].ext
  BY <1>1, <1>3, LigneDuLot DEF TypePartage
<1>5. Valeurs'
  BY <1>1, <1>2, <1>4 DEF TypePartage, Valeurs
<1>6. Situe(l)'
  BY <1>1, <1>2 DEF TypePartage, Situe, SousFiles
<1>7. Rangs(l)' = Rangs(l)
  BY <1>1 DEF Rangs
<1>8. ReserveDe(l)'
  BY <1>1, <1>2, <1>3, <1>4, <1>7 DEF ReserveDe, SousFiles, AvantOuverture
<1>9. ASSUME l \notin meles' PROVE Carnet(l)'
  <2>1. Carnet(l) /\ renoncements[l] = "repos"
    BY <1>1, <1>9 DEF Carnet
  <2>2. \A p, q \in Visees(l) :
          reglementsLot[l][p] = reglementsLot[l][q] /\ reglementsLot[l][p] # "COMPLETE"
    BY <1>1, <1>3, <2>1 DEF Carnet, SousFiles
  <2>. QED BY <1>1, <1>2, <1>3, <1>4, <2>1, <2>2 DEF Carnet, SousFiles
<1>. QED BY <1>1, <1>2, <1>4, <1>5, <1>6, <1>8, <1>9, Reunir

LEMMA InitierTient ==
  ASSUME Corps, NEW l \in Lots, InitierLot(l)
  PROVE  Corps'
<1>. USE DEF Corps
<1>1. PICK etat \in {"INCONNU", "CREE", "REFUSE"}, pc \in {"appele", "abandonner"} :
        fapshiLot' = [fapshiLot EXCEPT ![l] = etat] /\ Allerlot(l, pc)
  BY DEF InitierLot
<1>2. /\ lots[l].pc = "initier"
      /\ UNCHANGED <<journalPartage, reglementsLot, soldes, appelOuvert, files, suites,
                     renoncements, echoues, meles>>
  BY DEF InitierLot
<1>3. /\ lots' \in [Lots -> LotType]
      /\ lots'[l].pc = pc /\ lots'[l].pour = lots[l].pour
      /\ \A m \in Lots \ {l} : lots'[m] = lots[m]
      /\ Visees(l)' = Visees(l)
  <2>1. pc \in EtapesLot
    BY DEF EtapesLot
  <2>. QED BY <1>1, <2>1, LotEcrit
<1>4. /\ fapshiLot' \in [Lots -> EtatsFapshi] /\ fapshiLot'[l] = etat
      /\ \A m \in Lots \ {l} : fapshiLot'[m] = fapshiLot[m]
  BY <1>1 DEF TypePartage, EtatsFapshi
<1>5. Valeurs'
  BY <1>2, <1>3, <1>4 DEF TypePartage, Valeurs
<1>6. Situe(l)'
  BY <1>2, <1>3 DEF TypePartage, Situe, SousFiles
<1>7. Rangs(l)' = Rangs(l)
  BY <1>2 DEF Rangs
<1>8. /\ journalPartage[l].statut # "ABSENTE" /\ fapshiLot[l] = "INCONNU"
      /\ Rangs(l) = Visees(l) /\ ~journalPartage[l].ext /\ journalPartage[l].statut # "COMPLETE"
  BY <1>2 DEF ReserveDe, AvantOuverture, EtapesLot
<1>9. ReserveDe(l)'
  BY <1>2, <1>3, <1>4, <1>7, <1>8 DEF ReserveDe, SousFiles, AvantOuverture
<1>10. ASSUME l \notin meles' PROVE Carnet(l)'
  <2>1. Carnet(l)
    BY <1>2, <1>10
  <2>2. renoncements[l] = "repos" /\ journalPartage[l].statut = "EN_ATTENTE" /\ \A s \in suites : s.lot # l
    BY <1>2, <1>8, <2>1 DEF Carnet
  <2>. QED BY <1>2, <1>3, <1>4, <2>1, <2>2 DEF Carnet, SousFiles
<1>. QED BY <1>2, <1>3, <1>4, <1>5, <1>6, <1>9, <1>10, Reunir

LEMMA ConclureTient ==
  ASSUME Corps, NEW l \in Lots, ConclureLot(l)
  PROVE  Corps'
<1>. USE DEF Corps
<1>1. PICK pc \in {"fini", "appliquer", "abandonner"} :
        /\ Allerlot(l, pc)
        /\ pc = "appliquer" => fapshiLot[l] = "PAYE"
        /\ pc = "abandonner" => fapshiLot[l] = "REFUSE"
  BY DEF ConclureLot
<1>2. /\ lots[l].pc = "appele" /\ JL!EnregistrerReferenceExterne(l)
      /\ UNCHANGED <<reglementsLot, soldes, appelOuvert, files, fapshiLot, suites,
                     renoncements, echoues, meles>>
  BY DEF ConclureLot
<1>3. /\ lots' \in [Lots -> LotType]
      /\ lots'[l].pc = pc /\ lots'[l].pour = lots[l].pour
      /\ \A m \in Lots \ {l} : lots'[m] = lots[m]
      /\ Visees(l)' = Visees(l)
  <2>1. pc \in EtapesLot
    BY DEF EtapesLot
  <2>. QED BY <1>1, <2>1, LotEcrit
<1>4. /\ journalPartage' \in [Lots -> JL!Ligne]
      /\ \A m \in Lots \ {l} : journalPartage'[m] = journalPartage[m]
      /\ journalPartage'[l].statut = journalPartage[l].statut
      /\ journalPartage[l].statut = "ABSENTE" => journalPartage'[l].ext = journalPartage[l].ext
  BY <1>2, LigneDuLot DEF TypePartage
<1>5. Valeurs'
  BY <1>2, <1>3, <1>4 DEF TypePartage, Valeurs
<1>6. Situe(l)'
  BY <1>2, <1>3 DEF TypePartage, Situe, SousFiles
<1>7. Rangs(l)' = Rangs(l)
  BY <1>2 DEF Rangs
<1>8. journalPartage[l].statut # "ABSENTE" /\ Rangs(l) = Visees(l)
  BY <1>2 DEF ReserveDe, AvantOuverture, EtapesLot
<1>9. ReserveDe(l)'
  BY <1>1, <1>2, <1>3, <1>4, <1>7, <1>8 DEF ReserveDe, SousFiles, AvantOuverture
<1>10. ASSUME l \notin meles' PROVE Carnet(l)'
  <2>1. Carnet(l)
    BY <1>2, <1>10
  <2>2. renoncements[l] = "repos"
    BY <1>2, <2>1 DEF Carnet
  <2>3. pc = "abandonner" =>
          journalPartage[l].statut = "EN_ATTENTE" /\ \A s \in suites : s.lot # l
    BY <1>1, <1>2, <2>1 DEF Carnet
  <2>. QED BY <1>2, <1>3, <1>4, <2>1, <2>2, <2>3 DEF Carnet, SousFiles
<1>. QED BY <1>2, <1>3, <1>4, <1>5, <1>6, <1>9, <1>10, Reunir

\* What is carried of an issue.
LEMMA PorterBien ==
  ASSUME Corps, NEW l \in Lots, NEW i \in {"COMPLETE", "ECHOUE"}, Porter(l, i)
  PROVE  /\ ~JL!AppliquerAffecte(l, i) => suites' = suites
         /\ JL!AppliquerAffecte(l, i) =>
              /\ lots[l].pc \notin AvantOuverture /\ Rangs(l) = Visees(l) /\ Rangs(l) # {}
              /\ \E n \in Suite : /\ n.lot = l /\ n.issue = i /\ n.pour = Rangs(l)
                                  /\ suites' = suites \cup {n}
<1>. USE DEF Corps
<1>1. ASSUME JL!AppliquerAffecte(l, i)
      PROVE  /\ lots[l].pc \notin AvantOuverture /\ Rangs(l) = Visees(l) /\ Rangs(l) # {}
             /\ \E n \in Suite : /\ n.lot = l /\ n.issue = i /\ n.pour = Rangs(l)
                                 /\ suites' = suites \cup {n}
  <2>1. journalPartage[l].statut # "ABSENTE"
    BY <1>1 DEF JL!AppliquerAffecte
  <2>2. lots[l].pc \notin AvantOuverture /\ Rangs(l) = Visees(l)
    <3>1. ReserveDe(l) /\ lots[l].pc \in EtapesLot
      BY DEF TypePartage, LotType
    <3>. QED BY <2>1, <3>1 DEF ReserveDe, AvantOuverture, EtapesLot
  <2>3. lots[l].pour \in Demandes
    BY <2>2 DEF TypePartage, Situe, AvantOuverture
  <2>4. lots[l].pour[1] \in Visees(l)
    <3>1. lots[l].pour \in Seq(Cotisants) /\ Len(lots[l].pour) \in Nat \ {0}
      BY <2>3, ClesBien
    <3>. QED BY <3>1 DEF Visees, ToSet
  <2>5. PICK n : n = [lot |-> l, issue |-> i, pour |-> Rangs(l)]
    OBVIOUS
  <2>6. n \in Suite /\ n.lot = l /\ n.issue = i /\ n.pour = Rangs(l)
    BY <2>5 DEF Suite, Rangs
  <2>7. suites' = suites \cup {n}
    BY <1>1, <2>5 DEF Porter
  <2>. QED BY <2>2, <2>4, <2>6, <2>7
<1>2. ~JL!AppliquerAffecte(l, i) => suites' = suites
  BY DEF Porter
<1>. QED BY <1>1, <1>2

\* An issue is applied to the journal and set on its way.
LEMMA AppliqueTient ==
  ASSUME Corps, NEW l \in Lots, NEW i \in {"COMPLETE", "ECHOUE"},
         JL!Appliquer(l, i), Porter(l, i), lots[l].pc \notin AvantOuverture,
         i = "COMPLETE" => fapshiLot[l] = "PAYE",
         i = "ECHOUE" => journalPartage[l].statut = "EN_ATTENTE" /\ journalPartage[l].ext,
         lots' \in [Lots -> LotType], \A m \in Lots \ {l} : lots'[m] = lots[m],
         \/ lots'[l] = lots[l]
         \/ lots'[l].pc = "fini" /\ lots[l].pc = "appliquer" /\ lots'[l].pour = lots[l].pour,
         meles' \subseteq Lots, meles \subseteq meles',
         l \notin meles' => /\ ~EnMouvement(l) /\ lots[l].pc \notin {"abandonner", "refermer"},
         UNCHANGED <<reglementsLot, soldes, appelOuvert, files, fapshiLot, renoncements, echoues>>
  PROVE  Corps'
<1>. USE DEF Corps
<1>. DEFINE j == journalPartage[l]
<1>1. /\ journalPartage' \in [Lots -> JL!Ligne]
      /\ \A m \in Lots \ {l} : journalPartage'[m] = journalPartage[m]
      /\ journalPartage'[l].statut = (IF j.statut = "ABSENTE" THEN "ABSENTE" ELSE i)
      /\ journalPartage'[l].ext = j.ext
  BY LigneDuLot DEF TypePartage
<1>2. /\ ~JL!AppliquerAffecte(l, i) => suites' = suites
      /\ JL!AppliquerAffecte(l, i) =>
           /\ Rangs(l) = Visees(l) /\ Rangs(l) # {}
           /\ \E n \in Suite : /\ n.lot = l /\ n.issue = i /\ n.pour = Rangs(l)
                               /\ suites' = suites \cup {n}
  BY PorterBien
<1>3. suites' \subseteq Suite /\ \A s \in Suite : s.lot # l => (s \in suites' <=> s \in suites)
  BY <1>2 DEF TypePartage
<1>4. Valeurs'
  BY <1>1, <1>3 DEF TypePartage, Valeurs
<1>5. Situe(l)'
  <2>1. CASE lots'[l] = lots[l]
    BY <2>1 DEF TypePartage, Situe
  <2>2. CASE lots'[l].pc = "fini" /\ lots[l].pc = "appliquer" /\ lots'[l].pour = lots[l].pour
    BY <2>2 DEF TypePartage, Situe, SousFiles
  <2>. QED BY <2>1, <2>2
<1>6. Rangs(l)' = Rangs(l) /\ Visees(l)' = Visees(l)
  BY DEF Rangs, Visees
<1>7. \A s \in suites' : s.lot = l =>
        s.pour # {} /\ s.pour \subseteq Rangs(l) /\ journalPartage'[l].statut # "ABSENTE"
  <2>1. \A s \in suites : s.lot = l => s.pour # {} /\ s.pour \subseteq Rangs(l) /\ j.statut # "ABSENTE"
    BY DEF ReserveDe
  <2>2. CASE ~JL!AppliquerAffecte(l, i)
    BY <1>1, <1>2, <2>1, <2>2
  <2>3. CASE JL!AppliquerAffecte(l, i)
    <3>1. j.statut # "ABSENTE"
      BY <2>3 DEF JL!AppliquerAffecte
    <3>2. PICK n \in Suite : n.lot = l /\ n.pour = Rangs(l) /\ suites' = suites \cup {n}
      BY <1>2, <2>3
    <3>. QED BY <1>1, <1>2, <2>1, <2>3, <3>1, <3>2
  <2>. QED BY <2>2, <2>3
<1>8. ReserveDe(l)'
  <2>1. ReserveDe(l)
    OBVIOUS
  <2>2. CASE lots'[l] = lots[l]
    BY <1>1, <1>6, <1>7, <2>1, <2>2 DEF ReserveDe, AvantOuverture, SousFiles
  <2>3. CASE lots'[l].pc = "fini" /\ lots[l].pc = "appliquer" /\ lots'[l].pour = lots[l].pour
    <3>1. Rangs(l) = Visees(l) /\ j.statut # "ABSENTE"
      BY <2>1, <2>3 DEF ReserveDe, AvantOuverture, EtapesLot
    <3>. QED BY <1>1, <1>6, <1>7, <2>1, <2>3, <3>1 DEF ReserveDe, AvantOuverture, SousFiles
  <2>. QED BY <2>2, <2>3
<1>9. ASSUME l \notin meles' PROVE Carnet(l)'
  <2>1. /\ Carnet(l) /\ renoncements[l] = "repos" /\ \A s \in suites : s.lot # l
        /\ lots'[l].pc \notin {"abandonner", "refermer"}
    BY <1>9 DEF EnMouvement
  <2>2. lots[l].pc \notin SousFiles /\ lots'[l].pc \notin SousFiles
    BY DEF AvantOuverture, SousFiles
  <2>3. \A p, q \in Visees(l) :
          /\ reglementsLot[l][p] = reglementsLot[l][q]
          /\ reglementsLot[l][p] = "COMPLETE" <=> j.statut = "COMPLETE"
    BY <2>1, <2>2 DEF Carnet
  <2>4. lots'[l].pc \in {"initier", "appele"} => fapshiLot[l] = "PAYE"
    <3>1. ASSUME i = "ECHOUE", lots[l].pc \in {"initier", "appele"} PROVE FALSE
      BY <3>1 DEF ReserveDe
    <3>. QED BY <3>1
  <2>5. CASE ~JL!AppliquerAffecte(l, i)
    <3>1. journalPartage'[l].statut = j.statut
      BY <1>1, <2>5 DEF JL!AppliquerAffecte
    <3>2. suites' = suites
      BY <1>2, <2>5
    <3>. QED BY <1>6, <2>1, <2>2, <2>3, <2>4, <3>1, <3>2 DEF Carnet
  <2>6. CASE JL!AppliquerAffecte(l, i)
    <3>1. j.statut # "COMPLETE" /\ journalPartage'[l].statut = i
      BY <1>1, <2>6 DEF JL!AppliquerAffecte
    <3>2. PICK n \in Suite : n.lot = l /\ n.issue = i /\ n.pour = Rangs(l) /\ suites' = suites \cup {n}
      BY <1>2, <2>6
    <3>3. Rangs(l) = Visees(l)
      BY <1>2, <2>6
    <3>4. \A s \in suites' : s.lot = l => s = n
      BY <2>1, <3>2
    <3>. QED BY <1>6, <2>1, <2>2, <2>3, <2>4, <3>1, <3>2, <3>3, <3>4 DEF Carnet
  <2>. QED BY <2>5, <2>6
<1>. QED BY <1>1, <1>3, <1>4, <1>5, <1>8, <1>9, Reunir

LEMMA AppliquerLotTient ==
  ASSUME Corps, NEW l \in Lots, AppliquerLot(l)
  PROVE  Corps'
<1>1. /\ lots[l].pc = "appliquer" /\ JL!Appliquer(l, "COMPLETE") /\ Porter(l, "COMPLETE")
      /\ Meler(l, EnMouvement(l)) /\ Allerlot(l, "fini")
      /\ UNCHANGED <<reglementsLot, soldes, appelOuvert, files, fapshiLot, renoncements, echoues>>
  BY DEF AppliquerLot
<1>2. /\ lots' \in [Lots -> LotType]
      /\ lots'[l].pc = "fini" /\ lots'[l].pour = lots[l].pour
      /\ \A m \in Lots \ {l} : lots'[m] = lots[m]
  <2>1. "fini" \in EtapesLot
    BY DEF EtapesLot
  <2>. QED BY <1>1, <2>1, LotEcrit DEF Corps
<1>3. fapshiLot[l] = "PAYE" /\ lots[l].pc \notin AvantOuverture
  BY <1>1 DEF Corps, ReserveDe, AvantOuverture
<1>4. /\ meles' \subseteq Lots /\ meles \subseteq meles'
      /\ l \notin meles' => ~EnMouvement(l) /\ lots[l].pc \notin {"abandonner", "refermer"}
  BY <1>1 DEF Meler, Corps, TypePartage
<1>. QED BY <1>1, <1>2, <1>3, <1>4, AppliqueTient

LEMMA RecevoirTient ==
  ASSUME Corps, NEW l \in Lots, NEW i \in {"COMPLETE", "ECHOUE"}, RecevoirIssueLot(l, i)
  PROVE  Corps'
<1>1. /\ IF i = "COMPLETE" THEN fapshiLot[l] = "PAYE"
         ELSE fapshiLot[l] # "PAYE" /\ journalPartage[l].ext /\ journalPartage[l].statut = "EN_ATTENTE"
      /\ JL!Appliquer(l, i) /\ Porter(l, i)
      /\ Meler(l, EnMouvement(l) \/ lots[l].pc \in {"abandonner", "refermer"})
      /\ UNCHANGED <<reglementsLot, soldes, appelOuvert, files, lots, fapshiLot, renoncements, echoues>>
  BY DEF RecevoirIssueLot
<1>2. lots[l].pc \notin AvantOuverture
  <2>1. ReserveDe(l)
    BY DEF Corps
  <2>. QED BY <1>1, <2>1 DEF ReserveDe
<1>3. lots' \in [Lots -> LotType] /\ \A m \in Lots \ {l} : lots'[m] = lots[m]
  BY <1>1 DEF Corps, TypePartage
<1>6. \/ lots'[l] = lots[l]
      \/ lots'[l].pc = "fini" /\ lots[l].pc = "appliquer" /\ lots'[l].pour = lots[l].pour
  BY <1>1
<1>7. UNCHANGED <<reglementsLot, soldes, appelOuvert, files, fapshiLot, renoncements, echoues>>
  BY <1>1
<1>8. JL!Appliquer(l, i) /\ Porter(l, i)
  BY <1>1
<1>4. /\ meles' \subseteq Lots /\ meles \subseteq meles'
      /\ l \notin meles' => ~EnMouvement(l) /\ lots[l].pc \notin {"abandonner", "refermer"}
  BY <1>1 DEF Meler, Corps, TypePartage
<1>5. /\ i = "COMPLETE" => fapshiLot[l] = "PAYE"
      /\ i = "ECHOUE" => journalPartage[l].statut = "EN_ATTENTE" /\ journalPartage[l].ext
  BY <1>1
<1>. QED BY <1>2, <1>3, <1>4, <1>5, <1>6, <1>7, <1>8, AppliqueTient

LEMMA AbandonnerTient ==
  ASSUME Corps, NEW l \in Lots, AbandonnerLot(l)
  PROVE  Corps'
<1>. USE DEF Corps
<1>1. /\ lots[l].pc = "abandonner" /\ JL!Abandonner(l) /\ Allerlot(l, "refermer")
      /\ UNCHANGED <<reglementsLot, soldes, appelOuvert, files, fapshiLot, suites,
                     renoncements, echoues, meles>>
  BY DEF AbandonnerLot
<1>2. /\ lots' \in [Lots -> LotType]
      /\ lots'[l].pc = "refermer" /\ lots'[l].pour = lots[l].pour
      /\ \A m \in Lots \ {l} : lots'[m] = lots[m]
      /\ Visees(l)' = Visees(l)
  <2>1. "refermer" \in EtapesLot
    BY DEF EtapesLot
  <2>. QED BY <1>1, <2>1, LotEcrit
<1>3. /\ journalPartage' \in [Lots -> JL!Ligne]
      /\ \A m \in Lots \ {l} : journalPartage'[m] = journalPartage[m]
      /\ journalPartage'[l].statut =
           (IF journalPartage[l].statut = "EN_ATTENTE" /\ ~journalPartage[l].ext
            THEN "ECHOUE" ELSE journalPartage[l].statut)
      /\ journalPartage'[l].ext = journalPartage[l].ext
  BY <1>1, LigneDuLot DEF TypePartage
<1>4. Valeurs'
  BY <1>1, <1>2, <1>3 DEF TypePartage, Valeurs
<1>5. Situe(l)'
  BY <1>1, <1>2 DEF TypePartage, Situe, SousFiles
<1>6. Rangs(l)' = Rangs(l)
  BY <1>1 DEF Rangs
<1>7. journalPartage[l].statut # "ABSENTE" /\ Rangs(l) = Visees(l)
  BY <1>1 DEF ReserveDe, AvantOuverture, EtapesLot
<1>8. ReserveDe(l)'
  BY <1>1, <1>2, <1>3, <1>6, <1>7 DEF ReserveDe, SousFiles, AvantOuverture
<1>9. ASSUME l \notin meles' PROVE Carnet(l)'
  <2>1. Carnet(l)
    BY <1>1, <1>9
  <2>2. /\ renoncements[l] = "repos" /\ journalPartage[l].statut # "COMPLETE"
        /\ \A s \in suites : s.lot # l
    BY <1>1, <2>1 DEF Carnet
  <2>. QED BY <1>1, <1>2, <1>3, <2>1, <2>2 DEF Carnet, SousFiles
<1>. QED BY <1>1, <1>2, <1>3, <1>4, <1>5, <1>8, <1>9, Reunir

\* The payments of a lot closed.
LEMMA FermeBien ==
  ASSUME TypePartage, NEW l \in Lots, NEW quels \in SUBSET JL!Statuts, Refermes(l, quels)
  PROVE  /\ reglementsLot' \in [Lots -> [Cotisants -> JL!Statuts \cup {"AUCUN"}]]
         /\ \A m \in Lots \ {l} : reglementsLot'[m] = reglementsLot[m]
         /\ \A p \in Cotisants : reglementsLot'[l][p] =
              IF reglementsLot[l][p] \in quels THEN "ECHOUE" ELSE reglementsLot[l][p]
         /\ Rangs(l)' = Rangs(l)
         /\ echoues' = echoues \cup {l}
<1>1. PICK y : y = [p \in Cotisants |-> IF p \in Rangs(l) /\ reglementsLot[l][p] \in quels
                                        THEN "ECHOUE" ELSE reglementsLot[l][p]]
  OBVIOUS
<1>2. "AUCUN" \notin quels /\ "ECHOUE" \in JL!Statuts
  BY DEF JL!Statuts
<1>3. \A p \in Cotisants : y[p] = IF reglementsLot[l][p] \in quels THEN "ECHOUE" ELSE reglementsLot[l][p]
  BY <1>1, <1>2 DEF Rangs
<1>4. y \in [Cotisants -> JL!Statuts \cup {"AUCUN"}]
  BY <1>1, <1>2 DEF TypePartage
<1>5. reglementsLot' = [reglementsLot EXCEPT ![l] = y] /\ echoues' = echoues \cup {l}
  BY <1>1 DEF Refermes
<1>6. /\ reglementsLot' \in [Lots -> [Cotisants -> JL!Statuts \cup {"AUCUN"}]]
      /\ reglementsLot'[l] = y /\ \A m \in Lots \ {l} : reglementsLot'[m] = reglementsLot[m]
  BY <1>4, <1>5 DEF TypePartage
<1>7. Rangs(l)' = Rangs(l)
  BY <1>2, <1>3, <1>6 DEF Rangs
<1>. QED BY <1>3, <1>5, <1>6, <1>7

LEMMA RefermerTient ==
  ASSUME Corps, NEW l \in Lots, RefermerLot(l)
  PROVE  Corps'
<1>. USE DEF Corps
<1>1. /\ lots[l].pc = "refermer" /\ Refermes(l, JL!Statuts) /\ Allerlot(l, "fini")
      /\ Meler(l, EnMouvement(l) \/ journalPartage[l].statut = "COMPLETE")
      /\ UNCHANGED <<journalPartage, soldes, appelOuvert, files, fapshiLot, suites, renoncements>>
  BY DEF RefermerLot
<1>2. /\ lots' \in [Lots -> LotType]
      /\ lots'[l].pc = "fini" /\ lots'[l].pour = lots[l].pour
      /\ \A m \in Lots \ {l} : lots'[m] = lots[m]
      /\ Visees(l)' = Visees(l)
  <2>1. "fini" \in EtapesLot
    BY DEF EtapesLot
  <2>. QED BY <1>1, <2>1, LotEcrit
<1>3. /\ reglementsLot' \in [Lots -> [Cotisants -> JL!Statuts \cup {"AUCUN"}]]
      /\ \A m \in Lots \ {l} : reglementsLot'[m] = reglementsLot[m]
      /\ \A p \in Cotisants : reglementsLot'[l][p] =
           IF reglementsLot[l][p] \in JL!Statuts THEN "ECHOUE" ELSE reglementsLot[l][p]
      /\ Rangs(l)' = Rangs(l)
      /\ echoues' = echoues \cup {l}
  BY <1>1, FermeBien
<1>4. /\ meles' \subseteq Lots /\ meles \subseteq meles'
      /\ l \notin meles' => ~EnMouvement(l) /\ journalPartage[l].statut # "COMPLETE"
  BY <1>1 DEF Meler, TypePartage
<1>5. Valeurs'
  BY <1>1, <1>2, <1>3, <1>4 DEF TypePartage, Valeurs
<1>6. Situe(l)'
  BY <1>1, <1>2 DEF TypePartage, Situe, SousFiles
<1>7. journalPartage[l].statut # "ABSENTE" /\ Rangs(l) = Visees(l)
  BY <1>1 DEF ReserveDe, AvantOuverture, EtapesLot
<1>8. ReserveDe(l)'
  BY <1>1, <1>2, <1>3, <1>7 DEF ReserveDe, SousFiles, AvantOuverture
<1>9. ASSUME l \notin meles' PROVE Carnet(l)'
  <2>1. /\ renoncements[l] = "repos" /\ journalPartage[l].statut # "COMPLETE"
        /\ \A s \in suites : s.lot # l
    BY <1>4, <1>9 DEF EnMouvement
  <2>2. \A p \in Visees(l) : reglementsLot'[l][p] = "ECHOUE"
    <3>1. \A p \in Rangs(l) : p \in Cotisants /\ reglementsLot[l][p] \in JL!Statuts
      BY DEF TypePartage, Rangs
    <3>. QED BY <1>3, <1>7, <3>1
  <2>. QED BY <1>1, <1>2, <2>1, <2>2 DEF Carnet, SousFiles
<1>. QED BY <1>1, <1>2, <1>3, <1>4, <1>5, <1>6, <1>8, <1>9, Reunir

LEMMA PayerTient ==
  ASSUME Corps, NEW l \in Lots, PayerLot(l)
  PROVE  Corps'
<1>. USE DEF Corps
<1>1. /\ fapshiLot[l] = "CREE" /\ fapshiLot' = [fapshiLot EXCEPT ![l] = "PAYE"]
      /\ UNCHANGED <<journalPartage, reglementsLot, soldes, appelOuvert, files, lots, suites,
                     renoncements, echoues, meles>>
  BY DEF PayerLot
<1>2. /\ fapshiLot' \in [Lots -> EtatsFapshi] /\ fapshiLot'[l] = "PAYE"
      /\ \A m \in Lots \ {l} : fapshiLot'[m] = fapshiLot[m]
  BY <1>1 DEF TypePartage, EtatsFapshi
<1>3. Valeurs'
  BY <1>1, <1>2 DEF TypePartage, Valeurs
<1>4. Situe(l)'
  BY <1>1 DEF TypePartage, Situe
<1>5. Rangs(l)' = Rangs(l) /\ Visees(l)' = Visees(l)
  BY <1>1 DEF Rangs, Visees
<1>6. ReserveDe(l)'
  BY <1>1, <1>2, <1>5 DEF ReserveDe
<1>7. l \notin meles' => Carnet(l)'
  BY <1>1, <1>2, <1>5 DEF Carnet
<1>. QED BY <1>1, <1>2, <1>3, <1>4, <1>6, <1>7, Reunir

\* What carrying an issue to the next person writes.
PorteIssue(s, p) ==
  /\ reglementsLot' = [reglementsLot EXCEPT ![s.lot][p] = s.issue]
  /\ suites' = (suites \ {s}) \cup (IF s.pour = {p} THEN {} ELSE {[s EXCEPT !.pour = @ \ {p}]})

IssuePortee(s, p) ==
  /\ s \in Suite /\ s.lot \in Lots
  /\ reglementsLot' \in [Lots -> [Cotisants -> JL!Statuts \cup {"AUCUN"}]]
  /\ \A m \in Lots \ {s.lot} : reglementsLot'[m] = reglementsLot[m]
  /\ \A q \in Cotisants : reglementsLot'[s.lot][q] = IF q = p THEN s.issue ELSE reglementsLot[s.lot][q]
  /\ \/ s.pour = {p} /\ suites' = suites \ {s}
     \/ \E n \in Suite : /\ n.lot = s.lot /\ n.issue = s.issue /\ n.pour = s.pour \ {p}
                         /\ s.pour # {p} /\ suites' = (suites \ {s}) \cup {n}

LEMMA RepercuteBien ==
  ASSUME TypePartage, NEW s \in suites, NEW p \in s.pour, s.pour \subseteq Cotisants, PorteIssue(s, p)
  PROVE  IssuePortee(s, p)
<1>. USE DEF PorteIssue, IssuePortee
<1>1. s \in Suite
  BY DEF TypePartage
<1>2. PICK l \in Lots, i \in {"COMPLETE", "ECHOUE"} : l = s.lot /\ i = s.issue
  BY <1>1 DEF Suite
<1>3. PICK y : y = [reglementsLot[l] EXCEPT ![p] = i]
  OBVIOUS
<1>4. /\ y \in [Cotisants -> JL!Statuts \cup {"AUCUN"}]
      /\ \A q \in Cotisants : y[q] = IF q = p THEN i ELSE reglementsLot[l][q]
  BY <1>2, <1>3 DEF TypePartage, JL!Statuts
<1>5. reglementsLot' = [reglementsLot EXCEPT ![l] = y]
  BY <1>2, <1>3
<1>6. /\ reglementsLot' \in [Lots -> [Cotisants -> JL!Statuts \cup {"AUCUN"}]]
      /\ reglementsLot'[l] = y /\ \A m \in Lots \ {l} : reglementsLot'[m] = reglementsLot[m]
  BY <1>2, <1>4, <1>5 DEF TypePartage
<1>7. PICK n : n = [s EXCEPT !.pour = @ \ {p}]
  OBVIOUS
<1>8. n \in Suite /\ n.lot = s.lot /\ n.issue = s.issue /\ n.pour = s.pour \ {p}
  BY <1>1, <1>7 DEF Suite
<1>9. \/ s.pour = {p} /\ suites' = suites \ {s}
      \/ s.pour # {p} /\ suites' = (suites \ {s}) \cup {n}
  BY <1>7
<1>. QED BY <1>1, <1>2, <1>4, <1>6, <1>8, <1>9

LEMMA RepercuterTient ==
  ASSUME Corps, NEW s \in suites, RepercuterLot(s)
  PROVE  Corps'
<1>. USE DEF Corps
<1>1. PICK p \in s.pour :
        /\ reglementsLot' = [reglementsLot EXCEPT ![s.lot][p] = s.issue]
        /\ soldes' = IF s.issue = "COMPLETE" THEN [soldes EXCEPT ![p] = @ + 1] ELSE soldes
        /\ suites' = (suites \ {s}) \cup (IF s.pour = {p} THEN {} ELSE {[s EXCEPT !.pour = @ \ {p}]})
        /\ echoues' = IF s.issue = "ECHOUE" THEN echoues \cup {s.lot} ELSE echoues
        /\ UNCHANGED <<journalPartage, appelOuvert, files, lots, fapshiLot, renoncements, meles>>
  BY DEF RepercuterLot
<1>2. PICK l \in Lots : l = s.lot /\ s.issue \in {"COMPLETE", "ECHOUE"} /\ s.pour \subseteq Cotisants /\ s \in Suite
  BY DEF TypePartage, Suite
<1>3. /\ reglementsLot' \in [Lots -> [Cotisants -> JL!Statuts \cup {"AUCUN"}]]
      /\ \A m \in Lots \ {l} : reglementsLot'[m] = reglementsLot[m]
      /\ \A q \in Cotisants : reglementsLot'[l][q] = IF q = p THEN s.issue ELSE reglementsLot[l][q]
      /\ \/ s.pour = {p} /\ suites' = suites \ {s}
         \/ \E n \in Suite : /\ n.lot = l /\ n.issue = s.issue /\ n.pour = s.pour \ {p}
                             /\ s.pour # {p} /\ suites' = (suites \ {s}) \cup {n}
  <2>1. s.pour \subseteq Cotisants
    BY <1>2
  <2>2. PorteIssue(s, p)
    BY <1>1 DEF PorteIssue
  <2>3. IssuePortee(s, p)
    BY <1>1, <2>1, <2>2, RepercuteBien
  <2>. QED BY <1>2, <2>3 DEF IssuePortee
<1>4. suites' \subseteq Suite /\ \A t \in Suite : t.lot # l => (t \in suites' <=> t \in suites)
  BY <1>2, <1>3 DEF TypePartage
<1>5. soldes' \in [Cotisants -> Nat]
  BY <1>1, <1>2 DEF TypePartage
<1>6. Valeurs' /\ echoues \subseteq echoues' /\ meles \subseteq meles'
  BY <1>1, <1>2, <1>3, <1>4, <1>5 DEF TypePartage, Valeurs
<1>7. Situe(l)'
  BY <1>1 DEF TypePartage, Situe
<1>8. /\ s.pour # {} /\ s.pour \subseteq Rangs(l) /\ journalPartage[l].statut # "ABSENTE"
      /\ \A t \in suites : t.lot = l => t.pour # {} /\ t.pour \subseteq Rangs(l)
  BY <1>2 DEF ReserveDe
<1>9. Rangs(l)' = Rangs(l) /\ Visees(l)' = Visees(l)
  <2>1. Visees(l)' = Visees(l)
    BY <1>1 DEF Visees
  <2>2. Rangs(l)' = Rangs(l)
    BY <1>2, <1>3, <1>8 DEF Rangs
  <2>. QED BY <2>1, <2>2
<1>10. \A t \in suites' : t.lot = l => t.pour # {} /\ t.pour \subseteq Rangs(l)
  <2>1. CASE s.pour = {p} /\ suites' = suites \ {s}
    BY <1>8, <2>1
  <2>2. CASE \E n \in Suite : /\ n.lot = l /\ n.issue = s.issue /\ n.pour = s.pour \ {p}
                              /\ s.pour # {p} /\ suites' = (suites \ {s}) \cup {n}
    <3>1. PICK n \in Suite : /\ n.lot = l /\ n.issue = s.issue /\ n.pour = s.pour \ {p}
                             /\ s.pour # {p} /\ suites' = (suites \ {s}) \cup {n}
      BY <2>2
    <3>2. n.pour # {} /\ n.pour \subseteq Rangs(l)
      BY <1>1, <1>8, <3>1
    <3>. QED BY <1>8, <3>1, <3>2
  <2>. QED BY <1>3, <2>1, <2>2
<1>11. \A q \in Cotisants : reglementsLot'[l][q] = "ECHOUE" => l \in echoues'
  BY <1>1, <1>2, <1>3 DEF ReserveDe
<1>12. ReserveDe(l)'
  BY <1>1, <1>8, <1>9, <1>10, <1>11 DEF ReserveDe
<1>13. ASSUME l \notin meles' PROVE Carnet(l)'
  <2>1. Carnet(l)
    BY <1>1, <1>13
  <2>2. \A t \in suites : t.lot = l => t = s
    BY <1>2, <2>1 DEF Carnet
  <2>3. /\ s.issue = journalPartage[l].statut
        /\ \A q \in Visees(l) \ s.pour : reglementsLot[l][q] = s.issue
        /\ \A q \in s.pour : reglementsLot[l][q] # "COMPLETE"
        /\ \A q, r \in s.pour : reglementsLot[l][q] = reglementsLot[l][r]
    BY <1>2, <2>1 DEF Carnet
  <2>4. /\ renoncements[l] = "repos" /\ lots[l].pc \notin {"abandonner", "refermer"}
        /\ lots[l].pc \in {"initier", "appele"} => fapshiLot[l] = "PAYE"
    BY <1>2, <2>1 DEF Carnet
  <2>5. lots[l].pc \notin SousFiles
    BY <1>8 DEF ReserveDe, SousFiles, AvantOuverture
  <2>6. Visees(l) \subseteq Cotisants
    <3>1. lots[l].pour \in Demandes
      BY <1>8 DEF TypePartage, Situe, ReserveDe, AvantOuverture
    <3>. QED BY <3>1, ClesBien DEF Visees
  <2>7. CASE s.pour = {p} /\ suites' = suites \ {s}
    <3>1. \A t \in suites' : t.lot # l
      BY <2>2, <2>7
    <3>2. \A q \in Visees(l) : reglementsLot'[l][q] = s.issue
      BY <1>3, <2>3, <2>6, <2>7
    <3>. QED BY <1>1, <1>9, <2>3, <2>4, <2>5, <3>1, <3>2 DEF Carnet
  <2>8. CASE \E n \in Suite : /\ n.lot = l /\ n.issue = s.issue /\ n.pour = s.pour \ {p}
                              /\ s.pour # {p} /\ suites' = (suites \ {s}) \cup {n}
    <3>1. PICK n \in Suite : /\ n.lot = l /\ n.issue = s.issue /\ n.pour = s.pour \ {p}
                             /\ s.pour # {p} /\ suites' = (suites \ {s}) \cup {n}
      BY <2>8
    <3>2. \A t \in suites' : t.lot = l => t = n
      BY <2>2, <3>1
    <3>3. \A q \in Visees(l) \ n.pour : reglementsLot'[l][q] = n.issue
      BY <1>3, <2>3, <2>6, <3>1
    <3>4. /\ \A q \in n.pour : reglementsLot'[l][q] = reglementsLot[l][q]
      BY <1>2, <1>3, <3>1
    <3>5. \A q, r \in n.pour : /\ reglementsLot'[l][q] # "COMPLETE"
                               /\ reglementsLot'[l][q] = reglementsLot'[l][r]
      BY <2>3, <3>1, <3>4
    <3>6. n \in suites' /\ n.issue = journalPartage'[l].statut
      BY <1>1, <2>3, <3>1
    <3>. QED BY <1>1, <1>9, <2>4, <2>5, <3>1, <3>2, <3>3, <3>5, <3>6 DEF Carnet
  <2>. QED BY <1>3, <2>7, <2>8
<1>. QED BY <1>1, <1>3, <1>4, <1>6, <1>7, <1>12, <1>13, Reunir

\* What the next step of giving a lot up is.
LEMMA EtapeBien ==
  ASSUME TypePartage, NEW l \in Lots,
         NEW e \in {"repos", "expirer", "appliquer", "refermer"}, Etaper(l, e)
  PROVE  /\ renoncements' \in [Lots -> {"repos", "expirer", "appliquer", "refermer"}]
         /\ renoncements'[l] = e /\ \A m \in Lots \ {l} : renoncements'[m] = renoncements[m]
  BY DEF Etaper, TypePartage

LEMMA LireRenoncementTient ==
  ASSUME Corps, NEW l \in Lots, LireRenoncement(l)
  PROVE  Corps'
<1>. USE DEF Corps
<1>1. /\ renoncements[l] = "repos" /\ \E p \in Cotisants : reglementsLot[l][p] = "EN_ATTENTE"
      /\ Etaper(l, "expirer") /\ Meler(l, EnMouvement(l) \/ lots[l].pc # "fini")
      /\ UNCHANGED <<journalPartage, reglementsLot, soldes, appelOuvert, files, lots, fapshiLot, suites,
                     echoues>>
  BY DEF LireRenoncement
<1>2. /\ renoncements' \in [Lots -> {"repos", "expirer", "appliquer", "refermer"}]
      /\ renoncements'[l] = "expirer" /\ \A m \in Lots \ {l} : renoncements'[m] = renoncements[m]
  BY <1>1, EtapeBien
<1>3. /\ meles' \subseteq Lots /\ meles \subseteq meles'
      /\ l \notin meles' => ~EnMouvement(l) /\ lots[l].pc = "fini"
  BY <1>1 DEF Meler, TypePartage
<1>4. Valeurs'
  BY <1>1, <1>2, <1>3 DEF TypePartage, Valeurs
<1>5. Situe(l)'
  BY <1>1 DEF TypePartage, Situe
<1>6. Rangs(l)' = Rangs(l) /\ Visees(l)' = Visees(l)
  BY <1>1 DEF Rangs, Visees
<1>7. ReserveDe(l)'
  BY <1>1, <1>6 DEF ReserveDe
<1>8. ASSUME l \notin meles' PROVE Carnet(l)'
  <2>1. Carnet(l) /\ lots[l].pc = "fini" /\ \A s \in suites : s.lot # l
    BY <1>3, <1>8 DEF EnMouvement
  <2>2. journalPartage[l].statut # "COMPLETE"
    <3>1. PICK p \in Cotisants : reglementsLot[l][p] = "EN_ATTENTE"
      BY <1>1
    <3>2. p \in Rangs(l)
      BY <3>1 DEF Rangs
    <3>3. p \in Visees(l)
      BY <2>1, <3>2 DEF ReserveDe
    <3>. QED BY <2>1, <3>1, <3>3 DEF Carnet, SousFiles
  <2>. QED BY <1>1, <1>6, <2>1, <2>2 DEF Carnet
<1>. QED BY <1>1, <1>2, <1>3, <1>4, <1>5, <1>7, <1>8, Reunir

LEMMA ExpirerTient ==
  ASSUME Corps, NEW l \in Lots, ExpirerLot(l)
  PROVE  Corps'
<1>. USE DEF Corps
<1>1. /\ renoncements[l] = "expirer" /\ Etaper(l, "appliquer")
      /\ \/ fapshiLot[l] = "CREE" /\ fapshiLot' = [fapshiLot EXCEPT ![l] = "REFUSE"]
         \/ fapshiLot' = fapshiLot
      /\ UNCHANGED <<journalPartage, reglementsLot, soldes, appelOuvert, files, lots, suites, echoues, meles>>
  BY DEF ExpirerLot
<1>2. /\ renoncements' \in [Lots -> {"repos", "expirer", "appliquer", "refermer"}]
      /\ renoncements'[l] = "appliquer" /\ \A m \in Lots \ {l} : renoncements'[m] = renoncements[m]
  BY <1>1, EtapeBien
<1>3. /\ fapshiLot' \in [Lots -> EtatsFapshi] /\ \A m \in Lots \ {l} : fapshiLot'[m] = fapshiLot[m]
      /\ \/ fapshiLot[l] = "CREE" /\ fapshiLot'[l] = "REFUSE"
         \/ fapshiLot'[l] = fapshiLot[l]
  BY <1>1 DEF TypePartage, EtatsFapshi
<1>4. Valeurs'
  BY <1>1, <1>2, <1>3 DEF TypePartage, Valeurs
<1>5. Situe(l)'
  BY <1>1 DEF TypePartage, Situe
<1>6. Rangs(l)' = Rangs(l) /\ Visees(l)' = Visees(l)
  BY <1>1 DEF Rangs, Visees
<1>7. ReserveDe(l)'
  BY <1>1, <1>3, <1>6 DEF ReserveDe
<1>8. ASSUME l \notin meles' PROVE Carnet(l)'
  <2>1. Carnet(l)
    BY <1>1, <1>8
  <2>2. lots[l].pc = "fini"
    BY <1>1, <2>1 DEF Carnet
  <2>. QED BY <1>1, <1>2, <1>6, <2>1, <2>2 DEF Carnet
<1>. QED BY <1>1, <1>2, <1>3, <1>4, <1>5, <1>7, <1>8, Reunir

LEMMA AppliquerRenoncementTient ==
  ASSUME Corps, NEW l \in Lots, AppliquerRenoncement(l)
  PROVE  Corps'
<1>. USE DEF Corps
<1>1. /\ renoncements[l] = "appliquer" /\ JL!Appliquer(l, "ECHOUE") /\ Etaper(l, "refermer")
      /\ UNCHANGED <<reglementsLot, soldes, appelOuvert, files, lots, fapshiLot, suites, echoues, meles>>
  BY DEF AppliquerRenoncement
<1>2. /\ renoncements' \in [Lots -> {"repos", "expirer", "appliquer", "refermer"}]
      /\ renoncements'[l] = "refermer" /\ \A m \in Lots \ {l} : renoncements'[m] = renoncements[m]
  BY <1>1, EtapeBien
<1>3. /\ journalPartage' \in [Lots -> JL!Ligne]
      /\ \A m \in Lots \ {l} : journalPartage'[m] = journalPartage[m]
      /\ journalPartage'[l].statut = (IF journalPartage[l].statut = "ABSENTE" THEN "ABSENTE" ELSE "ECHOUE")
      /\ journalPartage'[l].ext = journalPartage[l].ext
  BY <1>1, LigneDuLot DEF TypePartage
<1>4. Valeurs'
  BY <1>1, <1>2, <1>3 DEF TypePartage, Valeurs
<1>5. Situe(l)'
  BY <1>1 DEF TypePartage, Situe
<1>6. Rangs(l)' = Rangs(l) /\ Visees(l)' = Visees(l)
  BY <1>1 DEF Rangs, Visees
<1>7. ReserveDe(l)'
  BY <1>1, <1>3, <1>6 DEF ReserveDe
<1>8. ASSUME l \notin meles' PROVE Carnet(l)'
  <2>1. Carnet(l)
    BY <1>1, <1>8
  <2>2. lots[l].pc = "fini" /\ journalPartage[l].statut # "COMPLETE" /\ \A s \in suites : s.lot # l
    BY <1>1, <2>1 DEF Carnet
  <2>. QED BY <1>1, <1>2, <1>3, <1>6, <2>1, <2>2 DEF Carnet
<1>. QED BY <1>1, <1>2, <1>3, <1>4, <1>5, <1>7, <1>8, Reunir

LEMMA RefermerRenoncementTient ==
  ASSUME Corps, NEW l \in Lots, RefermerRenoncement(l)
  PROVE  Corps'
<1>. USE DEF Corps
<1>1. PICK quels \in SUBSET JL!Statuts : Refermes(l, quels)
  BY DEF RefermerRenoncement, JL!Statuts
<1>2. /\ renoncements[l] = "refermer" /\ Etaper(l, "repos")
      /\ UNCHANGED <<journalPartage, soldes, appelOuvert, files, lots, fapshiLot, suites, meles>>
  BY DEF RefermerRenoncement
<1>3. /\ renoncements' \in [Lots -> {"repos", "expirer", "appliquer", "refermer"}]
      /\ renoncements'[l] = "repos" /\ \A m \in Lots \ {l} : renoncements'[m] = renoncements[m]
  BY <1>2, EtapeBien
<1>4. /\ reglementsLot' \in [Lots -> [Cotisants -> JL!Statuts \cup {"AUCUN"}]]
      /\ \A m \in Lots \ {l} : reglementsLot'[m] = reglementsLot[m]
      /\ \A p \in Cotisants : reglementsLot'[l][p] =
           IF reglementsLot[l][p] \in quels THEN "ECHOUE" ELSE reglementsLot[l][p]
      /\ Rangs(l)' = Rangs(l)
      /\ echoues' = echoues \cup {l}
  BY <1>1, FermeBien
<1>5. Valeurs'
  BY <1>2, <1>3, <1>4 DEF TypePartage, Valeurs
<1>6. Situe(l)'
  BY <1>2 DEF TypePartage, Situe
<1>7. Visees(l)' = Visees(l)
  BY <1>2 DEF Visees
<1>8. ReserveDe(l)'
  BY <1>2, <1>4, <1>7 DEF ReserveDe
<1>9. ASSUME l \notin meles' PROVE Carnet(l)'
  <2>1. Carnet(l)
    BY <1>2, <1>9
  <2>2. lots[l].pc = "fini" /\ journalPartage[l].statut # "COMPLETE" /\ \A s \in suites : s.lot # l
    BY <1>2, <2>1 DEF Carnet
  <2>3. Visees(l) \subseteq Cotisants
    <3>1. lots[l].pour \in Demandes
      BY <2>2 DEF TypePartage, Situe
    <3>. QED BY <3>1, ClesBien DEF Visees
  <2>4. \A p, q \in Visees(l) :
          reglementsLot[l][p] = reglementsLot[l][q] /\ reglementsLot[l][p] # "COMPLETE"
    BY <2>1, <2>2 DEF Carnet, SousFiles
  <2>5. \A p, q \in Visees(l) :
          reglementsLot'[l][p] = reglementsLot'[l][q] /\ reglementsLot'[l][p] # "COMPLETE"
    BY <1>4, <2>3, <2>4
  <2>. QED BY <1>2, <1>3, <1>7, <2>2, <2>5 DEF Carnet, SousFiles
<1>. QED BY <1>2, <1>3, <1>4, <1>5, <1>6, <1>8, <1>9, Reunir

LEMMA CorpsAilleurs ==
  ASSUME Corps, UNCHANGED <<journalPartage, reglementsLot, soldes, files, lots, fapshiLot, suites,
                            renoncements, echoues, meles>>, appelOuvert' \in BOOLEAN
  PROVE  Corps'
<1>. USE DEF Corps
<1>1. TypePartage'
  BY DEF TypePartage, Situe
<1>2. \A l \in Lots : ReserveDe(l)'
  <2>1. \A l \in Lots : Rangs(l)' = Rangs(l) /\ Visees(l)' = Visees(l)
    BY DEF Rangs, Visees
  <2>. QED BY <2>1 DEF ReserveDe
<1>3. \A l \in Lots : Carnet(l)' = Carnet(l)
  BY DEF Carnet, Rangs, Visees
<1>. QED BY <1>1, <1>2, <1>3

------------------------------------------------------------------------------
(* The queues.                                                             *)

TousVerrous == \A l \in Lots : Verrous(l)

\* Whoever joins the end of a queue leaves the others where they are.
LEMMA AjoutBien ==
  ASSUME TypePartage, NEW k \in Cotisants, NEW l \in Lots,
         files' = [files EXCEPT ![k] = Append(@, l)]
  PROVE  /\ Attend(l, k)'
         /\ \A m \in Lots, p \in Cotisants : /\ Tient(m, p) => Tient(m, p)'
                                             /\ Attend(m, p) => Attend(m, p)'
<1>1. PICK f \in Seq(Lots) : f = files[k]
  BY DEF TypePartage
<1>2. PICK g : g = Append(f, l)
  OBVIOUS
<1>3. files'[k] = g /\ \A p \in Cotisants \ {k} : files'[p] = files[p]
  BY <1>1, <1>2 DEF TypePartage
<1>4. PICK n \in Nat : n = Len(f) /\ DOMAIN f = 1 .. n
  BY <1>1
<1>5. /\ g \in Seq(Lots) /\ Len(g) = n + 1 /\ g[n + 1] = l /\ \A i \in 1 .. n : g[i] = f[i]
  BY <1>1, <1>2, <1>4
<1>6. DOMAIN g = 1 .. n + 1
  BY <1>5
<1>7. Attend(l, k)'
  <2>1. n + 1 \in 1 .. n + 1
    BY <1>4
  <2>. QED BY <1>3, <1>5, <1>6, <2>1 DEF Attend
<1>8. ASSUME NEW m \in Lots, NEW p \in Cotisants
      PROVE  (Tient(m, p) => Tient(m, p)') /\ (Attend(m, p) => Attend(m, p)')
  <2>1. CASE p # k
    BY <1>3, <2>1 DEF Tient, Attend
  <2>2. CASE p = k
    <3>1. ASSUME Tient(m, p) PROVE Tient(m, p)'
      <4>1. f # << >> /\ Head(f) = m
        BY <1>1, <2>2, <3>1 DEF Tient
      <4>2. 1 \in 1 .. n /\ f[1] = m
        BY <1>1, <1>4, <4>1
      <4>3. g[1] = m /\ g # << >>
        BY <1>5, <4>2
      <4>4. Head(g) = m
        BY <1>5, <4>3
      <4>. QED BY <1>3, <2>2, <4>3, <4>4 DEF Tient
    <3>2. ASSUME Attend(m, p) PROVE Attend(m, p)'
      <4>1. PICK i \in 1 .. n : f[i] = m
        BY <1>1, <1>4, <2>2, <3>2 DEF Attend
      <4>2. i \in 1 .. n + 1 /\ g[i] = m
        BY <1>4, <1>5, <4>1
      <4>. QED BY <1>3, <1>6, <2>2, <4>2 DEF Attend
    <3>. QED BY <3>1, <3>2
  <2>. QED BY <2>1, <2>2
<1>. QED BY <1>7, <1>8

\* Steps that move no queue and enter none.
LEMMA VerrousAilleurs ==
  ASSUME TousVerrous, files' = files,
         \A m \in Lots : \/ lots'[m] = lots[m]
                         \/ lots'[m].pc \notin SousFiles \cup {"verrous"}
                         \/ /\ lots[m].pc \in SousFiles /\ lots'[m].pc \in SousFiles
                            /\ lots'[m].pour = lots[m].pour
  PROVE  TousVerrous'
<1>1. ASSUME NEW m \in Lots PROVE Verrous(m)'
  <2>1. Verrous(m)
    BY DEF TousVerrous
  <2>2. CASE lots'[m] = lots[m]
    BY <2>1, <2>2 DEF Verrous, Tient, Attend, Visees
  <2>3. CASE lots'[m].pc \notin SousFiles \cup {"verrous"}
    BY <2>3 DEF Verrous
  <2>4. CASE /\ lots[m].pc \in SousFiles /\ lots'[m].pc \in SousFiles
             /\ lots'[m].pour = lots[m].pour
    <3>1. lots'[m].pc # "verrous"
      BY <2>4 DEF SousFiles
    <3>. QED BY <2>1, <2>4, <3>1 DEF Verrous, Tient, Visees
  <2>. QED BY <2>2, <2>3, <2>4
<1>. QED BY <1>1 DEF TousVerrous

\* The keys of a request that stands somewhere.
LEMMA ClesDe ==
  ASSUME TypePartage, NEW l \in Lots, lots[l].pour \in Demandes
  PROVE  /\ \A i \in 1 .. Len(lots[l].pour) : Cles(lots[l].pour)[i] \in Visees(l)
         /\ \A p \in Visees(l) : \E i \in 1 .. Len(lots[l].pour) : Cles(lots[l].pour)[i] = p
         /\ Visees(l) \subseteq Cotisants
  BY ClesBien DEF Visees

\* Steps under which whoever holds or waits goes on holding and waiting.
LEMMA VerrousGardes ==
  ASSUME TypePartage, TousVerrous, NEW l \in Lots, \A m \in Lots \ {l} : lots'[m] = lots[m],
         \A m \in Lots \ {l}, p \in Cotisants : /\ Tient(m, p) => Tient(m, p)'
                                                /\ Attend(m, p) => Attend(m, p)',
         Verrous(l)'
  PROVE  TousVerrous'
<1>1. ASSUME NEW m \in Lots \ {l} PROVE Verrous(m)'
  <2>1. Verrous(m) /\ Situe(m)
    BY DEF TousVerrous, TypePartage
  <2>2. ASSUME lots[m].pc = "verrous"
        PROVE  /\ \A i \in 1 .. lots[m].rang - 1 : Tient(m, Cles(lots[m].pour)[i])'
               /\ Attend(m, Cles(lots[m].pour)[lots[m].rang])'
    <3>1. lots[m].pour \in Demandes /\ lots[m].rang \in 1 .. Len(lots[m].pour)
      BY <2>1, <2>2 DEF Situe
    <3>2. PICK n \in Nat : n = Len(lots[m].pour)
      BY <3>1, ClesBien
    <3>3. PICK r \in 1 .. n : r = lots[m].rang
      BY <3>1, <3>2
    <3>4. PICK c : c = Cles(lots[m].pour)
      OBVIOUS
    <3>5. \A i \in 1 .. n : c[i] \in Cotisants
      BY <3>1, <3>2, <3>4, ClesDe
    <3>6. (\A i \in 1 .. r - 1 : Tient(m, c[i])) /\ Attend(m, c[r])
      BY <2>1, <2>2, <3>3, <3>4 DEF Verrous
    <3>7. 1 .. r - 1 \subseteq 1 .. n
      BY <3>3
    <3>8. (\A i \in 1 .. r - 1 : Tient(m, c[i])') /\ Attend(m, c[r])'
      BY <1>1, <3>3, <3>5, <3>6, <3>7
    <3>. QED BY <3>3, <3>4, <3>8
  <2>3. ASSUME lots[m].pc \in SousFiles PROVE \A p \in Visees(m) : Tient(m, p)'
    <3>1. lots[m].pour \in Demandes
      BY <2>1, <2>3 DEF Situe, SousFiles
    <3>2. Visees(m) \subseteq Cotisants
      BY <3>1, ClesDe
    <3>. QED BY <1>1, <2>1, <2>3, <3>2 DEF Verrous
  <2>4. lots'[m] = lots[m] /\ Visees(m)' = Visees(m)
    BY <1>1 DEF Visees
  <2>5. CASE lots[m].pc = "verrous"
    <3>1. lots'[m].pc \notin SousFiles
      BY <2>4, <2>5 DEF SousFiles
    <3>2. PICK c, r : c = Cles(lots[m].pour) /\ r = lots[m].rang
      OBVIOUS
    <3>3. (\A i \in 1 .. r - 1 : Tient(m, c[i])') /\ Attend(m, c[r])'
      BY <2>2, <2>5, <3>2 DEF Tient, Attend
    <3>4. Cles(lots'[m].pour) = c /\ lots'[m].rang = r
      BY <2>4, <3>2
    <3>. QED BY <3>1, <3>3, <3>4 DEF Verrous, Tient, Attend
  <2>6. CASE lots[m].pc \in SousFiles
    <3>1. lots'[m].pc # "verrous"
      BY <2>4, <2>6 DEF SousFiles
    <3>2. \A p \in Visees(m)' : Tient(m, p)'
      BY <2>3, <2>4, <2>6
    <3>. QED BY <3>1, <3>2 DEF Verrous
  <2>7. CASE lots[m].pc \notin SousFiles \cup {"verrous"}
    BY <2>4, <2>7 DEF Verrous
  <2>. QED BY <2>5, <2>6, <2>7
<1>. QED BY <1>1 DEF TousVerrous

LEMMA DemanderFile ==
  ASSUME TypePartage, TousVerrous, NEW l \in Lots, Demander(l)
  PROVE  TousVerrous'
<1>1. PICK d \in Demandes :
        /\ lots' = [lots EXCEPT ![l] = [pc |-> "verrous", pour |-> d, rang |-> 1]]
        /\ files' = [files EXCEPT ![Cles(d)[1]] = Append(@, l)]
  BY DEF Demander
<1>2. PICK k \in Cotisants : k = Cles(d)[1]
  <2>1. Len(d) \in Nat \ {0} /\ Cles(d) \in [1 .. Len(d) -> ToSet(d)] /\ ToSet(d) \subseteq Cotisants
    BY ClesBien
  <2>. QED BY <2>1
<1>3. lots'[l] = [pc |-> "verrous", pour |-> d, rang |-> 1] /\ \A m \in Lots \ {l} : lots'[m] = lots[m]
  BY <1>1 DEF TypePartage
<1>4. files' = [files EXCEPT ![k] = Append(@, l)]
  BY <1>1, <1>2
<1>5. /\ Attend(l, k)'
      /\ \A m \in Lots, p \in Cotisants : /\ Tient(m, p) => Tient(m, p)'
                                          /\ Attend(m, p) => Attend(m, p)'
  BY <1>4, AjoutBien
<1>6. Verrous(l)'
  <2>1. lots'[l].pc = "verrous" /\ lots'[l].pour = d /\ lots'[l].rang = 1
    BY <1>3
  <2>2. 1 .. (1 - 1) = {}
    OBVIOUS
  <2>3. Cles(lots'[l].pour)[lots'[l].rang] = k
    BY <1>2, <2>1
  <2>. QED BY <1>5, <2>1, <2>2, <2>3 DEF Verrous, Attend, SousFiles
<1>. QED BY <1>3, <1>5, <1>6, VerrousGardes

LEMMA ObtenirFile ==
  ASSUME TypePartage, TousVerrous, NEW l \in Lots, Obtenir(l)
  PROVE  TousVerrous'
<1>1. /\ lots[l].pc = "verrous" /\ lots[l].pour \in Demandes
      /\ lots[l].rang \in 1 .. Len(lots[l].pour)
      /\ Head(files[Cles(lots[l].pour)[lots[l].rang]]) = l
      /\ \A m \in Lots \ {l} : lots'[m] = lots[m]
      /\ lots'[l].pour = lots[l].pour
      /\ \/ /\ lots'[l].pc = "verrous" /\ lots'[l].rang = lots[l].rang + 1
            /\ lots'[l].rang \in 1 .. Len(lots[l].pour)
            /\ files' = [files EXCEPT ![Cles(lots[l].pour)[lots[l].rang + 1]] = Append(@, l)]
         \/ /\ lots'[l].pc = "lire" /\ lots'[l].rang = 1
            /\ lots[l].rang = Len(lots[l].pour) /\ files' = files
  BY ObtenirEcrit
<1>2. PICK c, r, n : c = Cles(lots[l].pour) /\ r = lots[l].rang /\ n = Len(lots[l].pour)
  OBVIOUS
<1>3. n \in Nat \ {0} /\ r \in 1 .. n
  BY <1>1, <1>2, ClesBien
<1>4. /\ \A i \in 1 .. n : c[i] \in Cotisants
      /\ \A p \in Visees(l) : \E i \in 1 .. n : c[i] = p
  BY <1>1, <1>2, ClesDe
<1>5. (\A i \in 1 .. r - 1 : Tient(l, c[i])) /\ Attend(l, c[r])
  BY <1>1, <1>2 DEF TousVerrous, Verrous
<1>6. Tient(l, c[r])
  <2>1. PICK f \in Seq(Lots) : f = files[c[r]]
    BY <1>3, <1>4 DEF TypePartage
  <2>2. f # << >>
    BY <1>5, <2>1 DEF Attend
  <2>. QED BY <1>1, <1>2, <2>1, <2>2 DEF Tient
<1>7. \A i \in 1 .. r : Tient(l, c[i])
  BY <1>3, <1>5, <1>6
<1>8. CASE /\ lots'[l].pc = "verrous" /\ lots'[l].rang = r + 1 /\ r + 1 \in 1 .. n
           /\ files' = [files EXCEPT ![c[r + 1]] = Append(@, l)]
  <2>1. PICK k \in Cotisants : k = c[r + 1]
    BY <1>4, <1>8
  <2>2. files' = [files EXCEPT ![k] = Append(@, l)]
    BY <1>8, <2>1
  <2>3. /\ Attend(l, k)'
        /\ \A m \in Lots, p \in Cotisants : /\ Tient(m, p) => Tient(m, p)'
                                            /\ Attend(m, p) => Attend(m, p)'
    BY <2>2, AjoutBien
  <2>4. \A i \in 1 .. r : Tient(l, c[i])'
    <3>1. 1 .. r \subseteq 1 .. n
      BY <1>3
    <3>. QED BY <1>4, <1>7, <2>3, <3>1
  <2>5. Verrous(l)'
    <3>1. Cles(lots'[l].pour) = c /\ (lots'[l].rang) - 1 = r /\ c[lots'[l].rang] = k
      BY <1>1, <1>2, <1>3, <1>8, <2>1
    <3>. QED BY <1>8, <2>3, <2>4, <3>1 DEF Verrous, Tient, Attend, SousFiles
  <2>. QED BY <1>1, <2>3, <2>5, VerrousGardes
<1>9. CASE lots'[l].pc = "lire" /\ r = n /\ files' = files
  <2>1. \A m \in Lots \ {l}, p \in Cotisants : /\ Tient(m, p) => Tient(m, p)'
                                               /\ Attend(m, p) => Attend(m, p)'
    BY <1>9 DEF Tient, Attend
  <2>2. \A p \in Visees(l) : Tient(l, p)
    BY <1>4, <1>7, <1>9
  <2>3. Verrous(l)'
    BY <1>1, <1>9, <2>2 DEF Verrous, Tient, Visees
  <2>. QED BY <1>1, <2>1, <2>3, VerrousGardes
<1>. QED BY <1>1, <1>2, <1>8, <1>9

\* A request gives its queues back.
LEMMA RendreFile ==
  ASSUME TypePartage, TousVerrous, NEW l \in Lots, files' = Rendues(l),
         \A m \in Lots \ {l} : lots'[m] = lots[m], lots'[l].pc \notin SousFiles \cup {"verrous"}
  PROVE  TousVerrous'
<1>1. \A m \in Lots \ {l}, p \in Cotisants : /\ Tient(m, p) => Tient(m, p)'
                                             /\ Attend(m, p) => Attend(m, p)'
  <2>1. \A m \in Lots \ {l}, p \in Cotisants :
          /\ files[p] # << >> /\ Head(files[p]) = m =>
               Rendues(l)[p] # << >> /\ Head(Rendues(l)[p]) = m
          /\ (\E k \in DOMAIN files[p] : files[p][k] = m) =>
               \E k \in DOMAIN Rendues(l)[p] : Rendues(l)[p][k] = m
    BY RenduesBien
  <2>2. PICK g : g = Rendues(l)
    OBVIOUS
  <2>3. files' = g
    BY <2>2
  <2>. QED BY <2>1, <2>2, <2>3 DEF Tient, Attend
<1>2. Verrous(l)'
  BY DEF Verrous
<1>. QED BY <1>1, <1>2, VerrousGardes

LEMMA LireFile ==
  ASSUME TypePartage, TousVerrous, NEW l \in Lots, LireLigne(l)
  PROVE  TousVerrous'
<1>1. PICK pc \in {"ecrire", "defaire"} : Allerlot(l, pc) /\ lots[l].pc = "lire" /\ files' = files
  BY DEF LireLigne
<1>2. /\ lots'[l].pc = pc /\ lots'[l].pour = lots[l].pour
      /\ \A m \in Lots \ {l} : lots'[m] = lots[m]
  <2>1. pc \in EtapesLot
    BY DEF EtapesLot
  <2>. QED BY <1>1, <2>1, LotEcrit
<1>3. lots[l].pc \in SousFiles /\ lots'[l].pc \in SousFiles
  BY <1>1, <1>2 DEF SousFiles
<1>4. files' = files
  BY <1>1
<1>. QED BY <1>2, <1>3, <1>4, VerrousAilleurs

LEMMA EcrireFile ==
  ASSUME TypePartage, TousVerrous, NEW l \in Lots, EcrireLigne(l)
  PROVE  TousVerrous'
<1>1. /\ lots[l].pc = "ecrire"
      /\ \A m \in Lots \ {l} : reglementsLot'[m] = reglementsLot[m] /\ lots'[m] = lots[m]
      /\ lots'[l].pour = lots[l].pour
      /\ \/ lots'[l].pc = "lire" /\ files' = files
         \/ lots'[l].pc = "ouvrir" /\ files' = Rendues(l)
  BY EcrireEcrit
<1>2. \A m \in Lots \ {l} : lots'[m] = lots[m]
  BY <1>1
<1>3. CASE lots'[l].pc = "lire" /\ files' = files
  <2>1. lots[l].pc \in SousFiles /\ lots'[l].pc \in SousFiles
    BY <1>1, <1>3 DEF SousFiles
  <2>. QED BY <1>1, <1>2, <1>3, <2>1, VerrousAilleurs
<1>4. CASE lots'[l].pc = "ouvrir" /\ files' = Rendues(l)
  <2>1. lots'[l].pc \notin SousFiles \cup {"verrous"}
    BY <1>4 DEF SousFiles
  <2>. QED BY <1>2, <1>4, <2>1, RendreFile
<1>. QED BY <1>1, <1>3, <1>4

LEMMA DefaireFile ==
  ASSUME TypePartage, TousVerrous, NEW l \in Lots, DefaireLot(l)
  PROVE  TousVerrous'
<1>1. Allerlot(l, "fini") /\ files' = Rendues(l) /\ "fini" \in EtapesLot
  BY DEF DefaireLot, EtapesLot
<1>2. lots'[l].pc = "fini" /\ \A m \in Lots \ {l} : lots'[m] = lots[m]
  BY <1>1, LotEcrit
<1>3. lots'[l].pc \notin SousFiles \cup {"verrous"}
  BY <1>2 DEF SousFiles
<1>. QED BY <1>1, <1>2, <1>3, RendreFile

------------------------------------------------------------------------------
(* What the lots add up to.                                                *)

\* What changes neither what is credited nor what is engaged.
Pareil ==
  /\ meles \subseteq meles' /\ echoues \subseteq echoues'
  /\ \A l \in Lots : /\ fapshiLot[l] = "PAYE" => fapshiLot'[l] = "PAYE"
                     /\ Visees(l) \subseteq Visees(l)'
                     /\ lots'[l].pc = "ecrire" => lots'[l] = lots[l]

LEMMA Retours ==
  ASSUME TypePartage, NEW p, SansRetour(p)', echoues \subseteq echoues',
         \A l \in Lots : /\ fapshiLot[l] = "PAYE" => fapshiLot'[l] = "PAYE"
                         /\ Visees(l) \subseteq Visees(l)'
  PROVE  SansRetour(p)
<1>1. echoues \subseteq Lots
  BY DEF TypePartage
<1>. QED BY <1>1 DEF SansRetour

\* The lots that paid for a person, or are engaged for one, are finite in number.
LEMMA Nombres ==
  ASSUME NEW S, S \subseteq Lots
  PROVE  IsFiniteSet(S) /\ Cardinality(S) \in Nat
<1>1. IsFiniteSet(Lots) /\ S \in SUBSET Lots
  BY PartageAssumption
<1>2. IsFiniteSet(S)
  BY <1>1, FS_Subset
<1>. QED BY <1>2, FS_CardinalityType

LEMMA ComptesSuivent ==
  ASSUME TypePartage, Comptes, Pareil, soldes' = soldes,
         meles' = {} => \A l \in Lots, p \in Cotisants :
           /\ reglementsLot'[l][p] = "COMPLETE" <=> reglementsLot[l][p] = "COMPLETE"
           /\ reglementsLot'[l][p] = "EN_ATTENTE" => reglementsLot[l][p] \in {"COMPLETE", "EN_ATTENTE"}
  PROVE  Comptes'
<1>. SUFFICES ASSUME meles' = {}, NEW p \in Cotisants
              PROVE  /\ soldes'[p] = Cardinality(Payes(p))'
                     /\ SansRetour(p)' =>
                          /\ Cardinality(Engages(p))' <= DuPartage
                          /\ \A l \in Lots : lots'[l].pc = "ecrire" /\ lots'[l].pour[lots'[l].rang] = p =>
                               Cardinality(Engages(p))' < DuPartage
  BY DEF Comptes
<1>1. meles = {}
  BY DEF Pareil
<1>2. Payes(p)' = Payes(p)
  BY DEF Payes
<1>3. Engages(p)' \subseteq Engages(p) /\ Engages(p) \subseteq Lots
  BY DEF Engages
<1>4. PICK a, b \in Nat : a = Cardinality(Engages(p)) /\ b = Cardinality(Engages(p))' /\ b <= a
  <2>1. IsFiniteSet(Engages(p)) /\ Cardinality(Engages(p)) \in Nat
    BY <1>3, Nombres
  <2>2. Engages(p)' \subseteq Lots
    BY <1>3
  <2>3. Cardinality(Engages(p)') \in Nat
    BY <2>2, Nombres
  <2>4. Cardinality(Engages(p)') <= Cardinality(Engages(p))
    BY <1>3, <2>1, FS_Subset
  <2>. QED BY <2>1, <2>3, <2>4
<1>5. SansRetour(p)' => SansRetour(p)
  BY Retours DEF Pareil
<1>6. DuPartage \in Nat
  BY PartageAssumption
<1>7. soldes'[p] = Cardinality(Payes(p))'
  BY <1>1, <1>2 DEF Comptes
<1>8. ASSUME SansRetour(p)' PROVE b <= DuPartage
  BY <1>1, <1>4, <1>5, <1>6, <1>8 DEF Comptes
<1>9. ASSUME SansRetour(p)', NEW l \in Lots, lots'[l].pc = "ecrire", lots'[l].pour[lots'[l].rang] = p
      PROVE  b < DuPartage
  <2>1. lots'[l] = lots[l]
    BY <1>9 DEF Pareil
  <2>2. lots[l].pc = "ecrire" /\ lots[l].pour[lots[l].rang] = p
    BY <1>9, <2>1
  <2>3. a < DuPartage
    BY <1>1, <1>4, <1>5, <1>9, <2>2 DEF Comptes
  <2>. QED BY <1>4, <1>6, <2>3
<1>. QED BY <1>4, <1>7, <1>8, <1>9

LEMMA ComptesPareils ==
  ASSUME TypePartage, Comptes, Pareil, UNCHANGED <<reglementsLot, soldes>>
  PROVE  Comptes'
  BY ComptesSuivent

\* Steps of a lot that write no payment.
LEMMA PareilDe ==
  ASSUME TypePartage, NEW l \in Lots, meles \subseteq meles', echoues \subseteq echoues',
         \A m \in Lots \ {l} : lots'[m] = lots[m] /\ fapshiLot'[m] = fapshiLot[m],
         fapshiLot[l] = "PAYE" => fapshiLot'[l] = "PAYE",
         lots'[l].pour = lots[l].pour,
         lots'[l] = lots[l] \/ lots'[l].pc # "ecrire"
  PROVE  Pareil
<1>1. \A m \in Lots : Visees(m)' = Visees(m)
  BY DEF Visees
<1>. QED BY <1>1 DEF Pareil

LEMMA DemanderCompte ==
  ASSUME Corps, Comptes, NEW l \in Lots, Demander(l)
  PROVE  Comptes'
<1>1. PICK d \in Demandes :
        /\ lots[l] = Repos
        /\ lots' = [lots EXCEPT ![l] = [pc |-> "verrous", pour |-> d, rang |-> 1]]
        /\ UNCHANGED <<reglementsLot, soldes, fapshiLot, echoues, meles>>
  BY DEF Demander
<1>2. lots'[l] = [pc |-> "verrous", pour |-> d, rang |-> 1] /\ \A m \in Lots \ {l} : lots'[m] = lots[m]
  BY <1>1 DEF Corps, TypePartage
<1>3. lots'[l].pc # "ecrire"
  BY <1>2
<1>4. Visees(l) = {}
  BY <1>1 DEF Repos, Visees, ToSet
<1>5. \A m \in Lots \ {l} : Visees(m)' = Visees(m)
  BY <1>2 DEF Visees
<1>6. Pareil
  BY <1>1, <1>2, <1>3, <1>4, <1>5 DEF Pareil
<1>. QED BY <1>1, <1>6, ComptesPareils DEF Corps

LEMMA ObtenirCompte ==
  ASSUME Corps, Comptes, NEW l \in Lots, Obtenir(l)
  PROVE  Comptes'
<1>1. /\ lots'[l].pc # "ecrire" /\ lots'[l].pour = lots[l].pour
      /\ \A m \in Lots \ {l} : lots'[m] = lots[m]
      /\ UNCHANGED <<reglementsLot, soldes, fapshiLot, echoues, meles>>
  BY ObtenirEcrit DEF Corps
<1>2. Pareil
  BY <1>1, PareilDe DEF Corps
<1>. QED BY <1>1, <1>2, ComptesPareils DEF Corps

\* Steps of the request once its payments are written.
LEMMA LotCompte ==
  ASSUME TypePartage, Comptes, NEW l \in Lots, NEW pc \in EtapesLot, pc # "ecrire", Allerlot(l, pc),
         UNCHANGED <<reglementsLot, soldes, echoues>>, meles \subseteq meles',
         \A m \in Lots \ {l} : fapshiLot'[m] = fapshiLot[m],
         fapshiLot[l] = "PAYE" => fapshiLot'[l] = "PAYE"
  PROVE  Comptes'
<1>1. lots'[l].pc = pc /\ lots'[l].pour = lots[l].pour /\ \A m \in Lots \ {l} : lots'[m] = lots[m]
  BY LotEcrit
<1>2. Pareil
  BY <1>1, PareilDe
<1>. QED BY <1>2, ComptesPareils

LEMMA AutresComptes ==
  ASSUME Corps, Comptes, NEW l \in Lots,
         \/ OuvrirLot(l) \/ InitierLot(l) \/ ConclureLot(l) \/ AppliquerLot(l) \/ AbandonnerLot(l)
  PROVE  Comptes'
<1>1. {"initier", "appele", "fini", "appliquer", "abandonner", "refermer"} \subseteq EtapesLot \ {"ecrire"}
  BY DEF EtapesLot
<1>2. PICK pc \in {"initier", "appele", "fini", "appliquer", "abandonner", "refermer"} : Allerlot(l, pc)
  BY DEF OuvrirLot, InitierLot, ConclureLot, AppliquerLot, AbandonnerLot
<1>3. UNCHANGED <<reglementsLot, soldes, echoues>> /\ meles \subseteq meles'
  BY DEF OuvrirLot, InitierLot, ConclureLot, AppliquerLot, AbandonnerLot, Meler
<1>4. /\ \A m \in Lots \ {l} : fapshiLot'[m] = fapshiLot[m]
      /\ fapshiLot[l] = "PAYE" => fapshiLot'[l] = "PAYE"
  <2>1. CASE InitierLot(l)
    <3>1. PICK etat : fapshiLot' = [fapshiLot EXCEPT ![l] = etat]
      BY <2>1 DEF InitierLot
    <3>2. fapshiLot[l] = "INCONNU"
      BY <2>1 DEF InitierLot, Corps, ReserveDe
    <3>. QED BY <3>1, <3>2 DEF Corps, TypePartage
  <2>2. CASE ~InitierLot(l)
    BY <2>2 DEF OuvrirLot, ConclureLot, AppliquerLot, AbandonnerLot
  <2>. QED BY <2>1, <2>2
<1>. QED BY <1>1, <1>2, <1>3, <1>4, LotCompte DEF Corps

LEMMA MondeCompte ==
  ASSUME Corps, Comptes, NEW l \in Lots,
         \/ PayerLot(l) \/ (\E i \in {"COMPLETE", "ECHOUE"} : RecevoirIssueLot(l, i))
         \/ LireRenoncement(l) \/ ExpirerLot(l) \/ AppliquerRenoncement(l)
  PROVE  Comptes'
<1>1. UNCHANGED <<reglementsLot, soldes, echoues, lots>> /\ meles \subseteq meles'
  BY DEF PayerLot, RecevoirIssueLot, LireRenoncement, ExpirerLot, AppliquerRenoncement, Meler
<1>2. /\ \A m \in Lots \ {l} : fapshiLot'[m] = fapshiLot[m]
      /\ fapshiLot[l] = "PAYE" => fapshiLot'[l] = "PAYE"
  <2>1. CASE PayerLot(l)
    BY <2>1 DEF PayerLot, Corps, TypePartage
  <2>2. CASE ExpirerLot(l)
    BY <2>2 DEF ExpirerLot, Corps, TypePartage
  <2>3. CASE \/ (\E i \in {"COMPLETE", "ECHOUE"} : RecevoirIssueLot(l, i))
             \/ LireRenoncement(l) \/ AppliquerRenoncement(l)
    BY <2>3 DEF RecevoirIssueLot, LireRenoncement, AppliquerRenoncement
  <2>. QED BY <2>1, <2>2, <2>3
<1>3. Pareil
  BY <1>1, <1>2, PareilDe DEF Corps
<1>. QED BY <1>1, <1>3, ComptesPareils DEF Corps

\* Closing the payments of a lot none of which is credited.
LEMMA FermerCompte ==
  ASSUME Corps, Comptes, Pareil, soldes' = soldes, NEW l \in Lots,
         \A m \in Lots \ {l} : reglementsLot'[m] = reglementsLot[m],
         \A p \in Cotisants : reglementsLot'[l][p] \in {reglementsLot[l][p], "ECHOUE", "AUCUN"},
         meles' = {} => \A p \in Cotisants : reglementsLot[l][p] # "COMPLETE"
  PROVE  Comptes'
<1>1. ASSUME meles' = {}, NEW m \in Lots, NEW p \in Cotisants
      PROVE  /\ reglementsLot'[m][p] = "COMPLETE" <=> reglementsLot[m][p] = "COMPLETE"
             /\ reglementsLot'[m][p] = "EN_ATTENTE" => reglementsLot[m][p] \in {"COMPLETE", "EN_ATTENTE"}
  <2>1. CASE m = l
    BY <1>1, <2>1
  <2>2. CASE m # l
    BY <1>1, <2>2
  <2>. QED BY <2>1, <2>2
<1>. QED BY <1>1, ComptesSuivent DEF Corps

\* Of a lot with no issue on its way that the journal does not say paid, no
\* payment is credited.
LEMMA RienDePaye ==
  ASSUME Corps, NEW l \in Lots \ meles, \A s \in suites : s.lot # l, lots[l].pc \notin SousFiles,
         journalPartage[l].statut # "COMPLETE"
  PROVE  \A p \in Cotisants : reglementsLot[l][p] # "COMPLETE"
<1>1. Carnet(l) /\ ReserveDe(l)
  BY DEF Corps
<1>2. \A p \in Visees(l) : reglementsLot[l][p] # "COMPLETE"
  BY <1>1 DEF Carnet
<1>3. Rangs(l) \subseteq Visees(l)
  <2>1. lots[l].pc \in EtapesLot
    BY DEF Corps, TypePartage, LotType
  <2>. QED BY <1>1, <2>1 DEF ReserveDe, SousFiles, EtapesLot
<1>4. ASSUME NEW p \in Cotisants, reglementsLot[l][p] = "COMPLETE" PROVE FALSE
  <2>1. p \in Rangs(l)
    BY <1>4 DEF Rangs
  <2>. QED BY <1>2, <1>3, <1>4, <2>1
<1>. QED BY <1>4

LEMMA RefermerCompte ==
  ASSUME Corps, Comptes, NEW l \in Lots, RefermerLot(l)
  PROVE  Comptes'
<1>1. /\ lots[l].pc = "refermer" /\ Refermes(l, JL!Statuts) /\ Allerlot(l, "fini")
      /\ Meler(l, EnMouvement(l) \/ journalPartage[l].statut = "COMPLETE")
      /\ UNCHANGED <<journalPartage, soldes, appelOuvert, files, fapshiLot, suites, renoncements>>
  BY DEF RefermerLot
<1>2. lots'[l].pc = "fini" /\ lots'[l].pour = lots[l].pour /\ \A m \in Lots \ {l} : lots'[m] = lots[m]
  <2>1. "fini" \in EtapesLot
    BY DEF EtapesLot
  <2>. QED BY <1>1, <2>1, LotEcrit DEF Corps
<1>3. /\ \A m \in Lots \ {l} : reglementsLot'[m] = reglementsLot[m]
      /\ \A p \in Cotisants : reglementsLot'[l][p] =
           IF reglementsLot[l][p] \in JL!Statuts THEN "ECHOUE" ELSE reglementsLot[l][p]
      /\ echoues' = echoues \cup {l}
  BY <1>1, FermeBien DEF Corps
<1>4. /\ meles \subseteq meles'
      /\ meles' = {} => l \notin meles /\ ~EnMouvement(l) /\ journalPartage[l].statut # "COMPLETE"
  BY <1>1 DEF Meler
<1>5. Pareil
  <2>1. echoues \subseteq echoues' /\ lots'[l].pc # "ecrire"
    BY <1>2, <1>3
  <2>. QED BY <1>1, <1>2, <1>4, <2>1, PareilDe DEF Corps
<1>6. ASSUME meles' = {} PROVE \A p \in Cotisants : reglementsLot[l][p] # "COMPLETE"
  <2>1. /\ l \in Lots \ meles /\ \A s \in suites : s.lot # l
        /\ lots[l].pc \notin SousFiles /\ journalPartage[l].statut # "COMPLETE"
    BY <1>1, <1>4, <1>6 DEF EnMouvement, SousFiles
  <2>. QED BY <2>1, RienDePaye
<1>7. \A p \in Cotisants : reglementsLot'[l][p] \in {reglementsLot[l][p], "ECHOUE", "AUCUN"}
  BY <1>3
<1>8. soldes' = soldes
  BY <1>1
<1>. QED BY <1>3, <1>5, <1>6, <1>7, <1>8, FermerCompte

LEMMA RefermerRenoncementCompte ==
  ASSUME Corps, Comptes, NEW l \in Lots, RefermerRenoncement(l)
  PROVE  Comptes'
<1>1. PICK quels \in SUBSET JL!Statuts : Refermes(l, quels)
  BY DEF RefermerRenoncement, JL!Statuts
<1>2. /\ renoncements[l] = "refermer"
      /\ UNCHANGED <<journalPartage, soldes, lots, fapshiLot, suites, meles>>
  BY DEF RefermerRenoncement
<1>3. /\ \A m \in Lots \ {l} : reglementsLot'[m] = reglementsLot[m]
      /\ \A p \in Cotisants : reglementsLot'[l][p] =
           IF reglementsLot[l][p] \in quels THEN "ECHOUE" ELSE reglementsLot[l][p]
      /\ echoues' = echoues \cup {l}
  BY <1>1, FermeBien DEF Corps
<1>4. Pareil
  BY <1>2, <1>3, PareilDe DEF Corps
<1>5. ASSUME meles' = {} PROVE \A p \in Cotisants : reglementsLot[l][p] # "COMPLETE"
  <2>1. Carnet(l) /\ l \in Lots \ meles
    BY <1>2, <1>5 DEF Corps
  <2>2. /\ \A s \in suites : s.lot # l
        /\ lots[l].pc \notin SousFiles /\ journalPartage[l].statut # "COMPLETE"
    BY <1>2, <2>1 DEF Carnet, SousFiles
  <2>. QED BY <2>1, <2>2, RienDePaye
<1>6. \A p \in Cotisants : reglementsLot'[l][p] \in {reglementsLot[l][p], "ECHOUE", "AUCUN"}
  BY <1>3
<1>7. soldes' = soldes
  BY <1>2
<1>. QED BY <1>3, <1>4, <1>5, <1>6, <1>7, FermerCompte

LEMMA DefaireCompte ==
  ASSUME Corps, Comptes, NEW l \in Lots, DefaireLot(l)
  PROVE  Comptes'
<1>1. /\ lots[l].pc = "defaire"
      /\ reglementsLot' = [reglementsLot EXCEPT ![l] = [p \in Cotisants |-> "AUCUN"]]
      /\ Allerlot(l, "fini")
      /\ UNCHANGED <<soldes, fapshiLot, echoues, meles>>
  BY DEF DefaireLot
<1>2. lots'[l].pc = "fini" /\ lots'[l].pour = lots[l].pour /\ \A m \in Lots \ {l} : lots'[m] = lots[m]
  <2>1. "fini" \in EtapesLot
    BY DEF EtapesLot
  <2>. QED BY <1>1, <2>1, LotEcrit DEF Corps
<1>3. Pareil
  BY <1>1, <1>2, PareilDe DEF Corps
<1>4. /\ \A m \in Lots \ {l} : reglementsLot'[m] = reglementsLot[m]
      /\ \A p \in Cotisants : reglementsLot'[l][p] \in {reglementsLot[l][p], "ECHOUE", "AUCUN"}
  BY <1>1 DEF Corps, TypePartage
<1>5. ASSUME meles' = {}, NEW p \in Cotisants PROVE reglementsLot[l][p] # "COMPLETE"
  <2>1. Carnet(l)
    BY <1>1, <1>5 DEF Corps
  <2>2. \A q \in Rangs(l) : reglementsLot[l][q] = "EN_ATTENTE"
    BY <1>1, <2>1 DEF Carnet, SousFiles
  <2>. QED BY <2>2 DEF Rangs
<1>. QED BY <1>1, <1>3, <1>4, <1>5, FermerCompte

\* What is engaged of a participation is what is paid of it and what is pending.
LEMMA EngagesEst ==
  ASSUME NEW p
  PROVE  /\ Payes(p) \subseteq Lots /\ Engages(p) \subseteq Lots
         /\ EnAttenteDe(p) \in Nat /\ Cardinality(Payes(p)) \in Nat /\ Cardinality(Engages(p)) \in Nat
         /\ Cardinality(Engages(p)) = Cardinality(Payes(p)) + EnAttenteDe(p)
<1>. DEFINE A == {l \in Lots : reglementsLot[l][p] = "EN_ATTENTE"}
<1>1. Payes(p) \subseteq Lots /\ Engages(p) \subseteq Lots /\ A \subseteq Lots
  BY DEF Payes, Engages
<1>2. Payes(p) \cap A = {} /\ Engages(p) = Payes(p) \cup A
  BY DEF Payes, Engages
<1>3. EnAttenteDe(p) = Cardinality(A)
  BY DEF EnAttenteDe
<1>. HIDE DEF A
<1>4. IsFiniteSet(Payes(p)) /\ Cardinality(Payes(p)) \in Nat
  BY <1>1, Nombres
<1>5. IsFiniteSet(A) /\ Cardinality(A) \in Nat
  BY <1>1, Nombres
<1>6. Cardinality(Engages(p)) \in Nat
  BY <1>1, Nombres
<1>7. Cardinality(Payes(p) \cup A) = Cardinality(Payes(p)) + Cardinality(A) - Cardinality(Payes(p) \cap A)
  BY <1>4, <1>5, FS_Union
<1>8. Cardinality(Payes(p) \cap A) = 0
  BY <1>2, FS_EmptySet
<1>. QED BY <1>1, <1>2, <1>3, <1>4, <1>5, <1>6, <1>7, <1>8

LEMMA LireCompte ==
  ASSUME Corps, Comptes, NEW l \in Lots, LireLigne(l)
  PROVE  Comptes'
<1>1. /\ lots[l].pc = "lire"
      /\ Allerlot(l, IF Reglable(lots[l].pour[lots[l].rang]) THEN "ecrire" ELSE "defaire")
      /\ UNCHANGED <<reglementsLot, soldes, fapshiLot, echoues, meles>>
  BY DEF LireLigne
<1>2. PICK pc \in {"ecrire", "defaire"} :
        Allerlot(l, pc) /\ (pc = "ecrire" => Reglable(lots[l].pour[lots[l].rang]))
  BY <1>1
<1>3. /\ lots'[l].pc = pc /\ lots'[l].pour = lots[l].pour /\ lots'[l].rang = lots[l].rang
      /\ \A m \in Lots \ {l} : lots'[m] = lots[m]
  <2>1. pc \in EtapesLot
    BY DEF EtapesLot
  <2>. QED BY <1>2, <2>1, LotEcrit DEF Corps
<1>4. \A m \in Lots : Visees(m)' = Visees(m)
  BY <1>3 DEF Visees
<1>5. SUFFICES ASSUME meles' = {}, NEW p \in Cotisants
               PROVE  /\ soldes'[p] = Cardinality(Payes(p))'
                      /\ SansRetour(p)' =>
                           /\ Cardinality(Engages(p))' <= DuPartage
                           /\ \A m \in Lots : lots'[m].pc = "ecrire" /\ lots'[m].pour[lots'[m].rang] = p =>
                                Cardinality(Engages(p))' < DuPartage
  BY DEF Comptes
<1>6. Payes(p)' = Payes(p) /\ Engages(p)' = Engages(p)
  BY <1>1 DEF Payes, Engages
<1>7. SansRetour(p)' => SansRetour(p)
  BY <1>1, <1>4, Retours DEF Corps
<1>8. /\ soldes[p] = Cardinality(Payes(p))
      /\ SansRetour(p) => /\ Cardinality(Engages(p)) <= DuPartage
                          /\ \A m \in Lots : lots[m].pc = "ecrire" /\ lots[m].pour[lots[m].rang] = p =>
                               Cardinality(Engages(p)) < DuPartage
  BY <1>1, <1>5 DEF Comptes
<1>9. ASSUME lots'[l].pc = "ecrire", lots'[l].pour[lots'[l].rang] = p PROVE Cardinality(Engages(p)) < DuPartage
  <2>1. Reglable(p)
    BY <1>2, <1>3, <1>9
  <2>2. soldes[p] + EnAttenteDe(p) < DuPartage
    BY <2>1 DEF Reglable
  <2>3. Cardinality(Engages(p)) = Cardinality(Payes(p)) + EnAttenteDe(p)
    BY EngagesEst
  <2>. QED BY <1>8, <2>2, <2>3
<1>10. ASSUME SansRetour(p)', NEW m \in Lots, lots'[m].pc = "ecrire", lots'[m].pour[lots'[m].rang] = p
       PROVE  Cardinality(Engages(p)) < DuPartage
  <2>1. CASE m = l
    BY <1>9, <1>10, <2>1
  <2>2. CASE m # l
    BY <1>3, <1>7, <1>8, <1>10, <2>2
  <2>. QED BY <2>1, <2>2
<1>. QED BY <1>1, <1>6, <1>7, <1>8, <1>10

LEMMA EcrireCompte ==
  ASSUME Corps, Comptes, TousVerrous, NEW l \in Lots, EcrireLigne(l)
  PROVE  Comptes'
<1>1. /\ lots[l].pc = "ecrire" /\ lots[l].pour \in Demandes
      /\ lots[l].rang \in 1 .. Len(lots[l].pour) /\ lots[l].pour[lots[l].rang] \in Cotisants
      /\ \A m \in Lots \ {l} : reglementsLot'[m] = reglementsLot[m] /\ lots'[m] = lots[m]
      /\ \A p \in Cotisants : reglementsLot'[l][p] =
           IF p = lots[l].pour[lots[l].rang] THEN "EN_ATTENTE" ELSE reglementsLot[l][p]
      /\ lots'[l].pour = lots[l].pour /\ lots'[l].pc # "ecrire"
      /\ UNCHANGED <<soldes, fapshiLot, echoues, meles>>
  BY EcrireEcrit DEF Corps
<1>2. PICK q \in Cotisants : q = lots[l].pour[lots[l].rang]
  BY <1>1
<1>3. \A m \in Lots : Visees(m)' = Visees(m)
  BY <1>1 DEF Visees
<1>4. SUFFICES ASSUME meles' = {}, NEW p \in Cotisants
               PROVE  /\ soldes'[p] = Cardinality(Payes(p))'
                      /\ SansRetour(p)' =>
                           /\ Cardinality(Engages(p))' <= DuPartage
                           /\ \A m \in Lots : lots'[m].pc = "ecrire" /\ lots'[m].pour[lots'[m].rang] = p =>
                                Cardinality(Engages(p))' < DuPartage
  BY DEF Comptes
<1>5. SansRetour(p)' => SansRetour(p)
  BY <1>1, <1>3, Retours DEF Corps
<1>6. /\ soldes[p] = Cardinality(Payes(p))
      /\ SansRetour(p) => /\ Cardinality(Engages(p)) <= DuPartage
                          /\ \A m \in Lots : lots[m].pc = "ecrire" /\ lots[m].pour[lots[m].rang] = p =>
                               Cardinality(Engages(p)) < DuPartage
  BY <1>1, <1>4 DEF Comptes
<1>7. Carnet(l)
  BY <1>1, <1>4 DEF Corps
<1>8. reglementsLot[l][q] # "COMPLETE"
  <2>1. \A r \in Rangs(l) : reglementsLot[l][r] = "EN_ATTENTE"
    BY <1>1, <1>7 DEF Carnet, SousFiles
  <2>. QED BY <2>1 DEF Rangs
<1>9. Payes(p)' = Payes(p)
  <2>1. \A m \in Lots : reglementsLot'[m][p] = "COMPLETE" <=> reglementsLot[m][p] = "COMPLETE"
    BY <1>1, <1>2, <1>8
  <2>. QED BY <2>1 DEF Payes
<1>10. CASE p # q
  <2>1. \A m \in Lots : reglementsLot'[m][p] = reglementsLot[m][p]
    BY <1>1, <1>2, <1>10
  <2>2. Engages(p)' = Engages(p)
    BY <2>1 DEF Engages
  <2>3. \A m \in Lots : lots'[m].pc = "ecrire" => lots'[m] = lots[m]
    BY <1>1
  <2>. QED BY <1>1, <1>5, <1>6, <1>9, <2>2, <2>3
<1>11. CASE p = q
  <2>1. Engages(p)' = Engages(p) \cup {l}
    <3>1. \A m \in Lots \ {l} : reglementsLot'[m][p] = reglementsLot[m][p]
      BY <1>1
    <3>2. reglementsLot'[l][p] = "EN_ATTENTE"
      BY <1>1, <1>2, <1>11
    <3>. QED BY <3>1, <3>2 DEF Engages
  <2>2. PICK a \in Nat : a = Cardinality(Engages(p)) /\ IsFiniteSet(Engages(p))
    <3>1. Engages(p) \subseteq Lots
      BY DEF Engages
    <3>. QED BY <3>1, Nombres
  <2>3. Cardinality(Engages(p) \cup {l}) \in {a, a + 1}
    BY <2>2, FS_AddElement
  <2>4. SansRetour(p) => a < DuPartage
    BY <1>1, <1>2, <1>6, <1>11, <2>2
  <2>5. SansRetour(p)' => Cardinality(Engages(p))' <= DuPartage
    <3>1. DuPartage \in Nat
      BY PartageAssumption
    <3>. QED BY <1>5, <2>1, <2>2, <2>3, <2>4, <3>1
  <2>6. ASSUME NEW m \in Lots, lots'[m].pc = "ecrire", lots'[m].pour[lots'[m].rang] = p PROVE FALSE
    <3>1. m # l /\ lots'[m] = lots[m]
      BY <1>1, <2>6
    <3>2. lots[m].pc = "ecrire" /\ lots[m].pour[lots[m].rang] = p
      BY <2>6, <3>1
    <3>3. lots[m].pour \in Demandes /\ lots[m].rang \in 1 .. Len(lots[m].pour)
      BY <3>2 DEF Corps, TypePartage, Situe, SousFiles
    <3>4. p \in Visees(m)
      <4>1. DOMAIN lots[m].pour = 1 .. Len(lots[m].pour)
        BY <3>3, ClesBien
      <4>. QED BY <3>2, <3>3, <4>1 DEF Visees, ToSet
    <3>5. p \in Visees(l)
      <4>1. DOMAIN lots[l].pour = 1 .. Len(lots[l].pour)
        BY <1>1, ClesBien
      <4>. QED BY <1>1, <1>2, <1>11, <4>1 DEF Visees, ToSet
    <3>6. Tient(l, p) /\ Tient(m, p)
      BY <1>1, <3>2, <3>4, <3>5 DEF TousVerrous, Verrous, SousFiles
    <3>. QED BY <3>1, <3>6 DEF Tient
  <2>. QED BY <1>1, <1>6, <1>9, <2>5, <2>6
<1>. QED BY <1>10, <1>11

LEMMA RepercuterCompte ==
  ASSUME Corps, Comptes, NEW s \in suites, RepercuterLot(s)
  PROVE  Comptes'
<1>. USE DEF Corps
<1>1. PICK q \in s.pour :
        /\ reglementsLot' = [reglementsLot EXCEPT ![s.lot][q] = s.issue]
        /\ soldes' = IF s.issue = "COMPLETE" THEN [soldes EXCEPT ![q] = @ + 1] ELSE soldes
        /\ echoues' = IF s.issue = "ECHOUE" THEN echoues \cup {s.lot} ELSE echoues
        /\ UNCHANGED <<journalPartage, files, lots, fapshiLot, renoncements, meles>>
  BY DEF RepercuterLot
<1>2. PICK l \in Lots : l = s.lot /\ s.issue \in {"COMPLETE", "ECHOUE"} /\ s.pour \subseteq Cotisants
  BY DEF TypePartage, Suite
<1>3. /\ \A m \in Lots \ {l} : reglementsLot'[m] = reglementsLot[m]
      /\ \A p \in Cotisants : reglementsLot'[l][p] = IF p = q THEN s.issue ELSE reglementsLot[l][p]
  BY <1>1, <1>2 DEF TypePartage
<1>4. \A m \in Lots : Visees(m)' = Visees(m) /\ lots'[m] = lots[m]
  BY <1>1 DEF Visees
<1>5. SUFFICES ASSUME meles' = {}, NEW p \in Cotisants
               PROVE  /\ soldes'[p] = Cardinality(Payes(p))'
                      /\ SansRetour(p)' =>
                           /\ Cardinality(Engages(p))' <= DuPartage
                           /\ \A m \in Lots : lots'[m].pc = "ecrire" /\ lots'[m].pour[lots'[m].rang] = p =>
                                Cardinality(Engages(p))' < DuPartage
  BY DEF Comptes
<1>6. SansRetour(p)' => SansRetour(p)
  BY <1>1, <1>4, Retours
<1>7. /\ soldes[p] = Cardinality(Payes(p))
      /\ SansRetour(p) => /\ Cardinality(Engages(p)) <= DuPartage
                          /\ \A m \in Lots : lots[m].pc = "ecrire" /\ lots[m].pour[lots[m].rang] = p =>
                               Cardinality(Engages(p)) < DuPartage
  BY <1>1, <1>5 DEF Comptes
<1>8. Carnet(l) /\ ReserveDe(l)
  BY <1>1, <1>5
<1>9. s.issue = journalPartage[l].statut /\ reglementsLot[l][q] # "COMPLETE"
  BY <1>1, <1>2, <1>8 DEF Carnet
<1>10. q \in Rangs(l) /\ Rangs(l) = Visees(l)
  <2>1. s.pour \subseteq Rangs(l) /\ journalPartage[l].statut # "ABSENTE"
    BY <1>2, <1>8 DEF ReserveDe
  <2>2. lots[l].pc \in EtapesLot
    BY DEF TypePartage, LotType
  <2>. QED BY <1>1, <1>8, <2>1, <2>2 DEF ReserveDe, EtapesLot, AvantOuverture
<1>11. reglementsLot[l][q] \in {"EN_ATTENTE", "ECHOUE"}
  BY <1>9, <1>10 DEF TypePartage, Rangs, JL!Statuts
<1>12. Engages(p) \subseteq Lots /\ Payes(p) \subseteq Lots
  BY DEF Engages, Payes
<1>13. PICK a \in Nat, b \in Nat : a = Cardinality(Engages(p)) /\ b = Cardinality(Payes(p))
  BY <1>12, Nombres
<1>14. IsFiniteSet(Payes(p)) /\ IsFiniteSet(Engages(p))
  BY <1>12, Nombres
<1>15. soldes'[p] = Cardinality(Payes(p))'
  <2>1. CASE p = q /\ s.issue = "COMPLETE"
    <3>1. Payes(p)' = Payes(p) \cup {l} /\ l \notin Payes(p)
      BY <1>3, <1>9, <2>1 DEF Payes
    <3>2. Cardinality(Payes(p) \cup {l}) = b + 1
      BY <1>13, <1>14, <3>1, FS_AddElement
    <3>3. soldes'[p] = soldes[p] + 1
      BY <1>1, <2>1 DEF TypePartage
    <3>. QED BY <1>7, <1>13, <3>1, <3>2, <3>3
  <2>2. CASE ~(p = q /\ s.issue = "COMPLETE")
    <3>1. Payes(p)' = Payes(p)
      <4>1. \A m \in Lots : reglementsLot'[m][p] = "COMPLETE" <=> reglementsLot[m][p] = "COMPLETE"
        BY <1>2, <1>3, <1>9, <2>2
      <4>. QED BY <4>1 DEF Payes
    <3>2. soldes'[p] = soldes[p]
      BY <1>1, <2>2 DEF TypePartage
    <3>. QED BY <1>7, <3>1, <3>2
  <2>. QED BY <2>1, <2>2
<1>16. ASSUME SansRetour(p)' PROVE Engages(p)' \subseteq Engages(p)
  <2>1. SansRetour(p)
    BY <1>6, <1>16
  <2>2. CASE p # q
    BY <1>3, <2>2 DEF Engages
  <2>3. CASE p = q /\ s.issue = "ECHOUE"
    BY <1>3, <2>3 DEF Engages
  <2>4. CASE p = q /\ s.issue = "COMPLETE"
    <3>1. fapshiLot[l] = "PAYE"
      BY <1>8, <1>9, <2>4 DEF ReserveDe
    <3>2. l \notin echoues
      BY <1>10, <2>1, <2>4, <3>1 DEF SansRetour
    <3>3. reglementsLot[l][q] # "ECHOUE"
      BY <1>2, <1>8, <3>2 DEF ReserveDe
    <3>4. reglementsLot[l][q] = "EN_ATTENTE"
      BY <1>11, <3>3
    <3>. QED BY <1>3, <2>4, <3>4 DEF Engages
  <2>. QED BY <1>2, <2>2, <2>3, <2>4
<1>17. ASSUME SansRetour(p)' PROVE Cardinality(Engages(p)') \in Nat /\ Cardinality(Engages(p)') <= a
  <2>1. Engages(p)' \subseteq Engages(p)
    BY <1>16, <1>17
  <2>2. Cardinality(Engages(p)') <= a
    BY <1>13, <1>14, <2>1, FS_Subset
  <2>3. Engages(p)' \subseteq Lots
    BY <1>12, <2>1
  <2>4. Cardinality(Engages(p)') \in Nat
    BY <2>3, Nombres
  <2>. QED BY <2>2, <2>4
<1>18. DuPartage \in Nat
  BY PartageAssumption
<1>19. ASSUME SansRetour(p)'
       PROVE  /\ Cardinality(Engages(p))' <= DuPartage
              /\ \A m \in Lots : lots'[m].pc = "ecrire" /\ lots'[m].pour[lots'[m].rang] = p =>
                   Cardinality(Engages(p))' < DuPartage
  <2>1. PICK c \in Nat : c = Cardinality(Engages(p)') /\ c <= a
    BY <1>17, <1>19
  <2>2. /\ a <= DuPartage
        /\ \A m \in Lots : lots[m].pc = "ecrire" /\ lots[m].pour[lots[m].rang] = p => a < DuPartage
    BY <1>6, <1>7, <1>13, <1>19
  <2>3. /\ c <= DuPartage
        /\ \A m \in Lots : lots'[m].pc = "ecrire" /\ lots'[m].pour[lots'[m].rang] = p => c < DuPartage
    BY <1>4, <1>13, <1>18, <2>1, <2>2
  <2>. QED BY <2>1, <2>3
<1>. QED BY <1>15, <1>19

------------------------------------------------------------------------------
(* What PartageJuste says, for every value of the constants.               *)

LEMMA DebutPartage ==
  ASSUME InitPartage
  PROVE  Corps /\ TousVerrous /\ Comptes
<1>. USE DEF InitPartage
<1>1. \A l \in Lots :
        /\ lots[l] = Repos /\ fapshiLot[l] = "INCONNU" /\ renoncements[l] = "repos"
        /\ \A p \in Cotisants : reglementsLot[l][p] = "AUCUN"
        /\ journalPartage[l] = JL!LigneAbsente
  BY DEF JL!JournalInit
<1>2. Repos \in LotType /\ Repos.pc = "repos" /\ Repos.pour = << >>
  BY DEF Repos, LotType, EtapesLot
<1>3. JL!LigneAbsente \in JL!Ligne /\ JL!LigneAbsente.statut = "ABSENTE" /\ ~JL!LigneAbsente.ext
  BY DEF JL!LigneAbsente, JL!Ligne, JL!Statuts, JL!Montants
<1>4. \A l \in Lots : Situe(l)
  BY <1>1, <1>2 DEF Situe, SousFiles
<1>5. TypePartage
  <2>1. lots \in [Lots -> LotType] /\ journalPartage \in [Lots -> JL!Ligne]
    BY <1>2, <1>3 DEF JL!JournalInit
  <2>2. files \in [Cotisants -> Seq(Lots)]
    OBVIOUS
  <2>. QED BY <1>4, <2>1, <2>2 DEF TypePartage, EtatsFapshi
<1>6. \A l \in Lots : Rangs(l) = {} /\ Visees(l) = {}
  BY <1>1, <1>2 DEF Rangs, Visees, ToSet
<1>7. \A l \in Lots : ReserveDe(l)
  BY <1>1, <1>2, <1>3, <1>6 DEF ReserveDe, SousFiles, AvantOuverture
<1>8. \A l \in Lots : Carnet(l)
  BY <1>1, <1>2, <1>3, <1>6 DEF Carnet, SousFiles
<1>9. TousVerrous
  BY <1>1, <1>2 DEF TousVerrous, Verrous, SousFiles
<1>10. Comptes
  <2>1. ASSUME NEW p \in Cotisants PROVE Payes(p) = {} /\ Engages(p) = {} /\ soldes[p] = 0
    BY <1>1, <2>1 DEF Payes, Engages
  <2>2. Cardinality({}) = 0
    BY FS_EmptySet
  <2>3. DuPartage \in Nat
    BY PartageAssumption
  <2>4. \A l \in Lots : lots[l].pc # "ecrire"
    BY <1>1, <1>2
  <2>5. \A p \in Cotisants : /\ soldes[p] = Cardinality(Payes(p))
                             /\ Cardinality(Engages(p)) <= DuPartage
    <3>1. ASSUME NEW p \in Cotisants
          PROVE  Cardinality(Payes(p)) = 0 /\ Cardinality(Engages(p)) = 0 /\ soldes[p] = 0
      BY <2>1, <2>2
    <3>2. 0 <= DuPartage
      BY <2>3
    <3>. QED BY <3>1, <3>2
  <2>. QED BY <2>4, <2>5 DEF Comptes
<1>. QED BY <1>5, <1>7, <1>8, <1>9, <1>10 DEF Corps

LEMMA VerrousHorsFiles ==
  ASSUME TypePartage, TousVerrous, NEW l \in Lots, NEW pc, pc \in EtapesLot,
         pc \notin SousFiles \cup {"verrous"}, Allerlot(l, pc), files' = files
  PROVE  TousVerrous'
<1>1. lots'[l].pc = pc /\ \A m \in Lots \ {l} : lots'[m] = lots[m]
  BY LotEcrit
<1>. QED BY <1>1, VerrousAilleurs

LEMMA AutresFiles ==
  ASSUME TypePartage, TousVerrous, NEW l \in Lots,
         \/ OuvrirLot(l) \/ InitierLot(l) \/ ConclureLot(l) \/ AppliquerLot(l)
         \/ AbandonnerLot(l) \/ RefermerLot(l)
  PROVE  TousVerrous'
<1>1. PICK pc \in {"initier", "appele", "fini", "appliquer", "abandonner", "refermer"} : Allerlot(l, pc)
  BY DEF OuvrirLot, InitierLot, ConclureLot, AppliquerLot, AbandonnerLot, RefermerLot
<1>2. files' = files
  BY DEF OuvrirLot, InitierLot, ConclureLot, AppliquerLot, AbandonnerLot, RefermerLot
<1>3. pc \in EtapesLot /\ pc \notin SousFiles \cup {"verrous"}
  BY <1>1 DEF EtapesLot, SousFiles
<1>. QED BY <1>1, <1>2, <1>3, VerrousHorsFiles

LEMMA MemesFiles ==
  ASSUME TousVerrous, UNCHANGED <<files, lots>>
  PROVE  TousVerrous'
  BY VerrousAilleurs

\* The inductive invariant, in its three parts.
LEMMA PasPartage ==
  ASSUME Corps, TousVerrous, Comptes, [NextPartage]_varsPartage
  PROVE  Corps' /\ TousVerrous' /\ Comptes'
<1>1. CASE UNCHANGED varsPartage
  <2>1. Corps'
    <3>1. appelOuvert' \in BOOLEAN
      BY <1>1 DEF varsPartage, Corps, TypePartage
    <3>. QED BY <1>1, <3>1, CorpsAilleurs DEF varsPartage
  <2>2. TousVerrous'
    BY <1>1, MemesFiles DEF varsPartage
  <2>3. Comptes'
    <3>1. Pareil
      BY <1>1 DEF varsPartage, Pareil, Visees
    <3>. QED BY <1>1, <3>1, ComptesPareils DEF varsPartage, Corps
  <2>. QED BY <2>1, <2>2, <2>3
<1>2. CASE CloreAppel
  <2>1. Corps'
    <3>1. appelOuvert' \in BOOLEAN
      BY <1>2 DEF CloreAppel
    <3>. QED BY <1>2, <3>1, CorpsAilleurs DEF CloreAppel
  <2>2. TousVerrous'
    BY <1>2, MemesFiles DEF CloreAppel
  <2>3. Comptes'
    <3>1. Pareil
      BY <1>2 DEF CloreAppel, Pareil, Visees
    <3>. QED BY <1>2, <3>1, ComptesPareils DEF CloreAppel, Corps
  <2>. QED BY <2>1, <2>2, <2>3
<1>3. ASSUME NEW l \in Lots, Demander(l) PROVE Corps' /\ TousVerrous' /\ Comptes'
  BY <1>3, DemanderTient, DemanderFile, DemanderCompte DEF Corps
<1>4. ASSUME NEW l \in Lots, Obtenir(l) PROVE Corps' /\ TousVerrous' /\ Comptes'
  BY <1>4, ObtenirTient, ObtenirFile, ObtenirCompte DEF Corps
<1>5. ASSUME NEW l \in Lots, LireLigne(l) PROVE Corps' /\ TousVerrous' /\ Comptes'
  BY <1>5, LireTient, LireFile, LireCompte DEF Corps
<1>6. ASSUME NEW l \in Lots, EcrireLigne(l) PROVE Corps' /\ TousVerrous' /\ Comptes'
  BY <1>6, EcrireTient, EcrireFile, EcrireCompte DEF Corps
<1>7. ASSUME NEW l \in Lots, DefaireLot(l) PROVE Corps' /\ TousVerrous' /\ Comptes'
  BY <1>7, DefaireTient, DefaireFile, DefaireCompte DEF Corps
<1>8. ASSUME NEW l \in Lots,
             \/ OuvrirLot(l) \/ InitierLot(l) \/ ConclureLot(l) \/ AppliquerLot(l) \/ AbandonnerLot(l)
      PROVE  Corps' /\ TousVerrous' /\ Comptes'
  <2>1. Corps'
    BY <1>8, OuvrirTient, InitierTient, ConclureTient, AppliquerLotTient, AbandonnerTient
  <2>2. TousVerrous'
    BY <1>8, AutresFiles DEF Corps
  <2>3. Comptes'
    BY <1>8, AutresComptes
  <2>. QED BY <2>1, <2>2, <2>3
<1>9. ASSUME NEW l \in Lots, RefermerLot(l) PROVE Corps' /\ TousVerrous' /\ Comptes'
  BY <1>9, RefermerTient, AutresFiles, RefermerCompte DEF Corps
<1>10. ASSUME NEW l \in Lots,
              \/ PayerLot(l) \/ (\E i \in {"COMPLETE", "ECHOUE"} : RecevoirIssueLot(l, i))
              \/ LireRenoncement(l) \/ ExpirerLot(l) \/ AppliquerRenoncement(l)
       PROVE  Corps' /\ TousVerrous' /\ Comptes'
  <2>1. Corps'
    BY <1>10, PayerTient, RecevoirTient, LireRenoncementTient, ExpirerTient, AppliquerRenoncementTient
  <2>2. UNCHANGED <<files, lots>>
    BY <1>10 DEF PayerLot, RecevoirIssueLot, LireRenoncement, ExpirerLot, AppliquerRenoncement
  <2>3. TousVerrous'
    BY <2>2, MemesFiles
  <2>4. Comptes'
    BY <1>10, MondeCompte
  <2>. QED BY <2>1, <2>3, <2>4
<1>11. ASSUME NEW l \in Lots, RefermerRenoncement(l) PROVE Corps' /\ TousVerrous' /\ Comptes'
  <2>1. UNCHANGED <<files, lots>>
    BY <1>11 DEF RefermerRenoncement
  <2>. QED BY <1>11, <2>1, RefermerRenoncementTient, MemesFiles, RefermerRenoncementCompte
<1>12. ASSUME NEW s \in suites, RepercuterLot(s) PROVE Corps' /\ TousVerrous' /\ Comptes'
  <2>1. UNCHANGED <<files, lots>>
    BY <1>12 DEF RepercuterLot
  <2>. QED BY <1>12, <2>1, RepercuterTient, MemesFiles, RepercuterCompte
<1>. QED
  BY <1>1, <1>2, <1>3, <1>4, <1>5, <1>6, <1>7, <1>8, <1>9, <1>10, <1>11, <1>12
  DEF NextPartage, SousVerrous

\* The invariant gives what is promised of each lot and of each person.
LEMMA PartageDOuIlVient ==
  ASSUME IInvPartage
  PROVE  PartageJuste
<1>1. LotEntier
  <2>. SUFFICES ASSUME NEW l \in Lots \ meles, ~EnCoursLot(l),
                       NEW p \in Visees(l), NEW q \in Visees(l)
                PROVE  /\ reglementsLot[l][p] = reglementsLot[l][q]
                       /\ reglementsLot[l][p] = "COMPLETE" <=> journalPartage[l].statut = "COMPLETE"
    BY DEF LotEntier, Visees
  <2>1. Carnet(l)
    BY DEF IInvPartage
  <2>2. (\A s \in suites : s.lot # l) /\ lots[l].pc \notin SousFiles
    BY DEF EnCoursLot, EnMouvement, SousFiles
  <2>. QED BY <2>1, <2>2 DEF Carnet
<1>2. PartDeChacun
  <2>. SUFFICES ASSUME meles = {}, NEW p \in Cotisants
                PROVE  /\ soldes[p] = Cardinality(Payes(p))
                       /\ SansRetour(p) => soldes[p] + EnAttenteDe(p) <= DuPartage
    BY DEF PartDeChacun, Payes, SansRetour, Visees
  <2>1. /\ soldes[p] = Cardinality(Payes(p))
        /\ SansRetour(p) => Cardinality(Engages(p)) <= DuPartage
    BY DEF IInvPartage, Comptes
  <2>2. Cardinality(Engages(p)) = Cardinality(Payes(p)) + EnAttenteDe(p)
    BY EngagesEst
  <2>. QED BY <2>1, <2>2
<1>. QED BY <1>1, <1>2 DEF PartageJuste

\* Types, reservations, queues, payments in step with the journal, and accounts.
THEOREM InvariantPartage == SpecPartage => []IInvPartage
<1>1. InitPartage => IInvPartage
  BY DebutPartage DEF IInvPartage, Corps, TousVerrous
<1>2. IInvPartage /\ [NextPartage]_varsPartage => IInvPartage'
  <2>. SUFFICES ASSUME IInvPartage, [NextPartage]_varsPartage PROVE IInvPartage'
    OBVIOUS
  <2>1. Corps /\ TousVerrous /\ Comptes
    BY DEF IInvPartage, Corps, TousVerrous
  <2>2. Corps' /\ TousVerrous' /\ Comptes'
    BY <2>1, PasPartage
  <2>. QED BY <2>2 DEF IInvPartage, Corps, TousVerrous
<1>. QED BY <1>1, <1>2, PTL DEF SpecPartage

\* One payment for several people is credited to all of them or to none, as the
\* journal says, and no part of what one owes is engaged twice
\* (payerPourPlusieurs), for any number of people and of requests.
THEOREM PartageToujoursJuste == SpecPartage => []PartageJuste
  BY InvariantPartage, PartageDOuIlVient, PTL

------------------------------------------------------------------------------
(* Echeances: for any schedule, any amounts and any number of payments.    *)
(* The invariant is the types: what is shown and what is let in are worked *)
(* out anew from them at every step.                                       *)

\* The first amounts of a schedule, as the model and as the lemmas add them up.
LEMMA DebutEstSomme ==
  ASSUME NEW s, NEW i
  PROVE  SommeDebut(s, i) = Somme(s, 1 .. i)
BY Zenon DEF SommeDebut, Somme, Deroule, Pas, Choix, MapThenSumSet, MapThenFoldSet

\* One amount after the other.
LEMMA DebutPasAPas ==
  ASSUME NEW s, NEW n \in Nat, \A i \in 1 .. n : s[i] \in Nat
  PROVE  /\ SommeDebut(s, 0) = 0
         /\ \A i \in 1 .. n : SommeDebut(s, i) = SommeDebut(s, i - 1) + s[i]
         /\ \A i \in 0 .. n : SommeDebut(s, i) \in Nat
<1>1. SommeDebut(s, 0) = 0
  <2>1. 1 .. 0 = {}
    OBVIOUS
  <2>2. SommeDebut(s, 0) = Somme(s, 1 .. 0)
    BY DebutEstSomme
  <2>. QED BY <2>1, <2>2, SommeVide
<1>2. ASSUME NEW i \in 1 .. n
      PROVE  SommeDebut(s, i) = SommeDebut(s, i - 1) + s[i]
  <2>1. 1 .. i = (1 .. (i - 1)) \cup {i} /\ i \notin 1 .. (i - 1) /\ i - 1 \in Nat
    OBVIOUS
  <2>2. IsFiniteSet(1 .. (i - 1))
    BY <2>1, FS_Interval
  <2>3. s[i] \in Int /\ \A j \in 1 .. (i - 1) : s[j] \in Int
    OBVIOUS
  <2>4. Somme(s, (1 .. (i - 1)) \cup {i}) = s[i] + Somme(s, 1 .. (i - 1))
    BY <2>1, <2>2, <2>3, SommeAjoute
  <2>5. Somme(s, 1 .. (i - 1)) \in Int
    BY <2>2, <2>3, SommeType
  <2>6. SommeDebut(s, i) = Somme(s, 1 .. i) /\ SommeDebut(s, i - 1) = Somme(s, 1 .. (i - 1))
    BY DebutEstSomme
  <2>7. SommeDebut(s, i) = Somme(s, (1 .. (i - 1)) \cup {i})
    BY <2>1, <2>6
  <2>. HIDE DEF Somme
  <2>. QED BY <2>3, <2>4, <2>5, <2>6, <2>7
<1>3. ASSUME NEW i \in 0 .. n PROVE SommeDebut(s, i) \in Nat
  <2>1. IsFiniteSet(1 .. i)
    BY FS_Interval
  <2>2. \A j \in 1 .. i : s[j] \in Nat
    OBVIOUS
  <2>3. Somme(s, 1 .. i) \in Nat
    BY <2>1, <2>2, SommeType
  <2>. QED BY <2>3, DebutEstSomme
<1>. QED BY <1>1, <1>2, <1>3

\* Only the amounts matter.
LEMMA DebutsEgaux ==
  ASSUME NEW s, NEW u, NEW n \in Nat,
         \A i \in 1 .. n : s[i] = u[i]
  PROVE  SommeDebut(s, n) = SommeDebut(u, n)
<1>1. IsFiniteSet(1 .. n)
  BY FS_Interval
<1>2. Somme(s, 1 .. n) = Somme(u, 1 .. n)
  BY <1>1, SommeEgale
<1>. QED BY <1>2, DebutEstSomme

\* A payment that is added adds its amount to the sum.
LEMMA SommeDeAjoute ==
  ASSUME NEW s \in Seq(Nat), NEW m \in Nat
  PROVE  SommeDe(Append(s, m)) = SommeDe(s) + m /\ SommeDe(s) \in Nat
<1>. DEFINE n == Len(s)
            u == Append(s, m)
<1>1. n \in Nat /\ Len(u) = n + 1 /\ u[n + 1] = m /\ \A i \in 1 .. n : s[i] \in Nat /\ u[i] = s[i]
  OBVIOUS
<1>2. \A i \in 1 .. (n + 1) : u[i] \in Nat
  BY <1>1
<1>. HIDE DEF n, u
<1>3. PICK p \in 1 .. (n + 1) : p = n + 1 /\ p - 1 = n
  BY <1>1
<1>5. SommeDebut(u, p) = SommeDebut(u, p - 1) + u[p]
  <2>1. n + 1 \in Nat
    BY <1>1
  <2>. QED BY <1>2, <2>1, DebutPasAPas
<1>4. SommeDebut(s, n) = SommeDebut(u, n) /\ SommeDebut(s, n) \in Nat
  <2>1. n \in 0 .. n
    BY <1>1
  <2>. QED BY <1>1, <2>1, DebutsEgaux, DebutPasAPas
<1>6. SommeDe(u) = SommeDebut(u, n + 1) /\ SommeDe(s) = SommeDebut(s, n)
  BY <1>1 DEF SommeDe, n, u
<1>. QED BY <1>1, <1>3, <1>4, <1>5, <1>6 DEF u

\* What a list of payments is once one of them is taken away.
LEMMA RetireValeurs ==
  ASSUME NEW s \in Seq(Nat), NEW k \in DOMAIN s
  PROVE  /\ RemoveAt(s, k) \in Seq(Nat) /\ Len(RemoveAt(s, k)) = Len(s) - 1
         /\ \A i \in 1 .. (Len(s) - 1) :
              RemoveAt(s, k)[i] = IF i < k THEN s[i] ELSE s[i + 1]
<1>1. PICK n \in Nat : n = Len(s) /\ k \in 1 .. n
  OBVIOUS
<1>2. /\ SubSeq(s, 1, k - 1) \in Seq(Nat) /\ Len(SubSeq(s, 1, k - 1)) = k - 1
      /\ \A i \in 1 .. (k - 1) : SubSeq(s, 1, k - 1)[i] = s[i]
  OBVIOUS
<1>3. /\ SubSeq(s, k + 1, n) \in Seq(Nat) /\ Len(SubSeq(s, k + 1, n)) = n - k
      /\ \A i \in 1 .. (n - k) : SubSeq(s, k + 1, n)[i] = s[k + i]
  <2>1. Len(SubSeq(s, k + 1, Len(s))) = Len(s) - k
    OBVIOUS
  <2>2. \A i \in 1 .. (Len(s) - k) : SubSeq(s, k + 1, Len(s))[i] = s[k + i]
    OBVIOUS
  <2>3. SubSeq(s, k + 1, Len(s)) \in Seq(Nat)
    OBVIOUS
  <2>. QED BY <1>1, <2>1, <2>2, <2>3
<1>4. PICK a : /\ a = SubSeq(s, 1, k - 1) /\ a \in Seq(Nat) /\ Len(a) = k - 1
              /\ \A i \in 1 .. (k - 1) : a[i] = s[i]
  BY <1>2
<1>5. PICK b : /\ b = SubSeq(s, k + 1, n) /\ b \in Seq(Nat) /\ Len(b) = n - k
              /\ \A i \in 1 .. (n - k) : b[i] = s[k + i]
  BY <1>3
<1>6. RemoveAt(s, k) = a \o b
  BY <1>1, <1>4, <1>5 DEF RemoveAt
<1>7. /\ a \o b \in Seq(Nat) /\ Len(a \o b) = Len(a) + Len(b)
      /\ \A i \in 1 .. (Len(a) + Len(b)) :
           (a \o b)[i] = IF i <= Len(a) THEN a[i] ELSE b[i - Len(a)]
  <2>1. a \in Seq(Nat) /\ b \in Seq(Nat)
    BY <1>4, <1>5
  <2>. QED BY <2>1
<1>8. Len(a) = k - 1 /\ Len(b) = n - k /\ k \in Int
  BY <1>1, <1>4, <1>5
<1>9. Len(a) + Len(b) = n - 1
  BY <1>8
<1>10. ASSUME NEW i \in 1 .. (n - 1)
       PROVE  (a \o b)[i] = IF i < k THEN s[i] ELSE s[i + 1]
  <2>1. (a \o b)[i] = IF i <= Len(a) THEN a[i] ELSE b[i - Len(a)]
    BY <1>7, <1>9
  <2>2. CASE i < k
    <3>1. i <= Len(a) /\ i \in 1 .. (k - 1)
      BY <1>8, <2>2
    <3>. QED BY <1>4, <2>1, <2>2, <3>1
  <2>3. CASE ~(i < k)
    <3>1. ~(i <= Len(a)) /\ i - Len(a) \in 1 .. (n - k) /\ k + (i - Len(a)) = i + 1
      BY <1>8, <2>3
    <3>. QED BY <1>5, <2>1, <2>3, <3>1
  <2>. QED BY <2>2, <2>3
<1>. QED BY <1>1, <1>6, <1>7, <1>9, <1>10

\* Taking a payment away takes its amount off the sum.
LEMMA SommeDeRetire ==
  ASSUME NEW s \in Seq(Nat), NEW k \in DOMAIN s
  PROVE  SommeDe(RemoveAt(s, k)) = SommeDe(s) - s[k] /\ RemoveAt(s, k) \in Seq(Nat)
<1>. DEFINE n == Len(s)
            u == RemoveAt(s, k)
<1>1. n \in Nat \ {0} /\ k \in 1 .. n /\ n - 1 \in Nat /\ \A i \in 1 .. n : s[i] \in Nat
  OBVIOUS
<1>2. u \in Seq(Nat) /\ Len(u) = n - 1 /\ \A i \in 1 .. (n - 1) : u[i] = IF i < k THEN s[i] ELSE s[i + 1]
  BY RetireValeurs
<1>. HIDE DEF n, u
<1>3. \A i \in 1 .. (n - 1) : u[i] \in Nat
  BY <1>1, <1>2
<1>. DEFINE B == {i \in 0 .. (n - 1) : SommeDebut(u, i) = IF i < k THEN SommeDebut(s, i)
                                                      ELSE SommeDebut(s, i + 1) - s[k]}
<1>4. /\ SommeDebut(s, 0) = 0 /\ SommeDebut(u, 0) = 0
      /\ \A i \in 1 .. n : SommeDebut(s, i) = SommeDebut(s, i - 1) + s[i]
      /\ \A i \in 0 .. n : SommeDebut(s, i) \in Nat
      /\ \A i \in 1 .. (n - 1) : SommeDebut(u, i) = SommeDebut(u, i - 1) + u[i]
  BY <1>1, <1>3, DebutPasAPas
<1>5. 0 \in B
  BY <1>1, <1>4
<1>6. ASSUME NEW i \in 1 .. (n - 1), i - 1 \in B PROVE i \in B
  <2>0. SommeDebut(u, i) = SommeDebut(u, i - 1) + u[i]
    BY <1>4
  <2>1. CASE i < k
    <3>1. i - 1 < k /\ i \in 1 .. n
      BY <1>1, <2>1
    <3>2. SommeDebut(u, i - 1) = SommeDebut(s, i - 1) /\ u[i] = s[i]
      BY <1>2, <1>6, <2>1, <3>1
    <3>3. SommeDebut(s, i) = SommeDebut(s, i - 1) + s[i]
      BY <1>4, <3>1
    <3>4. SommeDebut(u, i) = SommeDebut(s, i)
      BY <2>0, <3>2, <3>3
    <3>. QED BY <2>1, <3>4
  <2>2. CASE i = k
    <3>1. i - 1 < k /\ i \in 1 .. n /\ i + 1 \in 1 .. n /\ (i + 1) - 1 = i
      BY <1>1, <2>2
    <3>2. SommeDebut(u, i - 1) = SommeDebut(s, i - 1) /\ u[i] = s[i + 1] /\ ~(i < k)
      <4>1. ~(i < k)
        BY <1>1, <2>2
      <4>2. SommeDebut(u, i - 1) = SommeDebut(s, i - 1)
        BY <1>6, <3>1
      <4>3. u[i] = s[i + 1]
        BY <1>2, <4>1
      <4>. QED BY <4>1, <4>2, <4>3
    <3>3. /\ SommeDebut(s, i) = SommeDebut(s, i - 1) + s[k]
          /\ SommeDebut(s, i + 1) = SommeDebut(s, i) + s[i + 1]
      BY <1>4, <2>2, <3>1
    <3>4. SommeDebut(s, i - 1) \in Nat /\ s[k] \in Nat /\ s[i + 1] \in Nat
      BY <1>1, <1>4, <3>1
    <3>5. SommeDebut(u, i) = SommeDebut(s, i + 1) - s[k]
      BY <1>1, <2>0, <3>1, <3>2, <3>3, <3>4
    <3>. QED BY <3>2, <3>5
  <2>3. CASE i > k
    <3>1. ~(i - 1 < k) /\ ~(i < k) /\ i \in 1 .. n /\ i + 1 \in 1 .. n /\ (i - 1) + 1 = i /\ (i + 1) - 1 = i
      BY <1>1, <2>3
    <3>2. SommeDebut(u, i - 1) = SommeDebut(s, i) - s[k] /\ u[i] = s[i + 1]
      BY <1>1, <1>2, <1>6, <2>3, <3>1
    <3>3. SommeDebut(s, i + 1) = SommeDebut(s, i) + s[i + 1]
      BY <1>4, <3>1
    <3>4. SommeDebut(s, i) \in Nat /\ s[k] \in Nat /\ s[i + 1] \in Nat
      BY <1>1, <1>4, <3>1
    <3>5. SommeDebut(u, i) = SommeDebut(s, i + 1) - s[k]
      BY <1>1, <2>0, <3>1, <3>2, <3>3, <3>4
    <3>. QED BY <3>1, <3>5
  <2>. QED BY <1>1, <2>1, <2>2, <2>3
<1>7. n - 1 \in B
  <2>. HIDE DEF B
  <2>1. \A i \in 0 .. (n - 1) : i \in B
    BY <1>1, <1>5, <1>6, RecurrenceBornee
  <2>. QED BY <1>1, <2>1
<1>8. SommeDebut(u, n - 1) = SommeDebut(s, n) - s[k]
  <2>1. CASE k = n
    <3>1. n - 1 < k /\ n \in 1 .. n
      BY <1>1, <2>1
    <3>2. SommeDebut(s, n) = SommeDebut(s, n - 1) + s[k] /\ SommeDebut(s, n - 1) \in Nat /\ s[k] \in Nat
      BY <1>1, <1>4, <2>1, <3>1
    <3>. QED BY <1>7, <3>1, <3>2
  <2>2. CASE k # n
    <3>1. ~(n - 1 < k) /\ (n - 1) + 1 = n
      BY <1>1, <2>2
    <3>. QED BY <1>7, <3>1
  <2>. QED BY <2>1, <2>2
<1>9. SommeDe(u) = SommeDebut(u, n - 1) /\ SommeDe(s) = SommeDebut(s, n)
  BY <1>2 DEF SommeDe, n
<1>. QED BY <1>2, <1>8, <1>9 DEF u

\* What one instalment takes of a balance that fills them one after the other.
LEMMA Remplissage ==
  ASSUME NEW a \in Nat, NEW c \in Nat, NEW m \in Nat
  PROVE  /\ Positif(a - c) - Positif(Moindre(Positif(a - c), m)) = Positif(a - (c + m))
         /\ Positif(Moindre(Positif(a - c), m)) = Commun(0, a, c, c + m)
BY DEF Positif, Moindre, Commun

\* Whatever the schedule, the balance covers the part of each instalment that
\* lies below it.
LEMMA RepartirSurLaLigne ==
  ASSUME NEW s \in Seq(Nat), NEW a \in Nat
  PROVE  Repartir(s, a) = [i \in 1 .. Len(s) |->
           Commun(0, a, SommeDebut(s, i - 1), SommeDebut(s, i - 1) + s[i])]
<1>. DEFINE E(f) == [i \in 0 .. Len(s) |->
                       IF i = 0 THEN a
                       ELSE f[i - 1] - Positif(Moindre(f[i - 1], s[i]))]
            c == CHOOSE f : f = E(f)
            w == [i \in 0 .. Len(s) |-> Positif(a - SommeDebut(s, i))]
<1>1. Len(s) \in Nat /\ \A i \in 1 .. Len(s) : s[i] \in Nat
  OBVIOUS
<1>2. /\ SommeDebut(s, 0) = 0
      /\ \A i \in 1 .. Len(s) : SommeDebut(s, i) = SommeDebut(s, i - 1) + s[i]
      /\ \A i \in 0 .. Len(s) : SommeDebut(s, i) \in Nat
  BY <1>1, DebutPasAPas
<1>3. \A i \in 1 .. Len(s) : i - 1 \in 0 .. Len(s) /\ i \in 0 .. Len(s) /\ i # 0
  BY <1>1
<1>4. w[0] = a /\ \A i \in 1 .. Len(s) : w[i - 1] - Positif(Moindre(w[i - 1], s[i])) = w[i]
  <2>1. w[0] = a
    BY <1>1, <1>2 DEF Positif
  <2>2. ASSUME NEW i \in 1 .. Len(s)
        PROVE  w[i - 1] - Positif(Moindre(w[i - 1], s[i])) = w[i]
    <3>1. w[i - 1] = Positif(a - SommeDebut(s, i - 1)) /\ w[i] = Positif(a - SommeDebut(s, i))
      BY <1>3
    <3>2. SommeDebut(s, i - 1) \in Nat /\ s[i] \in Nat /\ SommeDebut(s, i) = SommeDebut(s, i - 1) + s[i]
      BY <1>1, <1>2, <1>3
    <3>. HIDE DEF w
    <3>3. PICK d \in Nat, m \in Nat : d = SommeDebut(s, i - 1) /\ m = s[i]
      BY <3>2
    <3>4. Positif(a - d) - Positif(Moindre(Positif(a - d), m)) = Positif(a - (d + m))
      BY Remplissage
    <3>5. w[i - 1] = Positif(a - d) /\ w[i] = Positif(a - (d + m))
      BY <3>1, <3>2, <3>3
    <3>. QED BY <3>3, <3>4, <3>5
  <2>. QED BY <2>1, <2>2
<1>5. w = E(w)
  <2>1. w = [i \in 0 .. Len(s) |-> w[i]] /\ \A i \in 0 .. Len(s) : i = 0 \/ i \in 1 .. Len(s)
    OBVIOUS
  <2>. HIDE DEF w
  <2>2. \A i \in 0 .. Len(s) : w[i] = IF i = 0 THEN a ELSE w[i - 1] - Positif(Moindre(w[i - 1], s[i]))
    BY <1>4, <2>1
  <2>. QED BY <2>1, <2>2
<1>6. c = E(c)
  <2>. HIDE DEF E, w
  <2>. QED BY <1>5, Zenon
<1>7. \A i \in 0 .. Len(s) : c[i] = w[i]
  <2>. HIDE DEF c, w
  <2>. DEFINE B == {i \in 0 .. Len(s) : c[i] = w[i]}
  <2>1. 0 \in B
    BY <1>1, <1>4, <1>6
  <2>2. ASSUME NEW i \in 1 .. Len(s), i - 1 \in B PROVE i \in B
    <3>1. c[i] = c[i - 1] - Positif(Moindre(c[i - 1], s[i]))
      BY <1>3, <1>6
    <3>. QED BY <1>3, <1>4, <2>2, <3>1
  <2>3. \A i \in 0 .. Len(s) : i \in B
    <3>. HIDE DEF B
    <3>. QED BY <1>1, <2>1, <2>2, RecurrenceBornee
  <2>. QED BY <2>3
<1>8. Repartir(s, a) = [i \in 1 .. Len(s) |-> Positif(Moindre(c[i - 1], s[i]))]
  BY Zenon DEF Repartir
<1>9. ASSUME NEW i \in 1 .. Len(s)
      PROVE  Positif(Moindre(c[i - 1], s[i]))
               = Commun(0, a, SommeDebut(s, i - 1), SommeDebut(s, i - 1) + s[i])
  <2>1. c[i - 1] = Positif(a - SommeDebut(s, i - 1))
    <3>. HIDE DEF c
    <3>. QED BY <1>3, <1>7
  <2>2. SommeDebut(s, i - 1) \in Nat /\ s[i] \in Nat
    BY <1>1, <1>2, <1>3
  <2>. HIDE DEF c
  <2>3. PICK d \in Nat, m \in Nat : d = SommeDebut(s, i - 1) /\ m = s[i]
    BY <2>2
  <2>4. Positif(Moindre(Positif(a - d), m)) = Commun(0, a, d, d + m)
    BY Remplissage
  <2>. QED BY <2>1, <2>3, <2>4
<1>. HIDE DEF c
<1>. QED BY <1>8, <1>9

Regle == participation.regle
EnAttente == SommeDe(engages)
Tranches == cotisation.tranches
AvantTranche(i) == SommeDebut(Tranches, i - 1)

\* The amounts the schedule is worked out from.
LEMMA MontantsTypes ==
  ASSUME TypeOKEcheances
  PROVE  /\ participation.du \in Nat /\ Regle \in Nat /\ EnAttente \in Nat
         /\ Tranches \in Seq(Nat) /\ Len(Tranches) \in Nat
         /\ \A i \in 1 .. Len(Tranches) :
              /\ Tranches[i] \in Nat /\ AvantTranche(i) \in Nat
              /\ SommeDebut(Tranches, i) = AvantTranche(i) + Tranches[i]
         /\ SommeDebut(Tranches, 0) = 0
<1>1. Tranches \in Seq(MontantsEcheances) /\ MontantsEcheances \subseteq Nat
  BY EcheancesAssumption DEF TypeOKEcheances, Tranches
<1>2. Tranches \in Seq(Nat) /\ Len(Tranches) \in Nat /\ \A i \in 1 .. Len(Tranches) : Tranches[i] \in Nat
  <2>1. Len(Tranches) \in Nat /\ Tranches \in [1 .. Len(Tranches) -> MontantsEcheances]
    BY <1>1
  <2>2. Tranches \in [1 .. Len(Tranches) -> Nat]
    BY <1>1, <2>1
  <2>. QED BY <2>1, <2>2
<1>3. engages \in Seq(Nat)
  BY DEF TypeOKEcheances
<1>4. EnAttente \in Nat
  <2>1. 0 \in Nat
    OBVIOUS
  <2>. QED BY <1>3, <2>1, SommeDeAjoute DEF EnAttente
<1>5. participation.du \in Nat /\ Regle \in Nat
  BY DEF TypeOKEcheances, Regle
<1>6. /\ \A i \in 1 .. Len(Tranches) :
           SommeDebut(Tranches, i) = SommeDebut(Tranches, i - 1) + Tranches[i]
      /\ \A i \in 0 .. Len(Tranches) : SommeDebut(Tranches, i) \in Nat
      /\ SommeDebut(Tranches, 0) = 0
  BY <1>2, DebutPasAPas
<1>7. \A i \in 1 .. Len(Tranches) : i - 1 \in 0 .. Len(Tranches)
  BY <1>2
<1>. QED BY <1>2, <1>4, <1>5, <1>6, <1>7 DEF AvantTranche

\* The interval of an instalment, cut by the balance and by what is engaged.
LEMMA Coupe ==
  ASSUME NEW r \in Nat, NEW e \in Nat, r <= e, NEW c \in Nat, NEW d \in Nat, c <= d
  PROVE  /\ Commun(0, e, c, d) - Commun(0, r, c, d) = Commun(r, e, c, d)
         /\ Commun(0, r, c, d) + Commun(r, e, c, d) = Commun(0, e, c, d)
         /\ Commun(0, r, c, d) \in Nat /\ Commun(r, e, c, d) \in Nat
         /\ (d - c) - Commun(0, e, c, d) \in Nat
         /\ d - c <= Commun(0, r, c, d) => (d - c) - Commun(0, e, c, d) = 0
         /\ Positif(c - e) + ((d - c) - Commun(0, e, c, d)) = Positif(d - e)
BY DEF Commun, Positif, Moindre

\* What the schedule shows of an instalment.
LEMMA TrancheVaut ==
  ASSUME TypeOKEcheances
  PROVE  /\ DOMAIN Avancement.tranches = 1 .. Len(Tranches)
         /\ \A i \in 1 .. Len(Tranches) :
              LET t == Avancement.tranches[i]
                  c == AvantTranche(i)
                  m == Tranches[i]
              IN  /\ t.montant = m
                  /\ t.regle = Commun(0, Regle, c, c + m)
                  /\ t.enAttente = Commun(Regle, Regle + EnAttente, c, c + m)
                  /\ t.soldee = (t.regle >= m)
                  /\ Capacite(t) = m - Commun(0, Regle + EnAttente, c, c + m)
                  /\ Capacite(t) \in Nat
                  /\ t.soldee => Capacite(t) = 0
<1>1. /\ participation.du \in Nat /\ Regle \in Nat /\ EnAttente \in Nat
      /\ Tranches \in Seq(Nat) /\ Len(Tranches) \in Nat
      /\ \A i \in 1 .. Len(Tranches) : Tranches[i] \in Nat /\ AvantTranche(i) \in Nat
  BY MontantsTypes
<1>. DEFINE impute == Repartir(Tranches, Regle)
            engage == Repartir(Tranches, Regle + EnAttente)
<1>2. Avancement.tranches =
        [i \in 1 .. Len(Tranches) |-> [montant   |-> Tranches[i],
                                       regle     |-> impute[i],
                                       enAttente |-> engage[i] - impute[i],
                                       soldee    |-> impute[i] >= Tranches[i]]]
  BY DEF Avancement, calculerAvancement, Regle, EnAttente, Tranches
<1>3. impute = [i \in 1 .. Len(Tranches) |->
                  Commun(0, Regle, AvantTranche(i), AvantTranche(i) + Tranches[i])]
  BY <1>1, RepartirSurLaLigne DEF AvantTranche
<1>4. engage = [i \in 1 .. Len(Tranches) |->
                  Commun(0, Regle + EnAttente, AvantTranche(i), AvantTranche(i) + Tranches[i])]
  <2>1. Regle + EnAttente \in Nat
    BY <1>1
  <2>. QED BY <1>1, <2>1, RepartirSurLaLigne DEF AvantTranche
<1>. HIDE DEF impute, engage
<1>5. DOMAIN Avancement.tranches = 1 .. Len(Tranches)
  BY <1>2
<1>6. ASSUME NEW i \in 1 .. Len(Tranches)
      PROVE  LET t == Avancement.tranches[i]
                 c == AvantTranche(i)
                 m == Tranches[i]
             IN  /\ t.montant = m
                 /\ t.regle = Commun(0, Regle, c, c + m)
                 /\ t.enAttente = Commun(Regle, Regle + EnAttente, c, c + m)
                 /\ t.soldee = (t.regle >= m)
                 /\ Capacite(t) = m - Commun(0, Regle + EnAttente, c, c + m)
                 /\ Capacite(t) \in Nat
                 /\ t.soldee => Capacite(t) = 0
  <2>1. PICK r \in Nat, a \in Nat, c \in Nat, m \in Nat :
           r = Regle /\ a = EnAttente /\ c = AvantTranche(i) /\ m = Tranches[i]
    BY <1>1
  <2>2. PICK t : t = Avancement.tranches[i]
    OBVIOUS
  <2>3. t = [montant |-> m, regle |-> impute[i], enAttente |-> engage[i] - impute[i],
             soldee |-> impute[i] >= m]
    BY <1>2, <2>1, <2>2
  <2>4. impute[i] = Commun(0, r, c, c + m) /\ engage[i] = Commun(0, r + a, c, c + m)
    BY <1>3, <1>4, <2>1
  <2>5. /\ t.montant = m /\ t.regle = Commun(0, r, c, c + m)
        /\ t.enAttente = Commun(0, r + a, c, c + m) - Commun(0, r, c, c + m)
        /\ t.soldee = (t.regle >= m)
    BY <2>3, <2>4
  <2>6. PICK e \in Nat, d \in Nat : e = r + a /\ d = c + m /\ r <= e /\ c <= d /\ d - c = m
    BY SMT
  <2>7. /\ Commun(0, e, c, d) - Commun(0, r, c, d) = Commun(r, e, c, d)
        /\ Commun(0, r, c, d) + Commun(r, e, c, d) = Commun(0, e, c, d)
        /\ Commun(0, r, c, d) \in Nat /\ Commun(r, e, c, d) \in Nat
        /\ (d - c) - Commun(0, e, c, d) \in Nat
        /\ d - c <= Commun(0, r, c, d) => (d - c) - Commun(0, e, c, d) = 0
    <3>1. r <= e /\ c <= d
      BY <2>6
    <3>2. Commun(0, e, c, d) - Commun(0, r, c, d) = Commun(r, e, c, d)
      BY <3>1, Coupe
    <3>3. Commun(0, r, c, d) + Commun(r, e, c, d) = Commun(0, e, c, d)
      BY <3>1, Coupe
    <3>4. Commun(0, r, c, d) \in Nat /\ Commun(r, e, c, d) \in Nat
      BY <3>1, Coupe
    <3>5. (d - c) - Commun(0, e, c, d) \in Nat
      BY <3>1, Coupe
    <3>6. d - c <= Commun(0, r, c, d) => (d - c) - Commun(0, e, c, d) = 0
      BY <3>1, Coupe
    <3>. QED BY <3>2, <3>3, <3>4, <3>5, <3>6
  <2>8. /\ t.montant = m /\ t.regle = Commun(0, r, c, d) /\ t.enAttente = Commun(r, e, c, d)
        /\ t.soldee = (t.regle >= m)
    BY <2>5, <2>6, <2>7
  <2>9. Capacite(t) = m - Commun(0, e, c, d)
    BY <2>7, <2>8 DEF Capacite
  <2>10. Capacite(t) \in Nat /\ (t.soldee => Capacite(t) = 0)
    BY <2>6, <2>7, <2>8, <2>9
  <2>. QED BY <2>1, <2>2, <2>6, <2>8, <2>9, <2>10
<1>. QED BY <1>5, <1>6

\* The instalments lie on the line of money.
LEMMA RepartitionTient == TypeOKEcheances => RepartitionDansLOrdre
<1>. SUFFICES ASSUME TypeOKEcheances, NEW i \in 1 .. Len(Tranches)
              PROVE  /\ Avancement.tranches[i].regle
                          = Commun(0, Regle, AvantTranche(i), SommeDebut(Tranches, i))
                     /\ Avancement.tranches[i].enAttente
                          = Commun(Regle, Regle + EnAttente, AvantTranche(i), SommeDebut(Tranches, i))
  <2>1. TypeOKEcheances => DOMAIN cotisation.tranches = 1 .. Len(Tranches)
    BY DEF TypeOKEcheances, Tranches
  <2>. QED BY <2>1 DEF RepartitionDansLOrdre, Regle, EnAttente, Tranches, AvantTranche
<1>1. SommeDebut(Tranches, i) = AvantTranche(i) + Tranches[i]
  BY MontantsTypes
<1>. QED BY <1>1, TrancheVaut

\* What is left to take of each instalment.
Capacites == [i \in 1 .. Len(Tranches) |-> Capacite(Avancement.tranches[i])]
ResteDu == Disponible(Avancement)

\* The instalments with something left are those with some capacity.
LEMMA CapacitesTypees ==
  ASSUME TypeOKEcheances
  PROVE  /\ IsFiniteSet(1 .. Len(Tranches)) /\ \A i \in 1 .. Len(Tranches) : Capacites[i] \in Nat
         /\ ARegler(Avancement.tranches) \subseteq 1 .. Len(Tranches)
         /\ \A i \in ARegler(Avancement.tranches) : Capacites[i] > 0
         /\ \A i \in (1 .. Len(Tranches)) \ ARegler(Avancement.tranches) : Capacites[i] = 0
<1>1. IsFiniteSet(1 .. Len(Tranches))
  BY MontantsTypes, FS_Interval
<1>2. /\ DOMAIN Avancement.tranches = 1 .. Len(Tranches)
      /\ \A i \in 1 .. Len(Tranches) :
           /\ Capacite(Avancement.tranches[i]) \in Nat
           /\ Avancement.tranches[i].soldee => Capacite(Avancement.tranches[i]) = 0
  BY TrancheVaut
<1>. QED BY <1>1, <1>2 DEF Capacites, ARegler

\* Together the instalments have left what the schedule adds up to, less what is
\* engaged.
LEMMA CapacitesSomme ==
  ASSUME TypeOKEcheances
  PROVE  Somme(Capacites, 1 .. Len(Tranches)) = Positif(SommeDe(Tranches) - (Regle + EnAttente))
<1>1. /\ Regle \in Nat /\ EnAttente \in Nat /\ Len(Tranches) \in Nat
      /\ SommeDebut(Tranches, 0) = 0
      /\ \A i \in 1 .. Len(Tranches) :
           /\ Tranches[i] \in Nat /\ AvantTranche(i) \in Nat
           /\ SommeDebut(Tranches, i) = AvantTranche(i) + Tranches[i]
  BY MontantsTypes
<1>2. PICK n \in Nat, e \in Nat : n = Len(Tranches) /\ e = Regle + EnAttente
  BY <1>1
<1>3. /\ \A i \in 1 .. n : SommeDebut(Capacites, i) = SommeDebut(Capacites, i - 1) + Capacites[i]
      /\ SommeDebut(Capacites, 0) = 0
  BY <1>2, CapacitesTypees, DebutPasAPas
<1>. DEFINE B == {i \in 0 .. n : SommeDebut(Capacites, i) = Positif(SommeDebut(Tranches, i) - e)}
<1>4. 0 \in B
  BY <1>1, <1>3 DEF Positif
<1>5. ASSUME NEW i \in 1 .. n, i - 1 \in B PROVE i \in B
  <2>1. PICK c \in Nat, d \in Nat :
           c = AvantTranche(i) /\ d = SommeDebut(Tranches, i) /\ c <= d /\ Tranches[i] = d - c
                               /\ d = c + Tranches[i]
    BY <1>1, <1>2
  <2>2. Capacites[i] = Tranches[i] - Commun(0, e, c, c + Tranches[i])
    BY <1>2, <2>1, TrancheVaut DEF Capacites
  <2>3. Capacites[i] = (d - c) - Commun(0, e, c, d)
    BY <2>1, <2>2
  <2>4. SommeDebut(Capacites, i - 1) = Positif(c - e)
    BY <1>5, <2>1 DEF AvantTranche
  <2>5. Positif(c - e) + ((d - c) - Commun(0, e, c, d)) = Positif(d - e)
    <3>1. e <= e /\ c <= d
      BY <2>1
    <3>. QED BY <3>1, Coupe
  <2>6. SommeDebut(Capacites, i) = Positif(d - e)
    BY <1>3, <2>3, <2>4, <2>5
  <2>7. SommeDebut(Capacites, i) = Positif(SommeDebut(Tranches, i) - e) /\ i \in 0 .. n
    BY <2>1, <2>6
  <2>. QED BY <2>7
<1>6. n \in B
  <2>. HIDE DEF B
  <2>1. \A i \in 0 .. n : i \in B
    BY <1>2, <1>4, <1>5, RecurrenceBornee
  <2>. QED BY <1>2, <2>1
<1>. QED BY <1>2, <1>6, DebutEstSomme DEF SommeDe

\* What is left to engage.
LEMMA ResteVaut ==
  ASSUME TypeOKEcheances
  PROVE  /\ ResteDu \in Nat
         /\ ResteDu = Positif(participation.du - (Regle + EnAttente))
<1>1. participation.du \in Nat /\ Regle \in Nat /\ EnAttente \in Nat
  BY MontantsTypes
<1>2. ResteDu = Positif(Positif(participation.du - Regle) - EnAttente)
  BY DEF ResteDu, Disponible, Avancement, calculerAvancement, Regle, EnAttente
<1>. QED BY <1>1, <1>2 DEF Positif

\* The instalments that may be proposed, and the whole of what is left.
ParTranche(i) ==
  echeance(i, Capacites[i], TRUE,
           cotisation.statut = "OUVERTE" /\ \A j \in ARegler(Avancement.tranches) : i <= j)
ParTranches == {ParTranche(i) : i \in ARegler(Avancement.tranches)}
EnTout ==
  echeance(Totalite, ResteDu, cotisation.fractionnable /\ Avancement.tranches = << >>,
           cotisation.statut = "OUVERTE")

\* The two, one of them, or nothing, when nothing is left.
LEMMA ProposeesSont ==
  ASSUME TypeOKEcheances
  PROVE  /\ ResteDu = 0 => Proposees = {}
         /\ \/ ResteDu = 0
            \/ Proposees = {EnTout}
            \/ Proposees = ParTranches \cup {EnTout}
            \/ Proposees = ParTranches /\ VautLeReste(ParTranches, ResteDu)
<1>1. EcheancesDesTranches(Avancement.tranches, cotisation.statut = "OUVERTE") = ParTranches
  <2>1. \A i \in ARegler(Avancement.tranches) :
          Capacites[i] = Capacite(Avancement.tranches[i])
    BY CapacitesTypees DEF Capacites
  <2>. QED BY <2>1 DEF EcheancesDesTranches, ParTranches, ParTranche
<1>2. ~VautLeReste({}, ResteDu)
  BY DEF VautLeReste
<1>3. /\ Proposees = IF ResteDu = 0 THEN {}
                     ELSE IF VautLeReste(IF cotisation.fractionnable THEN ParTranches ELSE {}, ResteDu)
                     THEN IF cotisation.fractionnable THEN ParTranches ELSE {}
                     ELSE (IF cotisation.fractionnable THEN ParTranches ELSE {}) \cup {EnTout}
  BY <1>1 DEF Proposees, echeancesPayables, EnTout, ResteDu
<1>. QED BY <1>2, <1>3

\* The sum of the amounts of some of them, as the model writes it.
CumulEcheances(E) ==
  (CHOOSE it : it = [s \in SUBSET E |->
     IF s = {} THEN 0
     ELSE (CHOOSE x \in s : TRUE).montant + it[s \ {CHOOSE x \in s : TRUE}]])[E]

\* It is the sum of those amounts.
LEMMA CumulEcheancesSomme ==
  ASSUME NEW S, IsFiniteSet(S), NEW g, \A x \in S : g[x] = x.montant
  PROVE  CumulEcheances(S) = Somme(g, S)
<1>. DEFINE E(it) == [s \in SUBSET S |-> IF s = {} THEN 0
                        ELSE (CHOOSE x \in s : TRUE).montant + it[s \ {CHOOSE x \in s : TRUE}]]
            c == CHOOSE it : it = E(it)
<1>1. CumulEcheances(S) = c[S]
  BY DEF CumulEcheances
<1>2. \A it : Deroule(it, g, S) <=> it = E(it)
  <2>1. \A s \in SUBSET S : s # {} =>
          g[CHOOSE x \in s : TRUE] = (CHOOSE x \in s : TRUE).montant
    OBVIOUS
  <2>2. ASSUME NEW it
        PROVE  [s \in SUBSET S |-> Pas(it, g, s)] = E(it)
    BY <2>1 DEF Pas, Choix
  <2>. HIDE DEF E
  <2>. QED BY <2>2 DEF Deroule
<1>3. Deroule(c, g, S)
  <2>1. \E it : it = E(it)
    <3>. HIDE DEF E
    <3>. QED BY <1>2, SommeExiste
  <2>. HIDE DEF E
  <2>2. c = E(c)
    BY <2>1, Zenon
  <2>. HIDE DEF c
  <2>. QED BY <1>2, <2>2
<1>. HIDE DEF c
<1>4. c[S] = Somme(g, S)
  <2>1. S \in SUBSET S /\ \A x \in S : g[x] = g[x]
    OBVIOUS
  <2>2. \A it : Deroule(it, g, S) => it[S] = Somme(g, S)
    BY <2>1, SommePartielle
  <2>. QED BY <1>3, <2>2
<1>. QED BY <1>1, <1>4

\* It is what the property writes.
LEMMA MontantsEstCumul ==
  ASSUME NEW S
  PROVE  MapThenSumSet(LAMBDA e : e.montant, S) = CumulEcheances(S)
BY Zenon DEF CumulEcheances, MapThenSumSet, MapThenFoldSet

\* The instalments proposed add up to what is left, on a schedule that adds up to
\* what is due.
LEMMA ParTranchesSomme ==
  ASSUME TypeOKEcheances, Conforme, Tranches # << >>
  PROVE  /\ Somme(Capacites, 1 .. Len(Tranches)) = ResteDu
         /\ MapThenSumSet(LAMBDA e : e.montant, ParTranches) = ResteDu
<1>1. SommeDe(Tranches) = participation.du
  BY DEF Conforme, verifierTranches, Tranches
<1>2. Somme(Capacites, 1 .. Len(Tranches)) = ResteDu
  BY <1>1, CapacitesSomme, ResteVaut
<1>. DEFINE R == ARegler(Avancement.tranches)
            f == [i \in R |-> ParTranche(i)]
            g == [e \in ParTranches |-> e.montant]
<1>3. R \subseteq 1 .. Len(Tranches) /\ IsFiniteSet(R)
  BY CapacitesTypees, FS_Subset
<1>4. ParTranches = {f[i] : i \in R}
  BY DEF ParTranches
<1>5. \A i, j \in R : f[i] = f[j] => i = j
  BY DEF ParTranche, echeance
<1>6. \A i \in R : Capacites[i] \in Int /\ g[f[i]] = Capacites[i]
  <2>1. \A i \in R : f[i] \in ParTranches /\ f[i].montant = Capacites[i]
    BY DEF ParTranches, ParTranche, echeance
  <2>2. \A i \in R : Capacites[i] \in Int
    BY <1>3, CapacitesTypees
  <2>. HIDE DEF f, R
  <2>. QED BY <2>1, <2>2
<1>. HIDE DEF R, f, g
<1>7. IsFiniteSet({f[i] : i \in R}) /\ Somme(g, {f[i] : i \in R}) = Somme(Capacites, R)
  <2>1. IsFiniteSet(R)
    BY <1>3
  <2>. QED BY <1>5, <1>6, <2>1, SommeRenommee
<1>8. IsFiniteSet(ParTranches) /\ Somme(g, ParTranches) = Somme(Capacites, R)
  BY <1>4, <1>7
<1>9. Somme(Capacites, R) = Somme(Capacites, 1 .. Len(Tranches))
  <2>1. PICK S : S = 1 .. Len(Tranches)
    OBVIOUS
  <2>2. IsFiniteSet(S) /\ R \in SUBSET S
    BY <1>3, <2>1, CapacitesTypees
  <2>3. \A i \in R : Capacites[i] \in Int /\ Capacites[i] = Capacites[i]
    BY <1>6
  <2>4. \A i \in S \ R : Capacites[i] = 0
    BY <2>1, CapacitesTypees DEF R
  <2>5. Somme(Capacites, R) = Somme(Capacites, S)
    BY <2>2, <2>3, <2>4, SommeFiltre
  <2>. QED BY <2>1, <2>5
<1>10. CumulEcheances(ParTranches) = Somme(g, ParTranches)
  <2>1. \A e \in ParTranches : g[e] = e.montant
    BY DEF g
  <2>. QED BY <1>8, <2>1, CumulEcheancesSomme
<1>. QED BY <1>2, <1>8, <1>9, <1>10, MontantsEstCumul

\* A payable instalment is the first with something left.
LEMMA ParTrancheVaut ==
  ASSUME TypeOKEcheances, NEW i \in ARegler(Avancement.tranches)
  PROVE  /\ i \in Nat \ {0} /\ Capacites[i] \in Nat /\ Capacites[i] > 0
         /\ ParTranche(i).ordre = i /\ ParTranche(i).ordre # Totalite
         /\ ParTranche(i).montant = Capacites[i]
         /\ ParTranche(i).montantMin = Moindre(Plancher, Capacites[i])
         /\ ParTranche(i).payable =>
              /\ \A j \in ARegler(Avancement.tranches) : i <= j
              /\ \A j \in 1 .. i - 1 : Capacite(Avancement.tranches[j]) = 0
<1>1. i \in 1 .. Len(Tranches) /\ Len(Tranches) \in Nat
  BY CapacitesTypees, MontantsTypes
<1>2. Capacites[i] \in Nat /\ Capacites[i] > 0
  BY <1>1, CapacitesTypees
<1>3. /\ ParTranche(i).ordre = i /\ ParTranche(i).montant = Capacites[i]
      /\ ParTranche(i).montantMin = Moindre(Plancher, Capacites[i])
      /\ ParTranche(i).payable = (/\ cotisation.statut = "OUVERTE"
                                  /\ \A j \in ARegler(Avancement.tranches) : i <= j)
  BY DEF ParTranche, echeance
<1>4. ASSUME \A j \in ARegler(Avancement.tranches) : i <= j, NEW j \in 1 .. i - 1
      PROVE  Capacite(Avancement.tranches[j]) = 0
  <2>1. j \in 1 .. Len(Tranches) /\ j \notin ARegler(Avancement.tranches)
    BY <1>1, <1>4
  <2>2. Capacites[j] = 0
    BY <2>1, CapacitesTypees
  <2>. QED BY <2>1, <2>2 DEF Capacites
<1>. QED BY <1>1, <1>2, <1>3, <1>4 DEF Totalite

\* The whole of what is left, where it is proposed.
LEMMA EnToutVaut ==
  /\ EnTout.ordre = 0 /\ EnTout.montant = ResteDu /\ EnTout.montantMin = Moindre(Plancher, ResteDu)
  /\ EnTout.payable = (cotisation.statut = "OUVERTE")
BY DEF EnTout, echeance, Totalite

\* What is proposed is one or the other.
LEMMA ProposeeEst ==
  ASSUME TypeOKEcheances, NEW e \in Proposees
  PROVE  /\ ResteDu > 0
         /\ e = EnTout \/ \E i \in ARegler(Avancement.tranches) : e = ParTranche(i)
<1>1. ResteDu # 0
  BY ProposeesSont
<1>2. ResteDu > 0
  BY <1>1, ResteVaut
<1>3. e = EnTout \/ e \in ParTranches
  BY <1>1, ProposeesSont
<1>. QED BY <1>2, <1>3 DEF ParTranches

\* Both ends of what is shown for a free amount are let in.
LEMMA MinimumAutorise ==
  ASSUME NEW e, e.montant \in Nat, e.montantMin = Moindre(Plancher, e.montant)
  PROVE  Autorise(e, e.montant) /\ (e.libre => Autorise(e, e.montantMin))
<1>1. e.montantMin <= e.montant /\ e.montantMin <= e.montantMin
  BY EcheancesAssumption DEF Moindre
<1>. QED BY <1>1 DEF Autorise

\* While something is left, something may be paid.
LEMMA ResteTient == TypeOKEcheances => ResteToujoursPayable
<1>. SUFFICES ASSUME TypeOKEcheances, cotisation.statut = "OUVERTE", ResteDu > 0
              PROVE  LET payables == {e \in Proposees : e.payable}
                         tranches == {e \in Proposees : e.ordre # Totalite}
                     IN  /\ payables # {}
                         /\ \A e \in payables : /\ Autorise(e, e.montant)
                                                /\ e.libre => Autorise(e, e.montantMin)
                         /\ \A e \in payables : \A i \in 1 .. e.ordre - 1 :
                              Capacite(Avancement.tranches[i]) = 0
                         /\ Conforme /\ tranches # {} =>
                              MapThenSumSet(LAMBDA e : e.montant, tranches) = Disponible(Avancement)
  BY DEF ResteToujoursPayable, ResteDu
<1>. DEFINE payables == {e \in Proposees : e.payable}
            tranches == {e \in Proposees : e.ordre # Totalite}
<1>1. payables # {}
  <2>1. CASE EnTout \in Proposees
    BY <2>1, EnToutVaut
  <2>2. CASE EnTout \notin Proposees
    <3>1. Proposees = ParTranches /\ VautLeReste(ParTranches, ResteDu)
      BY <2>2, ProposeesSont
    <3>2. PICK e \in ParTranches : \A f \in ParTranches : e.ordre <= f.ordre
      BY <3>1 DEF VautLeReste
    <3>3. PICK i \in ARegler(Avancement.tranches) : e = ParTranche(i)
      BY DEF ParTranches
    <3>4. ASSUME NEW j \in ARegler(Avancement.tranches) PROVE i <= j
      <4>1. ParTranche(j) \in ParTranches
        BY DEF ParTranches
      <4>2. ParTranche(i).ordre = i /\ ParTranche(j).ordre = j
        BY ParTrancheVaut
      <4>. QED BY <3>2, <3>3, <4>1, <4>2
    <3>5. ParTranche(i).payable
      BY <3>4 DEF ParTranche, echeance
    <3>. QED BY <3>1, <3>3, <3>5
  <2>. QED BY <2>1, <2>2
<1>2. ASSUME NEW e \in payables
      PROVE  /\ Autorise(e, e.montant)
             /\ e.libre => Autorise(e, e.montantMin)
  <2>1. e.montant \in Nat /\ e.montantMin = Moindre(Plancher, e.montant)
    <3>1. CASE e = EnTout
      BY <3>1, EnToutVaut, ResteVaut
    <3>2. ASSUME NEW i \in ARegler(Avancement.tranches), e = ParTranche(i)
          PROVE  e.montant \in Nat /\ e.montantMin = Moindre(Plancher, e.montant)
      BY <3>2, ParTrancheVaut
    <3>. QED BY <3>1, <3>2, ProposeeEst
  <2>. QED BY <2>1, MinimumAutorise
<1>3. ASSUME NEW e \in payables, NEW i \in 1 .. e.ordre - 1
      PROVE  Capacite(Avancement.tranches[i]) = 0
  <2>1. CASE e = EnTout
    BY <2>1, EnToutVaut
  <2>2. ASSUME NEW k \in ARegler(Avancement.tranches), e = ParTranche(k)
        PROVE  Capacite(Avancement.tranches[i]) = 0
    <3>1. ParTranche(k).ordre = k /\ ParTranche(k).payable
      BY <2>2, ParTrancheVaut
    <3>2. i \in 1 .. k - 1
      BY <2>2, <3>1
    <3>. QED BY <3>1, <3>2, ParTrancheVaut
  <2>. QED BY <2>1, <2>2, ProposeeEst
<1>4. ASSUME Conforme, tranches # {}
      PROVE  MapThenSumSet(LAMBDA e : e.montant, tranches) = Disponible(Avancement)
  <2>1. EnTout \notin tranches
    BY EnToutVaut DEF Totalite
  <2>2. \A e \in ParTranches : e.ordre # Totalite
    BY ParTrancheVaut DEF ParTranches
  <2>3. Proposees # {EnTout}
    BY <1>4, <2>1
  <2>4. tranches = ParTranches
    BY <1>4, <2>1, <2>2, <2>3, ProposeesSont
  <2>5. Tranches # << >>
    <3>1. PICK e : e \in ParTranches
      BY <1>4, <2>4
    <3>2. PICK i \in ARegler(Avancement.tranches) : TRUE
      BY <3>1 DEF ParTranches
    <3>3. i \in 1 .. Len(Tranches)
      BY CapacitesTypees
    <3>. QED BY <3>3
  <2>6. MapThenSumSet(LAMBDA e : e.montant, ParTranches) = ResteDu
    BY <1>4, <2>5, ParTranchesSomme
  <2>. HIDE DEF tranches
  <2>. QED BY <2>4, <2>6 DEF ResteDu
<1>. QED BY <1>1, <1>2, <1>3, <1>4

\* What a person is let pay fits in what is left, on a schedule that adds up to
\* what is due.
LEMMA VersementTient ==
  ASSUME TypeOKEcheances, Conforme, NEW e \in Proposees, NEW m \in Nat, Verser(e, m)
  PROVE  participation'.regle + SommeDe(engages') <= participation'.du
<1>1. /\ participation.du \in Nat /\ Regle \in Nat /\ EnAttente \in Nat
      /\ ResteDu = Positif(participation.du - (Regle + EnAttente)) /\ ResteDu > 0
  BY MontantsTypes, ResteVaut, ProposeeEst
<1>2. ResteDu = participation.du - (Regle + EnAttente)
  BY <1>1 DEF Positif
<1>3. e.montant \in Nat /\ e.montant <= ResteDu
  <2>1. CASE e = EnTout
    BY <1>1, <2>1, EnToutVaut, ResteVaut
  <2>2. ASSUME NEW i \in ARegler(Avancement.tranches), e = ParTranche(i)
        PROVE  e.montant \in Nat /\ e.montant <= ResteDu
    <3>1. e.montant = Capacites[i] /\ Capacites[i] \in Nat
      BY <2>2, ParTrancheVaut
    <3>2. i \in 1 .. Len(Tranches)
      BY CapacitesTypees
    <3>3. Tranches # << >>
      BY <3>2
    <3>4. PICK S : S = 1 .. Len(Tranches)
      OBVIOUS
    <3>5. IsFiniteSet(S) /\ i \in S /\ \A j \in S : Capacites[j] \in Nat
      BY <3>2, <3>4, CapacitesTypees
    <3>6. Capacites[i] <= Somme(Capacites, S)
      BY <3>5, SommeMajore
    <3>7. Somme(Capacites, S) = ResteDu
      BY <3>3, <3>4, ParTranchesSomme
    <3>. QED BY <3>1, <3>6, <3>7
  <2>. QED BY <2>1, <2>2, ProposeeEst
<1>4. m <= e.montant
  BY <1>3 DEF Verser, Autorise
<1>5. engages \in Seq(Nat) /\ engages' = Append(engages, m) /\ participation' = participation
  BY DEF Verser, TypeOKEcheances
<1>6. SommeDe(engages') = EnAttente + m
  BY <1>5, SommeDeAjoute DEF EnAttente
<1>. QED BY <1>1, <1>2, <1>3, <1>4, <1>5, <1>6 DEF Regle

\* A payment that ends gives back what it engaged.
LEMMA FinAllege ==
  ASSUME TypeOKEcheances, NEW k \in DOMAIN engages, engages' = RemoveAt(engages, k)
  PROVE  /\ ~(SommeDe(engages') > SommeDe(engages))
         /\ engages' \in Seq(Nat \ {0})
<1>1. engages \in Seq(Nat) /\ Len(engages) \in Nat /\ \A i \in 1 .. Len(engages) : engages[i] \in Nat \ {0}
  BY DEF TypeOKEcheances
<1>2. SommeDe(RemoveAt(engages, k)) = SommeDe(engages) - engages[k]
  BY <1>1, SommeDeRetire
<1>3. SommeDe(engages) \in Nat /\ engages[k] \in Nat
  BY <1>1, MontantsTypes DEF EnAttente
<1>4. /\ RemoveAt(engages, k) \in Seq(Nat) /\ Len(RemoveAt(engages, k)) = Len(engages) - 1
      /\ \A i \in 1 .. (Len(engages) - 1) :
           RemoveAt(engages, k)[i] = IF i < k THEN engages[i] ELSE engages[i + 1]
  BY <1>1, RetireValeurs
<1>5. \A i \in 1 .. (Len(engages) - 1) : i \in 1 .. Len(engages) /\ i + 1 \in 1 .. Len(engages)
  BY <1>1
<1>6. PICK u : u = RemoveAt(engages, k)
  OBVIOUS
<1>7. u \in Seq(Nat) /\ Len(u) = Len(engages) - 1 /\ \A i \in 1 .. Len(u) : u[i] \in Nat \ {0}
  BY <1>1, <1>4, <1>5, <1>6
<1>8. u \in Seq(Nat \ {0})
  <2>1. Len(u) \in Nat /\ u \in [1 .. Len(u) -> Nat]
    BY <1>7
  <2>2. u \in [1 .. Len(u) -> Nat \ {0}]
    BY <1>7, <2>1
  <2>. QED BY <2>1, <2>2
<1>. QED BY <1>2, <1>3, <1>6, <1>8

\* A schedule the form accepts is a list of amounts.
LEMMA EcheanciersTypes ==
  ASSUME NEW total, NEW s \in Echeanciers(total)
  PROVE  s \in Seq(MontantsEcheances)
<1>1. s \in SeqOf(MontantsEcheances, MaxTranches)
  BY DEF Echeanciers, BoundedSeq
<1>2. PICK n \in 0 .. MaxTranches : s \in [1 .. n -> MontantsEcheances]
  BY <1>1 DEF SeqOf
<1>. QED BY <1>2, EcheancesAssumption

\* The draft of a contribution.
LEMMA DebutEcheances == InitEcheances => TypeOKEcheances
<1>. SUFFICES ASSUME InitEcheances PROVE TypeOKEcheances
  OBVIOUS
<1>1. PICK total \in MontantsEcheances, f \in BOOLEAN : \E s \in Echeanciers(total) :
        cotisation = [statut |-> "BROUILLON", montantTotal |-> total,
                      tranches |-> s, fractionnable |-> f]
  BY DEF InitEcheances
<1>2. PICK s \in Echeanciers(total) :
        cotisation = [statut |-> "BROUILLON", montantTotal |-> total,
                      tranches |-> s, fractionnable |-> f]
  BY <1>1
<1>3. s \in Seq(MontantsEcheances)
  BY EcheanciersTypes
<1>4. << >> \in Seq(Nat \ {0})
  OBVIOUS
<1>. QED BY <1>2, <1>3, <1>4 DEF InitEcheances, TypeOKEcheances

\* One request after the other: the types stay, and nothing is engaged in excess.
LEMMA EtapeEcheances ==
  ASSUME TypeOKEcheances, [NextEcheances]_varsEcheances
  PROVE  /\ TypeOKEcheances'
         /\ Conforme /\ SommeDe(engages') > SommeDe(engages) =>
              participation'.regle + SommeDe(engages') <= participation'.du
<1>. DEFINE Borne == Conforme /\ SommeDe(engages') > SommeDe(engages) =>
                       participation'.regle + SommeDe(engages') <= participation'.du
<1>1. SommeDe(engages) \in Nat
  BY MontantsTypes DEF EnAttente
<1>2. engages' = engages => Borne
  BY <1>1
<1>3. CASE MettreAJour
  <2>1. PICK total \in MontantsEcheances :
          \E s \in Echeanciers(total) \cup {cotisation.tranches} :
            cotisation' = [cotisation EXCEPT !.montantTotal = total, !.tranches = s]
    BY <1>3 DEF MettreAJour
  <2>2. PICK s \in Echeanciers(total) \cup {cotisation.tranches} :
          cotisation' = [cotisation EXCEPT !.montantTotal = total, !.tranches = s]
    BY <2>1
  <2>3. s \in Seq(MontantsEcheances)
    BY EcheanciersTypes DEF TypeOKEcheances
  <2>. QED BY <1>2, <1>3, <2>2, <2>3 DEF MettreAJour, TypeOKEcheances
<1>4. CASE OuvrirCotisation
  BY <1>2, <1>4, EcheancesAssumption DEF OuvrirCotisation, TypeOKEcheances
<1>5. CASE CloreCotisation
  BY <1>2, <1>5 DEF CloreCotisation, TypeOKEcheances
<1>6. ASSUME NEW e \in Proposees, NEW m \in MontantsEcheances, Verser(e, m)
      PROVE  TypeOKEcheances' /\ Borne
  <2>1. m \in Nat /\ m \in Nat \ {0}
    BY EcheancesAssumption
  <2>2. Borne
    BY <1>6, <2>1, VersementTient
  <2>3. engages' \in Seq(Nat \ {0})
    BY <1>6, <2>1 DEF Verser, TypeOKEcheances
  <2>. QED BY <1>6, <2>2, <2>3 DEF Verser, TypeOKEcheances
<1>7. ASSUME NEW k \in DOMAIN engages, NEW m \in MontantsEcheances \cup {engages[k]}, Crediter(k, m)
      PROVE  TypeOKEcheances' /\ Borne
  <2>1. engages' \in Seq(Nat \ {0}) /\ Borne
    BY <1>7, FinAllege DEF Crediter
  <2>2. m \in Nat
    BY EcheancesAssumption DEF TypeOKEcheances
  <2>3. participation' = [participation EXCEPT !.regle = @ + m] /\ cotisation' = cotisation
    BY <1>7 DEF Crediter
  <2>4. participation' \in [du : Nat, regle : Nat]
    <3>1. PICK d \in Nat, r \in Nat : participation = [du |-> d, regle |-> r]
      BY DEF TypeOKEcheances
    <3>2. participation' = [du |-> d, regle |-> r + m] /\ r + m \in Nat
      BY <2>2, <2>3, <3>1
    <3>. QED BY <3>2
  <2>. QED BY <2>1, <2>3, <2>4 DEF TypeOKEcheances
<1>8. ASSUME NEW k \in DOMAIN engages, Refuser(k)
      PROVE  TypeOKEcheances' /\ Borne
  <2>1. engages' \in Seq(Nat \ {0}) /\ Borne
    BY <1>8, FinAllege DEF Refuser
  <2>. QED BY <1>8, <2>1 DEF Refuser, TypeOKEcheances
<1>9. CASE UNCHANGED varsEcheances
  BY <1>2, <1>9 DEF varsEcheances, TypeOKEcheances
<1>. QED BY <1>3, <1>4, <1>5, <1>6, <1>7, <1>8, <1>9 DEF NextEcheances

\* What the schedule shows as paid and as pending lies in order on one line of
\* money, and while something is left to engage something can be paid: whatever
\* the schedule, the amounts and the number of payments in hand.
THEOREM EcheancierToujoursJuste == SpecEcheances => []EcheancierJuste
<1>1. TypeOKEcheances => EcheancierJuste
  BY RepartitionTient, ResteTient DEF EcheancierJuste
<1>2. TypeOKEcheances /\ [NextEcheances]_varsEcheances => TypeOKEcheances'
  BY EtapeEcheances
<1>. QED BY DebutEcheances, <1>1, <1>2, PTL DEF SpecEcheances

\* A payment that is let in never engages more than what is due.
THEOREM VersementsBornes == SpecEcheances => VersementBorne
<1>1. TypeOKEcheances /\ [NextEcheances]_varsEcheances => TypeOKEcheances'
  BY EtapeEcheances
<1>2. TypeOKEcheances /\ [NextEcheances]_varsEcheances =>
        [Conforme /\ SommeDe(engages') > SommeDe(engages) =>
           participation'.regle + SommeDe(engages') <= participation'.du]_varsEcheances
  BY EtapeEcheances
<1>. QED BY DebutEcheances, <1>1, <1>2, PTL DEF SpecEcheances, VersementBorne

===============================================================================

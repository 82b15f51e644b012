-------------------------------- MODULE Frais --------------------------------
(***************************************************************************)
(* The fees added to a price: calculerFrais and tauxFraisDepuisConfig.     *)
(*                                                                         *)
(* Rates are in thousandths.  The code computes them in floating point and *)
(* rounds up: a result that should be whole may come out a hair above, and *)
(* is then rounded to the next franc; one a hair below is not seen.        *)
(***************************************************************************)
EXTENDS Integers

CONSTANTS PrixMax,        \* bound: the highest price
          TauxPossibles,  \* thousandths the environment may set
          FixesPossibles  \* francs the environment may set

ASSUME FraisAssumption ==
  /\ PrixMax \in Nat
  /\ TauxPossibles \subseteq 0 .. 999
  /\ FixesPossibles \subseteq Nat

VARIABLES bareme, \* the rates read when the server starts
          devis   \* the last computation

varsFrais == <<bareme, devis>>

MethodesPaiement == {"MTN_MOMO", "ORANGE_MONEY"}
METHODE_FRAIS_PAR_DEFAUT == "MTN_MOMO"
Indifferent == "NULL"

TAUX_FRAIS_PAR_DEFAUT ==
  [fapshi |-> 30,
   retraitTaux |-> [MTN_MOMO |-> 15, ORANGE_MONEY |-> 10],
   retraitFixe |-> [MTN_MOMO |-> 4, ORANGE_MONEY |-> 4]]

\* tauxFraisDepuisConfig: each variable is set, or falls back on its default.
tauxFraisDepuisConfig ==
  LET defaut == TAUX_FRAIS_PAR_DEFAUT
      Ou(valeurs, d) == valeurs \cup {d}
  IN  {b \in [fapshi : Ou(TauxPossibles, defaut.fapshi),
              retraitTaux : [MethodesPaiement -> TauxPossibles \cup {15, 10}],
              retraitFixe : [MethodesPaiement -> Ou(FixesPossibles, 4)]] :
         \A m \in MethodesPaiement :
           b.retraitTaux[m] \in Ou(TauxPossibles, defaut.retraitTaux[m])}

Plafond(a, b) == IF a % b = 0 THEN a \div b ELSE a \div b + 1

\* Math.ceil of a quotient computed in floating point.
ArrondiHaut(a, b) == IF a % b = 0 THEN {a \div b, a \div b + 1} ELSE {a \div b + 1}

\* Mutant: the share of the provider is computed on the price alone.
MontantTtc_SurPrix(prix, fraisRetrait, t) ==
  {fraisRetrait + n : n \in ArrondiHaut(prix * 1000, 1000 - t.fapshi)}

\* What is asked for, so that the provider's share leaves the price and the
\* withdrawal: the division comes last, the provider taking its share of all.
MontantTtc(prix, fraisRetrait, t) ==
  ArrondiHaut((prix + fraisRetrait) * 1000, 1000 - t.fapshi)

calculerFrais(prix, methode, t) ==
  LET retenue == IF methode = Indifferent THEN METHODE_FRAIS_PAR_DEFAUT ELSE methode
      retrait == ArrondiHaut(prix * t.retraitTaux[retenue] + t.retraitFixe[retenue] * 1000,
                             1000)
  IN  UNION {{[prixBase |-> prix, methode |-> methode, fraisRetrait |-> f,
               fraisFapshi |-> ttc - prix - f, montantTtc |-> ttc] :
                ttc \in MontantTtc(prix, f, t)} : f \in retrait}

AucunDevis == [prixBase |-> 0, methode |-> Indifferent, fraisRetrait |-> 0,
               fraisFapshi |-> 0, montantTtc |-> 0]

TypeOKFrais ==
  /\ bareme \in tauxFraisDepuisConfig
  /\ {devis.prixBase, devis.fraisRetrait, devis.fraisFapshi, devis.montantTtc} \subseteq Nat
  /\ devis.methode \in MethodesPaiement \cup {Indifferent}

InitFrais ==
  /\ bareme \in tauxFraisDepuisConfig
  /\ devis = AucunDevis

\* A ticket, an order, a donation: somebody is about to pay. Nothing is kept
\* from one computation to the next, of which one is looked at.
Calculer(prix, methode) ==
  /\ devis = AucunDevis
  /\ devis' \in calculerFrais(prix, methode, bareme)
  /\ UNCHANGED bareme

NextFrais ==
  \E prix \in 1 .. PrixMax, m \in MethodesPaiement \cup {Indifferent} : Calculer(prix, m)

SpecFrais == InitFrais /\ [][NextFrais]_varsFrais

------------------------------------------------------------------------------
(* Properties, in thousandths of a franc.                                  *)

Reste(montant) == montant * (1000 - bareme.fapshi)
CoutRetrait(prix, m) == prix * bareme.retraitTaux[m] + bareme.retraitFixe[m] * 1000

\* The withdrawal is the dearest with the operator the fees assume.
PireParDefaut(prix) ==
  \A m \in MethodesPaiement :
    CoutRetrait(prix, m) <= CoutRetrait(prix, METHODE_FRAIS_PAR_DEFAUT)

\* "La trésorerie ne perd jamais": once the provider has taken its share and the
\* money is withdrawn, what is left is at least the price; when the payer had
\* not said which operator would be used, for either of them.
TresorerieNePerdJamais ==
  devis # AucunDevis =>
    \A m \in MethodesPaiement :
      (IF devis.methode = Indifferent THEN PireParDefaut(devis.prixBase) ELSE m = devis.methode)
        => Reste(devis.montantTtc) >= devis.prixBase * 1000 + CoutRetrait(devis.prixBase, m)

Ecart == 3

\* Nor does the payer pay for the rounding: Ecart francs less would not cover
\* the price.
PayeurPasLese ==
  devis # AucunDevis =>
    LET m == IF devis.methode = Indifferent THEN METHODE_FRAIS_PAR_DEFAUT ELSE devis.methode
    IN  Reste(devis.montantTtc - Ecart)
          < devis.prixBase * 1000 + CoutRetrait(devis.prixBase, m)

\* The price asked for is the least that covers the price, to the rounding.
FraisJustes == TresorerieNePerdJamais /\ PayeurPasLese

==============================================================================

---------------------------- MODULE MCTresorerie ----------------------------
(***************************************************************************)
(* Instances of Fonds, Solde, Don, Frais, Echeances, Collecte and Partage  *)
(* for TLC.                                                                *)
(*                                                                         *)
(* These components share no state: interleaving them would only multiply  *)
(* what each of them can do.  In a behaviour one of them moves, and the    *)
(* others stay as they started.                                            *)
(***************************************************************************)
EXTENDS Fonds, Solde, Don, Frais, Echeances, Collecte, Partage, TLC

CONSTANTS m1, m2, d1, d2, x1, x2, k1, k2, l1, l2

VARIABLE scene   \* the component that moves

\* Amounts below, at and above the minimum.
MontantsMC == 1 .. 6

\* Two people pay for both, each in their order, or for one.
DemandesMC == {<<1, 2>>, <<2, 1>>, <<1>>}

\* The components that do not move stay as they start, and start in one state.
SansFrais == devis = AucunDevis /\ bareme = TAUX_FRAIS_PAR_DEFAUT
SansEcheances ==
  /\ cotisation = [statut |-> "BROUILLON", montantTotal |-> 1, tranches |-> << >>, fractionnable |-> FALSE]
  /\ participation = [du |-> 0, regle |-> 0]
  /\ engages = << >>
SansAppel == InitCollecte /\ profils = [p \in Appelables |-> {}]

InitTresorerie ==
  /\ scene \in {"fonds", "solde", "don", "frais", "echeances", "collecte", "partage"}
  /\ InitFonds /\ InitSolde /\ InitDon /\ InitPartage
  /\ IF scene = "frais" THEN InitFrais ELSE SansFrais
  /\ IF scene = "echeances" THEN InitEcheances ELSE SansEcheances
  /\ IF scene = "collecte" THEN InitCollecte ELSE SansAppel

NextTresorerie ==
  /\ UNCHANGED scene
  /\ \/ scene = "fonds" /\ NextFonds
        /\ UNCHANGED <<varsSolde, varsDon, varsFrais, varsEcheances, varsCollecte, varsPartage>>
     \/ scene = "solde" /\ NextSolde
        /\ UNCHANGED <<varsFonds, varsDon, varsFrais, varsEcheances, varsCollecte, varsPartage>>
     \/ scene = "don" /\ NextDon
        /\ UNCHANGED <<varsFonds, varsSolde, varsFrais, varsEcheances, varsCollecte, varsPartage>>
     \/ scene = "frais" /\ NextFrais
        /\ UNCHANGED <<varsFonds, varsSolde, varsDon, varsEcheances, varsCollecte, varsPartage>>
     \/ scene = "echeances" /\ NextEcheances
        /\ UNCHANGED <<varsFonds, varsSolde, varsDon, varsFrais, varsCollecte, varsPartage>>
     \/ scene = "collecte" /\ NextCollecte
        /\ UNCHANGED <<varsFonds, varsSolde, varsDon, varsFrais, varsEcheances, varsPartage>>
     \/ scene = "partage" /\ NextPartage
        /\ UNCHANGED <<varsFonds, varsSolde, varsDon, varsFrais, varsEcheances, varsCollecte>>

SpecTresorerie ==
  InitTresorerie
    /\ [][NextTresorerie]_<<scene, varsFonds, varsSolde, varsDon, varsFrais, varsEcheances,
                            varsCollecte, varsPartage>>

\* Every component holds what its types say.
TypeOKTresorerie ==
  /\ TypeOKFonds /\ TypeOKSolde /\ TypeOKDon /\ TypeOKFrais /\ TypeOKEcheances
  /\ TypeOKCollecte /\ TypeOKPartage
==============================================================================

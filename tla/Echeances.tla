------------------------------- MODULE Echeances -------------------------------
(***************************************************************************)
(* The schedule of a contribution and what a person may pay of it:         *)
(* calculerAvancement (avancement.ts), echeancesPayables and               *)
(* montantAutorise (echeances.ts), and the steps of CotisationService      *)
(* that feed them, from the draft of the contribution to its closing.      *)
(*                                                                         *)
(* One person, one request at a time: what happens between the requests is *)
(* module Cotisation.  An instalment (`tranche`) is its amount, in the     *)
(* order of the schedule; due dates, labels and fees are left out.         *)
(***************************************************************************)
EXTENDS Integers, SequencesExt

CONSTANTS MontantsEcheances,      \* the amounts of a contribution or of an instalment
          Plancher,      \* MONTANT_MINIMAL_REGLEMENT
          MaxTranches,   \* bound: instalments of a schedule
          MaxEngages     \* bound: payments pending at the same time

ASSUME EcheancesAssumption ==
  /\ MontantsEcheances \subseteq Nat \ {0}
  /\ Plancher \in Nat \ {0}
  /\ {MaxTranches, MaxEngages} \subseteq Nat

VARIABLES cotisation,    \* statut, montantTotal, tranches, fractionnable
          participation, \* du (0 before the opening), regle
          engages        \* amounts of the payments still pending, oldest first

varsEcheances == <<cotisation, participation, engages>>

------------------------------------------------------------------------------

Moindre(a, b) == IF a < b THEN a ELSE b
Positif(a) == IF a > 0 THEN a ELSE 0

\* The first i amounts of s, and all of them.
SommeDebut(s, i) == MapThenSumSet(LAMBDA j : s[j], 1 .. i)
SommeDe(s) == SommeDebut(s, Len(s))

\* verifierTranches: no schedule, or one that adds up to what is due.
verifierTranches(total, tranches) == tranches = << >> \/ SommeDe(tranches) = total

\* Mutant: every instalment sees the whole balance.
Repartir_SansReste(tranches, solde) ==
  [i \in 1 .. Len(tranches) |-> Positif(Moindre(solde, tranches[i]))]

\* The balance fills the instalments one after the other: what each takes.
Repartir(tranches, solde) ==
  LET reste[i \in 0 .. Len(tranches)] ==
        IF i = 0 THEN solde
        ELSE reste[i - 1] - Positif(Moindre(reste[i - 1], tranches[i]))
  IN  [i \in 1 .. Len(tranches) |-> Positif(Moindre(reste[i - 1], tranches[i]))]

\* calculerAvancement: what is credited, and what is pending on top of it.
calculerAvancement(du, regle, tranches, enAttente) ==
  LET impute == Repartir(tranches, regle)
      engage == Repartir(tranches, regle + enAttente)
  IN  [montantRestant   |-> Positif(du - regle),
       montantEnAttente |-> enAttente,
       tranches |-> [i \in 1 .. Len(tranches) |->
                       [montant   |-> tranches[i],
                        regle     |-> impute[i],
                        enAttente |-> engage[i] - impute[i],
                        soldee    |-> impute[i] >= tranches[i]]]]

\* What is left once what is pending is taken off.
Disponible(avancement) ==
  Positif(avancement.montantRestant - avancement.montantEnAttente)

Capacite(t) == t.montant - t.regle - t.enAttente

\* Ordre 0 is the whole of what is left.
Totalite == 0

echeance(ordre, montant, libre, payable) ==
  [ordre |-> ordre, montant |-> montant, libre |-> libre, payable |-> payable,
   montantMin |-> Moindre(Plancher, montant)]

\* The instalments with something left to take.
ARegler(tranches) ==
  {i \in DOMAIN tranches : ~tranches[i].soldee /\ Capacite(tranches[i]) > 0}

\* Each by its rank; only the first of them may be paid.
EcheancesDesTranches(tranches, ouverte) ==
  {echeance(i, Capacite(tranches[i]), TRUE, ouverte /\ \A j \in ARegler(tranches) : i <= j) :
     i \in ARegler(tranches)}

\* The first instalment is worth all that is left.
VautLeReste(echeances, aPrendre) ==
  \E e \in echeances : e.montant >= aPrendre /\ \A f \in echeances : e.ordre <= f.ordre

\* echeancesPayables: the instalments, and all that is left, unless the only
\* instalment left is worth as much.
echeancesPayables(avancement, ouverte, fractionnable) ==
  LET aPrendre == Disponible(avancement)
      tranches == IF fractionnable
                  THEN EcheancesDesTranches(avancement.tranches, ouverte) ELSE {}
      libre == fractionnable /\ avancement.tranches = << >>
  IN  IF aPrendre = 0 THEN {}
      ELSE IF VautLeReste(tranches, aPrendre) THEN tranches
      ELSE tranches \cup {echeance(Totalite, aPrendre, libre, ouverte)}

\* Mutant: what is asked is only compared with the minimum.
Autorise_SansMaximum(e, demande) ==
  demande = e.montant \/ (e.libre /\ e.montantMin <= demande)

\* montantAutorise, for a whole number of francs.
Autorise(e, demande) ==
  \/ demande = e.montant
  \/ e.libre /\ e.montantMin <= demande /\ demande <= e.montant

------------------------------------------------------------------------------

TypeOKEcheances ==
  /\ cotisation \in [statut : {"BROUILLON", "OUVERTE", "CLOSE"},
                     montantTotal : MontantsEcheances,
                     tranches : Seq(MontantsEcheances), fractionnable : BOOLEAN]
  /\ participation \in [du : Nat, regle : Nat]
  /\ engages \in Seq(Nat \ {0})

\* A schedule the form accepts.
Echeanciers(total) ==
  {s \in BoundedSeq(MontantsEcheances, MaxTranches) : verifierTranches(total, s)}

\* creer.
InitEcheances ==
  /\ \E total \in MontantsEcheances, f \in BOOLEAN : \E s \in Echeanciers(total) :
       cotisation = [statut |-> "BROUILLON", montantTotal |-> total,
                     tranches |-> s, fractionnable |-> f]
  /\ participation = [du |-> 0, regle |-> 0]
  /\ engages = << >>

------------------------------------------------------------------------------

\* mettreAJour: a new schedule is checked against the amount; the one kept when
\* none is given is not.
MettreAJour ==
  /\ cotisation.statut = "BROUILLON"
  /\ \E total \in MontantsEcheances : \E s \in Echeanciers(total) \cup {cotisation.tranches} :
       cotisation' = [cotisation EXCEPT !.montantTotal = total, !.tranches = s]
  /\ UNCHANGED <<participation, engages>>

\* The person is called once, for the amount of that moment.
OuvrirCotisation ==
  /\ cotisation.statut # "CLOSE"
  /\ cotisation' = [cotisation EXCEPT !.statut = "OUVERTE"]
  /\ participation' = IF participation.du = 0
                      THEN [du |-> cotisation.montantTotal, regle |-> 0]
                      ELSE participation
  /\ UNCHANGED engages

CloreCotisation ==
  /\ cotisation' = [cotisation EXCEPT !.statut = "CLOSE"]
  /\ UNCHANGED <<participation, engages>>

------------------------------------------------------------------------------

Avancement ==
  calculerAvancement(participation.du, participation.regle, cotisation.tranches,
                     SommeDe(engages))

Proposees ==
  echeancesPayables(Avancement, cotisation.statut = "OUVERTE",
                    cotisation.fractionnable)

\* echeanceChoisie, then the payment is recorded as pending.
Verser(e, m) ==
  /\ participation.du > 0
  /\ Len(engages) < MaxEngages
  /\ e.payable
  /\ Autorise(e, m)
  /\ engages' = Append(engages, m)
  /\ UNCHANGED <<cotisation, participation>>

\* The payment is credited: for its amount, or for what the treasury received.
Crediter(k, m) ==
  /\ engages' = RemoveAt(engages, k)
  /\ participation' = [participation EXCEPT !.regle = @ + m]
  /\ UNCHANGED cotisation

\* Mutant: what failed is taken off the balance.
Refuser_Debite(k) ==
  /\ engages' = RemoveAt(engages, k)
  /\ participation' = [participation EXCEPT !.regle = @ - engages[k]]
  /\ UNCHANGED cotisation

\* It failed.
Refuser(k) ==
  /\ engages' = RemoveAt(engages, k)
  /\ UNCHANGED <<cotisation, participation>>

NextEcheances ==
  \/ MettreAJour
  \/ OuvrirCotisation
  \/ CloreCotisation
  \/ \E e \in Proposees : \E m \in MontantsEcheances : Verser(e, m)
  \/ \E k \in DOMAIN engages : \E m \in MontantsEcheances \cup {engages[k]} : Crediter(k, m)
  \/ \E k \in DOMAIN engages : Refuser(k)

SpecEcheances == InitEcheances /\ [][NextEcheances]_varsEcheances

------------------------------------------------------------------------------
(* Properties.                                                             *)

\* The part of the interval a .. b that falls between c and d.
Commun(a, b, c, d) == Positif(Moindre(b, d) - (IF a > c THEN a ELSE c))

\* The schedule adds up to what the person owes.
Conforme == verifierTranches(participation.du, cotisation.tranches)

\* The instalments follow one another on the same line as the money: each shows
\* as paid what the balance covers of its own interval, and as pending what the
\* pending payments cover of it beyond the balance.  Paying ahead, in advance of
\* or across instalments, is therefore never counted twice nor lost.
RepartitionDansLOrdre ==
  LET regle == participation.regle
      engage == regle + SommeDe(engages)
  IN  \A i \in DOMAIN cotisation.tranches :
        LET t == Avancement.tranches[i]
        IN  /\ t.regle = Commun(0, regle, SommeDebut(cotisation.tranches, i - 1),
                                                  SommeDebut(cotisation.tranches, i))
            /\ t.enAttente = Commun(regle, engage, SommeDebut(cotisation.tranches, i - 1),
                                                           SommeDebut(cotisation.tranches, i))

\* While a contribution is open and something is left to engage, something can
\* be paid, whatever was credited, certified for another amount or refused
\* before: all that is left of the next instalment or of the contribution, and
\* the minimum shown for it where the amount is free.  Of the instalments, only
\* the first one with something left may be chosen, and together they offer
\* exactly what is left, if they add up to what is due.
ResteToujoursPayable ==
  LET payables == {e \in Proposees : e.payable}
      tranches == {e \in Proposees : e.ordre # Totalite}
  IN  cotisation.statut = "OUVERTE" /\ Disponible(Avancement) > 0 =>
        /\ payables # {}
        /\ \A e \in payables : /\ Autorise(e, e.montant)
                               /\ e.libre => Autorise(e, e.montantMin)
        /\ \A e \in payables : \A i \in 1 .. e.ordre - 1 :
             Capacite(Avancement.tranches[i]) = 0
        /\ Conforme /\ tranches # {} =>
             MapThenSumSet(LAMBDA e : e.montant, tranches) = Disponible(Avancement)

\* What the schedule shows as paid, and what it offers to pay, come from one line
\* of money.
EcheancierJuste == RepartitionDansLOrdre /\ ResteToujoursPayable

\* A payment that is accepted never brings what is engaged above what is due,
\* whatever was engaged, credited or refused before: "la somme de ce qui est
\* engagé ne dépasse jamais le reste dû" (echeances.ts), on a schedule that was
\* checked.
VersementBorne ==
  [][Conforme /\ SommeDe(engages') > SommeDe(engages) =>
       participation'.regle + SommeDe(engages') <= participation'.du]_varsEcheances

==============================================================================

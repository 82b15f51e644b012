------------------------------ MODULE Collecte ------------------------------
(***************************************************************************)
(* The life of one contribution, and whom it calls (CotisationService).    *)
(*                                                                         *)
(* Opening a contribution creates a participation for everybody it aims    *)
(* at, with the amount due; those who arrive later are caught up with, by  *)
(* an hourly pass, by the treasury looking at the list, or when they look  *)
(* themselves.  Requests are cut at their awaits.  The first three share   *)
(* the in-memory queue of the contribution; somebody who looks is in a     *)
(* queue of their own, so that only the unique index of the table tells    *)
(* them apart.                                                             *)
(***************************************************************************)
EXTENDS Naturals, FiniteSets

CONSTANTS Appelables,   \* the people
          Populations,  \* CibleCotisation
          MontantsCollecte,      \* amounts a contribution may have
          Passe, Guichets, \* the hourly pass; requests of the treasury
          Arrivees      \* changes of somebody's situation (a bound)

\* creer and mettreAJour refuse a smaller amount (MONTANT_MINIMAL).
ASSUME CollecteAssumption == MontantsCollecte \subseteq Nat \ {0}

VARIABLES
  collecte,    \* the contribution: its status, its amount, whom it aims at
  profils,     \* the populations each active account belongs to
  parts,       \* the amount due of each participation, SansPart without one
  appels,      \* how many times each person was told of it
  gestes,      \* the requests in flight: the pass, the treasury, a person
  venues,      \* changes of situation so far
  croisee      \* history: two requests of the treasury were in flight at once,
               \* or an opening stopped halfway

varsCollecte == <<collecte, profils, parts, appels, gestes, venues, croisee>>

StatutsCollecte == {"ABSENTE", "BROUILLON", "OUVERTE", "CLOSE", "SUPPRIMEE"}

SansPart == 0

Tous == {Passe} \cup Guichets \cup Appelables

Oisif == [pc |-> "oisif"]

\* A request: what it is, what it read, and the people it is about to create,
\* or to tell.
Geste(op, pc) == [op |-> op, pc |-> pc, lue |-> collecte, qui |-> {}]

TypeOKCollecte ==
  /\ collecte.statut \in StatutsCollecte
  /\ collecte.du \in MontantsCollecte \cup {0} /\ collecte.cibles \subseteq Populations
  /\ \A p \in Appelables : /\ profils[p] \subseteq Populations
                           /\ parts[p] \in MontantsCollecte \cup {SansPart}
                           /\ appels[p] \in Nat
  /\ \A g \in Tous : gestes[g].pc \in
       {"oisif", "recenser", "creer", "annoncer", "ouvrir", "ecrire", "effacer"}

InitCollecte ==
  /\ collecte = [statut |-> "ABSENTE", du |-> 0, cibles |-> {}]
  /\ profils \in [Appelables -> SUBSET Populations]
  /\ parts = [p \in Appelables |-> SansPart]
  /\ appels = [p \in Appelables |-> 0]
  /\ gestes = [g \in Tous |-> Oisif]
  /\ venues = 0
  /\ croisee = FALSE

\* populationVisee and estVise: active, and in one of the populations aimed at.
Vises(cibles) == {p \in Appelables : profils[p] \cap cibles # {}}

Existe == collecte.statut \notin {"ABSENTE", "SUPPRIMEE"}

\* Requests of the treasury wait for nobody.
EntrerEnGeste(g, geste) ==
  /\ gestes[g] = Oisif
  /\ gestes' = [gestes EXCEPT ![g] = geste]
  /\ croisee' = (croisee \/ \E h \in Guichets \ {g} : gestes[h] # Oisif)

\* exclusif(`cotisation:id`): somebody is between the count and the creation.
FileLibre == \A g \in {Passe} \cup Guichets : gestes[g].pc # "creer"

Suivre(g, pc, qui) ==
  gestes' = [gestes EXCEPT ![g] =
               IF pc = "oisif" THEN Oisif ELSE [@ EXCEPT !.pc = pc, !.qui = qui]]

Finir(g) == gestes' = [gestes EXCEPT ![g] = Oisif]

------------------------------------------------------------------------------
(* The life of the contribution.                                           *)

Creer == \E m \in MontantsCollecte, c \in SUBSET Populations :
  /\ collecte.statut = "ABSENTE"
  /\ collecte' = [statut |-> "BROUILLON", du |-> m, cibles |-> c]
  /\ UNCHANGED <<profils, parts, appels, gestes, venues, croisee>>

Modifiable == collecte.statut = "BROUILLON"

\* mettreAJour reads a draft, and writes by id.
LireRetouche(g) ==
  /\ Modifiable
  /\ EntrerEnGeste(g, Geste("retoucher", "ecrire"))
  /\ UNCHANGED <<collecte, profils, parts, appels, venues>>

EcrireRetouche(g) == \E m \in MontantsCollecte, c \in SUBSET Populations :
  /\ gestes[g].pc = "ecrire"
  /\ collecte' = IF Existe THEN [collecte EXCEPT !.du = m, !.cibles = c] ELSE collecte
  /\ Finir(g)
  /\ UNCHANGED <<profils, parts, appels, venues, croisee>>

LireOuverture(g) ==
  /\ Existe /\ collecte.statut # "CLOSE" /\ collecte.cibles # {}
  /\ EntrerEnGeste(g, Geste("ouvrir", "recenser"))
  /\ UNCHANGED <<collecte, profils, parts, appels, venues>>

\* The status comes last, after the participations and the announcements.
EcrireOuverture(g) ==
  /\ gestes[g].pc = "ouvrir"
  /\ collecte' = IF Existe THEN [collecte EXCEPT !.statut = "OUVERTE"] ELSE collecte
  /\ Finir(g)
  /\ UNCHANGED <<profils, parts, appels, venues, croisee>>

\* clore changes the status whatever it is: of a draft as well.
Clore == \E g \in Guichets :
  /\ Existe /\ gestes[g] = Oisif
  /\ collecte' = [collecte EXCEPT !.statut = "CLOSE"]
  /\ croisee' = (croisee \/ \E h \in Guichets : gestes[h] # Oisif)
  /\ UNCHANGED <<profils, parts, appels, gestes, venues>>

LireSuppressionCollecte(g) ==
  /\ Modifiable
  /\ EntrerEnGeste(g, Geste("supprimer", "effacer"))
  /\ UNCHANGED <<collecte, profils, parts, appels, venues>>

\* The participations go with their contribution (ON DELETE CASCADE).
Supprimer(g) ==
  /\ gestes[g].pc = "effacer"
  /\ collecte' = [collecte EXCEPT !.statut = "SUPPRIMEE"]
  /\ parts' = [p \in Appelables |-> SansPart]
  /\ Finir(g)
  /\ UNCHANGED <<profils, appels, venues, croisee>>

------------------------------------------------------------------------------
(* Calling people.                                                         *)

\* rattraperLesRetardataires, and participationsDe for the treasury.
Rattraper(g) ==
  /\ collecte.statut = "OUVERTE" /\ gestes[g] = Oisif
  /\ gestes' = [gestes EXCEPT ![g] = Geste("rattraper", "recenser")]
  /\ UNCHANGED <<collecte, profils, parts, appels, venues, croisee>>

\* Whoever looks at their contributions is called to those that aim at them.
Consulter(p) ==
  /\ collecte.statut = "OUVERTE" /\ gestes[p] = Oisif
  /\ parts[p] = SansPart /\ p \in Vises(collecte.cibles)
  /\ gestes' = [gestes EXCEPT ![p] = [Geste("consulter", "creer") EXCEPT !.qui = {p}]]
  /\ UNCHANGED <<collecte, profils, parts, appels, venues, croisee>>

\* The people aimed at who have no participation.
ACreer(g) == {p \in Vises(gestes[g].lue.cibles) : parts[p] = SansPart}

\* After the announcements, an opening still has to be written.
Ensuite(g) == IF gestes[g].op = "ouvrir" THEN "ouvrir" ELSE "oisif"

Recenser(g) ==
  /\ gestes[g].pc = "recenser" /\ FileLibre
  /\ Suivre(g, IF ACreer(g) = {} THEN Ensuite(g) ELSE "creer", ACreer(g))
  /\ UNCHANGED <<collecte, profils, parts, appels, venues, croisee>>

\* Mutant: those somebody else has just created are told again.
Nouvelles_Toutes(g) == gestes[g].qui

\* enregistrerSansDoublon keeps the rows the unique index lets in.
Nouvelles(g) == {p \in gestes[g].qui : parts[p] = SansPart}

\* The amount due is that of the contribution as it was read.  Of a deleted
\* contribution, the foreign key refuses the rows.
CreerParts(g) ==
  /\ gestes[g].pc = "creer"
  /\ IF Existe
     THEN /\ parts' = [p \in Appelables |->
                         IF p \in Nouvelles(g) THEN gestes[g].lue.du ELSE parts[p]]
          /\ Suivre(g, IF Nouvelles(g) = {} THEN Ensuite(g) ELSE "annoncer", Nouvelles(g))
     ELSE UNCHANGED parts /\ Finir(g)
  /\ UNCHANGED <<collecte, profils, appels, venues, croisee>>

AnnoncerOuverture(g) ==
  /\ gestes[g].pc = "annoncer"
  /\ appels' = [p \in Appelables |-> appels[p] + IF p \in gestes[g].qui THEN 1 ELSE 0]
  /\ Suivre(g, Ensuite(g), {})
  /\ UNCHANGED <<collecte, profils, parts, venues, croisee>>

------------------------------------------------------------------------------

\* Somebody registers, becomes a member of a population, or leaves.
ChangerDeProfil(p) == \E s \in SUBSET Populations \ {profils[p]} :
  /\ venues < Arrivees
  /\ profils' = [profils EXCEPT ![p] = s]
  /\ venues' = venues + 1
  /\ UNCHANGED <<collecte, parts, appels, gestes, croisee>>

\* A restart drops every request.
RedemarrerCollecte ==
  /\ \E g \in Tous : gestes[g] # Oisif
  /\ venues < Arrivees /\ venues' = venues + 1
  /\ gestes' = [g \in Tous |-> Oisif]
  /\ croisee' = (croisee \/ \E g \in Guichets : gestes[g] # Oisif /\ gestes[g].op = "ouvrir")
  /\ UNCHANGED <<collecte, profils, parts, appels>>

PasDeGeste(g) == Recenser(g) \/ CreerParts(g) \/ AnnoncerOuverture(g) \/ EcrireOuverture(g)

NextCollecte ==
  \/ Creer \/ Clore \/ RedemarrerCollecte
  \/ \E p \in Appelables : Consulter(p) \/ ChangerDeProfil(p)
  \/ \E g \in Guichets :
       \/ LireRetouche(g) \/ EcrireRetouche(g) \/ LireOuverture(g)
       \/ LireSuppressionCollecte(g) \/ Supprimer(g)
  \/ \E g \in {Passe} \cup Guichets : Rattraper(g)
  \/ \E g \in Tous : PasDeGeste(g)

\* The pass comes back every hour, and waits in a queue that serves in order.
EquiteCollecte ==
  /\ WF_varsCollecte(Rattraper(Passe)) /\ SF_varsCollecte(Recenser(Passe))
  /\ \A g \in Tous : WF_varsCollecte(CreerParts(g) \/ AnnoncerOuverture(g))

SpecCollecte == InitCollecte /\ [][NextCollecte]_varsCollecte /\ EquiteCollecte

------------------------------------------------------------------------------
(* Properties.                                                             *)

\* "Prévenue une seule fois : seule la création déclenche l'appel": whatever
\* openings, passes and visits meet.
AppelUnique == \A p \in Appelables : appels[p] <= 1

\* What people owe is the amount the contribution shows once it is open, and
\* whoever was told of it owes it, unless two requests of the treasury met or
\* an opening was interrupted.
DuFige ==
  ~croisee /\ collecte.statut = "OUVERTE" =>
    \A p \in Appelables : /\ parts[p] \in {SansPart, collecte.du}
                          /\ appels[p] = 1 => parts[p] # SansPart

AppelsJustes == AppelUnique /\ DuFige

\* "Être appelé ne dépend pas du jour où l'on s'est inscrit": whoever an open
\* contribution aims at ends up in it, as long as it does.
ViseFiniAppele ==
  \A p \in Appelables :
    (collecte.statut = "OUVERTE" /\ p \in Vises(collecte.cibles))
      ~> (parts[p] # SansPart \/ collecte.statut # "OUVERTE"
            \/ p \notin Vises(collecte.cibles))

==============================================================================

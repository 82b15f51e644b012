------------------------------- MODULE Sondage -------------------------------
(***************************************************************************)
(* One poll (SondageService): drafted, opened, edited, closed, deleted, and *)
(* voted on.  Requests read the poll, and write later whatever it became.  *)
(*                                                                         *)
(* A vote is one transaction of four writes: the participation (whose      *)
(* unique index stops the second vote), the ballot (nominative or not),    *)
(* and two kinds of counters that the page of results reads instead of     *)
(* the ballots.                                                            *)
(***************************************************************************)
EXTENDS Naturals, FiniteSetsExt

CONSTANTS Votants,    \* accounts
          Promos,     \* Promos[v]: their promotion, Visiteurs without one
          Visiteurs,  \* SEGMENT_SANS_PROMOTION
          Propositions,    \* the options of the poll
          Modeles,    \* what the bureau creates
          Retouches,  \* what it saves later
          Bureaux,    \* requests of the bureau served at once
          MaxEditions \* bound: editions

ASSUME SondageAssumption ==
  /\ IsFiniteSet(Votants) /\ IsFiniteSet(Propositions) /\ Propositions # {}
  /\ MaxEditions \in Nat

VARIABLES
  sondage,    \* sondages: the row, with total = totalVotes
  voix,       \* options_sondage.votes
  urne,       \* votes: the ballots, numbered in the order they came
  emargement, \* participations_sondage
  inscrits,   \* the accounts that exist
  isoloirs,   \* the ballot each voter is casting, after the checks
  bureaux,    \* the requests of the bureau
  retires,    \* history: ballots deleted with the account that cast them
  fige,       \* history: what the first closing found, and who was voting
  avertis,    \* history: who saw the counts and was not voting
  invitations,\* history: times the platform was invited to vote
  editions,  \* editions so far
  ecrase      \* history: a status or votes nobody had read were written over

varsSondage == <<sondage, voix, urne, emargement, inscrits, isoloirs, bureaux, retires,
                 fige, avertis, invitations, editions, ecrase>>

------------------------------------------------------------------------------

StatutsSondage == {"ABSENT", "BROUILLON", "ACTIF", "CLOS", "SUPPRIME"}
Visibilites == {"TOUJOURS", "APRES_VOTE", "APRES_DEADLINE"}
Anonyme == "anonyme"

ASSUME AnonymeAssumption == Anonyme \notin Votants

ASSUME ModelesAssumption ==
  /\ Modeles \subseteq [multiple : BOOLEAN, anonyme : BOOLEAN, campus : BOOLEAN,
                        visibilite : Visibilites]
  /\ Retouches \subseteq [campus : BOOLEAN, visibilite : Visibilites, echue : BOOLEAN]

Existant == sondage.statut \notin {"ABSENT", "SUPPRIME"}
Inoccupe == [op |-> "aucune"]
SansSondage == [statut |-> "ABSENT", multiple |-> FALSE, anonyme |-> FALSE, campus |-> FALSE,
                visibilite |-> "TOUJOURS", echue |-> FALSE, total |-> 0]
SansBulletin == {}
PasClos == [total |-> 0, votants |-> {}, clos |-> FALSE]

TypeOKSondage ==
  /\ sondage.statut \in StatutsSondage /\ sondage.visibilite \in Visibilites
  /\ sondage.total \in 0 .. Cardinality(Votants)
  /\ voix \in [Propositions -> 0 .. Cardinality(Votants)]
  /\ emargement \subseteq inscrits /\ inscrits \subseteq Votants
  /\ \A b \in urne : /\ b.numero \in 1 .. Cardinality(Votants)
                      /\ b.auteur \in inscrits \cup {Anonyme}
                      /\ b.choix # {} /\ b.choix \subseteq Propositions
  /\ isoloirs \in [Votants -> SUBSET Propositions]
  /\ invitations \in Nat /\ avertis \subseteq Votants

InitSondage ==
  /\ sondage = SansSondage
  /\ voix = [o \in Propositions |-> 0]
  /\ urne = {} /\ emargement = {}
  /\ inscrits = Votants
  /\ isoloirs = [v \in Votants |-> SansBulletin]
  /\ bureaux = [b \in Bureaux |-> Inoccupe]
  /\ retires = {} /\ fige = PasClos /\ avertis = {}
  /\ invitations = 0 /\ editions = 0 /\ ecrase = FALSE

------------------------------------------------------------------------------
(* The bureau.                                                             *)

CreerSondage(m) ==
  /\ sondage.statut = "ABSENT"
  /\ sondage' = [statut |-> "BROUILLON", multiple |-> m.multiple, anonyme |-> m.anonyme,
                 campus |-> m.campus, visibilite |-> m.visibilite, echue |-> FALSE, total |-> 0]
  /\ UNCHANGED <<voix, urne, emargement, inscrits, isoloirs, bureaux, retires, fige,
                 avertis, invitations, editions, ecrase>>

\* What mettreAJour, activer and supprimer ask of the poll they read.
Permis(op) ==
  CASE op = "retoucher" -> sondage.statut # "CLOS"
    [] op = "activer"   -> sondage.statut = "BROUILLON" /\ ~sondage.echue
    [] op = "supprimer" -> sondage.total = 0

LireSondage(b, op) ==
  /\ Existant /\ bureaux[b] = Inoccupe /\ Permis(op)
  /\ bureaux' = [bureaux EXCEPT ![b] = [op |-> op, lu |-> sondage.statut]]
  /\ editions' = editions + (IF op = "retoucher" THEN 1 ELSE 0)
  /\ editions' <= MaxEditions
  /\ UNCHANGED <<sondage, voix, urne, emargement, inscrits, isoloirs, retires, fige,
                 avertis, invitations, ecrase>>

Servi(b) == bureaux' = [bureaux EXCEPT ![b] = Inoccupe]

Ecraser(b) == ecrase' = (ecrase \/ bureaux[b].lu # sondage.statut)

\* A longer deadline, another visibility, more or fewer people.
Retoucher(b, r) ==
  /\ bureaux[b].op = "retoucher"
  /\ sondage' = IF Existant
                THEN [sondage EXCEPT !.campus = r.campus, !.visibilite = r.visibilite,
                                     !.echue = r.echue]
                ELSE sondage
  /\ Servi(b) /\ Ecraser(b)
  /\ UNCHANGED <<voix, urne, emargement, inscrits, isoloirs, retires, fige, avertis, invitations,
                 editions>>

\* The write, then diffuser: the platform is invited once per opening.
ActiverSondage(b) ==
  /\ bureaux[b].op = "activer"
  /\ sondage' = IF Existant THEN [sondage EXCEPT !.statut = "ACTIF"] ELSE sondage
  /\ invitations' = invitations + 1
  /\ Servi(b) /\ Ecraser(b)
  /\ UNCHANGED <<voix, urne, emargement, inscrits, isoloirs, retires, fige, avertis, editions>>

\* clore asks nothing of the poll: a draft can be closed as well.
CloreSondage ==
  /\ Existant
  /\ sondage' = [sondage EXCEPT !.statut = "CLOS"]
  /\ fige' = IF fige.clos THEN fige
             ELSE [total |-> sondage.total, clos |-> TRUE,
                   votants |-> {v \in Votants : isoloirs[v] # SansBulletin}]
  /\ UNCHANGED <<voix, urne, emargement, inscrits, isoloirs, bureaux, retires, avertis,
                 invitations, editions, ecrase>>

\* Options, participations and ballots go with the poll, by the cascade; its
\* last row stays here as it was.
SupprimerSondage(b) ==
  /\ bureaux[b].op = "supprimer"
  /\ sondage' = [sondage EXCEPT !.statut = "SUPPRIME"]
  /\ voix' = [o \in Propositions |-> 0]
  /\ urne' = {} /\ emargement' = {}
  /\ ecrase' = (ecrase \/ sondage.total > 0)
  /\ Servi(b)
  /\ UNCHANGED <<inscrits, isoloirs, retires, fige, avertis, invitations, editions>>

Echoir ==
  /\ Existant /\ ~sondage.echue
  /\ sondage' = [sondage EXCEPT !.echue = TRUE]
  /\ UNCHANGED <<voix, urne, emargement, inscrits, isoloirs, bureaux, retires, fige,
                 avertis, invitations, editions, ecrase>>

------------------------------------------------------------------------------
(* The voters.                                                             *)

Ouvert == sondage.statut = "ACTIF" /\ ~sondage.echue

\* Mutant: whoever is registered may vote.
Eligible_Tous(v) == v \in inscrits

\* verifierEligibilite: the promotion, not the role.
Eligible(v) == sondage.campus => Promos[v] # Visiteurs

OptionsValides(choix) == choix # {} /\ (sondage.multiple \/ Cardinality(choix) = 1)

\* voter reads the poll and checks; nobody looks for an earlier vote here.
Isoler(v, choix) ==
  /\ v \in inscrits /\ isoloirs[v] = SansBulletin
  /\ Ouvert /\ Eligible(v) /\ OptionsValides(choix)
  /\ isoloirs' = [isoloirs EXCEPT ![v] = choix]
  /\ UNCHANGED <<sondage, voix, urne, emargement, inscrits, bureaux, retires, fige,
                 avertis, invitations, editions, ecrase>>

\* The transaction: all of it or, for a second vote, a lost account or a deleted
\* poll, nothing.
Voter(v) ==
  /\ isoloirs[v] # SansBulletin
  /\ isoloirs' = [isoloirs EXCEPT ![v] = SansBulletin]
  /\ IF Existant /\ v \in inscrits \ emargement
     THEN /\ emargement' = emargement \cup {v}
          /\ urne' = urne \cup {[numero |-> Cardinality(urne \cup retires) + 1,
                                 auteur |-> IF sondage.anonyme THEN Anonyme ELSE v,
                                 choix |-> isoloirs[v]]}
          /\ voix' = [o \in Propositions |-> voix[o] + (IF o \in isoloirs[v] THEN 1 ELSE 0)]
          /\ sondage' = [sondage EXCEPT !.total = @ + 1]
     ELSE UNCHANGED <<emargement, urne, voix, sondage>>
  /\ UNCHANGED <<inscrits, bureaux, retires, fige, avertis, invitations, editions, ecrase>>

\* resultatsVisibles.
Visible(v) ==
  CASE sondage.visibilite = "TOUJOURS"       -> TRUE
    [] sondage.visibilite = "APRES_VOTE"     -> v \in emargement
    [] sondage.visibilite = "APRES_DEADLINE" -> sondage.statut = "CLOS" \/ sondage.echue

\* resultats: somebody who is not casting a ballot looks at the counts.
Consulter(v) ==
  /\ v \in inscrits \ emargement /\ isoloirs[v] = SansBulletin
  /\ Existant /\ sondage.statut # "BROUILLON"
  /\ Visible(v)
  /\ avertis' = IF sondage.visibilite = "TOUJOURS" THEN avertis ELSE avertis \cup {v}
  /\ UNCHANGED <<sondage, voix, urne, emargement, inscrits, isoloirs, bureaux, retires,
                 fige, invitations, editions, ecrase>>

\* The deletion of an account takes its participation and its named ballots;
\* the counters stay.
SupprimerCompte(v) ==
  /\ v \in inscrits
  /\ inscrits' = inscrits \ {v}
  /\ emargement' = emargement \ {v}
  /\ urne' = {b \in urne : b.auteur # v}
  /\ retires' = retires \cup {b \in urne : b.auteur = v}
  /\ UNCHANGED <<sondage, voix, isoloirs, bureaux, fige, avertis, invitations, editions, ecrase>>

------------------------------------------------------------------------------

NextSondage ==
  \/ \E m \in Modeles : CreerSondage(m)
  \/ \E b \in Bureaux : \/ \E op \in {"retoucher", "activer", "supprimer"} : LireSondage(b, op)
                        \/ \E r \in Retouches : Retoucher(b, r)
                        \/ ActiverSondage(b) \/ SupprimerSondage(b)
  \/ CloreSondage \/ Echoir
  \/ \E v \in Votants : \/ \E choix \in SUBSET Propositions : Isoler(v, choix)
                        \/ Voter(v) \/ Consulter(v) \/ SupprimerCompte(v)

SpecSondage == InitSondage /\ [][NextSondage]_varsSondage

------------------------------------------------------------------------------
(* The count (depouillement.ts).                                           *)

Nominatifs == {b \in urne : b.auteur # Anonyme}

\* One segment per promotion, visitors together.
Segments == {Promos[b.auteur] : b \in Nominatifs}

Segment(s) == {b \in Nominatifs : Promos[b.auteur] = s}

Pour(bulletins, o) == Cardinality({b \in bulletins : o \in b.choix})

\* Votes for each option, and the share of the voters of the segment.
depouiller ==
  [s \in Segments |->
     [votants |-> Cardinality(Segment(s)),
      votes |-> [o \in Propositions |-> Pour(Segment(s), o)],
      parts |-> [o \in Propositions |->
                   LET votants == Cardinality(Segment(s))
                   IN  (2 * 100 * Pour(Segment(s), o) + votants) \div (2 * votants)]]]

------------------------------------------------------------------------------

\* The counters, which nobody can recompute from anonymous ballots, count the
\* ballots: voters, not choices; those of deleted accounts included.
DecomptesJustes ==
  LET exprimes == urne \cup retires
  IN  Existant =>
      /\ sondage.total = Cardinality(exprimes)
      /\ \A o \in Propositions : voix[o] = Pour(exprimes, o)
      /\ \A b \in exprimes : sondage.multiple \/ Cardinality(b.choix) = 1

\* One ballot per person and, on an anonymous poll, none that says whose: then
\* a deleted account leaves its ballot behind.
UneVoixParPersonne ==
  /\ IF sondage.anonyme
     THEN /\ Nominatifs = {}
          /\ Cardinality(urne) >= Cardinality(emargement)
          /\ Cardinality(urne) - Cardinality(emargement) <= Cardinality(Votants \ inscrits)
     ELSE /\ \A a, b \in urne : a.auteur = b.auteur => a = b
          /\ {b.auteur : b \in urne} = emargement
  /\ sondage.campus /\ editions = 0 => \A v \in emargement : Promos[v] # Visiteurs

\* "Fige le dépouillement.  Le sondage ne se rouvre pas": a closed poll gains
\* the ballots that had passed the checks before the closing, and no other.
ClotureTenue ==
  fige.clos /\ ~ecrase =>
    /\ sondage.statut \in {"CLOS", "SUPPRIME"}
    /\ sondage.total >= fige.total
    /\ sondage.total <= fige.total + Cardinality(fige.votants)

\* Nobody votes once the page of results has shown them counts that were hidden
\* from voters, unless the bureau edited the poll meanwhile.  (The poll itself,
\* alone or in the list, carries its counters too: those readers are not counted.)
VoteSansInfluence == editions = 0 /\ ~ecrase => avertis \cap emargement = {}

\* Opening once invites once, and a poll with votes is not deleted, unless two
\* requests of the bureau crossed.
OuvertUneFois ==
  ~ecrase => invitations <= 1 /\ (sondage.statut = "SUPPRIME" => sondage.total = 0)

SommeDe(f, S) == MapThenSumSet(LAMBDA x : f[x], S)

\* The count by promotion gives every named ballot to one segment, and shares
\* that are those of a single choice when there is one only.
RepartitionJuste ==
  LET d == depouiller
  IN  /\ SommeDe([s \in Segments |-> d[s].votants], Segments) = Cardinality(Nominatifs)
      /\ \A o \in Propositions :
           /\ SommeDe([s \in Segments |-> d[s].votes[o]], Segments) = Pour(Nominatifs, o)
           /\ \A s \in Segments : d[s].parts[o] <= 100
      /\ ~sondage.multiple =>
           \A s \in Segments : SommeDe(d[s].votes, Propositions) = d[s].votants

\* The poll is what the office says it is: exact counters, one vote per person,
\* a closing that holds, counts nobody sees before voting.
ScrutinJuste ==
  DecomptesJustes /\ UneVoixParPersonne /\ ClotureTenue /\ VoteSansInfluence
    /\ OuvertUneFois /\ RepartitionJuste
==============================================================================

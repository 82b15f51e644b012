------------------------------- MODULE Mandats -------------------------------
(***************************************************************************)
(* Who runs the platform: BureauService, GenerationService, and the roles  *)
(* that UserService lets the administration correct.                       *)
(*                                                                         *)
(* A mandate (generation) has posts, held by students of its year.  Some   *)
(* posts give the role ADMIN, and some the right to decide who has one.    *)
(* Roles are columns of the accounts, recomputed when a mandate starts and *)
(* when the holder of a post changes; posts, mandates and accounts are     *)
(* edited by requests of several statements.                               *)
(***************************************************************************)
EXTENDS Naturals, FiniteSets

CONSTANTS Personnes,   \* accounts
          Mandats,     \* generations
          Postes,      \* posts of the office
          Annees,      \* the years of the mandates and of the promotions
          FonctionsPossibles, \* what the posts of the office may give
          Demandes,    \* requests served at once
          MaxActes     \* bound: requests

ASSUME MandatsAssumption ==
  /\ Annees \subseteq Nat \ {0}
  /\ FonctionsPossibles \subseteq [admin : BOOLEAN, acces : BOOLEAN, cle : BOOLEAN]
  /\ MaxActes \in Nat

VARIABLES
  comptes,    \* users: role, promotion (0: none), finissant, actif, and the
              \* promotion their address shows (campus, 0: none)
  mandats,    \* generations
  postes,     \* postes_bureau
  places,     \* membres_bureau: who holds which post of which mandate
  demandes,   \* the requests being served
  actes,      \* how many there were
  retouches,  \* history: accounts changed by hand, and holders of posts or of
              \* mandates changed by hand
  marques     \* history: finissant set by hand since the last passation

varsMandats == <<comptes, mandats, postes, places, demandes, actes, retouches, marques>>

------------------------------------------------------------------------------

Roles == {"VISITOR", "STUDENT", "SPONSOR", "ADMIN", "SUPER_ADMIN"}
RolesAttribuables == Roles \ {"SUPER_ADMIN"}
RolesAdministrateurs == {"ADMIN", "SUPER_ADMIN"}

Promotions == Annees \cup {0}
Libre == [pc |-> "libre"]
SansCompte == [role |-> "VISITOR", promotion |-> 0, finissant |-> FALSE,
               actif |-> FALSE, campus |-> 0, existe |-> FALSE]
SansMandat == [existe |-> FALSE, annee |-> 0, active |-> FALSE, archive |-> FALSE]

\* What a post gives: the role, the right to decide who has one; and whether a
\* mandate needs a holder of it to start.
Fonctions == {[existe |-> TRUE, admin |-> f.admin, acces |-> f.acces, cle |-> f.cle] : f \in FonctionsPossibles}
SansPoste == [existe |-> FALSE, admin |-> FALSE, acces |-> FALSE, cle |-> FALSE]

TypeOKMandats ==
  /\ comptes \in [Personnes -> [role : Roles, promotion : Promotions, finissant : BOOLEAN,
                                actif : BOOLEAN, campus : Promotions, existe : BOOLEAN]]
  /\ mandats \in [Mandats -> [existe : BOOLEAN, annee : Promotions,
                              active : BOOLEAN, archive : BOOLEAN]]
  /\ postes \in [Postes -> Fonctions \cup {SansPoste}]
  /\ places \subseteq Mandats \X Postes \X Personnes
  /\ \A a, b \in places : a[1] = b[1] /\ a[2] = b[2] => a = b
  /\ Cardinality({g \in Mandats : mandats[g].active}) <= 1
  /\ retouches \subseteq Personnes /\ marques \subseteq Personnes

\* The platform was installed by hand: accounts, whose role is that of their
\* address, and posts; no mandate but the first, which has started or not.
InitMandats ==
  /\ comptes \in [Personnes -> {SansCompte} \cup
       {[role |-> IF n = 0 THEN "VISITOR" ELSE "STUDENT", promotion |-> n, finissant |-> FALSE,
         actif |-> TRUE, campus |-> n, existe |-> TRUE] : n \in Promotions}]
  /\ mandats = [g \in Mandats |-> SansMandat]
  /\ postes = [p \in Postes |-> SansPoste]
  /\ places = {}
  /\ demandes = [q \in Demandes |-> Libre]
  /\ actes = 0
  /\ retouches = {}
  /\ marques = {}

------------------------------------------------------------------------------
(* Who may ask for what.                                                   *)

EnCours(g) == mandats[g].existe /\ mandats[g].active /\ ~mandats[g].archive

\* The year of the active generation, 0 if there is none.
AnneeActive ==
  IF \E g \in Mandats : mandats[g].active
  THEN mandats[CHOOSE g \in Mandats : mandats[g].active].annee ELSE 0

\* The posts a person holds in the mandate under way.
PostesDe(u) == {p \in Postes : \E g \in Mandats : mandats[g].active /\ <<g, p, u>> \in places}

\* JwtStrategy and RolesGuard, at every request.
Administre(d) == comptes[d].actif /\ comptes[d].role \in RolesAdministrateurs

\* PrivilegeGuard, likewise: privilegesDe reads the mandate under way.
GereAcces(d) ==
  /\ Administre(d)
  /\ \/ comptes[d].role = "SUPER_ADMIN"
     \/ \E p \in PostesDe(d) : postes[p].acces

Disponible(q) == demandes[q] = Libre /\ actes < MaxActes

Demarrer(q, demande) ==
  /\ Disponible(q)
  /\ actes' = actes + 1
  /\ demandes' = [demandes EXCEPT ![q] = demande]

\* A request of one statement, or one whose statements nothing can come between.
Faire(q) == Demarrer(q, Libre)

Passer(q, pc) == demandes' = [demandes EXCEPT ![q].pc = pc]
Rendre(q) == demandes' = [demandes EXCEPT ![q] = Libre]

ComptesInchanges == UNCHANGED <<comptes, retouches, marques>>
BureauInchange == UNCHANGED <<mandats, postes, places>>

------------------------------------------------------------------------------
(* Posts.                                                                  *)

CreerPoste(q, d, p, f) ==
  /\ Disponible(q) /\ GereAcces(d)
  /\ ~postes[p].existe
  /\ postes' = [postes EXCEPT ![p] = f]
  /\ Faire(q)
  /\ UNCHANGED <<mandats, places>> /\ ComptesInchanges

\* The roles of those who hold the post do not follow.
MettreAJourPoste(q, d, p, f) ==
  /\ Disponible(q) /\ GereAcces(d)
  /\ postes[p].existe /\ f # postes[p]
  /\ postes' = [postes EXCEPT ![p] = f]
  /\ retouches' = IF f.admin = postes[p].admin THEN retouches
                  ELSE retouches \cup {u \in Personnes : p \in PostesDe(u)}
  /\ Faire(q)
  /\ UNCHANGED <<comptes, mandats, places, marques>>

\* A post that was ever held stays.
SupprimerPoste(q, d, p) ==
  /\ Disponible(q) /\ GereAcces(d)
  /\ postes[p].existe
  /\ \A m \in places : m[2] # p
  /\ postes' = [postes EXCEPT ![p] = SansPoste]
  /\ Faire(q)
  /\ UNCHANGED <<mandats, places>> /\ ComptesInchanges

------------------------------------------------------------------------------
(* Members: affecter and retirer, which end in ajusterAdministration.      *)

Affecter(q, d, g, p, u) ==
  /\ Disponible(q) /\ GereAcces(d)
  /\ mandats[g].existe /\ ~mandats[g].archive
  /\ postes[p].existe
  /\ comptes[u].existe /\ comptes[u].promotion = mandats[g].annee
  /\ \A v \in Personnes : <<g, p, v>> \notin places
  /\ Demarrer(q, [pc |-> "enregistrer", g |-> g, p |-> p, u |-> u, active |-> mandats[g].active])
  /\ BureauInchange /\ ComptesInchanges

\* The unique index refuses a post that was taken in between, and the foreign
\* keys a mandate, a post or an account that went.
EnregistrerMembre(q) ==
  LET d == demandes[q]
  IN  /\ d.pc = "enregistrer"
      /\ IF /\ mandats[d.g].existe /\ postes[d.p].existe /\ comptes[d.u].existe
            /\ \A v \in Personnes : <<d.g, d.p, v>> \notin places
         THEN places' = places \cup {<<d.g, d.p, d.u>>} /\ Passer(q, "ajuster")
         ELSE UNCHANGED places /\ Rendre(q)
      /\ UNCHANGED <<mandats, postes, actes>> /\ ComptesInchanges

Retirer(q, d, g, p, u) ==
  /\ Disponible(q) /\ GereAcces(d)
  /\ <<g, p, u>> \in places
  /\ ~mandats[g].archive
  /\ Demarrer(q, [pc |-> "supprimer", g |-> g, p |-> p, u |-> u, active |-> mandats[g].active])
  /\ BureauInchange /\ ComptesInchanges

SupprimerMembre(q) ==
  LET d == demandes[q]
  IN  /\ d.pc = "supprimer"
      /\ places' = places \ {<<d.g, d.p, d.u>>}
      /\ Passer(q, "ajuster")
      /\ UNCHANGED <<mandats, postes, actes>> /\ ComptesInchanges

\* ajusterAdministration reads the role, unless the mandate is not (or, as read
\* by the caller, was not) under way.
LireRole(q) ==
  LET d == demandes[q]
  IN  /\ d.pc = "ajuster"
      /\ IF d.active /\ comptes[d.u].existe
         THEN demandes' = [demandes EXCEPT ![q] =
                [pc |-> "compter", g |-> d.g, u |-> d.u,
                 role |-> comptes[d.u].role, promotion |-> comptes[d.u].promotion]]
         ELSE Rendre(q)
      /\ UNCHANGED actes /\ BureauInchange /\ ComptesInchanges

\* The role recomputed from the posts held: an account that has no promotion
\* keeps its own, and so does one above the office.
RoleAjuste(d) ==
  LET tenus == {p \in Postes : <<d.g, p, d.u>> \in places /\ postes[p].admin}
  IN  IF tenus # {} /\ d.role = "STUDENT" THEN "ADMIN"
      ELSE IF tenus = {} /\ d.role = "ADMIN" /\ d.promotion # 0 THEN "STUDENT"
      ELSE d.role

CompterPostes(q) ==
  LET d == demandes[q]
  IN  /\ d.pc = "compter"
      /\ IF RoleAjuste(d) # d.role
         THEN demandes' = [demandes EXCEPT ![q] = [pc |-> "promouvoir", u |-> d.u, role |-> RoleAjuste(d)]]
         ELSE Rendre(q)
      /\ UNCHANGED actes /\ BureauInchange /\ ComptesInchanges

Promouvoir(q) ==
  LET d == demandes[q]
  IN  /\ d.pc = "promouvoir"
      /\ comptes' = [comptes EXCEPT ![d.u].role = IF comptes[d.u].existe THEN d.role ELSE @]
      /\ Rendre(q)
      /\ UNCHANGED <<actes, retouches, marques>> /\ BureauInchange

------------------------------------------------------------------------------
(* Mandates.                                                               *)

AnneeLibre(a) == \A g \in Mandats : mandats[g].existe => mandats[g].annee # a

CreerMandat(q, d, g, a) ==
  /\ Disponible(q) /\ Administre(d)
  /\ ~mandats[g].existe
  /\ AnneeLibre(a)
  /\ mandats' = [mandats EXCEPT ![g] =
       [existe |-> TRUE, annee |-> a, active |-> FALSE, archive |-> FALSE]]
  /\ Faire(q)
  /\ UNCHANGED <<postes, places>> /\ ComptesInchanges

\* The year may change when posts are held, and under way: nobody's role nor
\* finissant is recomputed, and who holds a post is not of the year any more.
MettreAJourMandat(q, d, g, a) ==
  /\ Disponible(q) /\ Administre(d)
  /\ mandats[g].existe /\ ~mandats[g].archive
  /\ AnneeLibre(a)
  /\ mandats' = [mandats EXCEPT ![g].annee = a]
  /\ marques' = IF mandats[g].active THEN Personnes ELSE marques
  /\ retouches' = retouches \cup {u \in Personnes : \E p \in Postes : <<g, p, u>> \in places}
  /\ Faire(q)
  /\ UNCHANGED <<postes, places, comptes>>

\* verifierComposition: the key posts are held, and one that gives the role.
Complet(g) ==
  LET pourvus == {p \in Postes : \E u \in Personnes : <<g, p, u>> \in places}
      utiles == {p \in Postes : postes[p].existe}
  IN  /\ \A p \in utiles : postes[p].cle => p \in pourvus
      /\ (\E p \in utiles : postes[p].admin) => \E p \in utiles : postes[p].admin /\ p \in pourvus

Activer(q, d, g) ==
  /\ Disponible(q) /\ GereAcces(d)
  /\ mandats[g].existe /\ ~mandats[g].archive /\ ~mandats[g].active
  /\ Complet(g)
  /\ Demarrer(q, [pc |-> "entrants", g |-> g, annee |-> mandats[g].annee])
  /\ BureauInchange /\ ComptesInchanges

\* administrateursDe.
LireEntrants(q) ==
  LET d == demandes[q]
  IN  /\ d.pc = "entrants"
      /\ demandes' = [demandes EXCEPT ![q] =
           [pc |-> "basculer", g |-> d.g, annee |-> d.annee,
            entrants |-> {u \in Personnes : \E p \in Postes : <<d.g, p, u>> \in places /\ postes[p].admin}]]
      /\ UNCHANGED actes /\ BureauInchange /\ ComptesInchanges

\* Mutant: everybody of another year leaves, those who have no promotion included.
RoleApres_SansReserve(u, annee, entrants) ==
  IF u \in entrants THEN "ADMIN"
  ELSE IF comptes[u].role = "ADMIN" /\ comptes[u].promotion = annee THEN "STUDENT"
  ELSE comptes[u].role

\* Those who leave become students again, unless they never were; those who
\* come in become administrators, whoever they are.
RoleApres(u, annee, entrants) ==
  IF u \in entrants THEN "ADMIN"
  ELSE IF comptes[u].role = "ADMIN" /\ comptes[u].promotion \notin {0, annee} THEN "STUDENT"
  ELSE comptes[u].role

FinissantApres(u, annee) == comptes[u].promotion = annee

\* Mutant: the former mandate does not end.
ActifApres_Cumule(g, nouveau) == mandats[g].active \/ (g = nouveau /\ mandats[g].existe)

ActifApres(g, nouveau) == g = nouveau /\ mandats[g].existe

\* One transaction: the former mandate ends, this one starts, and the accounts
\* are recomputed.  A mandate deleted in between leaves none.
Basculer(q) ==
  LET d == demandes[q]
  IN  /\ d.pc = "basculer"
      /\ mandats' = [g \in Mandats |-> [mandats[g] EXCEPT !.active = ActifApres(g, d.g)]]
      /\ comptes' = [u \in Personnes |-> [comptes[u] EXCEPT
           !.finissant = comptes[u].existe /\ FinissantApres(u, d.annee),
           !.role = IF comptes[u].existe THEN RoleApres(u, d.annee, d.entrants) ELSE @]]
      /\ marques' = {}
      /\ Rendre(q)
      /\ UNCHANGED <<postes, places, actes, retouches>>

Archivable(g) == ~mandats[g].archive /\ ~mandats[g].active

\* Mutant: a mandate under way is not protected.
Archiver_EnCours(q, d, g) ==
  /\ Disponible(q) /\ GereAcces(d)
  /\ mandats[g].existe /\ ~mandats[g].archive
  /\ Demarrer(q, [pc |-> "archiver", g |-> g])
  /\ BureauInchange /\ ComptesInchanges

Archiver(q, d, g) ==
  /\ Disponible(q) /\ GereAcces(d)
  /\ mandats[g].existe /\ Archivable(g)
  /\ Demarrer(q, [pc |-> "archiver", g |-> g])
  /\ BureauInchange /\ ComptesInchanges

FigerMandat(q) ==
  LET d == demandes[q]
  IN  /\ d.pc = "archiver"
      /\ mandats' = [mandats EXCEPT ![d.g].archive = mandats[d.g].existe]
      /\ Rendre(q)
      /\ UNCHANGED <<postes, places, actes>> /\ ComptesInchanges

SupprimerMandat(q, d, g) ==
  /\ Disponible(q) /\ Administre(d)
  /\ mandats[g].existe /\ Archivable(g)
  /\ Demarrer(q, [pc |-> "effacer", g |-> g])
  /\ BureauInchange /\ ComptesInchanges

\* Its posts are no longer held: ON DELETE CASCADE.
EffacerMandat(q) ==
  LET d == demandes[q]
  IN  /\ d.pc = "effacer"
      /\ mandats' = [mandats EXCEPT ![d.g] = SansMandat]
      /\ places' = {m \in places : m[1] # d.g}
      /\ Rendre(q)
      /\ UNCHANGED <<postes, actes>> /\ ComptesInchanges

------------------------------------------------------------------------------
(* Accounts.                                                               *)

\* MettreAJourUtilisateurDto, one field at a time, or the role STUDENT with a
\* promotion: "" or 0 when it is not given.
Correction == [role |-> "", promotion |-> 0, actif |-> "", finissant |-> ""]

Corrections ==
  {[Correction EXCEPT !.role = r] : r \in RolesAttribuables}
    \cup {[Correction EXCEPT !.promotion = a] : a \in Annees}
    \cup {[Correction EXCEPT !.role = "STUDENT", !.promotion = a] : a \in Annees}
    \cup {[Correction EXCEPT !.actif = b] : b \in {"oui", "non"}}
    \cup {[Correction EXCEPT !.finissant = b] : b \in {"oui", "non"}}

Administrateurs == {u \in Personnes : comptes[u].role = "ADMIN" /\ comptes[u].actif}

RoleFinal(u, c) == IF c.role = "" THEN comptes[u].role ELSE c.role

\* verifierGestionDesAcces: who becomes or stops being an administrator, or an
\* administrator who is disabled.
ToucheAuxAcces(u, c) ==
  LET etait == comptes[u].role \in RolesAdministrateurs
      devient == RoleFinal(u, c) \in RolesAdministrateurs
  IN  etait # devient \/ (etait /\ c.actif = "non")

\* attributsEtudiant: the promotion given, or that of the account, or that of
\* its address, which must show one.
PromotionRetenue(u, c) ==
  IF c.promotion # 0 THEN c.promotion
  ELSE IF comptes[u].promotion # 0 THEN comptes[u].promotion ELSE comptes[u].campus

DevientEtudiant(u, c) ==
  RoleFinal(u, c) = "STUDENT" /\ (c.role = "STUDENT" \/ c.promotion # 0)

AutoriseSurSoi(d, u, c) ==
  d = u => (c.role = "" \/ c.role \in RolesAdministrateurs) /\ c.actif # "non"

administrer(q, d, u, c) ==
  /\ Disponible(q) /\ Administre(d)
  /\ comptes[u].existe
  /\ comptes[u].role = "SUPER_ADMIN" => comptes[d].role = "SUPER_ADMIN"
  /\ ToucheAuxAcces(u, c) => GereAcces(d)
  /\ AutoriseSurSoi(d, u, c)
  /\ (comptes[u].role \in RolesAdministrateurs /\ RoleFinal(u, c) \notin RolesAdministrateurs)
       => Cardinality(Administrateurs) > 1
  /\ DevientEtudiant(u, c) => PromotionRetenue(u, c) # 0
  /\ Demarrer(q, [pc |-> "corriger", u |-> u, c |-> c, avant |-> comptes[u],
                  promotion |-> PromotionRetenue(u, c), annee |-> AnneeActive])
  /\ BureauInchange /\ ComptesInchanges

\* The row as administrer writes it, from what it read.
Corrige(u, d) ==
  LET c == d.c
      compte == comptes[u]
      marque == IF c.finissant = "" THEN compte.finissant ELSE c.finissant = "oui"
      base == [compte EXCEPT !.role = IF c.role = "" THEN @ ELSE c.role,
                             !.actif = IF c.actif = "" THEN @ ELSE c.actif = "oui",
                             !.finissant = marque]
      final == IF c.role = "" THEN d.avant.role ELSE c.role
  IN  IF c.role = "VISITOR" /\ d.avant.role = "STUDENT"
      THEN [base EXCEPT !.promotion = 0, !.finissant = FALSE]
      ELSE IF final = "STUDENT" /\ (c.role = "STUDENT" \/ c.promotion # 0)
      THEN [base EXCEPT !.promotion = d.promotion,
              !.finissant = IF c.finissant # "" THEN c.finissant = "oui" ELSE d.promotion = d.annee]
      ELSE base

CorrigerCompte(q) ==
  LET d == demandes[q]
  IN  /\ d.pc = "corriger"
      /\ comptes' = [comptes EXCEPT ![d.u] = Corrige(d.u, d)]
      /\ retouches' = IF Corrige(d.u, d).role # comptes[d.u].role
                         \/ Corrige(d.u, d).promotion # comptes[d.u].promotion
                      THEN retouches \cup {d.u} ELSE retouches
      /\ marques' = IF d.c.finissant = "" THEN marques ELSE marques \cup {d.u}
      /\ Rendre(q)
      /\ UNCHANGED actes /\ BureauInchange

\* confirmerChangementEmail: what the new address shows replaces the promotion
\* of everybody, and the role of those who owe theirs to their address.
ChangerAdresse(q, u, campus) ==
  /\ Disponible(q)
  /\ comptes[u].existe
  /\ campus # comptes[u].campus
  /\ comptes' = [comptes EXCEPT
       ![u].campus = campus, ![u].promotion = campus,
       ![u].finissant = campus # 0 /\ campus = AnneeActive,
       ![u].role = IF comptes[u].role \in RolesAdministrateurs \cup {"SPONSOR"} THEN comptes[u].role
                   ELSE IF campus = 0 THEN "VISITOR" ELSE "STUDENT"]
  /\ retouches' = retouches \cup {u}
  /\ marques' = marques \ {u}
  /\ Faire(q)
  /\ BureauInchange

\* creerPremierAdministrateur, a command of the server.
CreerPremierAdministrateur(u, role) ==
  /\ ~comptes[u].existe
  /\ \A v \in Personnes : comptes[v].role \notin RolesAdministrateurs
  /\ comptes' = [comptes EXCEPT ![u] =
       [role |-> role, promotion |-> 0, finissant |-> FALSE, actif |-> TRUE, campus |-> 0, existe |-> TRUE]]
  /\ UNCHANGED <<demandes, actes, retouches, marques>> /\ BureauInchange

------------------------------------------------------------------------------

Bureau(q, d) ==
  \/ \E p \in Postes, f \in Fonctions : CreerPoste(q, d, p, f) \/ MettreAJourPoste(q, d, p, f)
  \/ \E p \in Postes : SupprimerPoste(q, d, p)
  \/ \E g \in Mandats, p \in Postes, u \in Personnes :
       Affecter(q, d, g, p, u) \/ Retirer(q, d, g, p, u)

Generations(q, d) ==
  \E g \in Mandats :
    \/ \E a \in Annees : CreerMandat(q, d, g, a) \/ MettreAJourMandat(q, d, g, a)
    \/ Activer(q, d, g) \/ Archiver(q, d, g) \/ SupprimerMandat(q, d, g)

Suite(q) ==
  \/ EnregistrerMembre(q) \/ SupprimerMembre(q) \/ LireRole(q) \/ CompterPostes(q) \/ Promouvoir(q)
  \/ LireEntrants(q) \/ Basculer(q) \/ FigerMandat(q) \/ EffacerMandat(q) \/ CorrigerCompte(q)

NextMandats ==
  \/ \E q \in Demandes :
       \/ Suite(q)
       \/ \E d \in Personnes : Bureau(q, d) \/ Generations(q, d)
       \/ \E d, u \in Personnes, c \in Corrections : administrer(q, d, u, c)
       \/ \E u \in Personnes, n \in Promotions : ChangerAdresse(q, u, n)
  \/ \E u \in Personnes, r \in RolesAdministrateurs : CreerPremierAdministrateur(u, r)

SpecMandats == InitMandats /\ [][NextMandats]_varsMandats

------------------------------------------------------------------------------
(* Properties.                                                             *)

AuRepos == \A q \in Demandes : demandes[q] = Libre

\* Between two requests, a student administers exactly while holding, in the
\* mandate under way, a post that gives it: whatever the order in which posts
\* were given, taken back and cumulated and mandates started; unless the role,
\* the promotion, what the post gives or the year of the mandate was edited by
\* hand.
TitulaireAdministre ==
  AuRepos => \A u \in Personnes \ retouches :
    comptes[u].promotion # 0 =>
      (comptes[u].role = "ADMIN" <=> \E p \in PostesDe(u) : postes[p].admin)

\* finissant is computed, never typed: it says that the promotion is that of the
\* mandate under way, unless it was set by hand or the year of the mandate was
\* edited since it started.
FinissantCalcule ==
  AuRepos => \A u \in Personnes \ marques :
    comptes[u].finissant <=> comptes[u].promotion # 0 /\ comptes[u].promotion = AnneeActive

\* What accounts say follows the posts held and the mandate under way.
MandatsJustes == TitulaireAdministre /\ FinissantCalcule

\* Once a mandate has started there is always one under way, which is neither
\* archived nor deleted: the price, the theme and the rights depend on it.
MandatEnCours ==
  [][(\E g \in Mandats : EnCours(g)) => (\E g \in Mandats : EnCours(g))']_varsMandats

\* Somebody can always run the platform, or it takes a hand in the database:
\* whoever corrects whichever account, one request at a time, an active
\* administrator is left.
CorrectionLaisseUnAdministrateur ==
  [][(\E q \in Demandes : CorrigerCompte(q)) /\ (\E u \in Personnes : Administre(u))
       => (\E u \in Personnes : Administre(u))']_varsMandats

\* What the platform needs to be run is never taken away from it: the mandate
\* under way and, by a correction of accounts, the last administrator.
PlateformeTenue == MandatEnCours /\ CorrectionLaisseUnAdministrateur

\* The same of every request, those on the members of the office and on the
\* mandates included.
ResteUnAdministrateur ==
  [][(\E u \in Personnes : Administre(u)) => (\E u \in Personnes : Administre(u))']_varsMandats

==============================================================================

------------------------------ MODULE MCPlateforme -----------------------------
(***************************************************************************)
(* Instances of Mandats, Auth, Sondage, Notifications and Cascade for TLC. *)
(* They share no variable (what one does to the accounts or the settings   *)
(* of the other is an action of the other): in a behaviour one of them     *)
(* moves.                                                                  *)
(***************************************************************************)
EXTENDS Mandats, Auth, Sondage, Envois, TLC

CONSTANTS u1, u2, u3, g1, g2, p1, p2, c1, a1

VARIABLE scene   \* the component that moves

Presidence == [admin |-> TRUE, acces |-> TRUE, cle |-> TRUE]
Secretariat == [admin |-> TRUE, acces |-> FALSE, cle |-> FALSE]
Sono == [admin |-> FALSE, acces |-> FALSE, cle |-> FALSE]
FonctionsMC == {Presidence, Secretariat, Sono}
Cree(f) == [existe |-> TRUE, admin |-> f.admin, acces |-> f.acces, cle |-> f.cle]

\* Two students of a promotion, or a student and a visitor.
PromosMC == u1 :> 2027 @@ u3 :> Visiteurs
ModelesMC ==
  {[multiple |-> FALSE, anonyme |-> FALSE, campus |-> TRUE, visibilite |-> "APRES_VOTE"],
   [multiple |-> TRUE, anonyme |-> FALSE, campus |-> FALSE, visibilite |-> "TOUJOURS"],
   [multiple |-> TRUE, anonyme |-> TRUE, campus |-> FALSE, visibilite |-> "APRES_DEADLINE"]}
RetouchesMC ==
  {[campus |-> FALSE, visibilite |-> "TOUJOURS", echue |-> FALSE],
   [campus |-> TRUE, visibilite |-> "APRES_DEADLINE", echue |-> TRUE]}

RappeleMC == <<u1, u2, u1>>

\* A platform in service, as the operations of Mandats lead to it: the first
\* mandate is under way, the next one is being prepared.
Compte(role, n) == [role |-> role, promotion |-> n, finissant |-> FALSE, actif |-> TRUE,
                    campus |-> n, existe |-> TRUE]
Finissant(role) == [Compte(role, 1) EXCEPT !.finissant = TRUE]

EnMarche ==
  /\ comptes = (u1 :> Finissant("ADMIN") @@ u2 :> Finissant("STUDENT") @@ u3 :> Compte("STUDENT", 2))
  /\ mandats = (g1 :> [existe |-> TRUE, annee |-> 1, active |-> TRUE, archive |-> FALSE]
       @@ g2 :> [existe |-> TRUE, annee |-> 2, active |-> FALSE, archive |-> FALSE])
  /\ places = {<<g1, p1, u1>>}
  /\ actes = 1

\* A platform being installed: nobody runs it yet.
Neuve ==
  /\ comptes = (u1 :> SansCompte @@ u2 :> Compte("STUDENT", 1) @@ u3 :> Compte("VISITOR", 0))
  /\ mandats = [g \in Mandats |-> SansMandat]
  /\ places = {}
  /\ actes = 0

DebutMandats ==
  /\ EnMarche \/ Neuve
  /\ postes = (p1 :> Cree(Presidence) @@ p2 :> Cree(Sono))
  /\ demandes = [q \in Demandes |-> Libre]
  /\ retouches = {} /\ marques = {}

\* No account, or a student who registered.
Inscrit == [NouvelUsager(a1, "STUDENT", TRUE) EXCEPT !.verifie = TRUE]

DebutAuth ==
  /\ \/ usagers = [c \in Usagers |-> SansUsager] /\ preuves = {}
     \/ usagers = [c \in Usagers |-> IF c = c1 THEN Inscrit ELSE SansUsager] /\ preuves = {<<c1, a1>>}
  /\ liens = [l \in Liens |-> LienNeuf]
  /\ seances = << >>
  /\ appels = [q \in Appels |-> SansAppel]
  /\ servis = 0
  /\ usages = [l \in Liens |-> 0]
  /\ echanges = [t \in 1 .. MaxSeances |-> 0]
  /\ chevauche = FALSE

Ferme == [op |-> "fermee"]
Seul == CHOOSE b \in Bureaux : TRUE

Brouillon == [SansSondage EXCEPT !.statut = "BROUILLON", !.visibilite = "APRES_VOTE"]

\* A draft, with two requests of the office at once that open, close or delete it;
\* or any poll, with one at a time that may also edit.
DebutSondage ==
  /\ voix = [o \in Propositions |-> 0]
  /\ urne = {} /\ emargement = {} /\ inscrits = Votants
  /\ isoloirs = [v \in Votants |-> SansBulletin]
  /\ \/ /\ bureaux = [b \in Bureaux |-> Inoccupe] /\ editions = MaxEditions
        /\ sondage = Brouillon
     \/ /\ bureaux = [b \in Bureaux |-> IF b = Seul THEN Inoccupe ELSE Ferme] /\ editions = 0
        /\ sondage = SansSondage
  /\ retires = {} /\ fige = PasClos /\ avertis = {} /\ invitations = 0 /\ ecrase = FALSE

\* The reminders, or the diffusion: the settings are all they share. People make
\* one move and MaxPannes failures happen; for the diffusion also MaxGestes moves
\* and no failure.
DebutNotifications ==
  /\ gens = [p \in Destinataires |-> IF p \in Inconnus THEN "non_verifie" ELSE "verifie"]
  /\ reglages = [p \in Destinataires |-> SansLigne]
  /\ saisies = [s \in Saisies |-> SansSaisie]
  /\ avis = [c \in Cles |-> "rien"]
  /\ emails = {}
  /\ passages = [k \in Passages |-> SansPassage]
  /\ \/ /\ echus = 0 /\ envoyes = {} /\ perdus = {} /\ diffusion = [SansDiffusion EXCEPT !.pc = "finie"]
        /\ gestes = MaxGestes - 1
     \/ /\ echus = NbRappels /\ envoyes = Rappels /\ perdus = Rappels /\ diffusion = SansDiffusion
        /\ gestes \in {0, MaxGestes - 1}
  /\ pannes = IF gestes = 0 THEN MaxPannes ELSE 0
  /\ voulu = [p \in Destinataires |-> Ouverts]
  /\ fermes = [e \in Emetteurs |-> {}]
  /\ forces = {} /\ croises = {}

\* The component that does not move is empty.
Vide ==
  /\ comptes = [u \in Personnes |-> SansCompte]
  /\ mandats = [g \in Mandats |-> SansMandat]
  /\ postes = [p \in Postes |-> SansPoste]
  /\ places = {}
  /\ demandes = [q \in Demandes |-> Libre]
  /\ actes = 0
  /\ retouches = {} /\ marques = {}

InitPlateforme ==
  \/ scene = "mandats" /\ DebutMandats /\ InitAuth /\ InitSondage /\ InitNotifications /\ InitCascade
  \/ scene = "auth" /\ Vide /\ DebutAuth /\ InitSondage /\ InitNotifications /\ InitCascade
  \/ scene = "sondage" /\ Vide /\ InitAuth /\ DebutSondage /\ InitNotifications /\ InitCascade
  \/ scene = "notifications" /\ Vide /\ InitAuth /\ InitSondage /\ DebutNotifications /\ InitCascade
  \/ scene = "cascade" /\ Vide /\ InitAuth /\ InitSondage /\ InitNotifications /\ InitCascade

NextPlateforme ==
  /\ UNCHANGED scene
  /\ \/ /\ scene = "mandats" /\ NextMandats
        /\ UNCHANGED <<varsAuth, varsSondage, varsNotifications, varsCascade>>
     \/ /\ scene = "auth" /\ NextAuth
        /\ UNCHANGED <<varsMandats, varsSondage, varsNotifications, varsCascade>>
     \/ /\ scene = "sondage" /\ NextSondage
        /\ UNCHANGED <<varsMandats, varsAuth, varsNotifications, varsCascade>>
     \/ /\ scene = "notifications" /\ NextNotifications
        /\ UNCHANGED <<varsMandats, varsAuth, varsSondage, varsCascade>>
     \/ /\ scene = "cascade" /\ NextCascade
        /\ UNCHANGED <<varsMandats, varsAuth, varsSondage, varsNotifications>>

varsPlateforme ==
  <<scene, varsMandats, varsAuth, varsSondage, varsNotifications, varsCascade>>

SpecPlateforme == InitPlateforme /\ [][NextPlateforme]_varsPlateforme

\* Each component holds what its types say.
TypeOKPlateforme ==
  CASE scene = "mandats"       -> TypeOKMandats
    [] scene = "auth"          -> TypeOKAuth
    [] scene = "sondage"       -> TypeOKSondage
    [] scene = "notifications" -> TypeOKNotifications
    [] scene = "cascade"       -> TypeOKCascade
==============================================================================

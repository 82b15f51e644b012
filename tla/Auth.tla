--------------------------------- MODULE Auth ---------------------------------
(***************************************************************************)
(* Accounts and how one gets into them: AuthService and JetonService, with *)
(* what UserService, SponsorService and PurgeComptesService do to the same *)
(* accounts.                                                               *)
(*                                                                         *)
(* A link (`jeton`) is mailed to an address and used once; following it    *)
(* proves that the address is one's own.  A session is a refresh token, of *)
(* which the account keeps the last one only.  Requests are served at the  *)
(* same time: each is the sequence of its database statements.             *)
(***************************************************************************)
EXTENDS Naturals, Sequences, FiniteSets

CONSTANTS Usagers,     \* identifiers of accounts
          Adresses,    \* e-mail addresses
          Campus,      \* those that show a promotion
          Aucune,      \* no address
          Liens,       \* bound: links ever issued
          Appels,      \* requests served at once
          MaxAppels,   \* bound: requests
          MaxSeances   \* bound: sessions ever opened

ASSUME AuthAssumption ==
  /\ Campus \subseteq Adresses
  /\ Aucune \notin Adresses
  /\ {MaxAppels, MaxSeances} \subseteq Nat

VARIABLES
  usagers,    \* users
  liens,      \* jetons_auth
  seances,    \* the refresh tokens issued: whose, and (history) whether the
              \* credentials of the account are still those it was opened with
  appels,     \* the requests being served
  servis,     \* how many there were
  usages,     \* history: how many times a link opened what it opens
  echanges,   \* history: how many times a refresh token gave another one
  preuves,    \* history: the addresses an account proved
  chevauche   \* history: two requests were served at the same time

varsAuth == <<usagers, liens, seances, appels, servis, usages, echanges, preuves, chevauche>>

------------------------------------------------------------------------------

RolesUsagers == {"VISITOR", "STUDENT", "SPONSOR", "ADMIN"}
TypesJeton == {"VERIFICATION_EMAIL", "REINITIALISATION_MOT_DE_PASSE",
               "INVITATION_SPONSOR", "CHANGEMENT_EMAIL"}
LIENS_CUMULABLES == {"VERIFICATION_EMAIL"}

SansUsager == [existe |-> FALSE, adresse |-> Aucune, role |-> "VISITOR", verifie |-> FALSE,
               actif |-> FALSE, motDePasse |-> FALSE, attente |-> Aucune, seance |-> 0,
               ancien |-> FALSE, fiche |-> FALSE]
LienNeuf == [etat |-> "neuf"]
SansAppel == [pc |-> "libre"]

\* A created account: an address nobody proved yet.
NouvelUsager(a, role, motDePasse) ==
  [SansUsager EXCEPT !.existe = TRUE, !.adresse = a, !.role = role, !.actif = TRUE,
                     !.motDePasse = motDePasse]

\* attributsCampus.
RoleSelon(a) == IF a \in Campus THEN "STUDENT" ELSE "VISITOR"

Titulaires(a) == {c \in Usagers : usagers[c].existe /\ usagers[c].adresse = a}

\* The unique index, when an address is written.
AdresseLibre(a) == Titulaires(a) = {}

TypeOKAuth ==
  /\ usagers \in [Usagers -> [existe : BOOLEAN, adresse : Adresses \cup {Aucune}, role : RolesUsagers,
                              verifie : BOOLEAN, actif : BOOLEAN, motDePasse : BOOLEAN,
                              attente : Adresses \cup {Aucune}, seance : 0 .. MaxSeances,
                              ancien : BOOLEAN, fiche : BOOLEAN]]
  /\ \A a \in Adresses : Cardinality(Titulaires(a)) <= 1
  /\ \A l \in Liens : liens[l] = LienNeuf \/
       liens[l] \in [etat : {"valable", "consomme", "expire", "efface"}, type : TypesJeton,
                     compte : Usagers, boite : Adresses]
  /\ seances \in Seq([compte : Usagers, aJour : BOOLEAN]) /\ Len(seances) <= MaxSeances
  /\ \A c \in Usagers : usagers[c].seance \in 0 .. Len(seances)
  /\ preuves \subseteq Usagers \X Adresses

InitAuth ==
  /\ usagers = [c \in Usagers |-> SansUsager]
  /\ liens = [l \in Liens |-> LienNeuf]
  /\ seances = << >>
  /\ appels = [q \in Appels |-> SansAppel]
  /\ servis = 0
  /\ usages = [l \in Liens |-> 0]
  /\ echanges = [t \in 1 .. MaxSeances |-> 0]
  /\ preuves = {}
  /\ chevauche = FALSE

------------------------------------------------------------------------------
(* Steps of the requests.                                                  *)

Recevoir(q, appel) ==
  /\ appels[q] = SansAppel
  /\ servis < MaxAppels
  /\ servis' = servis + 1
  /\ appels' = [appels EXCEPT ![q] = appel]
  /\ chevauche' = (chevauche \/ \E r \in Appels \ {q} : appels[r] # SansAppel)

\* A request of a single statement.
Servir(q) == Recevoir(q, SansAppel)

Poursuivre(q, appel) == appels' = [appels EXCEPT ![q] = appel] /\ UNCHANGED <<servis, chevauche>>
Repondre(q) == Poursuivre(q, SansAppel)

Etape(q, pc) == appels[q].pc = pc
HistoiresInchangees == UNCHANGED <<usages, echanges, preuves>>
LiensInchanges == UNCHANGED <<liens, seances>> /\ HistoiresInchangees

\* The sessions opened before the password or the address changed.
Perimer(c) ==
  seances' = [t \in DOMAIN seances |->
                [seances[t] EXCEPT !.aJour = @ /\ seances[t].compte # c]]

\* The links of a deleted account go with it.
Effacer(comptes) ==
  /\ usagers' = [c \in Usagers |-> IF c \in comptes THEN SansUsager ELSE usagers[c]]
  /\ liens' = [l \in Liens |-> IF liens[l] # LienNeuf /\ liens[l].compte \in comptes
                               THEN [liens[l] EXCEPT !.etat = "efface"] ELSE liens[l]]
  /\ preuves' = {p \in preuves : p[1] \notin comptes}
  /\ UNCHANGED <<seances, usages, echanges>>

------------------------------------------------------------------------------
(* JetonService.                                                           *)

\* emettre: the earlier links of the type are invalidated first, but for those
\* that may be several.
Emission(type, c, boite) ==
  [pc |-> IF type \in LIENS_CUMULABLES THEN "emettre" ELSE "invalider",
   type |-> type, c |-> c, boite |-> boite]

LiensInvalides(c, type) ==
  [l \in Liens |-> IF liens[l] # LienNeuf /\ liens[l].compte = c /\ liens[l].type = type
                      /\ liens[l].etat = "valable"
                   THEN [liens[l] EXCEPT !.etat = "consomme"] ELSE liens[l]]

Invalider(q) ==
  /\ Etape(q, "invalider")
  /\ liens' = LiensInvalides(appels[q].c, appels[q].type)
  /\ Poursuivre(q, [appels[q] EXCEPT !.pc = "emettre"])
  /\ UNCHANGED <<usagers, seances>> /\ HistoiresInchangees

\* The row, then the mail.  There is no row for an account that went.
Emettre(q) ==
  LET d == appels[q]
  IN  /\ Etape(q, "emettre")
      /\ \E l \in Liens : liens[l] = LienNeuf
      /\ liens' = IF ~usagers[d.c].existe THEN liens
                  ELSE [liens EXCEPT ![CHOOSE l \in Liens : liens[l] = LienNeuf] =
                         [etat |-> "valable", type |-> d.type, compte |-> d.c, boite |-> d.boite]]
      /\ Repondre(q)
      /\ UNCHANGED <<usagers, seances>> /\ HistoiresInchangees

\* consommer, first half: the link and its account as they are.
Suivre(q, l) ==
  /\ liens[l].etat = "valable"
  /\ Recevoir(q, [pc |-> "consommer", l |-> l, c |-> liens[l].compte,
                  adresse |-> usagers[liens[l].compte].adresse,
                  attente |-> usagers[liens[l].compte].attente,
                  role |-> usagers[liens[l].compte].role])
  /\ UNCHANGED usagers /\ LiensInchanges

\* What following a link of each type leads to.
SuiteDuLien(type) ==
  CASE type = "VERIFICATION_EMAIL" -> "valider"
    [] type = "CHANGEMENT_EMAIL" -> "comparer"
    [] OTHER -> "definir"

\* Mutant: the consumption is not conditional.
Consommable_Toujours(l) == liens[l].etat # "efface"

Consommable(l) == liens[l].etat \in {"valable", "expire"}

\* Second half: UPDATE ... WHERE consomme_le IS NULL.
Consommer(q) ==
  LET d == appels[q]
  IN  /\ Etape(q, "consommer")
      /\ IF Consommable(d.l)
         THEN /\ liens' = [liens EXCEPT ![d.l].etat = "consomme"]
              /\ usages' = [usages EXCEPT ![d.l] = @ + 1]
              /\ preuves' = preuves \cup {<<d.c, liens[d.l].boite>>}
              /\ Poursuivre(q, [d EXCEPT !.pc = SuiteDuLien(liens[d.l].type)])
         ELSE UNCHANGED <<liens, usages, preuves>> /\ Repondre(q)
      /\ UNCHANGED <<usagers, seances, echanges>>

Expirer(l) ==
  /\ liens[l].etat = "valable"
  /\ liens' = [liens EXCEPT ![l].etat = "expire"]
  /\ UNCHANGED <<usagers, seances, appels, servis, chevauche>> /\ HistoiresInchangees

------------------------------------------------------------------------------
(* Registration and verification.                                          *)

\* An address already proved is only told about the attempt.
Inscrire(q, a) ==
  /\ \A c \in Titulaires(a) : ~usagers[c].verifie
  /\ Recevoir(q, [pc |-> "inscrire", connus |-> Titulaires(a), a |-> a])
  /\ UNCHANGED usagers /\ LiensInchanges

\* The account that was found takes the password given now; or there is a new
\* one, unless somebody took the address in between.
EnregistrerInscription(q) ==
  LET d == appels[q]
  IN  /\ Etape(q, "inscrire")
      /\ \/ \E c \in d.connus :
              IF usagers[c].existe
              THEN /\ usagers' = [usagers EXCEPT ![c].motDePasse = TRUE]
                   /\ Perimer(c)
                   /\ Poursuivre(q, Emission("VERIFICATION_EMAIL", c, usagers[c].adresse))
              ELSE UNCHANGED <<usagers, seances>> /\ Repondre(q)
         \/ /\ d.connus = {} /\ AdresseLibre(d.a)
            /\ \E c \in Usagers :
                 /\ ~usagers[c].existe
                 /\ usagers' = [usagers EXCEPT ![c] = NouvelUsager(d.a, "VISITOR", TRUE)]
                 /\ Poursuivre(q, Emission("VERIFICATION_EMAIL", c, d.a))
            /\ UNCHANGED seances
         \/ /\ d.connus = {} /\ ~AdresseLibre(d.a)
            /\ Repondre(q)
            /\ UNCHANGED <<usagers, seances>>
      /\ UNCHANGED liens /\ HistoiresInchangees

RenvoyerVerification(q, c) ==
  /\ usagers[c].existe /\ ~usagers[c].verifie
  /\ Recevoir(q, Emission("VERIFICATION_EMAIL", c, usagers[c].adresse))
  /\ UNCHANGED usagers /\ LiensInchanges

\* The other links of verification are worth nothing any more.
InvaliderVerifications(q) ==
  /\ Etape(q, "valider")
  /\ liens' = LiensInvalides(appels[q].c, "VERIFICATION_EMAIL")
  /\ Poursuivre(q, [appels[q] EXCEPT !.pc = "activer"])
  /\ UNCHANGED <<usagers, seances>> /\ HistoiresInchangees

\* The role is that of the address, whatever it was.
ActiverCompte(q) ==
  LET d == appels[q]
  IN  /\ Etape(q, "activer")
      /\ IF usagers[d.c].existe
         THEN /\ usagers' = [usagers EXCEPT ![d.c].verifie = TRUE, ![d.c].role = RoleSelon(d.adresse)]
              /\ Poursuivre(q, [pc |-> "ouvrir", c |-> d.c])
         ELSE UNCHANGED usagers /\ Repondre(q)
      /\ LiensInchanges

------------------------------------------------------------------------------
(* Sessions.                                                               *)

Connecter(q, c) ==
  /\ usagers[c].existe /\ usagers[c].motDePasse /\ usagers[c].verifie /\ usagers[c].actif
  /\ Recevoir(q, [pc |-> "ouvrir", c |-> c])
  /\ UNCHANGED usagers /\ LiensInchanges

\* ouvrirSession: the account keeps the last token only.
Ouvrir(q) ==
  LET c == appels[q].c
  IN  /\ Etape(q, "ouvrir")
      /\ Len(seances) < MaxSeances
      /\ seances' = Append(seances, [compte |-> c, aJour |-> TRUE])
      /\ usagers' = [usagers EXCEPT ![c].seance = IF usagers[c].existe THEN Len(seances) + 1 ELSE 0]
      /\ Repondre(q)
      /\ UNCHANGED liens /\ HistoiresInchangees

Correspond(t) == usagers[seances[t].compte].seance = t

\* An older token closes the session.
Rafraichir(q, t) ==
  LET c == seances[t].compte
  IN  /\ usagers[c].existe /\ usagers[c].seance # 0 /\ usagers[c].actif
      /\ Recevoir(q, [pc |-> IF Correspond(t) THEN "ouvrir" ELSE "revoquer", c |-> c])
      /\ echanges' = [echanges EXCEPT ![t] = IF Correspond(t) /\ @ < 2 THEN @ + 1 ELSE @]
      /\ UNCHANGED <<usagers, liens, seances, usages, preuves>>

Revoquer(q) ==
  /\ Etape(q, "revoquer")
  /\ usagers' = [usagers EXCEPT ![appels[q].c].seance = 0]
  /\ Repondre(q)
  /\ LiensInchanges

Deconnecter(q, c) ==
  /\ usagers[c].existe /\ usagers[c].actif
  /\ usagers' = [usagers EXCEPT ![c].seance = 0]
  /\ Servir(q)
  /\ LiensInchanges

------------------------------------------------------------------------------
(* Passwords.                                                              *)

DemanderReinitialisation(q, c) ==
  /\ usagers[c].existe /\ usagers[c].verifie
  /\ Recevoir(q, Emission("REINITIALISATION_MOT_DE_PASSE", c, usagers[c].adresse))
  /\ UNCHANGED usagers /\ LiensInchanges

\* By a link of reinitialisation or an invitation: it proves the address too.
DefinirMotDePasse(q) ==
  LET c == appels[q].c
  IN  /\ Etape(q, "definir")
      /\ IF usagers[c].existe
         THEN /\ usagers' = [usagers EXCEPT ![c].motDePasse = TRUE, ![c].verifie = TRUE, ![c].seance = 0]
              /\ Poursuivre(q, [pc |-> "ouvrir", c |-> c])
              /\ Perimer(c)
         ELSE UNCHANGED <<usagers, seances>> /\ Repondre(q)
      /\ UNCHANGED liens /\ HistoiresInchangees

ChangerMotDePasse(q, c) ==
  /\ usagers[c].existe /\ usagers[c].actif /\ usagers[c].motDePasse
  /\ usagers' = [usagers EXCEPT ![c].seance = 0]
  /\ Perimer(c)
  /\ Servir(q)
  /\ UNCHANGED liens /\ HistoiresInchangees

------------------------------------------------------------------------------
(* Another address.                                                        *)

DemanderChangementEmail(q, c, a) ==
  /\ usagers[c].existe /\ usagers[c].actif /\ usagers[c].motDePasse /\ usagers[c].verifie
  /\ Titulaires(a) = {}
  /\ Recevoir(q, [pc |-> "noter", c |-> c, a |-> a])
  /\ UNCHANGED usagers /\ LiensInchanges

NoterAttente(q) ==
  LET d == appels[q]
  IN  /\ Etape(q, "noter")
      /\ IF usagers[d.c].existe
         THEN /\ usagers' = [usagers EXCEPT ![d.c].attente = d.a]
              /\ Poursuivre(q, Emission("CHANGEMENT_EMAIL", d.c, d.a))
         ELSE UNCHANGED usagers /\ Repondre(q)
      /\ LiensInchanges

\* confirmerChangementEmail, with the account as it was when its link was read:
\* an address taken in between is forgotten.
ComparerAdresse(q) ==
  LET d == appels[q]
  IN  /\ Etape(q, "comparer")
      /\ IF d.attente # Aucune /\ Titulaires(d.attente) = {}
         THEN UNCHANGED usagers /\ Poursuivre(q, [d EXCEPT !.pc = "basculer"])
         ELSE /\ usagers' = [usagers EXCEPT ![d.c].attente = IF d.attente = Aucune THEN @ ELSE Aucune]
              /\ Repondre(q)
      /\ LiensInchanges

BasculerAdresse(q) ==
  LET d == appels[q]
  IN  /\ Etape(q, "basculer")
      /\ IF usagers[d.c].existe /\ AdresseLibre(d.attente)
         THEN /\ usagers' = [usagers EXCEPT
                   ![d.c].adresse = d.attente, ![d.c].attente = Aucune, ![d.c].verifie = TRUE, ![d.c].seance = 0,
                   ![d.c].role = IF d.role \in {"ADMIN", "SPONSOR"} THEN @ ELSE RoleSelon(d.attente)]
              /\ Perimer(d.c)
              /\ Poursuivre(q, [pc |-> "ouvrir", c |-> d.c])
         ELSE UNCHANGED <<usagers, seances>> /\ Repondre(q)
      /\ UNCHANGED liens /\ HistoiresInchangees

------------------------------------------------------------------------------
(* The administration, and time.                                           *)

\* SponsorService.inviter: an account without password, and the record (`fiche`)
\* of the partner.
Inviter(q, a) ==
  /\ Titulaires(a) = {}
  /\ Recevoir(q, [pc |-> "inviter", a |-> a])
  /\ UNCHANGED usagers /\ LiensInchanges

CreerPartenaire(q) ==
  LET d == appels[q]
  IN  /\ Etape(q, "inviter")
      /\ \/ /\ AdresseLibre(d.a)
            /\ \E c \in Usagers :
                 /\ ~usagers[c].existe
                 /\ usagers' = [usagers EXCEPT ![c] =
                      [NouvelUsager(d.a, "SPONSOR", FALSE) EXCEPT !.fiche = TRUE]]
                 /\ Poursuivre(q, Emission("INVITATION_SPONSOR", c, d.a))
         \/ /\ ~AdresseLibre(d.a)
            /\ UNCHANGED usagers /\ Repondre(q)
      /\ LiensInchanges

Reinviter(q, c) ==
  /\ usagers[c].fiche /\ ~usagers[c].verifie
  /\ Recevoir(q, Emission("INVITATION_SPONSOR", c, usagers[c].adresse))
  /\ UNCHANGED usagers /\ LiensInchanges

\* administrer: an account is disabled, then its session closed; or enabled again.
Desactiver(q, c) ==
  /\ usagers[c].existe
  /\ usagers' = [usagers EXCEPT ![c].actif = ~@]
  /\ Recevoir(q, IF usagers[c].actif THEN [pc |-> "revoquer", c |-> c] ELSE SansAppel)
  /\ LiensInchanges

Nommer(q, c) ==
  /\ usagers[c].existe /\ usagers[c].verifie /\ usagers[c].role # "ADMIN"
  /\ usagers' = [usagers EXCEPT ![c].role = "ADMIN"]
  /\ Servir(q)
  /\ LiensInchanges

\* SponsorService.supprimer: the record of the partner, and the account.
SupprimerPartenaire(q, c) ==
  /\ usagers[c].fiche
  /\ Effacer({c})
  /\ Servir(q)

\* PURGE_COMPTES_NON_VERIFIES_JOURS went by since the account was created.
Vieillir(c) ==
  /\ usagers[c].existe /\ ~usagers[c].verifie /\ ~usagers[c].ancien
  /\ usagers' = [usagers EXCEPT ![c].ancien = TRUE]
  /\ UNCHANGED <<appels, servis, chevauche>> /\ LiensInchanges

Purgeables == {c \in Usagers : usagers[c].existe /\ ~usagers[c].verifie /\ usagers[c].ancien
                                 /\ usagers[c].role # "SPONSOR"}

Purger ==
  /\ Purgeables # {}
  /\ Effacer(Purgeables)
  /\ UNCHANGED <<appels, servis, chevauche>>

------------------------------------------------------------------------------

NextAuth ==
  \/ \E q \in Appels :
       \/ \E a \in Adresses : Inscrire(q, a) \/ Inviter(q, a)
       \/ \E c \in Usagers :
            \/ RenvoyerVerification(q, c) \/ Connecter(q, c) \/ Deconnecter(q, c)
            \/ DemanderReinitialisation(q, c) \/ ChangerMotDePasse(q, c)
            \/ \E a \in Adresses : DemanderChangementEmail(q, c, a)
            \/ Reinviter(q, c) \/ Desactiver(q, c) \/ Nommer(q, c) \/ SupprimerPartenaire(q, c)
       \/ \E l \in Liens : Suivre(q, l)
       \/ \E t \in DOMAIN seances : Rafraichir(q, t)
       \/ Invalider(q) \/ Emettre(q) \/ Consommer(q)
       \/ EnregistrerInscription(q) \/ InvaliderVerifications(q) \/ ActiverCompte(q)
       \/ Ouvrir(q) \/ Revoquer(q) \/ DefinirMotDePasse(q)
       \/ NoterAttente(q) \/ ComparerAdresse(q) \/ BasculerAdresse(q) \/ CreerPartenaire(q)
  \/ \E l \in Liens : Expirer(l)
  \/ \E c \in Usagers : Vieillir(c)
  \/ Purger

SpecAuth == InitAuth /\ [][NextAuth]_varsAuth

------------------------------------------------------------------------------
(* Properties.                                                             *)

\* A link works once, even when it is followed twice at the same time.
LienUneFois == \A l \in Liens : usages[l] <= 1

\* The address of a verified account is one whose mailbox answered: whatever was
\* registered, asked for, sent again, replaced or confirmed before, one request
\* at a time.
AdresseProuvee ==
  ~chevauche => \A c \in Usagers :
    usagers[c].verifie => <<c, usagers[c].adresse>> \in preuves

\* Changing the password or the address ends the sessions opened before: the
\* one an account has was opened with its present credentials, one request at a
\* time.
SeanceAJour ==
  ~chevauche => \A c \in Usagers :
    usagers[c].seance # 0 => seances[usagers[c].seance].aJour

\* A refresh token gives one other, and nothing when it is shown again, one
\* request at a time.
RafraichiUneFois == ~chevauche => \A t \in 1 .. MaxSeances : echanges[t] <= 1

\* Links prove the address they were sent to, and once; sessions and refresh
\* tokens do not outlive what they were given for.
JetonsJustes == LienUneFois /\ AdresseProuvee /\ SeanceAJour /\ RafraichiUneFois

\* A partner stays one until the administration deletes or appoints them: links
\* of verification only prove that one has a mailbox.
PartenaireReste ==
  [][\A c \in Usagers : usagers[c].role = "SPONSOR" /\ usagers'[c].existe
       => usagers'[c].role \in {"SPONSOR", "ADMIN"}]_varsAuth

==============================================================================

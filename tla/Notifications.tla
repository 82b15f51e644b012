----------------------------- MODULE Notifications -----------------------------
(***************************************************************************)
(* Telling people: the notifications they find on the platform, and the    *)
(* push messages and emails that go with them, which each may cut          *)
(* (NotificationService, RappelService, AlerteTresorerieService).          *)
(*                                                                         *)
(* A reminder is sent by a pass of the cron, which marks what it read      *)
(* before sending it and may still be sending when the next one starts.    *)
(* A diffusion writes its notifications in lots, answers, then sends the   *)
(* rest in the background.  Emails are handed to Cascade.                  *)
(***************************************************************************)
EXTENDS Naturals, FiniteSets, FiniteSetsExt

CONSTANTS Destinataires,
          Inconnus,     \* those whose address is not verified at first
          Tresoriers,   \* destinatairesTresorerie
          NbRappels,    \* reminders, 1 .. NbRappels in the order of their dates
          Rappele,      \* Rappele[r]: whom it is for
          PAR_PASSAGE,  \* reminders of one pass
          LOT,          \* notifications of one INSERT
          Passages,     \* passes of the cron at once
          Saisies,      \* requests that change a setting at once
          MaxGestes,    \* bound: what people do to their settings, accounts and notifications
          MaxPannes     \* bound: restarts, and writes that fail

ASSUME NotificationsAssumption ==
  /\ {NbRappels, MaxGestes, MaxPannes} \subseteq Nat
  /\ {PAR_PASSAGE, LOT} \subseteq Nat \ {0}
  /\ Rappele \in [1 .. NbRappels -> Destinataires]
  /\ Tresoriers \subseteq Destinataires

VARIABLES
  gens,      \* users: email_verifie_le, is_active, deleted
  reglages,  \* preferences_notification, for one type
  saisies,   \* mettreAJourPreference between its reading and its writing
  avis,      \* notifications: one for each (announcement, sender, person)
  emails,    \* emails handed to the mail service
  echus,     \* reminders whose date has come
  envoyes,   \* rappels.is_sent
  passages,  \* passes of envoyerLesRappelsDus
  diffusion, \* one diffusion
  gestes, pannes,
  voulu,     \* history: the settings as last accepted
  fermes,    \* history: for each sender, who keeps emails cut since it started
  forces,    \* history: emails to somebody who kept them cut all along
  croises,   \* history: reminders two passes had read before either marked them
  perdus     \* history: reminders marked, then dropped by a failure or a restart

varsNotifications == <<gens, reglages, saisies, avis, emails, echus, envoyes, passages,
                       diffusion, gestes, pannes, voulu, fermes, forces, croises, perdus>>

------------------------------------------------------------------------------

Rappels == 1 .. NbRappels
Diffusion == 0
Emetteurs == Passages \cup {Diffusion}
Canaux == {"email", "push"}

ASSUME EmetteursAssumption == Diffusion \notin Passages

Ouverts == [email |-> TRUE, push |-> TRUE]
SansLigne == [existe |-> FALSE, email |-> TRUE, push |-> TRUE]
SansSaisie == [pc |-> "repos"]
SansDiffusion == [pc |-> "attente", verifies |-> FALSE, reste |-> {}, pour |-> {}, coupes |-> {}]
SansPassage == [pc |-> "repos", dus |-> {}, verifies |-> {}]

\* One announcement to one person: a diffusion, or a reminder in a pass.
Cles == {Diffusion} \X {Diffusion} \X Destinataires
          \cup {<<r, k, Rappele[r]>> : r \in Rappels, k \in Passages}
Annonces == Rappels \cup {Diffusion}

Etats == {"non_verifie", "verifie", "inactif", "supprime"}

TypeOKNotifications ==
  /\ gens \in [Destinataires -> Etats]
  /\ \A p \in Destinataires : ~reglages[p].existe => reglages[p] = SansLigne
  /\ avis \in [Cles -> {"rien", "non_lu", "lu", "ote", "purge"}]
  /\ {emails, forces} \subseteq SUBSET Cles
  /\ envoyes \subseteq 1 .. echus /\ echus \in 0 .. NbRappels
  /\ \A k \in Passages : passages[k].pc = "repos" <=> passages[k].dus = {}
  /\ {croises, perdus} \subseteq SUBSET Rappels

InitNotifications ==
  /\ gens = [p \in Destinataires |-> IF p \in Inconnus THEN "non_verifie" ELSE "verifie"]
  /\ reglages = [p \in Destinataires |-> SansLigne]
  /\ saisies = [s \in Saisies |-> SansSaisie]
  /\ avis = [c \in Cles |-> "rien"]
  /\ emails = {}
  /\ echus = 0 /\ envoyes = {}
  /\ passages = [k \in Passages |-> SansPassage]
  /\ diffusion = SansDiffusion
  /\ gestes = 0 /\ pannes = 0
  /\ voulu = [p \in Destinataires |-> Ouverts]
  /\ fermes = [e \in Emetteurs |-> {}]
  /\ forces = {} /\ croises = {} /\ perdus = {}

Geste == gestes' = gestes + 1 /\ gestes' <= MaxGestes
Panne == pannes' = pannes + 1 /\ pannes' <= MaxPannes

Existe(p) == gens[p] # "supprime"
Muets == {p \in Destinataires : ~voulu[p].email}
Commence(e) == fermes' = [fermes EXCEPT ![e] = Muets]

\* The email to one person; the push message leaves just before it.
Expedier(cle, email) ==
  /\ emails' = IF email THEN emails \cup {cle} ELSE emails
  /\ forces' = IF email /\ cle[3] \in fermes[cle[2]] THEN forces \cup {cle} ELSE forces

------------------------------------------------------------------------------
(* The settings.  Only the channels of the request change; a first request *)
(* inserts the row, and the unique index refuses a second insert.          *)

LireReglage(s, p, canal, valeur) ==
  /\ saisies[s] = SansSaisie /\ Existe(p) /\ Geste
  /\ saisies' = [saisies EXCEPT ![s] = [pc |-> "ecrire", pour |-> p, canal |-> canal,
                                        valeur |-> valeur, creer |-> ~reglages[p].existe]]
  /\ UNCHANGED <<gens, reglages, avis, emails, echus, envoyes, passages, diffusion, pannes,
                 voulu, fermes, forces, croises, perdus>>

\* Mutant: an insert writes over the row another request inserted.
Acceptee_Upsert(s) == Existe(saisies[s].pour)

\* What the write finds: an update needs the row, an insert its absence.
Acceptee(s) ==
  LET d == saisies[s]
  IN  Existe(d.pour) /\ reglages[d.pour].existe # d.creer

EcrireReglage(s) ==
  LET d == saisies[s]
      ligne == [(IF d.creer THEN SansLigne ELSE reglages[d.pour])
                  EXCEPT !.existe = TRUE, ![d.canal] = d.valeur]
  IN  /\ d.pc = "ecrire"
      /\ saisies' = [saisies EXCEPT ![s] = SansSaisie]
      /\ IF Acceptee(s)
         THEN /\ reglages' = [reglages EXCEPT ![d.pour] = ligne]
              /\ voulu' = [voulu EXCEPT ![d.pour][d.canal] = d.valeur]
              /\ fermes' = IF d.canal = "email" /\ d.valeur
                           THEN [e \in Emetteurs |-> fermes[e] \ {d.pour}]
                           ELSE fermes
         ELSE UNCHANGED <<reglages, voulu, fermes>>
      /\ UNCHANGED <<gens, avis, emails, echus, envoyes, passages, diffusion, gestes, pannes,
                     forces, croises, perdus>>

------------------------------------------------------------------------------
(* The reminders.                                                          *)

EchoirRappel ==
  /\ echus < NbRappels
  /\ echus' = echus + 1
  /\ UNCHANGED <<gens, reglages, saisies, avis, emails, envoyes, passages, diffusion, gestes,
                 pannes, voulu, fermes, forces, croises, perdus>>

\* The oldest due and not sent; a reminder goes with the account it is for.
Dus ==
  LET restants == {r \in 1 .. echus \ envoyes : Existe(Rappele[r])}
  IN  {r \in restants : Cardinality({q \in restants : q < r}) < PAR_PASSAGE}

LireDus(k) ==
  /\ passages[k].pc = "repos" /\ Dus # {}
  /\ passages' = [passages EXCEPT ![k] = [pc |-> "marquer", dus |-> Dus,
                    verifies |-> {p \in Destinataires : gens[p] # "non_verifie"}]]
  /\ croises' = croises \cup UNION {passages[j].dus \cap Dus :
                                      j \in {i \in Passages : passages[i].pc = "marquer"}}
  /\ Commence(k)
  /\ UNCHANGED <<gens, reglages, saisies, avis, emails, echus, envoyes, diffusion, gestes,
                 pannes, voulu, forces, perdus>>

\* All of them, before any is sent.
Marquer(k) ==
  /\ passages[k].pc = "marquer"
  /\ envoyes' = envoyes \cup passages[k].dus
  /\ passages' = [passages EXCEPT ![k].pc = "inscrire"]
  /\ UNCHANGED <<gens, reglages, saisies, avis, emails, echus, diffusion, gestes, pannes,
                 voulu, fermes, forces, croises, perdus>>

MarquerEchoue(k) ==
  /\ passages[k].pc = "marquer" /\ Panne
  /\ passages' = [passages EXCEPT ![k] = SansPassage]
  /\ UNCHANGED <<gens, reglages, saisies, avis, emails, echus, envoyes, diffusion, gestes,
                 voulu, fermes, forces, croises, perdus>>

Traite(k) == CHOOSE r \in passages[k].dus : \A q \in passages[k].dus : r <= q
CleDe(k) == <<Traite(k), k, Rappele[Traite(k)]>>

Avancer(k) ==
  LET reste == passages[k].dus \ {Traite(k)}
  IN  passages' = [passages EXCEPT ![k] = IF reste = {} THEN SansPassage
                                          ELSE [@ EXCEPT !.pc = "inscrire", !.dus = reste]]

\* notifier: the row first.  It never throws: without the account, or when the
\* database fails, the reminder is dropped and the pass goes on.
InscrireAvis(k) ==
  /\ passages[k].pc = "inscrire"
  /\ \/ /\ Existe(CleDe(k)[3])
        /\ avis' = [avis EXCEPT ![CleDe(k)] = "non_lu"]
        /\ passages' = [passages EXCEPT ![k].pc = "diffuser"]
        /\ UNCHANGED <<pannes, perdus>>
     \/ /\ IF Existe(CleDe(k)[3]) THEN Panne ELSE UNCHANGED pannes
        /\ perdus' = perdus \cup {Traite(k)}
        /\ Avancer(k)
        /\ UNCHANGED avis
  /\ UNCHANGED <<gens, reglages, saisies, emails, echus, envoyes, diffusion, gestes, voulu,
                 fermes, forces, croises>>

\* The settings as they are now, the address as the pass read it.
DiffuserSurLesCanaux(k) ==
  LET p == CleDe(k)[3]
  IN  /\ passages[k].pc = "diffuser"
      /\ \/ Expedier(CleDe(k), reglages[p].email /\ p \in passages[k].verifies) /\ UNCHANGED pannes
         \/ Panne /\ UNCHANGED <<emails, forces>>
      /\ Avancer(k)
      /\ UNCHANGED <<gens, reglages, saisies, avis, echus, envoyes, diffusion, gestes, voulu,
                     fermes, croises, perdus>>

------------------------------------------------------------------------------
(* One diffusion, over several lots.                                       *)

Debuter(pour, verifies) ==
  /\ diffusion.pc = "attente"
  /\ diffusion' = [pc |-> IF pour = {} THEN "finie" ELSE "inscrire", verifies |-> verifies,
                   reste |-> pour, pour |-> pour, coupes |-> {}]
  /\ Commence(Diffusion)
  /\ UNCHANGED <<gens, reglages, saisies, avis, emails, echus, envoyes, passages, gestes,
                 pannes, voulu, forces, croises, perdus>>

\* diffuser, with cibler: a role, a promotion; nobody without a verified address.
Cibler(cible) == Debuter({p \in cible : gens[p] = "verifie"}, TRUE)

\* notifierPlusieurs: whom the caller names.
NotifierPlusieurs(choisis) == Debuter({p \in choisis : Existe(p)}, FALSE)

\* signaler: the treasury, but for whoever paid.
Signaler(exclure) == NotifierPlusieurs(Tresoriers \ {exclure})

\* One INSERT; it fails as a whole, and then nothing more is written or sent.
InscrireLot(lot) ==
  /\ diffusion.pc = "inscrire"
  /\ lot \subseteq diffusion.reste
  /\ Cardinality(lot) = Min({LOT, Cardinality(diffusion.reste)})
  /\ IF \A p \in lot : Existe(p)
     THEN LET reste == diffusion.reste \ lot
          IN  /\ avis' = [c \in Cles |-> IF c[1] = Diffusion /\ c[3] \in lot THEN "non_lu"
                                         ELSE avis[c]]
              /\ diffusion' = [diffusion EXCEPT !.reste = reste,
                                 !.pc = IF reste = {} THEN "reglages" ELSE @]
     ELSE diffusion' = [diffusion EXCEPT !.pc = "echouee"] /\ UNCHANGED avis
  /\ UNCHANGED <<gens, reglages, saisies, emails, echus, envoyes, passages, gestes, pannes,
                 voulu, fermes, forces, croises, perdus>>

InscrireEchoue ==
  /\ diffusion.pc = "inscrire" /\ Panne
  /\ diffusion' = [diffusion EXCEPT !.pc = "echouee"]
  /\ UNCHANGED <<gens, reglages, saisies, avis, emails, echus, envoyes, passages, gestes,
                 voulu, fermes, forces, croises, perdus>>

\* In the background: the settings of all, once.
LireReglages ==
  /\ diffusion.pc = "reglages"
  /\ diffusion' = [diffusion EXCEPT !.pc = "arriere", !.reste = diffusion.pour,
                     !.coupes = {p \in diffusion.pour : ~reglages[p].email}]
  /\ UNCHANGED <<gens, reglages, saisies, avis, emails, echus, envoyes, passages, gestes,
                 pannes, voulu, fermes, forces, croises, perdus>>

\* Then each: one who cannot be reached does not stop the others.
DiffuserEnArrierePlan(p) ==
  /\ diffusion.pc = "arriere" /\ p \in diffusion.reste
  /\ \/ Expedier(<<Diffusion, Diffusion, p>>, p \notin diffusion.coupes) /\ UNCHANGED pannes
     \/ Panne /\ UNCHANGED <<emails, forces>>
  /\ diffusion' = [diffusion EXCEPT !.reste = @ \ {p},
                     !.pc = IF diffusion.reste = {p} THEN "finie" ELSE @]
  /\ UNCHANGED <<gens, reglages, saisies, avis, echus, envoyes, passages, gestes, voulu,
                 fermes, croises, perdus>>

\* A restart.  Nobody catches a failure of LireReglages, so that one is a restart
\* as well.
Redemarrer ==
  /\ Panne
  /\ passages' = [k \in Passages |-> SansPassage]
  /\ perdus' = perdus \cup UNION {
       CASE passages[k].pc = "inscrire" -> passages[k].dus
         [] passages[k].pc = "diffuser" -> passages[k].dus \ {Traite(k)}
         [] OTHER -> {} : k \in Passages}
  /\ saisies' = [s \in Saisies |-> SansSaisie]
  /\ diffusion' = [diffusion EXCEPT !.pc = IF @ = "attente" THEN @ ELSE "finie"]
  /\ UNCHANGED <<gens, reglages, avis, emails, echus, envoyes, gestes, voulu, fermes, forces,
                 croises>>

------------------------------------------------------------------------------
(* What people do.                                                         *)

Deposer(a) ==
  /\ avis' = a
  /\ UNCHANGED <<gens, reglages, saisies, emails, echus, envoyes, passages, diffusion, pannes,
                 voulu, fermes, forces, croises, perdus>>

Present(c) == avis[c] \in {"non_lu", "lu"}

MarquerLu(c) == Geste /\ Present(c) /\ Deposer([avis EXCEPT ![c] = "lu"])

MarquerToutLu(p) ==
  /\ Geste /\ \E c \in Cles : c[3] = p /\ avis[c] = "non_lu"
  /\ Deposer([c \in Cles |-> IF c[3] = p /\ Present(c) THEN "lu" ELSE avis[c]])

SupprimerAvis(c) == Geste /\ Present(c) /\ Deposer([avis EXCEPT ![c] = "ote"])

\* Every night: what was read and is older than the retention.
PurgerAnciennes(anciennes) ==
  /\ \E c \in Cles : c[1] \in anciennes /\ avis[c] = "lu"
  /\ UNCHANGED gestes
  /\ Deposer([c \in Cles |-> IF c[1] \in anciennes /\ avis[c] = "lu" THEN "purge" ELSE avis[c]])

Changer(p, etat) ==
  /\ Geste
  /\ gens' = [gens EXCEPT ![p] = etat]
  /\ UNCHANGED <<saisies, emails, echus, envoyes, passages, diffusion, pannes, forces, croises,
                 perdus>>

\* The user module: an address is proved, an account suspended or deleted.
Verifier(p) ==
  /\ gens[p] \in {"non_verifie", "inactif"} /\ Changer(p, "verifie")
  /\ UNCHANGED <<avis, reglages, voulu, fermes>>
Suspendre(p) ==
  /\ gens[p] = "verifie" /\ Changer(p, "inactif")
  /\ UNCHANGED <<avis, reglages, voulu, fermes>>

\* Settings and notifications go with the account: a background diffusion that
\* had not read the settings yet then finds none cut.
Supprimer(p) ==
  /\ Existe(p) /\ Changer(p, "supprime")
  /\ reglages' = [reglages EXCEPT ![p] = SansLigne]
  /\ voulu' = [voulu EXCEPT ![p] = Ouverts]
  /\ fermes' = [e \in Emetteurs |-> fermes[e] \ {p}]
  /\ avis' = [c \in Cles |-> IF c[3] = p /\ Present(c) THEN "ote" ELSE avis[c]]

------------------------------------------------------------------------------

NextNotifications ==
  \/ \E s \in Saisies : \/ \E p \in Destinataires, canal \in Canaux, v \in BOOLEAN :
                             LireReglage(s, p, canal, v)
                        \/ EcrireReglage(s)
  \/ EchoirRappel
  \/ \E k \in Passages : LireDus(k) \/ Marquer(k) \/ MarquerEchoue(k) \/ InscrireAvis(k)
                           \/ DiffuserSurLesCanaux(k)
  \/ \E cible \in SUBSET Destinataires : Cibler(cible) \/ NotifierPlusieurs(cible)
  \/ \E p \in Destinataires : Signaler(p)
  \/ \E lot \in SUBSET diffusion.reste : InscrireLot(lot)
  \/ InscrireEchoue \/ LireReglages
  \/ \E p \in Destinataires : DiffuserEnArrierePlan(p)
  \/ Redemarrer
  \/ \E c \in Cles : MarquerLu(c) \/ SupprimerAvis(c)
  \/ \E anciennes \in SUBSET Annonces : PurgerAnciennes(anciennes)
  \/ \E p \in Destinataires : MarquerToutLu(p) \/ Verifier(p) \/ Suspendre(p) \/ Supprimer(p)

SpecNotifications == InitNotifications /\ [][NextNotifications]_varsNotifications

------------------------------------------------------------------------------

\* A reminder is announced at most once, unless two passes had read it before
\* either marked it; once marked it is announced, in hand, or dropped by a
\* failure or a restart ("un rappel en double est plus gênant qu'un rappel
\* perdu"); and none is marked before an older one.
RappelsTenus ==
  \A r \in Rappels :
    LET inscrits == {k \in Passages : avis[<<r, k, Rappele[r]>>] # "rien"}
        enMain == {k \in Passages : /\ r \in passages[k].dus
                                    /\ passages[k].pc \in {"inscrire", "diffuser"}}
    IN  /\ r \notin croises => Cardinality(inscrits \cup enMain) <= 1
        /\ r \in envoyes => inscrits \cup enMain # {} \/ r \in perdus
        /\ r \in envoyes =>
             \A q \in 1 .. r : q \in envoyes \/ ~Existe(Rappele[q])

\* Whoever is sent an email finds the notification on the platform, and has
\* proved the address, but for a diffusion to a list of the caller's.
TraceDAbord ==
  \A c \in emails :
    /\ avis[c] # "rien"
    /\ c[1] # Diffusion \/ diffusion.verifies => gens[c[3]] # "non_verifie"

\* The settings are those last accepted, channel by channel, whatever requests
\* crossed; and whoever cut the emails before an announcement began, and kept
\* them cut and the account, gets none of it.
ReglagesRespectes ==
  /\ \A p \in Destinataires : \A canal \in Canaux : reglages[p][canal] = voulu[p][canal]
  /\ forces = {}

\* Announcements reach whom they are for, as they asked for, and once, as far as
\* the cron and the background allow.
NotificationsJustes == RappelsTenus /\ TraceDAbord /\ ReglagesRespectes
==============================================================================

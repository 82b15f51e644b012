-------------------------------- MODULE Cascade --------------------------------
(***************************************************************************)
(* How an email leaves (MailService.send and transportEnCascade): the ways *)
(* are tried one after the other, those whose provider said its quota is   *)
(* spent are left aside for a while, and nobody waits for the outcome.     *)
(* Several messages leave at once and share what is set aside.             *)
(*                                                                         *)
(* Time is a counter: only its distance to PAUSE_APRES_QUOTA_MS matters.   *)
(***************************************************************************)
EXTENDS Naturals, FiniteSetsExt

CONSTANTS NbVoies,   \* ways, 1 .. NbVoies in the order of the configuration
          Messages,
          PAUSE,     \* PAUSE_APRES_QUOTA_MS
          MaxTemps,  \* bound: time
          MaxRelances \* bound: restarts

ASSUME CascadeAssumption == {NbVoies, PAUSE, MaxTemps, MaxRelances} \subseteq Nat /\ NbVoies > 0

VARIABLES
  courriers,   \* the messages: the ways left to try, and what became of them
  misesDeCote, \* the instant until which each way is left aside
  maintenant,
  relances,    \* restarts so far
  recus,       \* history: how many times each message was accepted by a provider
  muets,       \* history: acceptances the provider did not tell us of
  refus,       \* history: the ways that failed each message
  ecartees,    \* history: the ways set aside when each message started
  plafonds     \* history: when each provider last said its quota was spent

varsCascade == <<courriers, misesDeCote, maintenant, relances, recus, muets, refus, ecartees,
                 plafonds>>

------------------------------------------------------------------------------

Voies == 1 .. NbVoies
Jamais == [v \in Voies |-> 0]

TypeOKCascade ==
  /\ \A m \in Messages : /\ courriers[m].pc \in {"neuf", "prepare", "essai", "remis", "abandonne", "perdu"}
                         /\ courriers[m].voies \subseteq Voies
                         /\ courriers[m].pc = "essai" <=> courriers[m].voies # {}
  /\ misesDeCote \in [Voies -> Nat] /\ maintenant \in 0 .. MaxTemps
  /\ \A m \in Messages : refus[m] \cup ecartees[m] \subseteq Voies

InitCascade ==
  /\ courriers = [m \in Messages |-> [pc |-> "neuf", voies |-> {}, par |-> 0]]
  /\ misesDeCote = Jamais /\ maintenant = 0 /\ relances = 0
  /\ recus = [m \in Messages |-> 0] /\ muets = [m \in Messages |-> 0]
  /\ refus = [m \in Messages |-> {}] /\ ecartees = [m \in Messages |-> {}]
  /\ plafonds = Jamais

\* send: the caller goes on at once.
Remettre(m) ==
  /\ courriers[m].pc = "neuf"
  /\ courriers' = [courriers EXCEPT ![m].pc = "prepare"]
  /\ UNCHANGED <<misesDeCote, maintenant, relances, recus, muets, refus, ecartees, plafonds>>

VoieLibre(v) == misesDeCote[v] <= maintenant

\* Those not set aside or, when all are, all.
Disponibles ==
  LET libres == {v \in Voies : VoieLibre(v)}
  IN  IF libres # {} THEN libres ELSE Voies

\* The template is rendered, then the ways are chosen, once for the message.
Choisir(m) ==
  /\ courriers[m].pc = "prepare"
  /\ courriers' = [courriers EXCEPT ![m].pc = "essai", ![m].voies = Disponibles]
  /\ ecartees' = [ecartees EXCEPT ![m] = Voies \ Disponibles]
  /\ UNCHANGED <<misesDeCote, maintenant, relances, recus, muets, refus, plafonds>>

\* The ways are tried in the order of the configuration.
Essayee(m) == Min(courriers[m].voies)

\* Mutant: any failure sets the way aside.
MettreDeCote_Toujours(v, quota) ==
  /\ misesDeCote' = [misesDeCote EXCEPT ![v] = maintenant + PAUSE]
  /\ plafonds' = IF quota THEN [plafonds EXCEPT ![v] = maintenant] ELSE plafonds

\* After a quota error the way is set aside; after any other it is not.
MettreDeCote(v, quota) ==
  IF quota
  THEN /\ misesDeCote' = [misesDeCote EXCEPT ![v] = maintenant + PAUSE]
       /\ plafonds' = [plafonds EXCEPT ![v] = maintenant]
  ELSE UNCHANGED <<misesDeCote, plafonds>>

\* The way gave no acknowledgement: the next one, or the message is given up.
Echec(m, quota) ==
  LET v == Essayee(m)
      reste == courriers[m].voies \ {v}
  IN  /\ courriers' = [courriers EXCEPT ![m].voies = reste,
                         ![m].pc = IF reste = {} THEN "abandonne" ELSE @]
      /\ refus' = [refus EXCEPT ![m] = @ \cup {v}]
      /\ MettreDeCote(v, quota)

Accepter(m) ==
  /\ courriers' = [courriers EXCEPT ![m] = [pc |-> "remis", voies |-> {}, par |-> Essayee(m)]]
  /\ recus' = [recus EXCEPT ![m] = @ + 1]
  /\ UNCHANGED <<misesDeCote, muets, refus, plafonds>>

\* The provider takes the message, but its answer comes after the delay.
Taire(m) ==
  /\ Echec(m, FALSE)
  /\ recus' = [recus EXCEPT ![m] = @ + 1]
  /\ muets' = [muets EXCEPT ![m] = @ + 1]

\* It refuses it, or cannot be reached.
RefuserCourrier(m) == Echec(m, FALSE) /\ UNCHANGED <<recus, muets>>

\* estErreurDeQuota: it says, in its words, that the quota is spent.
Plafonner(m) == Echec(m, TRUE) /\ UNCHANGED <<recus, muets>>

\* One way is tried.
Essayer(m) ==
  /\ courriers[m].pc = "essai"
  /\ Accepter(m) \/ Taire(m) \/ RefuserCourrier(m) \/ Plafonner(m)
  /\ UNCHANGED <<maintenant, relances, ecartees>>

PasserTemps ==
  /\ maintenant < MaxTemps
  /\ maintenant' = maintenant + 1
  /\ UNCHANGED <<courriers, misesDeCote, relances, recus, muets, refus, ecartees, plafonds>>

\* What was leaving is lost, and what was set aside forgotten.
Relancer ==
  /\ relances < MaxRelances
  /\ relances' = relances + 1
  /\ courriers' = [m \in Messages |->
                     IF courriers[m].pc \in {"prepare", "essai"}
                     THEN [courriers[m] EXCEPT !.pc = "perdu", !.voies = {}] ELSE courriers[m]]
  /\ misesDeCote' = Jamais
  /\ UNCHANGED <<maintenant, recus, muets, refus, ecartees, plafonds>>

NextCascade ==
  \/ \E m \in Messages : Remettre(m) \/ Choisir(m) \/ Essayer(m)
  \/ PasserTemps \/ Relancer

SpecCascade == InitCascade /\ [][NextCascade]_varsCascade

------------------------------------------------------------------------------

\* A message leaves by the first way, in the order of the configuration, that
\* was neither set aside when it started nor failed it; and it is given up only
\* when every way that was not set aside failed it, at least one having been.
OrdreDesVoies ==
  \A m \in Messages :
    LET exclues == refus[m] \cup ecartees[m]
    IN  /\ courriers[m].pc = "remis" =>
             /\ courriers[m].par \notin exclues
             /\ 1 .. courriers[m].par - 1 \subseteq exclues
        /\ courriers[m].pc = "abandonne" => exclues = Voies /\ refus[m] # {}
        /\ refus[m] \cap ecartees[m] = {}

\* A way is aside for PAUSE after its last quota error and no longer, whichever
\* messages met it; no other failure puts it aside.
PauseExacte ==
  \A v \in Voies : misesDeCote[v] # 0 => misesDeCote[v] = plafonds[v] + PAUSE

\* It is received once at most, but for providers that took it and did not say
\* so; and at least once when one said so.
RemiseUnique ==
  \A m \in Messages :
    /\ recus[m] <= 1 + muets[m]
    /\ courriers[m].pc = "remis" <=> recus[m] = 1 + muets[m]

\* An email leaves as the office configured it: by the first way in service, once,
\* a spent quota being the only reason to leave a way aside.
CascadeJuste == OrdreDesVoies /\ PauseExacte /\ RemiseUnique
==============================================================================

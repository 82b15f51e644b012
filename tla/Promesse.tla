------------------------------ MODULE Promesse ------------------------------
(***************************************************************************)
(* What the payments promise to the domain, without the journal, the       *)
(* handlers or the provider's notifications: a payment has one outcome,    *)
(* success only if it was paid, of which the domain hears once.            *)
(*                                                                         *)
(* A payment that outlived its delay, or whose opening was given up, is    *)
(* not settled: its outcome may still change, and be heard of again.  A    *)
(* stop of the server loses what was about to be announced.                *)
(***************************************************************************)
EXTENDS Naturals

CONSTANTS References,   \* the payments
          Plafond       \* announcements are counted up to Plafond

VARIABLES
  issue,      \* the outcome of each payment
  paye,       \* whether the payer paid it
  sure,       \* its outcome, once there is one, is final
  aAnnoncer,  \* the outcomes about to be announced to the domain
  entendu     \* how many times the domain heard of each outcome

varsPromesse == <<issue, paye, sure, aAnnoncer, entendu>>

Denouements == {"COMPLETE", "ECHOUE"}

InitPromesse ==
  /\ issue = [r \in References |-> "ABSENTE"]
  /\ paye = [r \in References |-> FALSE]
  /\ sure = [r \in References |-> TRUE]
  /\ aAnnoncer = [r \in References |-> {}]
  /\ entendu = [r \in References |-> [s \in Denouements |-> 0]]

Engager(r) ==
  /\ issue[r] = "ABSENTE"
  /\ issue' = [issue EXCEPT ![r] = "EN_ATTENTE"]
  /\ UNCHANGED <<paye, sure, aAnnoncer, entendu>>

Encaisser(r) ==
  /\ issue[r] # "ABSENTE" /\ ~paye[r]
  /\ paye' = [paye EXCEPT ![r] = TRUE]
  /\ UNCHANGED <<issue, sure, aAnnoncer, entendu>>

\* The delay runs out.
Douter(r) ==
  /\ issue[r] # "ABSENTE" /\ sure[r]
  /\ sure' = [sure EXCEPT ![r] = FALSE]
  /\ UNCHANGED <<issue, paye, aAnnoncer, entendu>>

\* The opening is given up: the domain, which asked for it, needs no word of it.
Renoncer(r) ==
  /\ issue[r] # "ABSENTE"
  /\ sure' = [sure EXCEPT ![r] = FALSE]
  /\ issue' = [issue EXCEPT ![r] = IF @ = "EN_ATTENTE" THEN "ECHOUE" ELSE @]
  /\ UNCHANGED <<paye, aAnnoncer, entendu>>

Denouer(r, s) ==
  /\ issue[r] \notin {"ABSENTE", s}
  /\ sure[r] => issue[r] = "EN_ATTENTE"
  /\ s = "COMPLETE" => paye[r]
  /\ s = "ECHOUE" => ~(paye[r] /\ sure[r])
  /\ issue' = [issue EXCEPT ![r] = s]
  /\ aAnnoncer' = [aAnnoncer EXCEPT ![r] = @ \cup {s}]
  /\ UNCHANGED <<paye, sure, entendu>>

\* An outcome that changed and changed back may be announced again.
Annoncer(r, s) ==
  /\ s \in aAnnoncer[r]
  /\ sure[r] => \A d \in Denouements : entendu[r][d] = 0
  /\ entendu' = [entendu EXCEPT ![r][s] = IF @ < Plafond THEN @ + 1 ELSE @]
  /\ \/ aAnnoncer' = [aAnnoncer EXCEPT ![r] = @ \ {s}]
     \/ ~sure[r] /\ UNCHANGED aAnnoncer
  /\ UNCHANGED <<issue, paye, sure>>

\* The server stops, or the domain fails.
Perdre ==
  /\ \A r \in References : aAnnoncer'[r] \subseteq aAnnoncer[r]
  /\ aAnnoncer' = [r \in References |-> aAnnoncer'[r]]
  /\ UNCHANGED <<issue, paye, sure, entendu>>

NextPromesse ==
  \/ \E r \in References : \/ Engager(r) \/ Encaisser(r) \/ Douter(r) \/ Renoncer(r)
                           \/ \E s \in Denouements : Denouer(r, s) \/ Annoncer(r, s)
  \/ Perdre

SpecPromesse == InitPromesse /\ [][NextPromesse]_varsPromesse

==============================================================================

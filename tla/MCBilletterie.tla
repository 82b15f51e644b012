---------------------------- MODULE MCBilletterie ----------------------------
(***************************************************************************)
(* Instances of Billetterie and Groupe for TLC.  Both are about the        *)
(* tickets of one event, seen from two sides: in a behaviour one of them   *)
(* moves, and Scenes says which ones a run lets move.                      *)
(***************************************************************************)
EXTENDS Billetterie, Groupe, TLC

CONSTANTS b1, b2, b3, t1, t2, t3, p1, p2, g1, g2, f1, f2, taille, Scenes

VARIABLE scene   \* the module that moves

\* Requests are interchangeable, and so are people and slots: only rang orders
\* tickets.
SymetrieTaches == Permutations(Taches) \cup Permutations(Personnes)

Symetrie == SymetrieTaches \cup Permutations(References)

\* One size, of which there is one; the office may withdraw it and add a place.
EditionsMC ==
  {[capacite |-> 2, options |-> [offerts |-> {taille}, stock |-> (taille :> 1)]],
   [capacite |-> 3, options |-> [offerts |-> {}, stock |-> (taille :> Illimite)]]}

\* The event costs something to both, or to g1 only.  g2 pays: for a friend and
\* themselves, or for themselves.
GratuitsMC == {{}, {g2}}
ListesMC == {{g1, g2}, {g2}}

InitScenes ==
  /\ scene \in Scenes
  /\ Init
  /\ InitGroupe
  /\ scene = "billetterie" => soiree.capacite = 2 /\ soiree.gratuits = {}

NextScenes ==
  /\ UNCHANGED scene
  /\ \/ scene = "billetterie" /\ Next /\ UNCHANGED varsGroupe
     \/ scene = "groupe" /\ NextGroupe /\ UNCHANGED vars

SpecScenes == InitScenes /\ [][NextScenes]_<<scene, vars, varsGroupe>>

\* Both modules hold what their types say, in whatever order they move.
TypeOKBilletterie == TypeOK /\ TypeOKGroupe
==============================================================================

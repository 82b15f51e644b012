----------------------------- MODULE MCCotisation -----------------------------
(* Instances of Cotisation for TLC.                                        *)
EXTENDS Cotisation, TLC

CONSTANTS r1, r2, r3, j1, j2, t1, t2

\* Requests are interchangeable, and so are slots.  References are not: one of
\* them is the default of a proof not submitted yet.
Symetrie == Permutations(Taches) \cup Permutations(Preuves)
==============================================================================

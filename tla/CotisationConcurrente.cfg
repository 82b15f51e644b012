CONSTANTS
  r1 = r1
  r2 = r2
  r3 = r3
  j1 = j1
  j2 = j2
  t1 = t1
  t2 = t2
  References = {r1, r2, r3}
  Preuves = {j1, j2}
  Taches = {t1, t2}
  Du = 2
  Operations = {"payer", "justifier", "valider", "issue"}
SPECIFICATION Spec
SYMMETRY Symetrie
INVARIANT CreditsExacts
CHECK_DEADLOCK FALSE

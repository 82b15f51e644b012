CONSTANTS
  r1 = r1
  r2 = r2
  r3 = r3
  j1 = j1
  j2 = j2
  t1 = t1
  t2 = t2
  References = {r1, r2}
  Preuves = {j1}
  Taches = {t1, t2}
  Du = 2
  Operations = {"payer", "issue"}
SPECIFICATION Spec
SYMMETRY Symetrie
INVARIANT EngagementBorne
CHECK_DEADLOCK FALSE

CONSTANTS
  r1 = r1
  r2 = r2
  r3 = r3
  j1 = j1
  j2 = j2
  t1 = t1
  t2 = t2
  References = {r1, r2, r3}
  Preuves = {j1, j2}
  Taches = {t1}
  Du = 2
  Operations = {"payer", "rupture", "abandonner", "expiration", "issue", "justifier", "deposer", "valider", "refuser", "annuler"}
SPECIFICATION Spec
SYMMETRY Symetrie
INVARIANTS TypeOK CreditsExacts CreditsProuves
PROPERTY CreditJamaisEchoue
CHECK_DEADLOCK FALSE

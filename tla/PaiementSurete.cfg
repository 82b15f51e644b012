CONSTANTS
  r1 = r1
  r2 = r2
  t1 = t1
  t2 = t2
  References = {r1, r2}
  Taches = {t1, t2}
  ParPassage = 2
  MaxPannes = 1
SPECIFICATION Spec
SYMMETRY Symetrie
INVARIANTS TypeOK CompleteAtteste PayeNonEchoueAvantDelai EffetUniqueAvantDelai AccordJournalDomaine
PROPERTIES IssueFinaleAvantDelai PromesseTenue
CHECK_DEADLOCK FALSE

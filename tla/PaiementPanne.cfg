CONSTANTS
  r1 = r1
  r2 = r2
  t1 = t1
  t2 = t2
  References = {r1}
  Taches = {t1, t2}
  ParPassage = 1
  MaxPannes = 1
SPECIFICATION RelanceSpec
PROPERTY CompleteFinitRepercute
CHECK_DEADLOCK FALSE

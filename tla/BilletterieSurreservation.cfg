CONSTANTS
  b1 = b1
  b2 = b2
  b3 = b3
  t1 = t1
  t2 = t2
  t3 = t3
  p1 = p1
  p2 = p2
  References = {b1, b2, b3}
  Aucun = Aucun
  Personnes = {p1, p2}
  Taches = {t1, t2}
  Capacite = 1
  Payants = {FALSE}
  Gestes = {}
  Horizon = "fini"
  g1 = g1
  g2 = g2
  f1 = f1
  f2 = f2
  taille = taille
  Inscrits = {}
  Payeurs = {}
  Listes = {}
  Formules = {}
  Choix = {taille}
  SansChoix = SansChoix
  Editions <- EditionsMC
  GratuitsPossibles <- GratuitsMC
  MaxGestes = 1
  FinSaison = "avant"
  Scenes = {"billetterie"}
SPECIFICATION SpecScenes
SYMMETRY Symetrie
INVARIANT PasDeSurreservation
CHECK_DEADLOCK FALSE

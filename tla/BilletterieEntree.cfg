CONSTANTS
  b1 = b1
  b2 = b2
  b3 = b3
  t1 = t1
  t2 = t2
  t3 = t3
  p1 = p1
  p2 = p2
  References = {b1}
  Aucun = Aucun
  Personnes = {p1, p2}
  Taches = {t1, t2, t3}
  Capacite = 1
  Payants = {TRUE, FALSE}
  Gestes = {"remise", "transfert"}
  Horizon = "fini"
  g1 = g1
  g2 = g2
  f1 = f1
  f2 = f2
  taille = taille
  Inscrits = {g1, g2}
  Payeurs = {g2}
  Listes <- ListesMC
  Formules = {f1, f2}
  Choix = {taille}
  SansChoix = SansChoix
  Editions <- EditionsMC
  GratuitsPossibles <- GratuitsMC
  MaxGestes = 1
  FinSaison = "avant"
  Scenes = {"billetterie", "groupe"}
SPECIFICATION SpecScenes
SYMMETRY SymetrieTaches
INVARIANTS TypeOKBilletterie  UnBilletParPersonne GroupeEntier
PROPERTY PorteTenue
CHECK_DEADLOCK FALSE

CONSTANTS
  u1 = u1
  u2 = u2
  u3 = u3
  g1 = g1
  g2 = g2
  p1 = p1
  p2 = p2
  c1 = c1
  a1 = a1
  Personnes = {u1, u2, u3}
  Mandats = {g1, g2}
  Postes = {p1, p2}
  Annees = {1, 2}
  FonctionsPossibles <- FonctionsMC
  Demandes = {q1}
  MaxActes = 4
  Usagers = {c1, c2}
  Adresses = {a1, a2, a3}
  Campus = {a1}
  Aucune = Aucune
  Liens = {l1, l2, l3}
  Appels = {q1, q2}
  MaxAppels = 3
  MaxSeances = 3
  Votants = {u1, u3}
  Promos <- PromosMC
  Visiteurs = 0
  Propositions = {o1, o2}
  Modeles <- ModelesMC
  Retouches <- RetouchesMC
  Bureaux = {b1, b2}
  MaxEditions = 1
  Destinataires = {u1, u2}
  Inconnus = {u2}
  Tresoriers = {u1}
  NbRappels = 3
  Rappele <- RappeleMC
  PAR_PASSAGE = 2
  LOT = 1
  Passages = {k1, k2}
  Saisies = {s1, s2}
  MaxGestes = 2
  MaxPannes = 1
  NbVoies = 3
  Messages = {m1, m2}
  PAUSE = 2
  MaxTemps = 4
  MaxRelances = 1
SPECIFICATION SpecPlateforme
INVARIANTS TypeOKPlateforme MandatsJustes JetonsJustes ScrutinJuste EnvoisJustes
PROPERTY PlateformeTenue
CHECK_DEADLOCK FALSE

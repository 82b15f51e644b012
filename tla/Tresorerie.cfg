CONSTANTS
  m1 = m1
  m2 = m2
  d1 = d1
  d2 = d2
  x1 = x1
  x2 = x2
  k1 = k1
  k2 = k2
  l1 = l1
  l2 = l2
  Personne = Personne
  Membres = {m1, m2}
  Sommes = {1}
  References = {r1}
  Preuves = {p1}
  Retraits = {w1}
  Demandeurs = {d1, d2}
  MaxMouvements = 1
  MontantsSolde = {1, 2}
  SEUIL_CONSTAT = 2
  Payouts = {p1}
  MaxCredits = 2
  MaxSorties = 2
  Dons = {r1}
  PrixMax = 150
  TauxPossibles = {0, 50}
  FixesPossibles = {0}
  MontantsEcheances <- MontantsMC
  Plancher = 2
  MaxTranches = 3
  MaxEngages = 3
  Appelables = {x1, x2}
  Populations = {"FINISSANT"}
  MontantsCollecte = {1, 2}
  Passe = Passe
  Guichets = {k1, k2}
  Arrivees = 1
  Cotisants = {1, 2}
  Lots = {l1, l2}
  Demandes <- DemandesMC
  Suivis = {l1}
  DuPartage = 1
SPECIFICATION SpecTresorerie
INVARIANTS TypeOKTresorerie FondsJustes ConstatJuste DonTenu FraisJustes EcheancierJuste AppelsJustes PartageJuste
PROPERTY VersementBorne
CHECK_DEADLOCK FALSE

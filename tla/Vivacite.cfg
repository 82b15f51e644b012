CONSTANTS
  r1 = r1
  t1 = t1
  t2 = t2
  x1 = x1
  x2 = x2
  k1 = k1
  k2 = k2
  l1 = l1
  l2 = l2
  References = {r1}
  Taches = {t1, t2}
  ParPassage = 2
  MaxPannes = 1
  MontantsSolde = {1, 2}
  SEUIL_CONSTAT = 2
  Payouts = {p1}
  MaxCredits = 1
  MaxSorties = 2
  Appelables = {x1, x2}
  Populations = {"FINISSANT"}
  MontantsCollecte = {1, 2}
  Passe = Passe
  Guichets = {k1}
  Arrivees = 2
  Cotisants = {1, 2}
  Lots = {l1, l2}
  Demandes <- DemandesMC
  Suivis = {}
  DuPartage = 1
SPECIFICATION SpecVivacite
PROPERTIES Aboutissements PayeFinitConfirme
CHECK_DEADLOCK FALSE

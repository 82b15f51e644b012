CONSTANTS
  c1 = c1
  c2 = c2
  p1 = p1
  v1 = v1
  v2 = v2
  q1 = q1
  q2 = q2
  Sans = Sans
  References = {c1, c2}
  Produits = {p1}
  Variantes = {v1, v2}
  Grille <- MCGrille
  Panier <- MCPanier
  StockInitial = 1
  Requetes = {q1, q2}
  GestesBoutique = {"ajuster", "definir", "modifier", "precommander", "retirer"}
  MaxGestes = 1
SPECIFICATION SpecCommande
SYMMETRY SymetrieRequetes
INVARIANTS TypeOKCommande StocksAccordes RemisSiRegle
PROPERTY AnnulationDefinitive
CHECK_DEADLOCK FALSE

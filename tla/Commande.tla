------------------------------- MODULE Commande -------------------------------
(***************************************************************************)
(* The shop: products and their stock (BoutiqueService), orders and their  *)
(* payment (CommandeService).                                              *)
(*                                                                         *)
(* A product counts its stock twice, in total and by variant; a movement   *)
(* is one statement per counter and then a refresh of the product's        *)
(* status, which reads the row and SAVES it whole: TypeORM writes every    *)
(* column that differs from the table, the stock included.  Requests are   *)
(* cut at every await.  The steps of the payment itself are those of       *)
(* Paiement, seen from here as an issue applied to the journal.            *)
(***************************************************************************)
EXTENDS Journal, Integers, Sequences

CONSTANTS Produits,
          Variantes,     \* sizes and colours, one value per combination
          Sans,          \* the variant of a product that has none
          Grille,        \* product |-> the variants it is sold in
          Panier,        \* order |-> the lines its buyer asks for
          StockInitial,  \* what a variant holds at first
          Requetes,      \* slots for requests in flight
          GestesBoutique,\* what the office does (a bound)
          MaxGestes      \* how many times it does it (a bound)

Gestes == {"ajuster", "definir", "modifier", "precommander", "retirer"}

ASSUME CommandeAssumption ==
  /\ Sans \notin Variantes
  /\ Produits \cap References = {}
  /\ Grille \in [Produits -> SUBSET Variantes]
  /\ \A p \in Produits : IsFiniteSet(Grille[p])
  /\ Panier \in [References -> Seq([produit : Produits, variante : Variantes \cup {Sans}])]
  /\ StockInitial \in Nat
  /\ GestesBoutique \subseteq Gestes
  /\ MaxGestes \in Nat

VARIABLES
  produits,     \* the table `produits`: stock and status
  declinaisons, \* the table `declinaisons_produit`: stock by variant
  commandes,    \* the table `commandes`
  payees,       \* payments made at the provider, or proved to the treasury
  requetes,     \* the requests in flight
  gestes,       \* how many gestures of the office were made (bounded)
  tenues,       \* history: the lines of an order that hold stock
  base,         \* history: what each counter would hold without any order
  perturbes     \* history: products and orders written from a stale reading

varsCommande == <<journal, produits, declinaisons, commandes, payees, requetes,
                  gestes, tenues, base, perturbes>>

------------------------------------------------------------------------------

StatutsProduit == {"DISPONIBLE", "RUPTURE", "PRECOMMANDE", "RETIRE"}
StatutsCommande == {"EN_ATTENTE", "PAYEE", "PRETE", "RETIREE", "ANNULEE"}

\* TRANSITIONS: any other is refused, to an administrator too.
TRANSITIONS ==
  [EN_ATTENTE |-> {"PAYEE", "ANNULEE"}, PAYEE |-> {"PRETE", "ANNULEE"},
   PRETE |-> {"RETIREE"}, RETIREE |-> {}, ANNULEE |-> {}]

Absente == [statut |-> "ABSENTE", paiement |-> "EN_ATTENTE"]

Enregistrees == {c \in References : commandes[c].statut # "ABSENTE"}

\* A counter of product p: the total, or the stock of a variant.
Compteurs(p) == {Sans} \cup Grille[p]

\* The total when each variant holds n, or the only counter does.
Somme(p, n) == IF Grille[p] = {} THEN n ELSE n * Cardinality(Grille[p])

\* A request holds its operation, the step it is at, the product or order it
\* works on, the line of the basket it is at, the status of the order and the
\* row of the product it read, the row it will save, the lines whose stock it
\* reserved or must give back, and whether it is giving them back.
Inactive == [pc |-> "libre"]

RienLu == [stock |-> 0, statut |-> "RUPTURE"]

LignesDe(c) == DOMAIN Panier[c]

TypeOKCommande ==
  /\ JournalTypeOK
  /\ produits \in [Produits -> [stock : Nat, statut : StatutsProduit]]
  /\ \A p \in Produits : declinaisons[p] \in [Grille[p] -> Nat] \/ declinaisons[p] = <<>>
  /\ commandes \in [References -> [statut : StatutsCommande \cup {"ABSENTE"},
                                   paiement : Statuts]]
  /\ payees \subseteq References
  /\ \A r \in References : tenues[r] \subseteq LignesDe(r)
  /\ perturbes \subseteq Produits \cup References
  /\ \A q \in {o \in Requetes : requetes[o] # Inactive} :
       requetes[q].objet \in Produits \cup References

InitCommande ==
  /\ JournalInit
  /\ produits = [p \in Produits |->
       [stock |-> Somme(p, StockInitial),
        statut |-> IF StockInitial > 0 THEN "DISPONIBLE" ELSE "RUPTURE"]]
  /\ declinaisons = [p \in Produits |-> [v \in Grille[p] |-> StockInitial]]
  /\ commandes = [c \in References |-> Absente]
  /\ payees = {}
  /\ requetes = [q \in Requetes |-> Inactive]
  /\ gestes = 0
  /\ tenues = [c \in References |-> {}]
  /\ base = [p \in Produits |-> [k \in Compteurs(p) |->
               IF k = Sans THEN Somme(p, StockInitial) ELSE StockInitial]]
  /\ perturbes = {}

------------------------------------------------------------------------------
(* BoutiqueService.                                                        *)

statutSelonStock(p, stock) ==
  IF p.statut \in {"RETIRE", "PRECOMMANDE"} THEN p.statut
  ELSE IF stock > 0 THEN "DISPONIBLE" ELSE "RUPTURE"

commandable(p) ==
  p.statut = "PRECOMMANDE" \/ (p.statut = "DISPONIBLE" /\ p.stock > 0)

\* declinaisonDe: a product whose grid is empty is counted in total only.
SuiviParVariante(p, v) == v \in DOMAIN declinaisons[p]

Passer(q, pc) == requetes' = [requetes EXCEPT ![q].pc = pc]
Finir(q) == requetes' = [requetes EXCEPT ![q] = Inactive]

EnVol == {q \in Requetes : requetes[q] # Inactive}

LigneCourante(q) == Panier[requetes[q].objet][requetes[q].ligne]

\* The product a step of request q is about: its own, or that of its line.
ProduitDe(q) == IF requetes[q].objet \in Produits THEN requetes[q].objet
                ELSE LigneCourante(q).produit

\* A bound: what no property speaks of any more is not explored further.
SansPerturbation == perturbes = {}

\* The grid of p is being replaced: between its deletion and the new total,
\* a movement of stock is lost or counted twice.
EnDefinition(p) ==
  \E q \in EnVol : requetes[q].pc \in {"regarnir", "totaliser"} /\ requetes[q].objet = p

NoterMouvement(p) ==
  perturbes' = IF EnDefinition(p) THEN perturbes \cup {p} ELSE perturbes

\* reserverStock, first UPDATE: the variant, if the product has a grid.
PrendreVariante(q) ==
  LET l == LigneCourante(q)
      p == l.produit
  IN  /\ requetes[q].pc = "prendre"
      /\ \/ /\ ~SuiviParVariante(p, l.variante)
            /\ Passer(q, "prendreTotal")
            /\ UNCHANGED declinaisons
         \/ /\ SuiviParVariante(p, l.variante)
            /\ declinaisons[p][l.variante] >= 1
            /\ declinaisons' = [declinaisons EXCEPT ![p][l.variante] = @ - 1]
            /\ Passer(q, "prendreTotal")
         \/ /\ SuiviParVariante(p, l.variante)
            /\ declinaisons[p][l.variante] = 0
            /\ Passer(q, "renoncer")
            /\ UNCHANGED declinaisons
      /\ NoterMouvement(p)
      /\ UNCHANGED <<journal, produits, commandes, payees, gestes, tenues, base>>

\* Mutant: the condition is left to the variant alone.
PrendreTotal_SansCondition(q) ==
  LET p == LigneCourante(q).produit
      c == requetes[q].objet
  IN  /\ requetes[q].pc = "prendreTotal"
      /\ produits' = [produits EXCEPT ![p].stock = @ - 1]
      /\ tenues' = [tenues EXCEPT ![c] = @ \cup {requetes[q].ligne}]
      /\ requetes' = [requetes EXCEPT ![q].pc = "rafraichir",
                        ![q].lignes = @ \cup {requetes[q].ligne}]
      /\ NoterMouvement(p)
      /\ UNCHANGED <<journal, declinaisons, commandes, payees, gestes, base>>

\* reserverStock, second UPDATE: the total.  Refused, the variant is given back.
PrendreTotal(q) ==
  LET l == LigneCourante(q)
      p == l.produit
      c == requetes[q].objet
  IN  /\ requetes[q].pc = "prendreTotal"
      /\ \/ /\ produits[p].stock >= 1
            /\ produits' = [produits EXCEPT ![p].stock = @ - 1]
            /\ tenues' = [tenues EXCEPT ![c] = @ \cup {requetes[q].ligne}]
            /\ requetes' = [requetes EXCEPT ![q].pc = "rafraichir",
                              ![q].lignes = @ \cup {requetes[q].ligne}]
            /\ UNCHANGED declinaisons
         \/ /\ produits[p].stock = 0
            /\ declinaisons' = IF SuiviParVariante(p, l.variante)
                               THEN [declinaisons EXCEPT ![p][l.variante] = @ + 1]
                               ELSE declinaisons
            /\ Passer(q, "renoncer")
            /\ UNCHANGED <<produits, tenues>>
      /\ NoterMouvement(p)
      /\ UNCHANGED <<journal, commandes, payees, gestes, base>>

\* libererStock: both counters, without condition.
RendreVariante(q) ==
  LET l == LigneCourante(q)
      p == l.produit
  IN  /\ requetes[q].pc = "rendre"
      /\ declinaisons' = IF SuiviParVariante(p, l.variante)
                         THEN [declinaisons EXCEPT ![p][l.variante] = @ + 1]
                         ELSE declinaisons
      /\ Passer(q, "rendreTotal")
      /\ NoterMouvement(p)
      /\ UNCHANGED <<journal, produits, commandes, payees, gestes, tenues, base>>

\* Mutant: the total is not given back.
RendreTotal_VarianteSeule(q) ==
  LET p == LigneCourante(q).produit
      c == requetes[q].objet
  IN  /\ requetes[q].pc = "rendreTotal"
      /\ tenues' = [tenues EXCEPT ![c] = @ \ {requetes[q].ligne}]
      /\ Passer(q, "rafraichir")
      /\ NoterMouvement(p)
      /\ UNCHANGED <<journal, produits, declinaisons, commandes, payees, gestes, base>>

RendreTotal(q) ==
  LET p == LigneCourante(q).produit
      c == requetes[q].objet
  IN  /\ requetes[q].pc = "rendreTotal"
      /\ produits' = [produits EXCEPT ![p].stock = @ + 1]
      /\ tenues' = [tenues EXCEPT ![c] = @ \ {requetes[q].ligne}]
      /\ NoterMouvement(p)
      /\ Passer(q, "rafraichir")
      /\ UNCHANGED <<journal, declinaisons, commandes, payees, gestes, base>>

\* restituer, rendreLeStock: the lines to give back, one after the other; then
\* the request is over (the buyer who cancels also closes the page of payment).
RendreApres(q, i, lignes) ==
  LET reste == {j \in lignes : j > i}
  IN  IF reste = {} THEN Inactive
      ELSE [requetes[q] EXCEPT !.pc = "rendre", !.defait = TRUE,
              !.ligne = CHOOSE j \in reste : \A k \in reste : j <= k,
              !.lu = RienLu, !.ecrit = RienLu]

\* What follows the refresh of a product.
Continuer(q) ==
  LET r == requetes[q]
  IN  requetes' = [requetes EXCEPT ![q] =
        CASE r.objet \in Produits -> Inactive
          [] r.objet \in References /\ ~r.defait ->
               [r EXCEPT !.pc = "suivante", !.ligne = @ + 1, !.lu = RienLu, !.ecrit = RienLu]
          [] r.objet \in References /\ r.defait -> RendreApres(q, r.ligne, r.lignes)]

\* rafraichirStatut reads the row, and saves it only if the status changes.
Rafraichir(q) ==
  LET p == ProduitDe(q)
      attendu == statutSelonStock(produits[p], produits[p].stock)
  IN  /\ requetes[q].pc = "rafraichir"
      /\ IF attendu = produits[p].statut THEN Continuer(q)
         ELSE requetes' = [requetes EXCEPT ![q].pc = "sauver",
                             ![q].lu = produits[p],
                             ![q].ecrit = [produits[p] EXCEPT !.statut = attendu]]
      /\ UNCHANGED <<journal, produits, declinaisons, commandes, payees, gestes,
                     tenues, base, perturbes>>

\* produits.save: the row as it was read, with its change, replaces the table's.
Sauver(q) ==
  LET p == ProduitDe(q)
  IN  /\ requetes[q].pc = "sauver"
      /\ produits' = [produits EXCEPT ![p] = requetes[q].ecrit]
      /\ perturbes' = IF produits[p] = requetes[q].lu THEN perturbes
                      ELSE perturbes \cup {p}
      /\ Continuer(q)
      /\ UNCHANGED <<journal, declinaisons, commandes, payees, gestes, tenues, base>>

\* The office starts a gesture on product p.
Geste(q, op, pc, p, ecrit) ==
  /\ op \in GestesBoutique
  /\ requetes[q] = Inactive
  /\ gestes < MaxGestes
  /\ SansPerturbation
  /\ gestes' = gestes + 1
  /\ requetes' = [requetes EXCEPT ![q] =
       [op |-> op, pc |-> pc, objet |-> p, ligne |-> 0, vu |-> "ABSENTE",
        lu |-> produits[p], ecrit |-> ecrit, lignes |-> {}, defait |-> FALSE]]

\* mettreAJour (with or without a date of availability) and retirer: read the
\* product, then save it.
Modifier(q, p) ==
  /\ LET lu == produits[p]
         selon == [lu EXCEPT !.statut = statutSelonStock(lu, lu.stock)]
     IN  \/ Geste(q, "modifier", "sauver", p, selon)
         \/ Geste(q, "precommander", "sauver", p, [lu EXCEPT !.statut = "PRECOMMANDE"])
         \/ Geste(q, "retirer", "sauver", p, [lu EXCEPT !.statut = "RETIRE"])
  /\ UNCHANGED <<journal, produits, declinaisons, commandes, payees, tenues, base,
                 perturbes>>

\* ajusterStock: the total only, in one conditional UPDATE.
AjusterStock(q, p, delta) ==
  /\ produits[p].stock + delta >= 0
  /\ Geste(q, "ajuster", "rafraichir", p, produits[p])
  /\ produits' = [produits EXCEPT ![p].stock = @ + delta]
  /\ base' = [base EXCEPT ![p][Sans] = @ + delta]
  /\ NoterMouvement(p)
  /\ UNCHANGED <<journal, declinaisons, commandes, payees, tenues>>

\* definirDeclinaisons: the rows are deleted, written again, and the total set.
\* The stock given is what is left to sell, over what orders already hold.
LignesTenues == UNION {{c} \X tenues[c] : c \in References}

Tenu(p, k) ==
  Cardinality({x \in LignesTenues :
                 LET l == Panier[x[1]][x[2]]
                 IN  l.produit = p /\ k \in {Sans, l.variante}})

ViderGrille(q, p) ==
  /\ Grille[p] # {}
  /\ ~EnDefinition(p)
  /\ Geste(q, "definir", "regarnir", p, produits[p])
  /\ declinaisons' = [declinaisons EXCEPT ![p] = <<>>]
  \* A movement between its two counters is caught in the middle.
  /\ perturbes' =
       IF \E o \in Requetes \ {q} :
            /\ requetes[o].pc \in {"prendreTotal", "rendreTotal"}
            /\ ProduitDe(o) = p
       THEN perturbes \cup {p} ELSE perturbes
  /\ UNCHANGED <<journal, produits, commandes, payees, tenues, base>>

Regarnir(q, n) ==
  LET p == requetes[q].objet
  IN  /\ requetes[q].pc = "regarnir"
      /\ declinaisons' = [declinaisons EXCEPT ![p] = [v \in Grille[p] |-> n]]
      /\ requetes' = [requetes EXCEPT ![q].pc = "totaliser",
                                      ![q].ecrit.stock = Somme(p, n)]
      /\ base' = [base EXCEPT ![p] = [k \in Compteurs(p) |->
                    IF k = Sans THEN Somme(p, n) + Tenu(p, Sans)
                    ELSE n + Tenu(p, k)]]
      /\ UNCHANGED <<journal, produits, commandes, payees, gestes, tenues, perturbes>>

Totaliser(q) ==
  LET p == requetes[q].objet
  IN  /\ requetes[q].pc = "totaliser"
      /\ produits' = [produits EXCEPT ![p].stock = requetes[q].ecrit.stock]
      /\ Passer(q, "rafraichir")
      /\ UNCHANGED <<journal, declinaisons, commandes, payees, gestes, tenues,
                     base, perturbes>>

------------------------------------------------------------------------------
(* CommandeService.creer.                                                  *)

RienDAutre == UNCHANGED <<produits, declinaisons, gestes, base>>

Demande(op, pc, c, lignes) ==
  [op |-> op, pc |-> pc, objet |-> c, ligne |-> 1, vu |-> commandes[c].statut,
   lu |-> RienLu, ecrit |-> RienLu, lignes |-> lignes, defait |-> FALSE]

Creer(q, c) ==
  /\ requetes[q] = Inactive
  /\ SansPerturbation
  /\ commandes[c] = Absente
  /\ journal[c].statut = "ABSENTE"
  /\ \A o \in EnVol : requetes[o].objet # c
  /\ requetes' = [requetes EXCEPT ![q] = Demande("creer", "suivante", c, {})]
  /\ UNCHANGED <<journal, commandes, payees, tenues, perturbes>>
  /\ RienDAutre

\* preparerLignes reads the product of each line; nothing is reserved of a
\* product sold in advance.
PreparerLigne(q) ==
  LET r == requetes[q]
      p == LigneCourante(q).produit
  IN  /\ r.pc = "suivante"
      /\ r.ligne <= Len(Panier[r.objet])
      /\ IF ~commandable(produits[p]) THEN Passer(q, "renoncer")
         ELSE IF produits[p].statut = "PRECOMMANDE"
              THEN requetes' = [requetes EXCEPT ![q].ligne = @ + 1]
              ELSE Passer(q, "prendre")
      /\ UNCHANGED <<journal, commandes, payees, tenues, perturbes>>
      /\ RienDAutre

\* The order and its lines in one transaction, then the row of the journal.
Enregistrer(q) ==
  LET r == requetes[q]
      c == r.objet
  IN  /\ r.pc = "suivante"
      /\ r.ligne > Len(Panier[c])
      /\ commandes' = [commandes EXCEPT ![c] = [Absente EXCEPT !.statut = "EN_ATTENTE"]]
      /\ Ouvrir(c)
      /\ Passer(q, "initier")
      /\ UNCHANGED <<payees, tenues, perturbes>>
      /\ RienDAutre

\* The provider answers (and its identifier is kept), or the call fails; after
\* an answer, the notice to the buyer may still fail and undo the order.
InitierPaiement(q) ==
  /\ requetes[q].pc = "initier"
  /\ \/ EnregistrerReferenceExterne(requetes[q].objet) /\ Passer(q, "conclure")
     \/ Passer(q, "renoncer") /\ UNCHANGED journal
  /\ UNCHANGED <<commandes, payees, tenues, perturbes>>
  /\ RienDAutre

Conclure(q) ==
  /\ requetes[q].pc = "conclure"
  /\ Finir(q) \/ Passer(q, "renoncer")
  /\ UNCHANGED <<journal, commandes, payees, tenues, perturbes>>
  /\ RienDAutre

\* Everything order c counts is off once a request writes it from a stale reading.
Perturbe(c) == perturbes \cup {c} \cup {Panier[c][i].produit : i \in LignesDe(c)}

\* The catch of creer: the transaction is given up, the order deleted, and what
\* was reserved is given back, line by line, even if the buyer cancelled the
\* order meanwhile.
Renoncer(q) ==
  LET c == requetes[q].objet
  IN  /\ requetes[q].pc = "renoncer"
      /\ Abandonner(c)
      /\ commandes' = [commandes EXCEPT ![c] = Absente]
      /\ requetes' = [requetes EXCEPT ![q] =
           RendreApres(q, 0, requetes[q].lignes)]
      /\ perturbes' = IF commandes[c].statut \in {"ABSENTE", "EN_ATTENTE"}
                      THEN perturbes ELSE Perturbe(c)
      /\ UNCHANGED <<payees, tenues>>
      /\ RienDAutre

------------------------------------------------------------------------------
(* After the order: payment, cancellation, preparation, withdrawal.        *)

\* The buyer pays at the provider, or brings a proof the treasury accepts.
Regler(c) ==
  /\ journal[c].statut = "EN_ATTENTE" \/ (journal[c].statut = "ECHOUE" /\ journal[c].ext)
  /\ SansPerturbation
  /\ c \notin payees
  /\ payees' = payees \cup {c}
  /\ UNCHANGED <<journal, commandes, requetes, tenues, perturbes>>
  /\ RienDAutre

\* TransactionService.appliquer made the row change: its effect goes to the order.
RecevoirIssueCommande(q, c, issue) ==
  /\ requetes[q] = Inactive
  /\ SansPerturbation
  /\ issue = "COMPLETE" => c \in payees
  /\ journal[c].ext
  /\ AppliquerAffecte(c, issue)
  /\ Appliquer(c, issue)
  /\ requetes' = [requetes EXCEPT ![q] =
       Demande(IF issue = "COMPLETE" THEN "confirmer" ELSE "echouer", "lire", c, {})]
  /\ UNCHANGED <<commandes, payees, tenues, perturbes>>
  /\ RienDAutre

\* The payment was undone, or failed, while its confirmation was on its way.
Depassee(c) == IF journal[c].statut = "COMPLETE" THEN perturbes
               ELSE perturbes \cup {c}

\* Mutant: `AND statut != :annulee` is left to the reading above it.
Confirmer_SansAnnulee(q) ==
  LET c == requetes[q].objet
  IN  /\ requetes[q].pc = "ecrire" /\ requetes[q].op = "confirmer"
      /\ commandes' = IF commandes[c] # Absente /\ commandes[c].paiement # "COMPLETE"
                      THEN [commandes EXCEPT ![c] = [statut |-> "PAYEE", paiement |-> "COMPLETE"]]
                      ELSE commandes
      /\ perturbes' = Depassee(c)
      /\ Finir(q)
      /\ UNCHANGED <<journal, payees, tenues>>
      /\ RienDAutre

\* Lines whose product, when the order was read, is not sold in advance.
ARendre(c) == {i \in LignesDe(c) : produits[Panier[c][i].produit].statut # "PRECOMMANDE"}

\* confirmerPaiement, echouerPaiement: the reading leaves out what is unknown,
\* and for a confirmation what is cancelled (a refund to be made by hand).
LireCommande(q) ==
  LET c == requetes[q].objet
      ignore == \/ commandes[c] = Absente
                \/ requetes[q].op = "confirmer" /\ commandes[c].statut = "ANNULEE"
  IN  /\ requetes[q].pc = "lire"
      /\ IF ignore THEN Finir(q)
         ELSE requetes' = [requetes EXCEPT ![q].pc = "ecrire", ![q].lignes = ARendre(c)]
      /\ UNCHANGED <<journal, commandes, payees, tenues, perturbes>>
      /\ RienDAutre

\* UPDATE ... WHERE statut_paiement != COMPLETE AND statut != ANNULEE.
Confirmer(q) ==
  LET c == requetes[q].objet
  IN  /\ requetes[q].pc = "ecrire" /\ requetes[q].op = "confirmer"
      /\ commandes' = IF /\ commandes[c].statut \notin {"ABSENTE", "ANNULEE"}
                         /\ commandes[c].paiement # "COMPLETE"
                      THEN [commandes EXCEPT ![c] = [statut |-> "PAYEE", paiement |-> "COMPLETE"]]
                      ELSE commandes
      /\ perturbes' = Depassee(c)
      /\ Finir(q)
      /\ UNCHANGED <<journal, payees, tenues>>
      /\ RienDAutre

\* UPDATE ... WHERE statut = EN_ATTENTE; then the stock of every line.
Echouer(q) ==
  LET c == requetes[q].objet
  IN  /\ requetes[q].pc = "ecrire" /\ requetes[q].op = "echouer"
      /\ IF commandes[c].statut = "EN_ATTENTE"
         THEN /\ commandes' = [commandes EXCEPT ![c] = [statut |-> "ANNULEE", paiement |-> "ECHOUE"]]
              /\ requetes' = [requetes EXCEPT ![q] = RendreApres(q, 0, requetes[q].lignes)]
         ELSE Finir(q) /\ UNCHANGED commandes
      /\ UNCHANGED <<journal, payees, tenues, perturbes>>
      /\ RienDAutre

Vers == [annuler |-> "ANNULEE", prete |-> "PRETE", retiree |-> "RETIREE"]

\* annuler, marquerPrete, marquerRetiree: the transition is checked on what was
\* read, and the status written by id.
LireTransition(q, op, c) ==
  /\ requetes[q] = Inactive
  /\ SansPerturbation
  /\ c \in Enregistrees
  /\ Vers[op] \in TRANSITIONS[commandes[c].statut]
  /\ requetes' = [requetes EXCEPT ![q] = Demande(op, "transiter", c, ARendre(c))]
  /\ UNCHANGED <<journal, commandes, payees, tenues, perturbes>>
  /\ RienDAutre

Transiter(q) ==
  LET r == requetes[q]
      c == r.objet
  IN  /\ r.pc = "transiter"
      /\ commandes' = IF commandes[c] = Absente THEN commandes
                      ELSE [commandes EXCEPT ![c].statut = Vers[r.op]]
      /\ perturbes' = IF commandes[c].statut = r.vu THEN perturbes
                      ELSE Perturbe(c)
      /\ requetes' = [requetes EXCEPT ![q] =
           IF r.op = "annuler" THEN RendreApres(q, 0, r.lignes) ELSE Inactive]
      /\ UNCHANGED <<journal, payees, tenues>>
      /\ RienDAutre

\* Mutant: an order that is ready is taken back like one that is only paid.
Defaire_Prete(c) ==
  /\ SansPerturbation
  /\ gestes < MaxGestes
  /\ journal[c].statut = "COMPLETE"
  /\ commandes[c].statut \in {"EN_ATTENTE", "PAYEE", "PRETE"}
  /\ commandes' = IF commandes[c].statut = "EN_ATTENTE" THEN commandes
                  ELSE [commandes EXCEPT ![c].paiement = "EN_ATTENTE"]
  /\ Rouvrir(c, "declare")
  /\ payees' = payees \ {c}
  /\ gestes' = gestes + 1
  /\ UNCHANGED <<produits, declinaisons, base, requetes, tenues, perturbes>>

\* annulerPaiementHorsLigne: the treasury takes back the proof it accepted.
\* Refused when the order is ready, handed over or cancelled; else EN_ATTENTE
\* WHERE statut = PAYEE, and the journal is reopened.
Defaire(c) ==
  /\ SansPerturbation
  /\ gestes < MaxGestes
  /\ journal[c].statut = "COMPLETE"
  /\ commandes[c].statut \in {"EN_ATTENTE", "PAYEE"}
  /\ commandes' = IF commandes[c].statut = "PAYEE"
                  THEN [commandes EXCEPT ![c] = [statut |-> "EN_ATTENTE", paiement |-> "EN_ATTENTE"]]
                  ELSE commandes
  /\ Rouvrir(c, "declare")
  /\ payees' = payees \ {c}
  /\ gestes' = gestes + 1
  /\ UNCHANGED <<produits, declinaisons, base, requetes, tenues, perturbes>>

------------------------------------------------------------------------------

Boutique(q) ==
  \/ PrendreVariante(q) \/ PrendreTotal(q) \/ RendreVariante(q) \/ RendreTotal(q)
  \/ Rafraichir(q) \/ Sauver(q)
  \/ \E p \in Produits : Modifier(q, p) \/ ViderGrille(q, p)
  \/ \E p \in Produits, delta \in {-1, 1} : AjusterStock(q, p, delta)
  \/ \E n \in 0 .. StockInitial : Regarnir(q, n)
  \/ Totaliser(q)

Achat(q) ==
  \/ \E c \in References : Creer(q, c)
  \/ PreparerLigne(q) \/ Enregistrer(q) \/ InitierPaiement(q)
  \/ Conclure(q) \/ Renoncer(q)

Suivi(q) ==
  \/ \E c \in References, i \in {"COMPLETE", "ECHOUE"} : RecevoirIssueCommande(q, c, i)
  \/ LireCommande(q) \/ Confirmer(q) \/ Echouer(q)
  \/ \E c \in References, op \in DOMAIN Vers : LireTransition(q, op, c)
  \/ Transiter(q)

NextCommande ==
  \/ \E q \in Requetes : Boutique(q) \/ Achat(q) \/ Suivi(q)
  \/ \E c \in References : Regler(c) \/ Defaire(c)

SpecCommande == InitCommande /\ [][NextCommande]_varsCommande

------------------------------------------------------------------------------
(* Properties.                                                             *)

BoutiqueAuRepos == EnVol = {}

\* Products whose stock is counted; what turned to advance sale while orders held
\* it is not given back (see the README).
EnVente == {p \in Produits : produits[p].statut \in {"DISPONIBLE", "RUPTURE"}}

\* Whatever orders were made, refused, paid, failed or cancelled at once, a
\* counter of stock holds what it would hold without orders less what living
\* orders hold: nothing is sold twice, given back twice or forgotten, unless a
\* stale reading was written over the product or the order.
StockExact ==
  BoutiqueAuRepos =>
    \A p \in EnVente \ perturbes :
      /\ produits[p].stock + Tenu(p, Sans) = base[p][Sans]
      /\ \A v \in DOMAIN declinaisons[p] :
           declinaisons[p][v] + Tenu(p, v) = base[p][v]

\* Stock is held by living orders only, and by all their lines that took it.
StockTenuParVivantes ==
  BoutiqueAuRepos =>
    \A c \in References \ perturbes : \A i \in tenues[c] :
      Panier[c][i].produit \in EnVente \ perturbes
        => commandes[c].statut \in StatutsCommande \ {"ANNULEE"}

\* The catalogue shows DISPONIBLE exactly what is in stock, once every refresh
\* is over.
StatutSuitLeStock ==
  BoutiqueAuRepos =>
    \A p \in EnVente \ perturbes :
      produits[p].statut = "DISPONIBLE" <=> produits[p].stock > 0

\* The stock, total and variants, what living orders hold of it and what the
\* catalogue shows of it agree.
StocksAccordes == StockExact /\ StockTenuParVivantes /\ StatutSuitLeStock

\* An order is handed over, or ready to be, only if its payment stands: undone
\* by the treasury, failed or never made, the goods are not given.
RemisSiRegle ==
  \A c \in References \ perturbes :
    commandes[c].statut \in {"PRETE", "RETIREE"} =>
      commandes[c].paiement = "COMPLETE" /\ c \in payees

\* A cancelled order, whose stock was given back, is never revived, even by a
\* payment that was on its way.
AnnulationDefinitive ==
  [][\A c \in References :
       commandes[c].statut = "ANNULEE" /\ c \notin perturbes'
         => commandes'[c].statut = "ANNULEE"]_varsCommande

==============================================================================

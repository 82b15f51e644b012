---------------------------- MODULE CommandeProofs ----------------------------
(***************************************************************************)
(* Proofs about Commande, for any products, orders and baskets, any number *)
(* of requests in flight and of gestures of the office.                    *)
(*                                                                         *)
(* IInv (types, creations known to nobody, transitions allowed, payments   *)
(* that stand) carries RemisSiRegle and AnnulationDefinitive.  AccordInv   *)
(* adds, for every order, which lines it holds and which request owes them *)
(* back, and, for every product, what each counter has given away between  *)
(* any two statements of the requests in flight; it carries                *)
(* StocksAccordes.                                                         *)
(***************************************************************************)
EXTENDS Commande, JournalProofs, FiniteSetTheorems, WellFoundedInduction, TLAPS

------------------------------------------------------------------------------
(* The requests in flight.                                                 *)

RangeeProduit == [stock : Nat, statut : StatutsProduit]

\* Where a request is: buying, selling, giving back, or following an order.
EtapesDeLigne == {"prendre", "prendreTotal", "rendre", "rendreTotal", "rafraichir", "sauver"}
EtapesDeGrille == {"regarnir", "totaliser"}
EtapesDeCommande == {"suivante", "initier", "conclure", "renoncer", "lire", "ecrire",
                     "transiter"}

Operations == Gestes \cup {"creer", "confirmer", "echouer"} \cup DOMAIN Vers

Requete == [op     : Operations,
            pc     : EtapesDeLigne \cup EtapesDeGrille \cup EtapesDeCommande,
            objet  : Produits \cup References,
            ligne  : Nat,
            vu     : StatutsCommande \cup {"ABSENTE"},
            lu     : RangeeProduit,
            ecrit  : RangeeProduit,
            lignes : SUBSET Nat,
            defait : BOOLEAN]

\* A request about a product edits it; one about an order works on lines of its
\* basket, and on one of them whenever it moves stock.
BienPlacee(r) ==
  \/ /\ r.objet \in Produits
     /\ r.pc \in EtapesDeGrille \cup {"rafraichir", "sauver"}
  \/ /\ r.objet \in References
     /\ r.pc \in EtapesDeLigne \cup EtapesDeCommande
     /\ r.lignes \subseteq LignesDe(r.objet)
     /\ r.pc \in EtapesDeLigne => r.ligne \in LignesDe(r.objet)
     /\ r.pc = "suivante" => r.ligne > 0
     /\ r.pc \in {"suivante", "prendre", "prendreTotal"} => ~r.defait
     /\ r.pc \in {"rendre", "rendreTotal"} => r.defait

RequeteTypee(r) == r = Inactive \/ (r \in Requete /\ BienPlacee(r))

\* Each slot is idle or holds a request.
EmplacementsTypes ==
  /\ requetes = [q \in Requetes |-> requetes[q]]
  /\ \A q \in Requetes : RequeteTypee(requetes[q])

\* What TypeOKCommande leaves open: the domains of the tables, and the requests.
RequetesTypees ==
  /\ declinaisons = [p \in Produits |-> declinaisons[p]]
  /\ tenues = [c \in References |-> tenues[c]]
  /\ EmplacementsTypes

------------------------------------------------------------------------------
(* The inductive invariant.                                                *)

\* A request that has not yet registered the order it is about.
EnCreation(r) ==
  /\ r # Inactive
  /\ r.objet \in References
  /\ r.pc \in {"suivante", "prendre", "prendreTotal", "rafraichir", "sauver"}
  /\ ~r.defait

\* An order being created is known to nobody else: neither the tables nor another
\* request has heard of it.
CreationSeule ==
  \A q \in Requetes :
    LET c == requetes[q].objet
    IN  EnCreation(requetes[q]) =>
          /\ commandes[c] = Absente
          /\ journal[c].statut = "ABSENTE"
          /\ \A o \in EnVol \ {q} : requetes[o].objet # c

\* A transition about to be written is one of TRANSITIONS from the status read.
TransitionPermise(r) ==
  r # Inactive /\ r.pc = "transiter" =>
    /\ r.op \in DOMAIN Vers
    /\ r.vu \in StatutsCommande
    /\ Vers[r.op] \in TRANSITIONS[r.vu]

TransitionsPermises == \A q \in Requetes : TransitionPermise(requetes[q])

\* The journal says COMPLETE of payments made only, and a paid order is one whose
\* payment stands, from PAYEE on.
PayeeTient ==
  /\ \A c \in References : journal[c].statut = "COMPLETE" => c \in payees
  /\ \A c \in References \ perturbes :
       commandes[c].statut \in {"PAYEE", "PRETE", "RETIREE"} =>
         commandes[c].paiement = "COMPLETE" /\ c \in payees

TypeInv == TypeOKCommande /\ RequetesTypees

IInv == TypeInv /\ CreationSeule /\ TransitionsPermises /\ PayeeTient

------------------------------------------------------------------------------
(* Lines, products and rows.                                               *)

\* A nonempty set of line numbers has a least one.
LEMMA PlusPetit ==
  ASSUME NEW S, S \subseteq Nat, S # {}
  PROVE  \E j \in S : \A k \in S : j <= k
<1>. DEFINE R == OpToRel(<, Nat)
<1>1. PICK j \in S : \A k \in S : <<k, j>> \notin R
  BY NatLessThanWellFounded, WFMin, Zenon
<1>2. \A k, l \in Nat : k < l => <<k, l>> \in R
  BY Zenon DEF OpToRel
<1>. HIDE DEF R
<1>3. ASSUME NEW k \in S, k < j PROVE FALSE
  <2>1. k \in Nat /\ j \in Nat
    OBVIOUS
  <2>2. <<k, j>> \in R
    BY <1>2, <1>3, <2>1
  <2>. QED BY <1>1, <2>2
<1>. QED BY <1>3

\* Every line asks for a product of the shop.
LEMMA LigneDuPanier ==
  ASSUME NEW c \in References
  PROVE  /\ LignesDe(c) = 1 .. Len(Panier[c]) /\ Len(Panier[c]) \in Nat
         /\ LignesDe(c) \subseteq Nat
         /\ \A i \in LignesDe(c) : Panier[c][i].produit \in Produits
<1>. DEFINE Demandee == [produit : Produits, variante : Variantes \cup {Sans}]
            s == Panier[c]
<1>1. s \in Seq(Demandee)
  BY CommandeAssumption
<1>2. \A l \in Demandee : l.produit \in Produits
  OBVIOUS
<1>. HIDE DEF Demandee, s
<1>3. DOMAIN s = 1 .. Len(s) /\ Len(s) \in Nat /\ \A i \in 1 .. Len(s) : s[i] \in Demandee
  BY <1>1
<1>. QED BY <1>2, <1>3 DEF LignesDe, s

\* The product a step is about is one of the shop.
LEMMA ProduitTypee ==
  ASSUME NEW q \in Requetes, requetes[q] \in Requete, BienPlacee(requetes[q]),
         requetes[q].pc \in EtapesDeLigne \cup EtapesDeGrille
  PROVE  ProduitDe(q) \in Produits
<1>1. CASE requetes[q].objet \in Produits
  BY <1>1 DEF ProduitDe
<1>2. CASE requetes[q].objet \notin Produits
  <2>1. requetes[q].objet \in References /\ requetes[q].ligne \in LignesDe(requetes[q].objet)
    BY <1>2 DEF BienPlacee, EtapesDeLigne, EtapesDeGrille, EtapesDeCommande
  <2>. QED BY <1>2, <2>1, LigneDuPanier DEF ProduitDe, LigneCourante
<1>. QED BY <1>1, <1>2

\* A slot in use holds a request.
LEMMA EnCours ==
  ASSUME RequetesTypees, NEW q \in Requetes, requetes[q].pc # "libre"
  PROVE  requetes[q] \in Requete /\ BienPlacee(requetes[q]) /\ requetes[q] # Inactive
BY DEF RequetesTypees, EmplacementsTypes, RequeteTypee, Inactive

\* So does a slot that is not idle, at a step that is not rest.
LEMMA Occupee ==
  ASSUME RequetesTypees, NEW q \in Requetes, requetes[q] # Inactive
  PROVE  requetes[q] \in Requete /\ BienPlacee(requetes[q]) /\ requetes[q].pc # "libre"
BY DEF RequetesTypees, EmplacementsTypes, RequeteTypee, Requete, EtapesDeLigne,
       EtapesDeGrille, EtapesDeCommande

\* Steps of an order are made by requests on orders.
LEMMA SurCommande ==
  ASSUME NEW r \in Requete, BienPlacee(r)
  PROVE  /\ r.objet \in Produits <=> r.objet \notin References
         /\ r.pc \in EtapesDeCommande \cup {"prendre", "prendreTotal", "rendre", "rendreTotal"}
              => r.objet \in References
         /\ r.pc \in EtapesDeGrille => r.objet \in Produits
BY CommandeAssumption DEF BienPlacee, Requete, EtapesDeCommande, EtapesDeLigne, EtapesDeGrille

\* Giving the lines back: the next of them in order, or nothing is left to do.
LEMMA RendreBien ==
  ASSUME NEW q \in Requetes, requetes[q] \in Requete, BienPlacee(requetes[q]),
         requetes[q].objet \in References, NEW n \in Nat,
         NEW x, x = RendreApres(q, n, requetes[q].lignes), x # Inactive
  PROVE  /\ x \in Requete /\ BienPlacee(x)
         /\ x.pc = "rendre" /\ x.defait /\ x.objet = requetes[q].objet
<1>. DEFINE r == requetes[q]
            reste == {j \in r.lignes : j > n}
            m == CHOOSE j \in reste : \A k \in reste : j <= k
<1>1. r.objet \notin Produits
  BY CommandeAssumption
<1>2. r.lignes \subseteq LignesDe(r.objet) /\ LignesDe(r.objet) \subseteq Nat
  BY <1>1, LigneDuPanier DEF BienPlacee
<1>3. reste # {}
  BY DEF RendreApres
<1>4. m \in reste
  <2>1. \E j \in reste : \A k \in reste : j <= k
    BY <1>2, <1>3, PlusPetit
  <2>. QED BY <2>1
<1>5. m \in LignesDe(r.objet) /\ m \in Nat
  BY <1>2, <1>4
<1>6. x = [r EXCEPT !.pc = "rendre", !.defait = TRUE, !.ligne = m, !.lu = RienLu,
                    !.ecrit = RienLu]
  BY <1>3 DEF RendreApres
<1>7. RienLu \in RangeeProduit
  BY DEF RienLu, RangeeProduit, StatutsProduit
<1>. HIDE DEF m, reste
<1>8. /\ x \in Requete /\ x.pc = "rendre" /\ x.defait /\ x.objet = r.objet /\ x.ligne = m
      /\ x.lignes = r.lignes
  BY <1>5, <1>6, <1>7 DEF Requete, EtapesDeLigne
<1>. QED BY <1>1, <1>2, <1>5, <1>8 DEF BienPlacee, EtapesDeLigne

------------------------------------------------------------------------------
(* How a request goes on.                                                  *)

\* From one step to the next a request keeps what it is about, creates an order
\* only if it was creating it, and never comes to a transition; or it ends.
Suivie(r, x) ==
  \/ x = Inactive
  \/ /\ x \in Requete /\ BienPlacee(x)
     /\ x.objet = r.objet
     /\ x.pc # "transiter"
     /\ EnCreation(x) => EnCreation(r)

Avance(q) == \E x : requetes' = [requetes EXCEPT ![q] = x] /\ Suivie(requetes[q], x)

\* A request that ends goes on as it may.
LEMMA FinirAvance ==
  ASSUME NEW q \in Requetes, Finir(q)
  PROVE  Avance(q)
BY DEF Finir, Avance, Suivie

\* Moving to another step.
LEMMA PasserAvance ==
  ASSUME NEW q \in Requetes, requetes[q] \in Requete, BienPlacee(requetes[q]),
         NEW pc, Passer(q, pc),
         \/ pc \in {"renoncer", "initier", "conclure"} /\ requetes[q].objet \in References
         \/ /\ pc = "prendre" /\ requetes[q].pc = "suivante"
            /\ requetes[q].ligne <= Len(Panier[requetes[q].objet])
         \/ pc = "prendreTotal" /\ requetes[q].pc = "prendre"
         \/ pc = "rendreTotal" /\ requetes[q].pc = "rendre"
         \/ pc = "rafraichir" /\ requetes[q].pc \in {"rendreTotal", "totaliser"}
  PROVE  Avance(q)
<1>. DEFINE r == requetes[q]
            x == [r EXCEPT !.pc = pc]
<1>1. requetes' = [requetes EXCEPT ![q] = x]
  BY DEF Passer
<1>2. /\ x \in Requete /\ x.pc = pc /\ x.objet = r.objet /\ x.ligne = r.ligne
      /\ x.lignes = r.lignes /\ x.defait = r.defait
  BY DEF Requete, EtapesDeLigne, EtapesDeCommande
<1>. HIDE DEF x
<1>3. CASE r.objet \in References
  <2>1. r.objet \notin Produits
    BY <1>3, CommandeAssumption
  <2>2. /\ LignesDe(r.objet) = 1 .. Len(Panier[r.objet]) /\ Len(Panier[r.objet]) \in Nat
        /\ r.ligne \in Nat
    BY <1>3, LigneDuPanier DEF Requete
  <2>3. BienPlacee(x)
    BY <1>2, <1>3, <2>1, <2>2 DEF BienPlacee, EtapesDeLigne, EtapesDeCommande, EtapesDeGrille
  <2>4. EnCreation(x) => EnCreation(r)
    <3>1. r # Inactive
      BY DEF Requete, Inactive, EtapesDeLigne, EtapesDeGrille, EtapesDeCommande
    <3>2. r.pc = "rendreTotal" => r.defait
      BY <1>3, <2>1 DEF BienPlacee
    <3>3. r.pc # "totaliser"
      BY <2>1 DEF BienPlacee, EtapesDeLigne, EtapesDeCommande
    <3>. QED BY <1>2, <1>3, <3>1, <3>2, <3>3 DEF EnCreation
  <2>. QED BY <1>1, <1>2, <2>3, <2>4 DEF Avance, Suivie
<1>4. CASE r.objet \notin References
  <2>1. r.objet \in Produits /\ pc = "rafraichir"
    BY <1>4 DEF BienPlacee, EtapesDeGrille
  <2>2. BienPlacee(x) /\ ~EnCreation(x)
    BY <1>2, <1>4, <2>1 DEF BienPlacee, EnCreation, EtapesDeGrille
  <2>. QED BY <1>1, <1>2, <2>1, <2>2 DEF Avance, Suivie
<1>. QED BY <1>3, <1>4

\* Giving back, and what follows the refresh of a product.
LEMMA RendreAvance ==
  ASSUME NEW q \in Requetes, requetes[q] \in Requete, BienPlacee(requetes[q]),
         requetes[q].objet \in References, NEW n \in Nat,
         requetes' = [requetes EXCEPT ![q] = RendreApres(q, n, requetes[q].lignes)]
  PROVE  Avance(q)
<1>1. PICK x : x = RendreApres(q, n, requetes[q].lignes)
  OBVIOUS
<1>2. Suivie(requetes[q], x)
  BY <1>1, RendreBien DEF Suivie, EnCreation
<1>. QED BY <1>1, <1>2 DEF Avance

\* After the refresh of a product a request ends, or takes its next line.
LEMMA ContinuerAvance ==
  ASSUME NEW q \in Requetes, requetes[q] \in Requete, BienPlacee(requetes[q]),
         requetes[q].pc \in {"rafraichir", "sauver"}, Continuer(q)
  PROVE  Avance(q)
<1>. DEFINE r == requetes[q]
<1>1. CASE r.objet \in Produits
  <2>1. r.objet \notin References
    BY <1>1, CommandeAssumption
  <2>2. Finir(q)
    BY <1>1, <2>1 DEF Continuer, Finir
  <2>. QED BY <2>2, FinirAvance
<1>2. CASE r.objet \in References /\ r.defait
  <2>1. r.objet \notin Produits /\ r.ligne \in Nat
    BY <1>2, CommandeAssumption DEF Requete
  <2>2. requetes' = [requetes EXCEPT ![q] = RendreApres(q, r.ligne, r.lignes)]
    BY <1>2, <2>1 DEF Continuer
  <2>. QED BY <1>2, <2>1, <2>2, RendreAvance
<1>3. CASE r.objet \in References /\ ~r.defait
  <2>. DEFINE x == [r EXCEPT !.pc = "suivante", !.ligne = @ + 1, !.lu = RienLu, !.ecrit = RienLu]
  <2>1. r.objet \notin Produits
    BY <1>3, CommandeAssumption
  <2>2. requetes' = [requetes EXCEPT ![q] = x]
    BY <1>3, <2>1 DEF Continuer
  <2>3. RienLu \in RangeeProduit
    BY DEF RienLu, RangeeProduit, StatutsProduit
  <2>4. /\ x \in Requete /\ x.pc = "suivante" /\ x.objet = r.objet /\ x.ligne = r.ligne + 1
        /\ x.lignes = r.lignes /\ x.defait = r.defait /\ r.ligne \in Nat
    <3>1. PICK n \in Nat : n = r.ligne + 1
      BY DEF Requete
    <3>2. x = [r EXCEPT !.pc = "suivante", !.ligne = n, !.lu = RienLu, !.ecrit = RienLu]
      BY <3>1
    <3>. QED BY <2>3, <3>1, <3>2 DEF Requete, EtapesDeCommande
  <2>. HIDE DEF x
  <2>5. BienPlacee(x)
    BY <1>3, <2>1, <2>4 DEF BienPlacee, EtapesDeLigne, EtapesDeCommande
  <2>6. EnCreation(r)
    BY <1>3 DEF EnCreation, Inactive
  <2>. QED BY <2>2, <2>4, <2>5, <2>6 DEF Avance, Suivie
<1>. QED BY <1>1, <1>2, <1>3 DEF Requete
------------------------------------------------------------------------------
(* Every step of a request in flight.                                      *)

BoutiqueEnVol(q) ==
  \/ PrendreVariante(q) \/ PrendreTotal(q) \/ RendreVariante(q) \/ RendreTotal(q)
  \/ Rafraichir(q) \/ Sauver(q) \/ Totaliser(q)
  \/ \E n \in 0 .. StockInitial : Regarnir(q, n)

AchatEnVol(q) ==
  \/ PreparerLigne(q) \/ Enregistrer(q) \/ InitierPaiement(q) \/ Conclure(q) \/ Renoncer(q)

SuiviEnVol(q) ==
  LireCommande(q) \/ Confirmer(q) \/ Echouer(q) \/ Transiter(q)

\* The total of a grid, when each of its variants holds n.
LEMMA SommeType ==
  ASSUME NEW p \in Produits, NEW n \in Nat
  PROVE  Somme(p, n) \in Nat
<1>1. Cardinality(Grille[p]) \in Nat
  BY CommandeAssumption, FS_CardinalityType
<1>2. \A k \in Nat : n * k \in Nat
  OBVIOUS
<1>. QED BY <1>1, <1>2 DEF Somme

\* The movements of stock advance the request that makes them.
LEMMA BoutiqueAvance ==
  ASSUME TypeInv, NEW q \in Requetes, BoutiqueEnVol(q)
  PROVE  requetes[q] # Inactive /\ Avance(q)
<1>. DEFINE r == requetes[q]
<1>1. r.pc # "libre"
  BY DEF BoutiqueEnVol, PrendreVariante, PrendreTotal, RendreVariante, RendreTotal,
     Rafraichir, Sauver, Totaliser, Regarnir
<1>2. r \in Requete /\ BienPlacee(r) /\ r # Inactive
  BY <1>1, EnCours DEF TypeInv
<1>3. CASE PrendreVariante(q)
  <2>1. r.objet \in References
    BY <1>2, <1>3, SurCommande DEF PrendreVariante
  <2>2. r.pc = "prendre" /\ (Passer(q, "prendreTotal") \/ Passer(q, "renoncer"))
    BY <1>3 DEF PrendreVariante
  <2>. QED BY <1>2, <2>1, <2>2, PasserAvance
<1>4. CASE PrendreTotal(q)
  <2>. DEFINE x == [r EXCEPT !.pc = "rafraichir", !.lignes = @ \cup {r.ligne}]
  <2>1. r.objet \in References /\ r.objet \notin Produits /\ r.pc = "prendreTotal"
    BY <1>2, <1>4, SurCommande DEF PrendreTotal
  <2>2. \/ requetes' = [requetes EXCEPT ![q] = x]
        \/ Passer(q, "renoncer")
    BY <1>4 DEF PrendreTotal
  <2>3. x \in Requete /\ x.pc = "rafraichir" /\ x.objet = r.objet /\ x.ligne = r.ligne
        /\ x.lignes = r.lignes \cup {r.ligne} /\ x.defait = r.defait
    BY <1>2 DEF Requete, EtapesDeLigne
  <2>. HIDE DEF x
  <2>4. BienPlacee(x)
    BY <1>2, <2>1, <2>3 DEF BienPlacee, EtapesDeLigne
  <2>5. EnCreation(x) => EnCreation(r)
    BY <1>2, <2>1, <2>3 DEF EnCreation
  <2>. QED BY <1>2, <2>1, <2>2, <2>3, <2>4, <2>5, PasserAvance DEF Avance, Suivie
<1>5. CASE RendreVariante(q)
  BY <1>2, <1>5, PasserAvance DEF RendreVariante
<1>6. CASE RendreTotal(q)
  BY <1>2, <1>6, PasserAvance DEF RendreTotal
<1>7. CASE Totaliser(q)
  BY <1>2, <1>7, PasserAvance DEF Totaliser
<1>8. CASE Sauver(q)
  BY <1>2, <1>8, ContinuerAvance DEF Sauver
<1>9. CASE Rafraichir(q)
  <2>. DEFINE p == ProduitDe(q)
              attendu == statutSelonStock(produits[p], produits[p].stock)
              ecrit == [produits[p] EXCEPT !.statut = attendu]
              x == [r EXCEPT !.pc = "sauver", !.lu = produits[p], !.ecrit = ecrit]
  <2>1. r.pc = "rafraichir"
    BY <1>9 DEF Rafraichir
  <2>2. \/ Continuer(q)
        \/ requetes' = [requetes EXCEPT ![q] = x]
    BY <1>9 DEF Rafraichir
  <2>3. p \in Produits
    BY <1>2, <2>1, ProduitTypee DEF EtapesDeLigne
  <2>4. produits[p] \in RangeeProduit
    BY <2>3 DEF TypeInv, TypeOKCommande, RangeeProduit
  <2>5. ecrit \in RangeeProduit
    BY <2>4 DEF RangeeProduit, statutSelonStock, StatutsProduit
  <2>. HIDE DEF ecrit, p
  <2>6. /\ x \in Requete /\ x.pc = "sauver" /\ x.objet = r.objet /\ x.ligne = r.ligne
        /\ x.lignes = r.lignes /\ x.defait = r.defait
    BY <1>2, <2>4, <2>5 DEF Requete, EtapesDeLigne
  <2>. HIDE DEF x
  <2>7. BienPlacee(x)
    BY <1>2, <2>1, <2>6 DEF BienPlacee, EtapesDeLigne
  <2>8. EnCreation(x) => EnCreation(r)
    BY <1>2, <2>1, <2>6 DEF EnCreation
  <2>. QED BY <1>2, <2>1, <2>2, <2>6, <2>7, <2>8, ContinuerAvance DEF Avance, Suivie
<1>10. ASSUME NEW n \in 0 .. StockInitial, Regarnir(q, n) PROVE Avance(q)
  <2>. DEFINE p == r.objet
              ecrit == [r.ecrit EXCEPT !.stock = Somme(p, n)]
              x == [r EXCEPT !.pc = "totaliser", !.ecrit = ecrit]
  <2>1. p \in Produits /\ p \notin References /\ r.pc = "regarnir"
    BY <1>2, <1>10, SurCommande DEF Regarnir, EtapesDeGrille
  <2>2. requetes' = [requetes EXCEPT ![q] = x]
    BY <1>10 DEF Regarnir
  <2>3. Somme(p, n) \in Nat
    BY <2>1, SommeType, CommandeAssumption
  <2>4. ecrit \in RangeeProduit
    BY <1>2, <2>3 DEF Requete, RangeeProduit
  <2>. HIDE DEF ecrit
  <2>5. x \in Requete /\ x.pc = "totaliser" /\ x.objet = p
    BY <1>2, <2>4 DEF Requete, EtapesDeGrille
  <2>. HIDE DEF x
  <2>6. BienPlacee(x) /\ ~EnCreation(x)
    BY <2>1, <2>5 DEF BienPlacee, EtapesDeGrille, EnCreation
  <2>. QED BY <2>2, <2>5, <2>6 DEF Avance, Suivie
<1>. QED BY <1>2, <1>3, <1>4, <1>5, <1>6, <1>7, <1>8, <1>9, <1>10 DEF BoutiqueEnVol

\* So do the steps of a purchase.
LEMMA AchatAvance ==
  ASSUME TypeInv, NEW q \in Requetes, AchatEnVol(q)
  PROVE  requetes[q] # Inactive /\ Avance(q)
<1>. DEFINE r == requetes[q]
<1>1. r.pc \in EtapesDeCommande
  BY DEF AchatEnVol, PreparerLigne, Enregistrer, InitierPaiement, Conclure, Renoncer,
     EtapesDeCommande
<1>2. r \in Requete /\ BienPlacee(r) /\ r # Inactive
  BY <1>1, EnCours DEF TypeInv, EtapesDeCommande
<1>3. r.objet \in References /\ r.objet \notin Produits
  BY <1>1, <1>2, SurCommande
<1>4. CASE PreparerLigne(q)
  <2>1. PICK n \in Nat : n = r.ligne + 1
    BY <1>2 DEF Requete
  <2>. DEFINE x == [r EXCEPT !.ligne = n]
  <2>2. r.pc = "suivante" /\ r.ligne <= Len(Panier[r.objet])
    BY <1>4 DEF PreparerLigne
  <2>3. \/ Passer(q, "renoncer")
        \/ Passer(q, "prendre")
        \/ requetes' = [requetes EXCEPT ![q] = x]
    BY <1>4, <2>1 DEF PreparerLigne
  <2>4. /\ x \in Requete /\ x.pc = r.pc /\ x.objet = r.objet /\ x.ligne = n
        /\ x.lignes = r.lignes /\ x.defait = r.defait
    BY <1>2 DEF Requete
  <2>. HIDE DEF x
  <2>5. n > 0
    BY <1>2, <2>1 DEF Requete
  <2>6. BienPlacee(x)
    BY <1>2, <1>3, <2>2, <2>4, <2>5 DEF BienPlacee, EtapesDeLigne
  <2>7. EnCreation(x) => EnCreation(r)
    BY <1>2, <2>2, <2>4 DEF EnCreation
  <2>. QED BY <1>2, <1>3, <2>2, <2>3, <2>4, <2>6, <2>7, PasserAvance DEF Avance, Suivie
<1>5. CASE Enregistrer(q)
  BY <1>2, <1>3, <1>5, PasserAvance DEF Enregistrer
<1>6. CASE InitierPaiement(q)
  BY <1>2, <1>3, <1>6, PasserAvance DEF InitierPaiement
<1>7. CASE Conclure(q)
  BY <1>2, <1>3, <1>7, PasserAvance, FinirAvance DEF Conclure
<1>8. CASE Renoncer(q)
  BY <1>2, <1>3, <1>8, RendreAvance DEF Renoncer
<1>. QED BY <1>2, <1>4, <1>5, <1>6, <1>7, <1>8 DEF AchatEnVol

\* So do the steps that follow an order.
LEMMA SuiviAvance ==
  ASSUME TypeInv, NEW q \in Requetes, SuiviEnVol(q)
  PROVE  requetes[q] # Inactive /\ Avance(q)
<1>. DEFINE r == requetes[q]
<1>1. r.pc \in EtapesDeCommande
  BY DEF SuiviEnVol, LireCommande, Confirmer, Echouer, Transiter, EtapesDeCommande
<1>2. r \in Requete /\ BienPlacee(r) /\ r # Inactive
  BY <1>1, EnCours DEF TypeInv, EtapesDeCommande
<1>3. r.objet \in References /\ r.objet \notin Produits
  BY <1>1, <1>2, SurCommande
<1>4. CASE LireCommande(q)
  <2>. DEFINE lignes == ARendre(r.objet)
              x == [r EXCEPT !.pc = "ecrire", !.lignes = lignes]
  <2>1. \/ Finir(q)
        \/ requetes' = [requetes EXCEPT ![q] = x]
    BY <1>4 DEF LireCommande
  <2>2. lignes \subseteq LignesDe(r.objet) /\ lignes \subseteq Nat
    BY <1>3, LigneDuPanier DEF ARendre
  <2>. HIDE DEF lignes
  <2>3. x \in Requete /\ x.pc = "ecrire" /\ x.objet = r.objet /\ x.lignes = lignes
    BY <1>2, <2>2 DEF Requete, EtapesDeCommande
  <2>. HIDE DEF x
  <2>4. BienPlacee(x) /\ ~EnCreation(x)
    BY <1>3, <2>2, <2>3 DEF BienPlacee, EtapesDeLigne, EtapesDeCommande, EnCreation
  <2>5. CASE requetes' = [requetes EXCEPT ![q] = x]
    BY <1>2, <2>3, <2>4, <2>5 DEF Avance, Suivie
  <2>. QED BY <1>2, <2>1, <2>5, FinirAvance
<1>5. CASE Confirmer(q)
  <2>1. Finir(q)
    BY <1>5 DEF Confirmer
  <2>. QED BY <1>2, <2>1, FinirAvance
<1>6. CASE Echouer(q)
  BY <1>2, <1>3, <1>6, RendreAvance, FinirAvance DEF Echouer
<1>7. CASE Transiter(q)
  <2>1. \/ requetes' = [requetes EXCEPT ![q] = RendreApres(q, 0, r.lignes)]
        \/ Finir(q)
    BY <1>7 DEF Transiter, Finir
  <2>. QED BY <1>2, <1>3, <2>1, RendreAvance, FinirAvance
<1>. QED BY <1>2, <1>4, <1>5, <1>6, <1>7 DEF SuiviEnVol

------------------------------------------------------------------------------
(* Every request that starts.                                              *)

\* A slot takes a well-formed request: either it creates an order nobody has heard
\* of, or it is about one somebody has.
Nouvelle(q, x) ==
  /\ requetes[q] = Inactive
  /\ requetes' = [requetes EXCEPT ![q] = x]
  /\ x \in Requete /\ BienPlacee(x) /\ TransitionPermise(x)
  /\ \/ /\ commandes[x.objet] = Absente
        /\ journal[x.objet].statut = "ABSENTE"
        /\ \A o \in EnVol : requetes[o].objet # x.objet
     \/ ~EnCreation(x) /\ x.objet \notin References
     \/ ~EnCreation(x) /\ (commandes[x.objet] # Absente \/ journal[x.objet].statut # "ABSENTE")

Commence(q) == \E x : Nouvelle(q, x)

\* A gesture of the office starts a request on a product.
LEMMA GesteCommence ==
  ASSUME TypeInv, NEW q \in Requetes, NEW p \in Produits, NEW ecrit \in RangeeProduit,
         NEW op \in Gestes, NEW pc \in {"rafraichir", "sauver", "regarnir"},
         Geste(q, op, pc, p, ecrit)
  PROVE  Commence(q)
<1>. DEFINE x == [op |-> op, pc |-> pc, objet |-> p, ligne |-> 0, vu |-> "ABSENTE",
                  lu |-> produits[p], ecrit |-> ecrit, lignes |-> {}, defait |-> FALSE]
<1>1. requetes[q] = Inactive /\ requetes' = [requetes EXCEPT ![q] = x]
  BY DEF Geste
<1>2. p \notin References
  BY CommandeAssumption
<1>3. produits[p] \in RangeeProduit
  BY DEF TypeInv, TypeOKCommande, RangeeProduit
<1>4. x \in Requete /\ x.objet = p
  BY <1>3 DEF Requete, Operations, EtapesDeLigne, EtapesDeGrille
<1>5. BienPlacee(x) /\ ~EnCreation(x) /\ TransitionPermise(x)
  BY <1>2 DEF BienPlacee, EtapesDeGrille, EnCreation, TransitionPermise
<1>. HIDE DEF x
<1>. QED BY <1>1, <1>2, <1>4, <1>5 DEF Commence, Nouvelle

\* An issue or a transition starts a request on an order.
LEMMA DemandeCommence ==
  ASSUME TypeInv, NEW q \in Requetes, NEW c \in References, NEW op \in Operations,
         NEW pc \in {"suivante", "lire", "transiter"}, NEW lignes, lignes \subseteq LignesDe(c),
         requetes[q] = Inactive,
         requetes' = [requetes EXCEPT ![q] = Demande(op, pc, c, lignes)],
         \/ /\ pc = "suivante"
            /\ commandes[c] = Absente
            /\ journal[c].statut = "ABSENTE"
            /\ \A o \in EnVol : requetes[o].objet # c
         \/ pc # "suivante" /\ (commandes[c] # Absente \/ journal[c].statut # "ABSENTE"),
         pc = "transiter" =>
            /\ op \in DOMAIN Vers
            /\ commandes[c].statut \in StatutsCommande
            /\ Vers[op] \in TRANSITIONS[commandes[c].statut]
  PROVE  Commence(q)
<1>1. PICK x : x = Demande(op, pc, c, lignes)
  OBVIOUS
<1>2. /\ commandes[c].statut \in StatutsCommande \cup {"ABSENTE"}
      /\ lignes \subseteq Nat
      /\ c \notin Produits
      /\ RienLu \in RangeeProduit
  BY LigneDuPanier, CommandeAssumption
     DEF TypeInv, TypeOKCommande, RienLu, RangeeProduit, StatutsProduit
<1>3. /\ x \in Requete /\ x.pc = pc /\ x.objet = c /\ x.op = op /\ x.ligne = 1
      /\ x.vu = commandes[c].statut /\ x.lignes = lignes /\ ~x.defait
  BY <1>1, <1>2 DEF Demande, Requete, EtapesDeCommande
<1>4. BienPlacee(x) /\ TransitionPermise(x) /\ (pc # "suivante" => ~EnCreation(x))
  BY <1>2, <1>3 DEF BienPlacee, TransitionPermise, EnCreation, EtapesDeLigne, EtapesDeCommande
<1>. QED BY <1>1, <1>3, <1>4 DEF Commence, Nouvelle

BoutiqueNouvelle(q) ==
  \/ \E p \in Produits : Modifier(q, p) \/ ViderGrille(q, p)
  \/ \E p \in Produits, delta \in {-1, 1} : AjusterStock(q, p, delta)

SuiviNouveau(q) ==
  \/ \E c \in References, i \in {"COMPLETE", "ECHOUE"} : RecevoirIssueCommande(q, c, i)
  \/ \E c \in References, op \in DOMAIN Vers : LireTransition(q, op, c)

\* What the office starts.
LEMMA BoutiqueCommence ==
  ASSUME TypeInv, NEW q \in Requetes, BoutiqueNouvelle(q)
  PROVE  Commence(q)
<1>1. ASSUME NEW p \in Produits PROVE produits[p] \in RangeeProduit
  BY <1>1 DEF TypeInv, TypeOKCommande, RangeeProduit
<1>2. ASSUME NEW p \in Produits, Modifier(q, p) PROVE Commence(q)
  <2>. DEFINE lu == produits[p]
              selon == [lu EXCEPT !.statut = statutSelonStock(lu, lu.stock)]
              precommande == [lu EXCEPT !.statut = "PRECOMMANDE"]
              retire == [lu EXCEPT !.statut = "RETIRE"]
  <2>1. selon \in RangeeProduit /\ precommande \in RangeeProduit /\ retire \in RangeeProduit
    BY <1>1 DEF RangeeProduit, statutSelonStock, StatutsProduit
  <2>2. \/ Geste(q, "modifier", "sauver", p, selon)
        \/ Geste(q, "precommander", "sauver", p, precommande)
        \/ Geste(q, "retirer", "sauver", p, retire)
    BY <1>2 DEF Modifier
  <2>. HIDE DEF selon, precommande, retire
  <2>. QED BY <2>1, <2>2, GesteCommence DEF Gestes
<1>3. ASSUME NEW p \in Produits, ViderGrille(q, p) PROVE Commence(q)
  <2>1. Geste(q, "definir", "regarnir", p, produits[p])
    BY <1>3 DEF ViderGrille
  <2>. QED BY <1>1, <2>1, GesteCommence DEF Gestes
<1>4. ASSUME NEW p \in Produits, NEW delta \in {-1, 1}, AjusterStock(q, p, delta)
      PROVE  Commence(q)
  <2>1. Geste(q, "ajuster", "rafraichir", p, produits[p])
    BY <1>4 DEF AjusterStock
  <2>. QED BY <1>1, <2>1, GesteCommence DEF Gestes
<1>. QED BY <1>2, <1>3, <1>4 DEF BoutiqueNouvelle

\* What a buyer starts.
LEMMA CreerCommence ==
  ASSUME TypeInv, NEW q \in Requetes, NEW c \in References, Creer(q, c)
  PROVE  Commence(q)
<1>1. PICK lignes : lignes = {}
  OBVIOUS
<1>2. /\ requetes[q] = Inactive
      /\ commandes[c] = Absente
      /\ journal[c].statut = "ABSENTE"
      /\ \A o \in EnVol : requetes[o].objet # c
      /\ requetes' = [requetes EXCEPT ![q] = Demande("creer", "suivante", c, lignes)]
  BY <1>1 DEF Creer
<1>3. "creer" \in Operations
  BY DEF Operations
<1>4. lignes \subseteq LignesDe(c)
  BY <1>1
<1>. QED BY <1>2, <1>3, <1>4, DemandeCommence

\* What the payment and the follow-up of an order start.
LEMMA SuiviCommence ==
  ASSUME TypeInv, NEW q \in Requetes, SuiviNouveau(q)
  PROVE  Commence(q)
<1>1. ASSUME NEW c \in References, NEW i \in {"COMPLETE", "ECHOUE"},
             RecevoirIssueCommande(q, c, i)
      PROVE  Commence(q)
  <2>. DEFINE op == IF i = "COMPLETE" THEN "confirmer" ELSE "echouer"
  <2>1. PICK lignes : lignes = {}
    OBVIOUS
  <2>2. /\ requetes[q] = Inactive /\ journal[c].statut # "ABSENTE"
        /\ requetes' = [requetes EXCEPT ![q] = Demande(op, "lire", c, lignes)]
    BY <1>1, <2>1 DEF RecevoirIssueCommande, AppliquerAffecte
  <2>3. op \in Operations /\ lignes \subseteq LignesDe(c)
    BY <2>1 DEF Operations
  <2>. HIDE DEF op
  <2>. QED BY <2>2, <2>3, DemandeCommence
<1>2. ASSUME NEW c \in References, NEW op \in DOMAIN Vers, LireTransition(q, op, c)
      PROVE  Commence(q)
  <2>1. PICK lignes : lignes = ARendre(c)
    OBVIOUS
  <2>2. op \in Operations /\ lignes \subseteq LignesDe(c)
    BY <2>1 DEF Operations, ARendre
  <2>3. /\ requetes[q] = Inactive
        /\ requetes' = [requetes EXCEPT ![q] = Demande(op, "transiter", c, lignes)]
        /\ Vers[op] \in TRANSITIONS[commandes[c].statut]
        /\ commandes[c].statut # "ABSENTE"
    BY <1>2, <2>1 DEF LireTransition, Enregistrees
  <2>4. commandes[c].statut \in StatutsCommande /\ commandes[c] # Absente
    BY <2>3 DEF TypeInv, TypeOKCommande, Absente
  <2>. QED BY <2>2, <2>3, <2>4, DemandeCommence
<1>. QED BY <1>1, <1>2 DEF SuiviNouveau

------------------------------------------------------------------------------
(* What the steps of requests keep of the requests.                        *)

\* Only the step by which an order is registered, or one about an order known
\* already, moves its row or the status of its payment.
TablesSuivies(q) ==
  \A c \in References :
    \/ commandes'[c] = commandes[c] /\ journal'[c].statut = journal[c].statut
    \/ journal[c].statut # "ABSENTE"
    \/ requetes[q].objet = c /\ ~EnCreation(requetes'[q])

\* A request that starts or advances keeps the slots typed, transitions allowed and
\* creations known to nobody.
LEMMA RequetesSuivies ==
  ASSUME TypeInv, CreationSeule, TransitionsPermises, NEW q \in Requetes,
         \/ requetes[q] # Inactive /\ Avance(q) /\ TablesSuivies(q)
         \/ /\ Commence(q)
            /\ \A c \in References :
                 \/ commandes'[c] = commandes[c] /\ journal'[c].statut = journal[c].statut
                 \/ journal[c].statut # "ABSENTE"
  PROVE  EmplacementsTypes' /\ CreationSeule' /\ TransitionsPermises'
<1>1. PICK x : /\ requetes' = [requetes EXCEPT ![q] = x]
               /\ \/ requetes[q] # Inactive /\ Suivie(requetes[q], x) /\ TablesSuivies(q)
                  \/ /\ Nouvelle(q, x)
                     /\ \A c \in References :
                          \/ commandes'[c] = commandes[c] /\ journal'[c].statut = journal[c].statut
                          \/ journal[c].statut # "ABSENTE"
  BY DEF Avance, Commence, Nouvelle
<1>2. requetes'[q] = x /\ \A o \in Requetes \ {q} : requetes'[o] = requetes[o]
  BY <1>1 DEF TypeInv, RequetesTypees, EmplacementsTypes
<1>3. requetes' = [o \in Requetes |-> requetes'[o]]
  BY <1>1 DEF TypeInv, RequetesTypees, EmplacementsTypes
<1>4. ASSUME NEW o \in Requetes PROVE RequeteTypee(requetes'[o])
  BY <1>1, <1>2 DEF TypeInv, RequetesTypees, EmplacementsTypes, RequeteTypee, Suivie, Nouvelle
<1>5. TransitionsPermises'
  BY <1>1, <1>2 DEF TransitionsPermises, TransitionPermise, Suivie, Nouvelle
<1>6. ASSUME NEW o \in Requetes, EnCreation(requetes'[o]), NEW c, c = requetes'[o].objet
      PROVE  /\ commandes'[c] = Absente
             /\ journal'[c].statut = "ABSENTE"
             /\ \A e \in Requetes \ {o} : requetes'[e] # Inactive => requetes'[e].objet # c
  <2>1. c \in References /\ requetes'[o] # Inactive
    BY <1>6 DEF EnCreation
  <2>2. CASE EnCreation(requetes[o]) /\ requetes[o].objet = c
    <3>1. /\ commandes[c] = Absente /\ journal[c].statut = "ABSENTE"
          /\ \A e \in Requetes \ {o} : requetes[e] # Inactive => requetes[e].objet # c
      BY <2>2 DEF CreationSeule, EnVol
    <3>2. commandes'[c] = Absente /\ journal'[c].statut = "ABSENTE"
      BY <1>1, <1>6, <2>1, <3>1 DEF TablesSuivies
    <3>3. requetes[o] # Inactive
      BY <2>2 DEF EnCreation
    <3>4. ASSUME NEW e \in Requetes \ {o}, requetes'[e] # Inactive, requetes'[e].objet = c
          PROVE  FALSE
      <4>1. e = q /\ x # Inactive /\ x.objet = c
        BY <1>2, <3>1, <3>4
      <4>2. CASE requetes[q] # Inactive /\ Suivie(requetes[q], x)
        BY <3>1, <4>1, <4>2 DEF Suivie
      <4>3. CASE Nouvelle(q, x)
        BY <2>1, <2>2, <3>1, <3>3, <4>1, <4>3 DEF Nouvelle, EnVol
      <4>. QED BY <1>1, <4>2, <4>3
    <3>. QED BY <3>2, <3>4
  <2>3. CASE ~(EnCreation(requetes[o]) /\ requetes[o].objet = c)
    <3>1. o = q /\ x = requetes'[o] /\ x # Inactive
      BY <1>2, <1>6, <2>1, <2>3
    <3>2. /\ Nouvelle(q, x)
          /\ \A d \in References :
                \/ commandes'[d] = commandes[d] /\ journal'[d].statut = journal[d].statut
                \/ journal[d].statut # "ABSENTE"
      BY <1>1, <1>6, <2>3, <3>1 DEF Suivie
    <3>3. /\ commandes[c] = Absente /\ journal[c].statut = "ABSENTE"
          /\ \A e \in Requetes : requetes[e] # Inactive => requetes[e].objet # c
      BY <1>6, <3>1, <3>2 DEF Nouvelle, EnVol
    <3>. QED BY <1>2, <2>1, <3>1, <3>2, <3>3
  <2>. QED BY <2>2, <2>3
<1>7. CreationSeule'
  BY <1>6 DEF CreationSeule, EnVol
<1>. QED BY <1>3, <1>4, <1>5, <1>7 DEF EmplacementsTypes

------------------------------------------------------------------------------
(* The tables keep their types.                                            *)

DeclinaisonsTypees ==
  /\ declinaisons = [p \in Produits |-> declinaisons[p]]
  /\ \A p \in Produits : declinaisons[p] \in [Grille[p] -> Nat] \/ declinaisons[p] = <<>>

TablesTypees ==
  /\ JournalTypeOK
  /\ produits \in [Produits -> RangeeProduit]
  /\ DeclinaisonsTypees
  /\ commandes \in [References -> [statut : StatutsCommande \cup {"ABSENTE"},
                                   paiement : Statuts]]
  /\ payees \subseteq References
  /\ tenues = [c \in References |-> tenues[c]]
  /\ \A c \in References : tenues[c] \subseteq LignesDe(c)
  /\ perturbes \subseteq Produits \cup References

\* The type invariant, table by table.
LEMMA TypesDesTables == TypeInv <=> TablesTypees /\ EmplacementsTypes
<1>1. TypeInv => TablesTypees /\ EmplacementsTypes
  BY DEF TypeInv, TypeOKCommande, RequetesTypees, TablesTypees, RangeeProduit,
     DeclinaisonsTypees, EmplacementsTypes
<1>2. ASSUME TablesTypees, EmplacementsTypes PROVE TypeInv
  <2>1. RequetesTypees
    BY <1>2 DEF RequetesTypees, TablesTypees, DeclinaisonsTypees, EmplacementsTypes
  <2>2. ASSUME NEW q \in {o \in Requetes : requetes[o] # Inactive}
        PROVE  requetes[q].objet \in Produits \cup References
    BY <1>2, <2>2 DEF EmplacementsTypes, RequeteTypee, Requete
  <2>. QED BY <1>2, <2>1, <2>2 DEF TypeInv, TypeOKCommande, TablesTypees, RangeeProduit,
              DeclinaisonsTypees
<1>. QED BY <1>1, <1>2

\* One more or one less of a variant the product is counted in.
LEMMA MouvementVariante ==
  ASSUME DeclinaisonsTypees, NEW p \in Produits, NEW v, SuiviParVariante(p, v),
         \/ declinaisons' = [declinaisons EXCEPT ![p][v] = @ + 1]
         \/ /\ declinaisons[p][v] >= 1
            /\ declinaisons' = [declinaisons EXCEPT ![p][v] = @ - 1]
  PROVE  DeclinaisonsTypees'
<1>. DEFINE d == declinaisons[p]
<1>1. d \in [Grille[p] -> Nat] /\ v \in Grille[p]
  <2>1. CASE d = <<>>
    BY <2>1 DEF SuiviParVariante
  <2>2. CASE d # <<>>
    BY <2>2 DEF SuiviParVariante, DeclinaisonsTypees
  <2>. QED BY <2>1, <2>2
<1>2. PICK e \in [Grille[p] -> Nat] : declinaisons' = [declinaisons EXCEPT ![p] = e]
  <2>1. CASE declinaisons' = [declinaisons EXCEPT ![p][v] = @ + 1]
    <3>1. [d EXCEPT ![v] = @ + 1] \in [Grille[p] -> Nat]
      BY <1>1
    <3>. QED BY <2>1, <3>1
  <2>2. CASE d[v] >= 1 /\ declinaisons' = [declinaisons EXCEPT ![p][v] = @ - 1]
    <3>1. [d EXCEPT ![v] = @ - 1] \in [Grille[p] -> Nat]
      BY <1>1, <2>2
    <3>. QED BY <2>2, <3>1
  <2>. QED BY <2>1, <2>2
<1>. QED BY <1>2 DEF DeclinaisonsTypees

\* A product that is written keeps a stock and a status.
LEMMA ProduitsType ==
  ASSUME produits \in [Produits -> RangeeProduit], NEW p \in Produits
  PROVE  /\ \A x \in RangeeProduit :
              [produits EXCEPT ![p] = x] \in [Produits -> RangeeProduit]
         /\ \A n \in Nat :
              [produits EXCEPT ![p].stock = n] \in [Produits -> RangeeProduit]
         /\ produits[p].stock \in Nat
<1>1. produits[p] \in RangeeProduit
  OBVIOUS
<1>2. produits[p].stock \in Nat
  BY <1>1 DEF RangeeProduit
<1>3. ASSUME NEW n \in Nat PROVE [produits EXCEPT ![p].stock = n] \in [Produits -> RangeeProduit]
  <2>1. [produits[p] EXCEPT !.stock = n] \in RangeeProduit
    BY <1>1 DEF RangeeProduit
  <2>. QED BY <2>1
<1>. QED BY <1>2, <1>3

\* Only products and orders are ever perturbed.
LEMMA PerturbesType ==
  ASSUME perturbes \subseteq Produits \cup References
  PROVE  /\ \A p \in Produits : NoterMouvement(p) => perturbes' \subseteq Produits \cup References
         /\ \A c \in References : Perturbe(c) \subseteq Produits \cup References
<1>1. ASSUME NEW p \in Produits, NoterMouvement(p)
      PROVE  perturbes' \subseteq Produits \cup References
  BY <1>1 DEF NoterMouvement
<1>2. ASSUME NEW c \in References PROVE Perturbe(c) \subseteq Produits \cup References
  BY LigneDuPanier DEF Perturbe
<1>. QED BY <1>1, <1>2

\* The movements of stock, and the gestures of the office.
LEMMA BoutiqueTables ==
  ASSUME TypeInv, NEW q \in Requetes, BoutiqueEnVol(q) \/ BoutiqueNouvelle(q)
  PROVE  TablesTypees' /\ UNCHANGED <<journal, commandes, payees>>
<1>. DEFINE r == requetes[q]
            p == ProduitDe(q)
<1>0. TablesTypees
  BY TypesDesTables
<1>1. r.pc \in EtapesDeLigne \cup EtapesDeGrille =>
        r \in Requete /\ BienPlacee(r) /\ p \in Produits
  <2>. SUFFICES ASSUME r.pc \in EtapesDeLigne \cup EtapesDeGrille
                PROVE  r \in Requete /\ BienPlacee(r) /\ p \in Produits
    OBVIOUS
  <2>1. r \in Requete /\ BienPlacee(r)
    BY EnCours DEF TypeInv, EtapesDeLigne, EtapesDeGrille
  <2>. QED BY <2>1, ProduitTypee
<1>2. r.pc \in EtapesDeLigne \ {"rafraichir", "sauver"} =>
        /\ r.objet \in References /\ r.objet \notin Produits
        /\ r.ligne \in LignesDe(r.objet) /\ p = LigneCourante(q).produit
  BY <1>1, SurCommande DEF BienPlacee, EtapesDeLigne, ProduitDe
<1>3. UNCHANGED <<journal, commandes, payees>>
  BY DEF BoutiqueEnVol, BoutiqueNouvelle, PrendreVariante, PrendreTotal, RendreVariante,
     RendreTotal, Rafraichir, Sauver, Regarnir, Totaliser, Modifier, ViderGrille,
     AjusterStock
<1>4. UNCHANGED journal => JournalTypeOK'
  BY <1>0 DEF TablesTypees, JournalTypeOK
<1>5. ASSUME produits' \in [Produits -> RangeeProduit], DeclinaisonsTypees',
             tenues' = [c \in References |-> tenues'[c]],
             \A c \in References : tenues'[c] \subseteq LignesDe(c),
             perturbes' \subseteq Produits \cup References
      PROVE  TablesTypees'
  BY <1>0, <1>3, <1>4, <1>5 DEF TablesTypees
<1>6. /\ UNCHANGED tenues => /\ tenues' = [c \in References |-> tenues'[c]]
                             /\ \A c \in References : tenues'[c] \subseteq LignesDe(c)
      /\ UNCHANGED declinaisons => DeclinaisonsTypees'
      /\ UNCHANGED produits => produits' \in [Produits -> RangeeProduit]
      /\ UNCHANGED perturbes => perturbes' \subseteq Produits \cup References
  BY <1>0 DEF TablesTypees, DeclinaisonsTypees
<1>7. CASE PrendreVariante(q)
  <2>1. r.pc = "prendre" /\ UNCHANGED <<produits, tenues>> /\ NoterMouvement(p)
    BY <1>2, <1>7 DEF PrendreVariante, EtapesDeLigne
  <2>2. DeclinaisonsTypees'
    <3>1. \/ UNCHANGED declinaisons
          \/ /\ SuiviParVariante(p, LigneCourante(q).variante)
             /\ declinaisons[p][LigneCourante(q).variante] >= 1
             /\ declinaisons' = [declinaisons EXCEPT ![p][LigneCourante(q).variante] = @ - 1]
      BY <1>2, <1>7, <2>1 DEF PrendreVariante, EtapesDeLigne
    <3>. QED BY <1>0, <1>1, <1>6, <2>1, <3>1, MouvementVariante DEF TablesTypees, EtapesDeLigne
  <2>. QED BY <1>0, <1>1, <1>3, <1>5, <1>6, <2>1, <2>2, PerturbesType DEF TablesTypees, EtapesDeLigne
<1>8. CASE RendreVariante(q)
  <2>1. r.pc = "rendre" /\ UNCHANGED <<produits, tenues>> /\ NoterMouvement(p)
    BY <1>2, <1>8 DEF RendreVariante, EtapesDeLigne
  <2>2. DeclinaisonsTypees'
    <3>1. \/ UNCHANGED declinaisons
          \/ /\ SuiviParVariante(p, LigneCourante(q).variante)
             /\ declinaisons' = [declinaisons EXCEPT ![p][LigneCourante(q).variante] = @ + 1]
      BY <1>2, <1>8, <2>1 DEF RendreVariante, EtapesDeLigne
    <3>. QED BY <1>0, <1>1, <1>6, <2>1, <3>1, MouvementVariante DEF TablesTypees, EtapesDeLigne
  <2>. QED BY <1>0, <1>1, <1>3, <1>5, <1>6, <2>1, <2>2, PerturbesType DEF TablesTypees, EtapesDeLigne
<1>9. CASE PrendreTotal(q)
  <2>. DEFINE c == r.objet
  <2>1. r.pc = "prendreTotal" /\ NoterMouvement(p)
    BY <1>2, <1>9 DEF PrendreTotal, EtapesDeLigne
  <2>2. /\ r \in Requete /\ p \in Produits /\ c \in References
        /\ r.ligne \in LignesDe(c) /\ p = LigneCourante(q).produit
    BY <1>1, <1>2, <2>1 DEF EtapesDeLigne
  <2>3. CASE /\ produits[p].stock >= 1
             /\ produits' = [produits EXCEPT ![p].stock = @ - 1]
             /\ tenues' = [tenues EXCEPT ![c] = @ \cup {r.ligne}]
             /\ UNCHANGED declinaisons
    <3>1. PICK n \in Nat : n = produits[p].stock - 1
      BY <1>0, <2>2, <2>3, ProduitsType DEF TablesTypees
    <3>2. produits' = [produits EXCEPT ![p].stock = n]
      BY <2>3, <3>1
    <3>3. produits' \in [Produits -> RangeeProduit]
      BY <1>0, <2>2, <3>2, ProduitsType DEF TablesTypees
    <3>4. /\ tenues' = [d \in References |-> tenues'[d]]
          /\ \A d \in References : tenues'[d] \subseteq LignesDe(d)
      BY <1>0, <2>2, <2>3 DEF TablesTypees
    <3>. QED BY <1>0, <1>3, <1>5, <1>6, <2>1, <2>2, <2>3, <3>3, <3>4, PerturbesType DEF TablesTypees
  <2>4. CASE UNCHANGED <<produits, tenues>>
    <3>1. \/ UNCHANGED declinaisons
          \/ /\ SuiviParVariante(p, LigneCourante(q).variante)
             /\ declinaisons' = [declinaisons EXCEPT ![p][LigneCourante(q).variante] = @ + 1]
      BY <1>9, <2>2 DEF PrendreTotal
    <3>2. DeclinaisonsTypees'
      BY <1>0, <1>6, <2>2, <3>1, MouvementVariante DEF TablesTypees
    <3>. QED BY <1>0, <1>3, <1>5, <1>6, <2>1, <2>2, <2>4, <3>2, PerturbesType DEF TablesTypees
  <2>. QED BY <1>9, <2>2, <2>3, <2>4 DEF PrendreTotal
<1>10. CASE RendreTotal(q)
  <2>. DEFINE c == r.objet
  <2>1. r.pc = "rendreTotal" /\ UNCHANGED declinaisons
    BY <1>10 DEF RendreTotal
  <2>2. p \in Produits /\ c \in References /\ p = LigneCourante(q).produit
    BY <1>1, <1>2, <2>1 DEF EtapesDeLigne
  <2>3. /\ produits' = [produits EXCEPT ![p].stock = @ + 1]
        /\ tenues' = [tenues EXCEPT ![c] = @ \ {r.ligne}]
        /\ NoterMouvement(p)
    BY <1>10, <2>2 DEF RendreTotal
  <2>4. PICK n \in Nat : n = produits[p].stock + 1
    BY <1>0, <2>2, ProduitsType DEF TablesTypees
  <2>5. produits' = [produits EXCEPT ![p].stock = n]
    BY <2>3, <2>4
  <2>6. produits' \in [Produits -> RangeeProduit]
    BY <1>0, <2>2, <2>5, ProduitsType DEF TablesTypees
  <2>7. /\ tenues' = [d \in References |-> tenues'[d]]
        /\ \A d \in References : tenues'[d] \subseteq LignesDe(d)
    BY <1>0, <2>2, <2>3 DEF TablesTypees
  <2>. QED BY <1>0, <1>3, <1>5, <1>6, <2>1, <2>2, <2>3, <2>6, <2>7, PerturbesType DEF TablesTypees
<1>11. CASE Rafraichir(q)
  BY <1>3, <1>5, <1>6, <1>11 DEF Rafraichir
<1>12. CASE Sauver(q)
  <2>1. r.pc = "sauver" /\ UNCHANGED <<declinaisons, tenues>>
        /\ produits' = [produits EXCEPT ![p] = r.ecrit]
        /\ perturbes' \subseteq perturbes \cup {p}
    BY <1>12 DEF Sauver
  <2>2. p \in Produits /\ r.ecrit \in RangeeProduit
    BY <1>1, <2>1 DEF EtapesDeLigne, Requete
  <2>3. produits' \in [Produits -> RangeeProduit]
    BY <1>0, <2>1, <2>2, ProduitsType DEF TablesTypees
  <2>. QED BY <1>0, <1>3, <1>5, <1>6, <2>1, <2>2, <2>3 DEF TablesTypees
<1>13. CASE Totaliser(q)
  <2>1. r.pc = "totaliser" /\ UNCHANGED <<declinaisons, tenues, perturbes>>
        /\ produits' = [produits EXCEPT ![r.objet].stock = r.ecrit.stock]
    BY <1>13 DEF Totaliser
  <2>2. r.objet \in Produits /\ r.ecrit.stock \in Nat
    BY <1>1, <2>1, SurCommande DEF EtapesDeGrille, Requete, RangeeProduit
  <2>3. produits' \in [Produits -> RangeeProduit]
    BY <1>0, <2>1, <2>2, ProduitsType DEF TablesTypees
  <2>. QED BY <1>3, <1>5, <1>6, <2>1, <2>3
<1>14. ASSUME NEW n \in 0 .. StockInitial, Regarnir(q, n) PROVE TablesTypees'
  <2>1. /\ UNCHANGED <<produits, tenues, perturbes>>
        /\ declinaisons' = [declinaisons EXCEPT ![r.objet] = [v \in Grille[r.objet] |-> n]]
    BY <1>14 DEF Regarnir
  <2>2. n \in Nat
    BY CommandeAssumption
  <2>3. DeclinaisonsTypees'
    BY <1>0, <2>1, <2>2 DEF TablesTypees, DeclinaisonsTypees
  <2>. QED BY <1>5, <1>6, <2>1, <2>3
<1>15. ASSUME NEW s \in Produits, Modifier(q, s) PROVE TablesTypees'
  BY <1>5, <1>6, <1>15 DEF Modifier
<1>16. ASSUME NEW s \in Produits, ViderGrille(q, s) PROVE TablesTypees'
  <2>1. /\ UNCHANGED <<produits, tenues>>
        /\ declinaisons' = [declinaisons EXCEPT ![s] = <<>>]
        /\ perturbes' \subseteq perturbes \cup {s}
    BY <1>16 DEF ViderGrille
  <2>2. DeclinaisonsTypees'
    BY <1>0, <2>1 DEF TablesTypees, DeclinaisonsTypees
  <2>. QED BY <1>0, <1>5, <1>6, <2>1, <2>2 DEF TablesTypees
<1>17. ASSUME NEW s \in Produits, NEW delta \in {-1, 1}, AjusterStock(q, s, delta)
       PROVE  TablesTypees'
  <2>1. /\ UNCHANGED <<declinaisons, tenues>>
        /\ produits[s].stock + delta >= 0
        /\ produits' = [produits EXCEPT ![s].stock = @ + delta]
        /\ NoterMouvement(s)
    BY <1>17 DEF AjusterStock
  <2>2. PICK n \in Nat : n = produits[s].stock + delta
    BY <1>0, <2>1, ProduitsType DEF TablesTypees
  <2>3. produits' = [produits EXCEPT ![s].stock = n]
    BY <2>1, <2>2
  <2>4. produits' \in [Produits -> RangeeProduit]
    BY <1>0, <2>3, ProduitsType DEF TablesTypees
  <2>. QED BY <1>0, <1>5, <1>6, <2>1, <2>4, PerturbesType DEF TablesTypees
<1>. QED BY <1>3, <1>7, <1>8, <1>9, <1>10, <1>11, <1>12, <1>13, <1>14, <1>15, <1>16, <1>17
         DEF BoutiqueEnVol, BoutiqueNouvelle

------------------------------------------------------------------------------
(* The steps about one order.                                              *)

RangeeCommande == [statut : StatutsCommande \cup {"ABSENTE"}, paiement : Statuts]

\* A step that leaves the shop alone and touches no order but c.
SurCommandeSeule(c) ==
  /\ UNCHANGED <<produits, declinaisons, tenues>>
  /\ JournalTypeOK'
  /\ commandes' \in [References -> RangeeCommande]
  /\ payees' \subseteq References
  /\ perturbes \subseteq perturbes' /\ perturbes' \subseteq Produits \cup References
  /\ \A d \in References \ {c} :
       /\ commandes'[d] = commandes[d] /\ journal'[d] = journal[d]
       /\ d \in payees' <=> d \in payees

\* What the invariant and the cancellation ask of the order it touches.
CommandeTient(c) ==
  /\ journal'[c].statut = "COMPLETE" => c \in payees'
  /\ c \notin perturbes' /\ commandes'[c].statut \in {"PAYEE", "PRETE", "RETIREE"} =>
       commandes'[c].paiement = "COMPLETE" /\ c \in payees'
  /\ c \notin perturbes' /\ commandes[c].statut = "ANNULEE" => commandes'[c].statut = "ANNULEE"

\* The step asked by AnnulationDefinitive.
AnnuleesRestent ==
  \A c \in References :
    commandes[c].statut = "ANNULEE" /\ c \notin perturbes' => commandes'[c].statut = "ANNULEE"

\* A step about one order keeps what payments say of all of them.
LEMMA CommandeSuit ==
  ASSUME TypeInv, PayeeTient, NEW c \in References, SurCommandeSeule(c), CommandeTient(c)
  PROVE  TablesTypees' /\ PayeeTient' /\ AnnuleesRestent
<1>1. TablesTypees
  BY TypesDesTables
<1>2. TablesTypees'
  BY <1>1 DEF TablesTypees, SurCommandeSeule, RangeeCommande, DeclinaisonsTypees
<1>3. PayeeTient'
  BY DEF PayeeTient, SurCommandeSeule, CommandeTient
<1>4. AnnuleesRestent
  BY DEF AnnuleesRestent, SurCommandeSeule, CommandeTient
<1>. QED BY <1>2, <1>3, <1>4

\* A step that only moves requests.
LEMMA RienChange ==
  ASSUME TypeInv, PayeeTient, NEW c \in References, RienDAutre,
         UNCHANGED <<journal, commandes, payees, tenues, perturbes>>
  PROVE  SurCommandeSeule(c) /\ CommandeTient(c)
<1>1. TablesTypees
  BY TypesDesTables
<1>2. JournalTypeOK'
  BY <1>1 DEF TablesTypees, JournalTypeOK
<1>. QED BY <1>1, <1>2 DEF TablesTypees, SurCommandeSeule, CommandeTient, RienDAutre,
            PayeeTient, RangeeCommande

\* Writing one order.
LEMMA EcrireCommande ==
  ASSUME TypeInv, NEW c \in References, NEW x \in RangeeCommande,
         commandes' = [commandes EXCEPT ![c] = x]
  PROVE  /\ commandes' \in [References -> RangeeCommande] /\ commandes'[c] = x
         /\ \A d \in References \ {c} : commandes'[d] = commandes[d]
BY DEF TypeInv, TypeOKCommande, RangeeCommande

\* The steps of a purchase keep the tables and what payments say of orders.
LEMMA AchatSuit ==
  ASSUME TypeInv, PayeeTient, CreationSeule, NEW q \in Requetes, AchatEnVol(q)
  PROVE  TablesTypees' /\ PayeeTient' /\ AnnuleesRestent /\ TablesSuivies(q)
<1>. DEFINE r == requetes[q]
            c == r.objet
<1>0. TablesTypees
  BY TypesDesTables
<1>1. r.pc \in EtapesDeCommande
  BY DEF AchatEnVol, PreparerLigne, Enregistrer, InitierPaiement, Conclure, Renoncer,
     EtapesDeCommande
<1>2. r \in Requete /\ BienPlacee(r) /\ r # Inactive
  BY <1>1, EnCours DEF TypeInv, EtapesDeCommande
<1>3. c \in References /\ c \notin Produits
  BY <1>1, <1>2, SurCommande
<1>4. JournalTypeOK /\ commandes \in [References -> RangeeCommande]
  BY DEF TypeInv, TypeOKCommande, RangeeCommande
<1>5. PICK x : requetes' = [requetes EXCEPT ![q] = x] /\ Suivie(r, x)
  BY AchatAvance DEF Avance
<1>6. requetes'[q] = x
  BY <1>5 DEF TypeInv, RequetesTypees, EmplacementsTypes
<1>7. CASE PreparerLigne(q) \/ Conclure(q)
  <2>1. UNCHANGED <<journal, commandes, payees, tenues, perturbes>> /\ RienDAutre
    BY <1>7 DEF PreparerLigne, Conclure
  <2>. QED BY <1>3, <2>1, RienChange, CommandeSuit DEF TablesSuivies
<1>8. CASE Enregistrer(q)
  <2>. DEFINE e == [Absente EXCEPT !.statut = "EN_ATTENTE"]
  <2>1. /\ r.pc = "suivante" /\ Ouvrir(c) /\ Passer(q, "initier")
        /\ commandes' = [commandes EXCEPT ![c] = e]
        /\ UNCHANGED <<payees, tenues, perturbes>> /\ RienDAutre
    BY <1>8 DEF Enregistrer
  <2>2. e \in RangeeCommande /\ e.statut = "EN_ATTENTE"
    BY DEF Absente, RangeeCommande, StatutsCommande, Statuts
  <2>. HIDE DEF e
  <2>3. /\ commandes' \in [References -> RangeeCommande] /\ commandes'[c] = e
        /\ \A d \in References \ {c} : commandes'[d] = commandes[d]
    BY <1>3, <2>1, <2>2, EcrireCommande
  <2>4. JournalTypeOK' /\ \A d \in References \ {c} : journal'[d] = journal[d]
    BY <1>3, <1>4, <2>1, JournalType, JournalAilleurs
  <2>5. ~r.defait => commandes[c] = Absente
    BY <1>2, <1>3, <2>1 DEF CreationSeule, EnCreation
  <2>6. x.pc = "initier" /\ ~EnCreation(x)
    BY <1>2, <1>6, <2>1 DEF Passer, EnCreation, TypeInv, RequetesTypees, EmplacementsTypes,
       Requete
  <2>7. journal'[c].statut = "COMPLETE" => c \in payees
    BY <1>3, <1>4, <2>1, JournalStatut DEF PayeeTient
  <2>8. SurCommandeSeule(c)
    BY <1>0, <2>1, <2>3, <2>4 DEF SurCommandeSeule, RienDAutre, TablesTypees
  <2>9. ~r.defait
    BY <1>2, <1>3, <2>1 DEF BienPlacee
  <2>10. CommandeTient(c)
    BY <2>1, <2>2, <2>3, <2>5, <2>7, <2>9 DEF CommandeTient, Absente
  <2>11. TablesSuivies(q)
    BY <1>6, <2>3, <2>4, <2>6 DEF TablesSuivies
  <2>. QED BY <1>3, <2>8, <2>10, <2>11, CommandeSuit
<1>9. CASE InitierPaiement(q)
  <2>1. /\ EnregistrerReferenceExterne(c) \/ UNCHANGED journal
        /\ UNCHANGED <<commandes, payees, tenues, perturbes>> /\ RienDAutre
    BY <1>9 DEF InitierPaiement
  <2>2. /\ JournalTypeOK' /\ journal'[c].statut = journal[c].statut
        /\ \A d \in References \ {c} : journal'[d] = journal[d]
    <3>1. CASE EnregistrerReferenceExterne(c)
      BY <1>3, <1>4, <3>1, JournalType, JournalAilleurs, JournalStatut
    <3>2. CASE UNCHANGED journal
      BY <1>4, <3>2 DEF JournalTypeOK
    <3>. QED BY <2>1, <3>1, <3>2
  <2>3. SurCommandeSeule(c)
    BY <1>0, <1>4, <2>1, <2>2 DEF SurCommandeSeule, RienDAutre, TablesTypees
  <2>4. CommandeTient(c)
    BY <1>3, <2>1, <2>2 DEF CommandeTient, PayeeTient
  <2>5. TablesSuivies(q)
    BY <2>1, <2>2 DEF TablesSuivies
  <2>. QED BY <1>3, <2>3, <2>4, <2>5, CommandeSuit
<1>10. CASE Renoncer(q)
  <2>1. /\ r.pc = "renoncer" /\ Abandonner(c)
        /\ commandes' = [commandes EXCEPT ![c] = Absente]
        /\ perturbes' = IF commandes[c].statut \in {"ABSENTE", "EN_ATTENTE"}
                        THEN perturbes ELSE Perturbe(c)
        /\ UNCHANGED <<payees, tenues>> /\ RienDAutre
    BY <1>10 DEF Renoncer
  <2>2. Absente \in RangeeCommande /\ Absente.statut = "ABSENTE"
    BY DEF Absente, RangeeCommande, Statuts
  <2>3. /\ commandes' \in [References -> RangeeCommande] /\ commandes'[c] = Absente
        /\ \A d \in References \ {c} : commandes'[d] = commandes[d]
    BY <1>3, <2>1, <2>2, EcrireCommande
  <2>4. JournalTypeOK' /\ \A d \in References \ {c} : journal'[d] = journal[d]
    BY <1>3, <1>4, <2>1, JournalType, JournalAilleurs
  <2>5. journal'[c].statut = "COMPLETE" => c \in payees
    BY <1>3, <1>4, <2>1, JournalStatut DEF PayeeTient
  <2>6. /\ perturbes \subseteq perturbes' /\ perturbes' \subseteq Produits \cup References
        /\ commandes[c].statut = "ANNULEE" => c \in perturbes'
    <3>1. perturbes \subseteq Perturbe(c) /\ c \in Perturbe(c)
      BY DEF Perturbe
    <3>. QED BY <1>0, <1>3, <2>1, <3>1, PerturbesType DEF TablesTypees
  <2>7. SurCommandeSeule(c)
    BY <1>0, <2>1, <2>3, <2>4, <2>6 DEF SurCommandeSeule, RienDAutre, TablesTypees
  <2>8. CommandeTient(c)
    BY <2>1, <2>2, <2>3, <2>5, <2>6 DEF CommandeTient
  <2>9. ~EnCreation(x)
    BY <1>5, <2>1 DEF Suivie, EnCreation
  <2>10. TablesSuivies(q)
    BY <1>6, <2>3, <2>4, <2>9 DEF TablesSuivies
  <2>. QED BY <1>3, <2>7, <2>8, <2>10, CommandeSuit
<1>. QED BY <1>7, <1>8, <1>9, <1>10 DEF AchatEnVol

\* So do the steps that follow an order.
LEMMA SuiviSuit ==
  ASSUME TypeInv, PayeeTient, TransitionsPermises, NEW q \in Requetes, SuiviEnVol(q)
  PROVE  TablesTypees' /\ PayeeTient' /\ AnnuleesRestent /\ TablesSuivies(q)
<1>. DEFINE r == requetes[q]
            c == r.objet
<1>0. TablesTypees
  BY TypesDesTables
<1>1. r.pc \in {"lire", "ecrire", "transiter"}
  BY DEF SuiviEnVol, LireCommande, Confirmer, Echouer, Transiter
<1>2. r \in Requete /\ BienPlacee(r) /\ r # Inactive
  BY <1>1, EnCours DEF TypeInv
<1>3. c \in References /\ c \notin Produits
  BY <1>1, <1>2, SurCommande DEF EtapesDeCommande
<1>4. /\ JournalTypeOK /\ commandes \in [References -> RangeeCommande]
      /\ UNCHANGED journal => JournalTypeOK'
  BY DEF TypeInv, TypeOKCommande, RangeeCommande, JournalTypeOK
<1>5. PICK x : requetes' = [requetes EXCEPT ![q] = x] /\ Suivie(r, x)
  BY SuiviAvance DEF Avance
<1>6. requetes'[q] = x /\ ~EnCreation(x)
  BY <1>1, <1>5 DEF TypeInv, RequetesTypees, EmplacementsTypes, Suivie, EnCreation
<1>7. ASSUME SurCommandeSeule(c) PROVE TablesSuivies(q)
  BY <1>6, <1>7 DEF SurCommandeSeule, TablesSuivies
<1>8. CASE LireCommande(q)
  <2>1. UNCHANGED <<journal, commandes, payees, tenues, perturbes>> /\ RienDAutre
    BY <1>8 DEF LireCommande
  <2>. QED BY <1>3, <1>7, <2>1, RienChange, CommandeSuit
<1>9. CASE Confirmer(q)
  <2>. DEFINE e == [statut |-> "PAYEE", paiement |-> "COMPLETE"]
  <2>1. /\ UNCHANGED <<journal, payees, tenues>> /\ RienDAutre
        /\ perturbes' = IF journal[c].statut = "COMPLETE" THEN perturbes ELSE perturbes \cup {c}
        /\ \/ UNCHANGED commandes
           \/ commandes[c].statut # "ANNULEE" /\ commandes' = [commandes EXCEPT ![c] = e]
    BY <1>9 DEF Confirmer, Depassee
  <2>2. e \in RangeeCommande /\ e.statut = "PAYEE" /\ e.paiement = "COMPLETE"
    BY DEF RangeeCommande, StatutsCommande, Statuts
  <2>. HIDE DEF e
  <2>3. /\ commandes' \in [References -> RangeeCommande]
        /\ \A d \in References \ {c} : commandes'[d] = commandes[d]
        /\ \/ commandes'[c] = commandes[c]
           \/ commandes[c].statut # "ANNULEE" /\ commandes'[c] = e
    <3>1. CASE UNCHANGED commandes
      BY <1>4, <3>1
    <3>2. CASE commandes[c].statut # "ANNULEE" /\ commandes' = [commandes EXCEPT ![c] = e]
      BY <1>3, <2>2, <3>2, EcrireCommande
    <3>. QED BY <2>1, <3>1, <3>2
  <2>4. SurCommandeSeule(c)
    BY <1>0, <1>3, <1>4, <2>1, <2>3 DEF SurCommandeSeule, RienDAutre, TablesTypees
  <2>5. CommandeTient(c)
    BY <1>3, <2>1, <2>2, <2>3 DEF CommandeTient, PayeeTient
  <2>. QED BY <1>3, <1>7, <2>4, <2>5, CommandeSuit
<1>10. CASE Echouer(q)
  <2>. DEFINE e == [statut |-> "ANNULEE", paiement |-> "ECHOUE"]
  <2>1. /\ UNCHANGED <<journal, payees, tenues, perturbes>> /\ RienDAutre
        /\ \/ UNCHANGED commandes
           \/ commandes' = [commandes EXCEPT ![c] = e]
    BY <1>10 DEF Echouer
  <2>2. e \in RangeeCommande /\ e.statut = "ANNULEE"
    BY DEF RangeeCommande, StatutsCommande, Statuts
  <2>. HIDE DEF e
  <2>3. /\ commandes' \in [References -> RangeeCommande]
        /\ \A d \in References \ {c} : commandes'[d] = commandes[d]
        /\ commandes'[c] = commandes[c] \/ commandes'[c] = e
    <3>1. CASE UNCHANGED commandes
      BY <1>4, <3>1
    <3>2. CASE commandes' = [commandes EXCEPT ![c] = e]
      BY <1>3, <2>2, <3>2, EcrireCommande
    <3>. QED BY <2>1, <3>1, <3>2
  <2>4. SurCommandeSeule(c)
    BY <1>0, <1>4, <2>1, <2>3 DEF SurCommandeSeule, RienDAutre, TablesTypees
  <2>5. CommandeTient(c)
    BY <1>3, <2>1, <2>2, <2>3 DEF CommandeTient, PayeeTient
  <2>. QED BY <1>3, <1>7, <2>4, <2>5, CommandeSuit
<1>11. CASE Transiter(q)
  <2>. DEFINE e == [commandes[c] EXCEPT !.statut = Vers[r.op]]
  <2>1. /\ UNCHANGED <<journal, payees, tenues>> /\ RienDAutre
        /\ perturbes' = IF commandes[c].statut = r.vu THEN perturbes ELSE Perturbe(c)
        /\ \/ UNCHANGED commandes /\ commandes[c] = Absente
           \/ commandes' = [commandes EXCEPT ![c] = e]
    BY <1>11 DEF Transiter
  <2>2. /\ r.op \in DOMAIN Vers /\ r.vu \in StatutsCommande
        /\ Vers[r.op] \in TRANSITIONS[r.vu]
    BY <1>2, <1>11 DEF Transiter, TransitionsPermises, TransitionPermise
  <2>3. /\ Vers[r.op] \in {"ANNULEE", "PRETE", "RETIREE"} /\ r.vu # "ANNULEE"
        /\ Vers[r.op] \in {"PRETE", "RETIREE"} => r.vu \in {"PAYEE", "PRETE"}
    BY <2>2 DEF Vers, TRANSITIONS, StatutsCommande
  <2>4. e \in RangeeCommande /\ e.statut = Vers[r.op] /\ e.paiement = commandes[c].paiement
    BY <1>3, <1>4, <2>3 DEF RangeeCommande, StatutsCommande
  <2>. HIDE DEF e
  <2>5. /\ commandes' \in [References -> RangeeCommande]
        /\ \A d \in References \ {c} : commandes'[d] = commandes[d]
        /\ \/ commandes'[c] = commandes[c] /\ commandes[c] = Absente
           \/ commandes'[c] = e
    <3>1. CASE UNCHANGED commandes /\ commandes[c] = Absente
      BY <1>4, <3>1
    <3>2. CASE commandes' = [commandes EXCEPT ![c] = e]
      BY <1>3, <2>4, <3>2, EcrireCommande
    <3>. QED BY <2>1, <3>1, <3>2
  <2>6. /\ perturbes \subseteq perturbes' /\ perturbes' \subseteq Produits \cup References
        /\ c \notin perturbes' => commandes[c].statut = r.vu
    <3>1. perturbes \subseteq Perturbe(c) /\ c \in Perturbe(c)
      BY DEF Perturbe
    <3>. QED BY <1>0, <1>3, <2>1, <3>1, PerturbesType DEF TablesTypees
  <2>7. SurCommandeSeule(c)
    BY <1>0, <1>4, <2>1, <2>5, <2>6 DEF SurCommandeSeule, RienDAutre, TablesTypees
  <2>8. CommandeTient(c)
    <3>1. journal'[c].statut = "COMPLETE" => c \in payees'
      BY <1>3, <2>1 DEF PayeeTient
    <3>2. CASE commandes'[c] = commandes[c] /\ commandes[c] = Absente
      BY <3>1, <3>2 DEF CommandeTient, Absente
    <3>3. CASE commandes'[c] = e /\ c \notin perturbes'
      <4>1. commandes[c].statut = r.vu /\ c \notin perturbes
        BY <2>6, <3>3
      <4>2. Vers[r.op] \in {"PRETE", "RETIREE"} =>
              commandes[c].paiement = "COMPLETE" /\ c \in payees
        BY <1>3, <2>3, <4>1 DEF PayeeTient
      <4>. QED BY <2>1, <2>3, <2>4, <3>1, <3>3, <4>1, <4>2 DEF CommandeTient
    <3>4. CASE c \in perturbes'
      BY <3>1, <3>4 DEF CommandeTient
    <3>. QED BY <2>5, <3>2, <3>3, <3>4
  <2>. QED BY <1>3, <1>7, <2>7, <2>8, CommandeSuit
<1>. QED BY <1>8, <1>9, <1>10, <1>11 DEF SuiviEnVol

\* A request that starts writes nothing but, for an issue, the row of the journal.
LEMMA NouveauSuit ==
  ASSUME TypeInv, PayeeTient, NEW q \in Requetes,
         SuiviNouveau(q) \/ \E c \in References : Creer(q, c)
  PROVE  /\ TablesTypees' /\ PayeeTient' /\ AnnuleesRestent
         /\ \A c \in References :
              \/ commandes'[c] = commandes[c] /\ journal'[c].statut = journal[c].statut
              \/ journal[c].statut # "ABSENTE"
<1>0. TablesTypees
  BY TypesDesTables
<1>1. ASSUME NEW c \in References, \/ Creer(q, c)
                                   \/ \E op \in DOMAIN Vers : LireTransition(q, op, c)
      PROVE  /\ TablesTypees' /\ PayeeTient' /\ AnnuleesRestent
             /\ UNCHANGED <<commandes, journal>>
  <2>1. UNCHANGED <<journal, commandes, payees, tenues, perturbes>> /\ RienDAutre
    BY <1>1 DEF Creer, LireTransition
  <2>. QED BY <2>1, RienChange, CommandeSuit
<1>2. ASSUME NEW c \in References, NEW i \in {"COMPLETE", "ECHOUE"},
             RecevoirIssueCommande(q, c, i)
      PROVE  /\ TablesTypees' /\ PayeeTient' /\ AnnuleesRestent
             /\ UNCHANGED commandes
             /\ \A d \in References : d = c \/ journal'[d] = journal[d]
             /\ journal[c].statut # "ABSENTE"
  <2>1. /\ Appliquer(c, i) /\ AppliquerAffecte(c, i) /\ (i = "COMPLETE" => c \in payees)
        /\ UNCHANGED <<commandes, payees, tenues, perturbes>> /\ RienDAutre
    BY <1>2 DEF RecevoirIssueCommande
  <2>2. JournalTypeOK /\ commandes \in [References -> RangeeCommande] /\ i \in Statuts
    BY DEF TypeInv, TypeOKCommande, RangeeCommande, Statuts
  <2>3. JournalTypeOK' /\ \A d \in References \ {c} : journal'[d] = journal[d]
    BY <2>1, <2>2, JournalType, JournalAilleurs
  <2>4. journal'[c].statut = i
    BY <2>1, <2>2, JournalStatut
  <2>5. SurCommandeSeule(c)
    BY <1>0, <2>1, <2>2, <2>3 DEF SurCommandeSeule, RienDAutre, TablesTypees
  <2>6. CommandeTient(c)
    BY <2>1, <2>4 DEF CommandeTient, PayeeTient
  <2>. QED BY <2>1, <2>3, <2>5, <2>6, CommandeSuit DEF AppliquerAffecte
<1>. QED BY <1>1, <1>2 DEF SuiviNouveau

\* The buyer who pays, and the treasury that takes a proof back.
LEMMA TresorerieSuit ==
  ASSUME TypeInv, PayeeTient, NEW c \in References, Regler(c) \/ Defaire(c)
  PROVE  /\ TablesTypees' /\ PayeeTient' /\ AnnuleesRestent
         /\ UNCHANGED requetes
         /\ \A d \in References :
              \/ commandes'[d] = commandes[d] /\ journal'[d].statut = journal[d].statut
              \/ journal[d].statut # "ABSENTE"
<1>0. TablesTypees
  BY TypesDesTables
<1>1. JournalTypeOK /\ commandes \in [References -> RangeeCommande]
  BY DEF TypeInv, TypeOKCommande, RangeeCommande
<1>2. CASE Regler(c)
  <2>1. /\ payees' = payees \cup {c}
        /\ UNCHANGED <<journal, commandes, requetes, tenues, perturbes>> /\ RienDAutre
    BY <1>2 DEF Regler
  <2>2. JournalTypeOK'
    BY <1>1, <2>1 DEF JournalTypeOK
  <2>3. SurCommandeSeule(c)
    BY <1>0, <1>1, <2>1, <2>2 DEF SurCommandeSeule, RienDAutre, TablesTypees
  <2>4. CommandeTient(c)
    BY <2>1 DEF CommandeTient, PayeeTient
  <2>. QED BY <2>1, <2>3, <2>4, CommandeSuit
<1>3. CASE Defaire(c)
  <2>. DEFINE e == [statut |-> "EN_ATTENTE", paiement |-> "EN_ATTENTE"]
  <2>1. /\ journal[c].statut = "COMPLETE" /\ Rouvrir(c, "declare")
        /\ payees' = payees \ {c}
        /\ UNCHANGED <<produits, declinaisons, requetes, tenues, perturbes>>
        /\ commandes[c].statut \in {"EN_ATTENTE", "PAYEE"}
        /\ \/ commandes[c].statut = "EN_ATTENTE" /\ UNCHANGED commandes
           \/ commandes' = [commandes EXCEPT ![c] = e]
    BY <1>3 DEF Defaire
  <2>2. e \in RangeeCommande /\ e.statut = "EN_ATTENTE"
    BY DEF RangeeCommande, StatutsCommande, Statuts
  <2>. HIDE DEF e
  <2>3. /\ commandes' \in [References -> RangeeCommande]
        /\ \A d \in References \ {c} : commandes'[d] = commandes[d]
        /\ commandes'[c].statut = "EN_ATTENTE"
    <3>1. CASE commandes[c].statut = "EN_ATTENTE" /\ UNCHANGED commandes
      BY <1>1, <3>1
    <3>2. CASE commandes' = [commandes EXCEPT ![c] = e]
      BY <2>2, <3>2, EcrireCommande
    <3>. QED BY <2>1, <3>1, <3>2
  <2>4. "declare" \in Montants
    BY DEF Montants
  <2>5. JournalTypeOK' /\ \A d \in References \ {c} : journal'[d] = journal[d]
    BY <1>1, <2>1, <2>4, JournalType, JournalAilleurs
  <2>6. journal'[c].statut = "EN_ATTENTE"
    BY <1>1, <2>1, JournalStatut DEF RouvrirAffecte
  <2>7. SurCommandeSeule(c)
    BY <1>0, <2>1, <2>3, <2>5 DEF SurCommandeSeule, TablesTypees
  <2>8. CommandeTient(c)
    BY <2>1, <2>3, <2>6 DEF CommandeTient
  <2>. QED BY <2>1, <2>3, <2>5, <2>7, <2>8, CommandeSuit
<1>. QED BY <1>2, <1>3

------------------------------------------------------------------------------
(* The theorems.                                                           *)

\* The tables and requests are well formed at first.
LEMMA DepartInv == InitCommande => IInv
<1>. SUFFICES ASSUME InitCommande PROVE IInv
  OBVIOUS
<1>1. JournalTypeOK /\ \A c \in References : journal[c].statut = "ABSENTE"
  BY DEF InitCommande, JournalInit, JournalTypeOK, LigneAbsente, Ligne, Montants
<1>2. produits \in [Produits -> RangeeProduit]
  <2>1. ASSUME NEW p \in Produits PROVE Somme(p, StockInitial) \in Nat
    BY SommeType, CommandeAssumption
  <2>. QED BY <2>1 DEF InitCommande, RangeeProduit, StatutsProduit
<1>3. DeclinaisonsTypees
  BY CommandeAssumption DEF InitCommande, DeclinaisonsTypees
<1>4. commandes \in [References -> RangeeCommande] /\ \A c \in References : commandes[c] = Absente
  BY DEF InitCommande, Absente, RangeeCommande, Statuts
<1>5. TablesTypees
  BY <1>1, <1>2, <1>3, <1>4 DEF TablesTypees, InitCommande, RangeeCommande
<1>6. requetes = [q \in Requetes |-> requetes[q]] /\ \A q \in Requetes : requetes[q] = Inactive
  BY DEF InitCommande
<1>7. TypeInv
  BY <1>5, <1>6, TypesDesTables DEF RequeteTypee, EmplacementsTypes
<1>8. CreationSeule /\ TransitionsPermises
  BY <1>6 DEF CreationSeule, TransitionsPermises, TransitionPermise, EnCreation
<1>9. PayeeTient
  BY <1>1, <1>4 DEF PayeeTient, Absente
<1>. QED BY <1>7, <1>8, <1>9 DEF IInv

\* The steps of Boutique, Achat and Suivi are those of a request in flight, or the
\* start of one.
LEMMA EtapesDUneRequete ==
  ASSUME NEW q \in Requetes, Boutique(q) \/ Achat(q) \/ Suivi(q)
  PROVE  \/ BoutiqueEnVol(q) \/ AchatEnVol(q) \/ SuiviEnVol(q)
         \/ BoutiqueNouvelle(q) \/ SuiviNouveau(q) \/ \E c \in References : Creer(q, c)
BY DEF Boutique, Achat, Suivi, BoutiqueEnVol, AchatEnVol, SuiviEnVol, BoutiqueNouvelle,
       SuiviNouveau

\* The steps of the shop say nothing of orders.
LEMMA BoutiqueSuit ==
  ASSUME TypeInv, PayeeTient, NEW q \in Requetes, BoutiqueEnVol(q) \/ BoutiqueNouvelle(q)
  PROVE  TablesTypees' /\ PayeeTient' /\ AnnuleesRestent /\ UNCHANGED <<journal, commandes>>
<1>1. TablesTypees' /\ UNCHANGED <<journal, commandes, payees>>
  BY BoutiqueTables
<1>2. perturbes \subseteq perturbes'
  BY DEF BoutiqueEnVol, BoutiqueNouvelle, PrendreVariante, PrendreTotal, RendreVariante,
     RendreTotal, Rafraichir, Sauver, Regarnir, Totaliser, Modifier, ViderGrille,
     AjusterStock, NoterMouvement
<1>. QED BY <1>1, <1>2 DEF PayeeTient, AnnuleesRestent

\* A step of the system keeps the invariant, and cancelled orders as they are.
LEMMA EtapeInv ==
  ASSUME IInv, [NextCommande]_varsCommande
  PROVE  IInv' /\ AnnuleesRestent
<1>. USE DEF IInv
<1>1. ASSUME NEW q \in Requetes, Boutique(q) \/ Achat(q) \/ Suivi(q)
      PROVE  IInv' /\ AnnuleesRestent
  <2>1. TablesTypees' /\ PayeeTient' /\ AnnuleesRestent
    BY <1>1, EtapesDUneRequete, BoutiqueSuit, AchatSuit, SuiviSuit, NouveauSuit
  <2>2. EmplacementsTypes' /\ CreationSeule' /\ TransitionsPermises'
    <3>1. CASE BoutiqueEnVol(q)
      <4>1. TablesSuivies(q)
        BY <3>1, BoutiqueSuit DEF TablesSuivies
      <4>. QED BY <3>1, <4>1, BoutiqueAvance, RequetesSuivies
    <3>2. CASE AchatEnVol(q)
      BY <3>2, AchatSuit, AchatAvance, RequetesSuivies
    <3>3. CASE SuiviEnVol(q)
      BY <3>3, SuiviSuit, SuiviAvance, RequetesSuivies
    <3>4. CASE BoutiqueNouvelle(q)
      <4>1. \A c \in References :
               commandes'[c] = commandes[c] /\ journal'[c].statut = journal[c].statut
        BY <3>4, BoutiqueSuit
      <4>. QED BY <3>4, <4>1, BoutiqueCommence, RequetesSuivies
    <3>5. CASE SuiviNouveau(q)
      BY <3>5, NouveauSuit, SuiviCommence, RequetesSuivies
    <3>6. CASE \E c \in References : Creer(q, c)
      BY <3>6, NouveauSuit, CreerCommence, RequetesSuivies
    <3>. QED BY <1>1, <3>1, <3>2, <3>3, <3>4, <3>5, <3>6, EtapesDUneRequete
  <2>3. TypeInv'
    BY <2>1, <2>2, TypesDesTables, PTL
  <2>. QED BY <2>1, <2>2, <2>3
<1>2. ASSUME NEW c \in References, Regler(c) \/ Defaire(c)
      PROVE  IInv' /\ AnnuleesRestent
  <2>1. /\ TablesTypees' /\ PayeeTient' /\ AnnuleesRestent /\ UNCHANGED requetes
        /\ \A d \in References :
             \/ commandes'[d] = commandes[d] /\ journal'[d].statut = journal[d].statut
             \/ journal[d].statut # "ABSENTE"
    BY <1>2, TresorerieSuit
  <2>2. EmplacementsTypes'
    BY <2>1, TypesDesTables DEF EmplacementsTypes
  <2>3. TypeInv'
    BY <2>1, <2>2, TypesDesTables, PTL
  <2>4. CreationSeule' /\ TransitionsPermises'
    BY <2>1 DEF CreationSeule, TransitionsPermises, EnVol, EnCreation
  <2>. QED BY <2>1, <2>3, <2>4
<1>3. CASE UNCHANGED varsCommande
  BY <1>3 DEF varsCommande, TypeInv, TypeOKCommande, JournalTypeOK, RequetesTypees,
     EmplacementsTypes,
     CreationSeule, TransitionsPermises, PayeeTient, AnnuleesRestent, EnVol
<1>. QED BY <1>1, <1>2, <1>3 DEF NextCommande

\* What every step of the shop and of the orders preserves: the tables and the
\* requests are well formed, an order being created is known to nobody else, a
\* transition is one of TRANSITIONS, and a paid order is one that was paid.
THEOREM Invariant == SpecCommande => []IInv
<1>1. InitCommande => IInv
  BY DepartInv
<1>2. IInv /\ [NextCommande]_varsCommande => IInv'
  BY EtapeInv
<1>. QED BY <1>1, <1>2, PTL DEF SpecCommande

\* The stock of a product and of each of its variants is never negative, whatever
\* requests are interleaved, for any catalogue and any baskets.
THEOREM TypeCorrect == SpecCommande => []TypeOKCommande
<1>1. IInv => TypeOKCommande
  BY DEF IInv, TypeInv
<1>. QED BY <1>1, Invariant, PTL

\* An order handed over, or ready to be, is one whose payment stands.
THEOREM ToujoursRemisSiRegle == SpecCommande => []RemisSiRegle
<1>1. IInv => RemisSiRegle
  BY DEF IInv, PayeeTient, RemisSiRegle
<1>. QED BY <1>1, Invariant, PTL

\* A cancelled order is never revived.
THEOREM AnnulationToujoursDefinitive == SpecCommande => AnnulationDefinitive
<1>1. IInv /\ [NextCommande]_varsCommande =>
        [\A c \in References :
           commandes[c].statut = "ANNULEE" /\ c \notin perturbes'
             => commandes'[c].statut = "ANNULEE"]_varsCommande
  BY EtapeInv DEF AnnuleesRestent
<1>. QED BY <1>1, Invariant, PTL DEF SpecCommande, AnnulationDefinitive

------------------------------------------------------------------------------
(* What is held of the stock, order by order.                              *)

\* The products whose stock is still followed, and the lines that ask for one.
Suivis == EnVente \ perturbes

LignesSuivies(c) == {i \in LignesDe(c) : Panier[c][i].produit \in Suivis}

Vivante(c) == commandes[c].statut \in StatutsCommande \ {"ANNULEE"}

\* A request that owns the order it creates, until it is concluded or given up.
Cree(r) == EnCreation(r) \/ r.pc \in {"renoncer", "initier", "conclure"}

\* A request that gives lines back, and those it has not given back yet.
Rend(r) ==
  \/ r.pc \in {"rendre", "rendreTotal"}
  \/ r.pc \in {"rafraichir", "sauver"} /\ r.objet \in References /\ r.defait

ResteARendre(r) ==
  {j \in r.lignes \cup {r.ligne} :
     \/ j > r.ligne /\ Rend(r)
     \/ j = r.ligne /\ r.pc \in {"rendre", "rendreTotal"}}

Pour(q, c) == requetes[q] # Inactive /\ requetes[q].objet = c

CreePour(q, c) == Pour(q, c) /\ Cree(requetes[q])

RendPour(q, c, i) == Pour(q, c) /\ i \in ResteARendre(requetes[q])

\* An order is created by one request only.
UneCreation(c) ==
  \A q, o \in Requetes : CreePour(q, c) /\ CreePour(o, c) => q = o

\* Until it is registered its creator alone knows it, and it holds exactly the
\* lines the creator has reserved.
CreationInconnue(c) ==
  \A q \in Requetes : CreePour(q, c) /\ commandes[c].statut = "ABSENTE" =>
    /\ journal[c].statut = "ABSENTE"
    /\ requetes[q].pc \notin {"initier", "conclure"}
    /\ \A o \in Requetes \ {q} : ~Pour(o, c)
    /\ \A i \in LignesSuivies(c) : i \in tenues[c] <=> i \in requetes[q].lignes

\* From then on the creator has reserved every line.
CreationConnue(c) ==
  \A q \in Requetes : CreePour(q, c) /\ commandes[c].statut # "ABSENTE" =>
    LignesSuivies(c) \subseteq requetes[q].lignes

\* The creator has reserved the lines before the one it is at.
LignesPrises(c) ==
  \A q \in Requetes : Pour(q, c) /\ EnCreation(requetes[q]) =>
    \A i \in LignesSuivies(c) :
      i \in requetes[q].lignes <=>
        \/ i < requetes[q].ligne
        \/ i = requetes[q].ligne /\ requetes[q].pc \in {"rafraichir", "sauver"}

\* A living order holds all its lines; of another one, a line is held only
\* while its creator has it or a request is about to give it back.
VivantesTiennent(c) == Vivante(c) => LignesSuivies(c) \subseteq tenues[c]

MortesRendent(c) ==
  ~Vivante(c) => \A i \in LignesSuivies(c) : i \in tenues[c] =>
    \E q \in Requetes : \/ CreePour(q, c) /\ commandes[c].statut = "ABSENTE"
                        \/ RendPour(q, c, i)

\* A line about to be given back is held, by an order that lives no more, and no
\* other request gives it back.
RenduUneFois(c) ==
  \A q \in Requetes : \A i \in LignesSuivies(c) : RendPour(q, c, i) =>
    /\ ~Vivante(c) /\ i \in tenues[c]
    /\ \A o \in Requetes \ {q} : ~RendPour(o, c, i)

\* What a failure or a cancellation will give back is every line.
LignesLues(c) ==
  \A q \in Requetes : Pour(q, c) /\ requetes[q].pc \in {"transiter", "ecrire"} =>
    LignesSuivies(c) \subseteq requetes[q].lignes

OrdreTient(c) ==
  /\ UneCreation(c) /\ CreationInconnue(c) /\ CreationConnue(c) /\ LignesPrises(c)
  /\ VivantesTiennent(c) /\ MortesRendent(c) /\ RenduUneFois(c) /\ LignesLues(c)

------------------------------------------------------------------------------
(* Steps that change nobody's part in an order.                            *)

\* A request that does not create order c goes on with the same lines to give back.
MemeRole(o, c) ==
  /\ ~CreePour(o, c) /\ ~CreePour(o, c)'
  /\ \A i \in LignesDe(c) : RendPour(o, c, i)' <=> RendPour(o, c, i)
  /\ Pour(o, c)' /\ requetes'[o].pc \in {"transiter", "ecrire"} =>
       LignesSuivies(c) \subseteq requetes'[o].lignes
  /\ Pour(o, c)' =>
       Pour(o, c) \/ commandes[c].statut # "ABSENTE" \/ journal[c].statut # "ABSENTE"

\* A request that is left alone keeps its part.
LEMMA RoleDesAutres ==
  ASSUME NEW c, NEW o, requetes'[o] = requetes[o]
  PROVE  /\ Pour(o, c)' <=> Pour(o, c)
         /\ CreePour(o, c)' <=> CreePour(o, c)
         /\ \A i : RendPour(o, c, i)' <=> RendPour(o, c, i)
BY DEF Pour, CreePour, RendPour, Cree, EnCreation, ResteARendre, Rend

\* Order c stays as it is, or lives on, or none of its lines is followed any more.
OrdreReste(c) ==
  /\ LignesSuivies(c)' \subseteq LignesSuivies(c)
  /\ \A i \in LignesSuivies(c)' : i \in tenues'[c] <=> i \in tenues[c]
  /\ commandes'[c].statut = "ABSENTE" => commandes[c].statut = "ABSENTE"
  /\ journal[c].statut = "ABSENTE" => journal'[c].statut = "ABSENTE"
  /\ \/ LignesSuivies(c)' = {}
     \/ /\ Vivante(c)' <=> Vivante(c)
        /\ commandes[c].statut = "ABSENTE" => commandes'[c].statut = "ABSENTE"

\* A step in which every request keeps its part in order c keeps what holds of it.
LEMMA OrdreSuitRole ==
  ASSUME NEW c \in References, OrdreTient(c), OrdreReste(c),
         \A o \in Requetes : requetes'[o] = requetes[o] \/ MemeRole(o, c)
  PROVE  OrdreTient(c)'
<1>. USE DEF OrdreReste
<1>1. LignesSuivies(c)' \subseteq LignesDe(c)
  BY DEF LignesSuivies
<1>2. ASSUME NEW o \in Requetes
      PROVE  /\ CreePour(o, c)' <=> CreePour(o, c)
             /\ CreePour(o, c)' => requetes'[o] = requetes[o]
             /\ \A i \in LignesSuivies(c)' : RendPour(o, c, i)' <=> RendPour(o, c, i)
  <2>1. CASE requetes'[o] = requetes[o]
    BY <2>1, RoleDesAutres
  <2>2. CASE MemeRole(o, c)
    BY <1>1, <2>2 DEF MemeRole
  <2>. QED BY <2>1, <2>2
<1>3. ASSUME NEW o \in Requetes, Pour(o, c)'
      PROVE  Pour(o, c) \/ commandes[c].statut # "ABSENTE" \/ journal[c].statut # "ABSENTE"
  BY <1>3, RoleDesAutres DEF MemeRole
<1>4. ASSUME NEW o \in Requetes, Pour(o, c)', EnCreation(requetes'[o])
      PROVE  Pour(o, c) /\ requetes'[o] = requetes[o]
  <2>1. CreePour(o, c)'
    BY <1>4 DEF CreePour, Cree, EnCreation
  <2>. QED BY <1>2, <1>4, <2>1, RoleDesAutres
<1>5. UneCreation(c)'
  BY <1>2 DEF OrdreTient, UneCreation
<1>6. CreationInconnue(c)'
  <2>1. SUFFICES ASSUME NEW q \in Requetes, CreePour(q, c)', commandes'[c].statut = "ABSENTE"
                 PROVE  /\ journal'[c].statut = "ABSENTE"
                        /\ requetes'[q].pc \notin {"initier", "conclure"}
                        /\ \A o \in Requetes \ {q} : ~Pour(o, c)'
                        /\ \A i \in LignesSuivies(c)' : i \in tenues'[c] <=> i \in requetes'[q].lignes
    BY Zenon DEF CreationInconnue
  <2>2. CreePour(q, c) /\ commandes[c].statut = "ABSENTE" /\ requetes'[q] = requetes[q]
    BY <1>2, <2>1
  <2>. QED BY <1>3, <2>1, <2>2 DEF OrdreTient, CreationInconnue
<1>7. CreationConnue(c)'
  BY <1>2 DEF OrdreTient, CreationConnue
<1>8. LignesPrises(c)'
  <2>1. SUFFICES ASSUME NEW q \in Requetes, Pour(q, c)', EnCreation(requetes'[q]),
                        NEW i \in LignesSuivies(c)'
                 PROVE  i \in requetes'[q].lignes <=>
                          \/ i < requetes'[q].ligne
                          \/ i = requetes'[q].ligne /\ requetes'[q].pc \in {"rafraichir", "sauver"}
    BY DEF LignesPrises, EnCreation
  <2>2. Pour(q, c) /\ requetes'[q] = requetes[q]
    BY <1>4, <2>1
  <2>. QED BY <2>1, <2>2 DEF OrdreTient, LignesPrises
<1>9. VivantesTiennent(c)'
  BY DEF OrdreTient, VivantesTiennent
<1>10. MortesRendent(c)'
  BY <1>2 DEF OrdreTient, MortesRendent
<1>11. RenduUneFois(c)'
  BY <1>2 DEF OrdreTient, RenduUneFois
<1>12. LignesLues(c)'
  BY RoleDesAutres DEF OrdreTient, LignesLues, MemeRole
<1>. QED BY <1>5, <1>6, <1>7, <1>8, <1>9, <1>10, <1>11, <1>12 DEF OrdreTient

------------------------------------------------------------------------------
(* Steps of the request that creates order c.                              *)

\* What a step of request q does to the requests.
Devient(q, x) == requetes'[q] = x /\ \A o \in Requetes \ {q} : requetes'[o] = requetes[o]

\* An assignment to one slot.
LEMMA UneRequete ==
  ASSUME RequetesTypees, NEW q \in Requetes, NEW x, requetes' = [requetes EXCEPT ![q] = x]
  PROVE  Devient(q, x)
BY DEF RequetesTypees, EmplacementsTypes, Devient

\* The lines a request creating c has to hold.
Reserve(x, c) ==
  EnCreation(x) =>
    \A i \in LignesSuivies(c)' :
      i \in x.lignes <=> \/ i < x.ligne
                         \/ i = x.ligne /\ x.pc \in {"rafraichir", "sauver"}

\* Before the order is registered, its creator is alone.
LEMMA OrdreSeul ==
  ASSUME NEW c \in References, NEW q \in Requetes, NEW x, Devient(q, x),
         \A o \in Requetes \ {q} : ~Pour(o, c),
         commandes'[c].statut = "ABSENTE", journal'[c].statut = "ABSENTE",
         x # Inactive, x.objet = c, Cree(x), x.pc \notin {"initier", "conclure"},
         Reserve(x, c),
         \A i \in LignesSuivies(c)' : i \in tenues'[c] <=> i \in x.lignes
  PROVE  OrdreTient(c)'
<1>1. \A o \in Requetes \ {q} :
         ~Pour(o, c)' /\ ~CreePour(o, c)' /\ \A i : ~RendPour(o, c, i)'
  BY RoleDesAutres DEF Devient, CreePour, RendPour
<1>2. requetes'[q] = x /\ Pour(q, c)'
  BY DEF Devient, Pour
<1>3. CreePour(q, c)'
  BY <1>2 DEF CreePour, Cree, EnCreation
<1>4. ~Rend(x) /\ x.pc \notin {"transiter", "ecrire"}
  BY DEF Cree, EnCreation, Rend
<1>5. \A i : ~RendPour(q, c, i)'
  BY <1>2, <1>4 DEF RendPour, ResteARendre, Rend
<1>6. ~Vivante(c)'
  BY DEF Vivante, StatutsCommande
<1>7. UneCreation(c)'
  BY <1>1 DEF UneCreation
<1>8. CreationInconnue(c)'
  BY <1>1, <1>2 DEF CreationInconnue
<1>9. CreationConnue(c)' /\ VivantesTiennent(c)'
  BY <1>6 DEF CreationConnue, VivantesTiennent
<1>10. LignesPrises(c)'
  BY <1>1, <1>2 DEF LignesPrises, Reserve, EnCreation
<1>11. MortesRendent(c)'
  BY <1>3 DEF MortesRendent
<1>12. RenduUneFois(c)' /\ LignesLues(c)'
  BY <1>1, <1>2, <1>4, <1>5 DEF RenduUneFois, LignesLues
<1>. QED BY <1>7, <1>8, <1>9, <1>10, <1>11, <1>12 DEF OrdreTient

\* When it is registered, it holds all its lines.
LEMMA OrdreEnregistre ==
  ASSUME NEW c \in References, NEW q \in Requetes, NEW x, Devient(q, x), OrdreTient(c),
         CreePour(q, c), commandes[c].statut = "ABSENTE",
         LignesSuivies(c)' \subseteq LignesSuivies(c), UNCHANGED tenues,
         commandes'[c].statut = "EN_ATTENTE",
         x # Inactive, x.objet = c, x.pc = "initier", x.lignes = requetes[q].lignes,
         LignesSuivies(c) \subseteq requetes[q].lignes
  PROVE  OrdreTient(c)'
<1>1. /\ \A o \in Requetes \ {q} : ~Pour(o, c)
      /\ \A i \in LignesSuivies(c) : i \in tenues[c] <=> i \in requetes[q].lignes
  BY DEF OrdreTient, CreationInconnue
<1>2. \A o \in Requetes \ {q} :
         ~Pour(o, c)' /\ ~CreePour(o, c)' /\ \A i : ~RendPour(o, c, i)'
  BY <1>1, RoleDesAutres DEF Devient, CreePour, RendPour
<1>3. requetes'[q] = x /\ \A i : ~RendPour(q, c, i)'
  BY DEF Devient, RendPour, ResteARendre, Rend
<1>4. Vivante(c)'
  BY DEF Vivante, StatutsCommande
<1>5. UneCreation(c)' /\ CreationInconnue(c)' /\ MortesRendent(c)'
  BY <1>2, <1>4 DEF UneCreation, CreationInconnue, MortesRendent
<1>6. CreationConnue(c)' /\ VivantesTiennent(c)'
  BY <1>1, <1>2, <1>3 DEF CreationConnue, VivantesTiennent
<1>7. LignesPrises(c)'
  BY <1>2, <1>3 DEF LignesPrises, EnCreation
<1>8. RenduUneFois(c)' /\ LignesLues(c)'
  BY <1>2, <1>3 DEF RenduUneFois, LignesLues
<1>. QED BY <1>5, <1>6, <1>7, <1>8 DEF OrdreTient

\* The payment is asked for, the creation is over, or it will be given up.
LEMMA OrdreConclu ==
  ASSUME NEW c \in References, NEW q \in Requetes, NEW x, Devient(q, x), OrdreTient(c),
         CreePour(q, c), requetes[q].pc \in {"initier", "conclure"},
         LignesSuivies(c)' \subseteq LignesSuivies(c), UNCHANGED <<commandes, tenues>>,
         \/ x = Inactive
         \/ /\ x # Inactive /\ x.objet = c /\ x.pc \in {"conclure", "renoncer"}
            /\ x.lignes = requetes[q].lignes
  PROVE  OrdreTient(c)'
<1>1. commandes[c].statut # "ABSENTE" /\ LignesSuivies(c) \subseteq requetes[q].lignes
  BY DEF OrdreTient, CreationInconnue, CreationConnue
<1>2. \A o \in Requetes \ {q} :
         /\ Pour(o, c)' <=> Pour(o, c)
         /\ CreePour(o, c)' <=> CreePour(o, c)
         /\ \A i : RendPour(o, c, i)' <=> RendPour(o, c, i)
  BY RoleDesAutres DEF Devient
<1>3. /\ \A i : ~RendPour(q, c, i)' /\ ~RendPour(q, c, i)
      /\ ~EnCreation(requetes'[q])
      /\ Pour(q, c)' => requetes'[q].pc \in {"conclure", "renoncer"}
  BY DEF Devient, Pour, RendPour, ResteARendre, Rend, EnCreation, Inactive
<1>4. UneCreation(c)'
  BY <1>2 DEF OrdreTient, UneCreation
<1>5. CreationInconnue(c)' /\ VivantesTiennent(c)'
  BY <1>1 DEF OrdreTient, CreationInconnue, VivantesTiennent, Vivante
<1>6. CreationConnue(c)'
  <2>1. SUFFICES ASSUME NEW o \in Requetes, CreePour(o, c)'
                 PROVE  LignesSuivies(c)' \subseteq requetes'[o].lignes
    BY DEF CreationConnue
  <2>2. CASE o = q
    BY <1>1, <2>1, <2>2 DEF Devient, CreePour, Pour
  <2>3. CASE o # q
    BY <1>1, <1>2, <2>1, <2>3 DEF Devient, OrdreTient, CreationConnue
  <2>. QED BY <2>2, <2>3
<1>7. LignesPrises(c)'
  BY <1>2, <1>3 DEF OrdreTient, LignesPrises, Devient, EnCreation
<1>8. MortesRendent(c)'
  BY <1>1, <1>2, <1>3 DEF OrdreTient, MortesRendent, Vivante
<1>9. RenduUneFois(c)'
  BY <1>2, <1>3 DEF OrdreTient, RenduUneFois, Vivante
<1>10. LignesLues(c)'
  BY <1>2, <1>3 DEF OrdreTient, LignesLues, Devient
<1>. QED BY <1>4, <1>5, <1>6, <1>7, <1>8, <1>9, <1>10 DEF OrdreTient

------------------------------------------------------------------------------
(* Steps that give the lines of an order back.                             *)

\* Giving back after line n is about the lines after n.
LEMMA ResteApres ==
  ASSUME NEW q \in Requetes, requetes[q] \in Requete, BienPlacee(requetes[q]),
         requetes[q].objet \in References, NEW n \in Nat,
         NEW x, x = RendreApres(q, n, requetes[q].lignes)
  PROVE  /\ x = Inactive => \A i \in requetes[q].lignes : ~(i > n)
         /\ x # Inactive =>
              /\ x.objet = requetes[q].objet /\ x.pc = "rendre" /\ x.defait
              /\ ResteARendre(x) = {j \in requetes[q].lignes : j > n}
<1>. DEFINE r == requetes[q]
            reste == {j \in r.lignes : j > n}
            m == CHOOSE j \in reste : \A k \in reste : j <= k
<1>1. r.lignes \subseteq Nat
  BY DEF Requete
<1>2. CASE reste = {}
  BY <1>2 DEF RendreApres
<1>3. CASE reste # {}
  <2>1. \E j \in reste : \A k \in reste : j <= k
    BY <1>1, <1>3, PlusPetit
  <2>2. m \in reste /\ \A k \in reste : m <= k
    BY <2>1
  <2>3. x = [r EXCEPT !.pc = "rendre", !.defait = TRUE, !.ligne = m, !.lu = RienLu,
                      !.ecrit = RienLu]
    BY <1>3 DEF RendreApres
  <2>. HIDE DEF m
  <2>4. /\ x.pc = "rendre" /\ x.defait /\ x.objet = r.objet /\ x.ligne = m
        /\ x.lignes = r.lignes /\ x # Inactive
    BY <2>3 DEF Requete, Inactive
  <2>5. ResteARendre(x) = reste
    BY <1>1, <2>2, <2>4 DEF ResteARendre, Rend
  <2>. QED BY <2>4, <2>5
<1>. QED BY <1>2, <1>3

\* An order is given up, has failed or is cancelled: its lines are to be given back
\* by this request alone.
LEMMA OrdreDefait ==
  ASSUME NEW c \in References, NEW q \in Requetes, NEW x, Devient(q, x), OrdreTient(c),
         Pour(q, c), requetes[q] \in Requete, BienPlacee(requetes[q]),
         x = RendreApres(q, 0, requetes[q].lignes),
         LignesSuivies(c)' \subseteq LignesSuivies(c), UNCHANGED tenues,
         \/ LignesSuivies(c)' = {}
         \/ Vivante(c) /\ LignesSuivies(c) \subseteq requetes[q].lignes
         \/ CreePour(q, c) /\ commandes[c].statut = "ABSENTE",
         ~Vivante(c)',
         commandes'[c].statut = "ABSENTE" =>
           CreePour(q, c) \/ commandes[c].statut = "ABSENTE"
  PROVE  OrdreTient(c)'
<1>. DEFINE r == requetes[q]
<1>1. \A o \in Requetes \ {q} :
         /\ requetes'[o] = requetes[o]
         /\ Pour(o, c)' <=> Pour(o, c)
         /\ CreePour(o, c)' <=> CreePour(o, c)
         /\ \A i : RendPour(o, c, i)' <=> RendPour(o, c, i)
  BY RoleDesAutres DEF Devient
<1>2. r.lignes \subseteq Nat /\ LignesSuivies(c)' \subseteq Nat \ {0}
  <2>1. LignesDe(c) \subseteq Nat \ {0}
    BY LigneDuPanier
  <2>. QED BY <2>1 DEF Requete, LignesSuivies
<1>3. \/ ~Pour(q, c)' /\ \A i \in r.lignes : ~(i > 0)
      \/ Pour(q, c)' /\ x.pc = "rendre" /\ ResteARendre(x) = {j \in r.lignes : j > 0}
  BY ResteApres DEF Devient, Pour
<1>4. \A i \in LignesSuivies(c)' : RendPour(q, c, i)' <=> i \in r.lignes
  BY <1>2, <1>3 DEF RendPour, Devient
<1>5. ~CreePour(q, c)' /\ ~(Pour(q, c)' /\ EnCreation(requetes'[q]))
      /\ ~(Pour(q, c)' /\ requetes'[q].pc \in {"transiter", "ecrire"})
  BY <1>3 DEF CreePour, Cree, EnCreation, Devient
<1>6. commandes[c].statut = "ABSENTE" => \A o \in Requetes : CreePour(o, c) => o = q
  BY DEF OrdreTient, CreationInconnue
<1>7. UneCreation(c)'
  BY <1>1, <1>5 DEF OrdreTient, UneCreation
<1>8. CreationInconnue(c)'
  BY <1>1, <1>5, <1>6 DEF OrdreTient, CreationInconnue, UneCreation
<1>9. CreationConnue(c)'
  BY <1>1, <1>5, <1>6 DEF OrdreTient, CreationConnue
<1>10. LignesPrises(c)'
  BY <1>1, <1>5 DEF OrdreTient, LignesPrises
<1>11. VivantesTiennent(c)'
  BY DEF VivantesTiennent
<1>12. ASSUME NEW i \in LignesSuivies(c)'
       PROVE  /\ i \in tenues[c] <=> i \in r.lignes
              /\ \A o \in Requetes \ {q} : ~RendPour(o, c, i)
  <2>1. CASE Vivante(c) /\ LignesSuivies(c) \subseteq r.lignes
    BY <2>1 DEF OrdreTient, VivantesTiennent, RenduUneFois
  <2>2. CASE CreePour(q, c) /\ commandes[c].statut = "ABSENTE"
    BY <2>2 DEF OrdreTient, CreationInconnue, RendPour
  <2>. QED BY <2>1, <2>2
<1>13. MortesRendent(c)'
  BY <1>4, <1>12 DEF MortesRendent
<1>14. RenduUneFois(c)'
  BY <1>1, <1>4, <1>12 DEF RenduUneFois
<1>15. LignesLues(c)'
  BY <1>1, <1>5 DEF OrdreTient, LignesLues
<1>. QED BY <1>7, <1>8, <1>9, <1>10, <1>11, <1>13, <1>14, <1>15 DEF OrdreTient

\* A line is given back.
LEMMA OrdreRendu ==
  ASSUME NEW c \in References, NEW q \in Requetes, NEW x, Devient(q, x), OrdreTient(c),
         Pour(q, c), requetes[q] \in Requete, requetes[q].pc = "rendreTotal",
         LignesSuivies(c)' \subseteq LignesSuivies(c), UNCHANGED <<commandes, journal>>,
         tenues'[c] = tenues[c] \ {requetes[q].ligne},
         x # Inactive, x.objet = c, x.pc = "rafraichir", x.defait,
         x.ligne = requetes[q].ligne, x.lignes = requetes[q].lignes
  PROVE  OrdreTient(c)'
<1>. DEFINE l == requetes[q].ligne
<1>1. \A o \in Requetes \ {q} :
         /\ requetes'[o] = requetes[o]
         /\ Pour(o, c)' <=> Pour(o, c)
         /\ CreePour(o, c)' <=> CreePour(o, c)
         /\ \A i : RendPour(o, c, i)' <=> RendPour(o, c, i)
  BY RoleDesAutres DEF Devient
<1>2. l \in Nat /\ requetes[q].lignes \subseteq Nat /\ LignesSuivies(c)' \subseteq Nat
  <2>1. LignesDe(c) \subseteq Nat
    BY LigneDuPanier
  <2>. QED BY <2>1 DEF Requete, LignesSuivies
<1>3. /\ RendPour(q, c, l)
      /\ \A i \in LignesSuivies(c)' : RendPour(q, c, i)' <=> RendPour(q, c, i) /\ i # l
  BY <1>2 DEF RendPour, ResteARendre, Rend, Devient, Pour
<1>4. ~CreePour(q, c)' /\ ~EnCreation(requetes'[q]) /\ ~CreePour(q, c)
      /\ requetes'[q].pc \notin {"transiter", "ecrire"}
  BY DEF CreePour, Cree, EnCreation, Devient
<1>5. UneCreation(c)' /\ LignesPrises(c)'
  BY <1>1, <1>4 DEF OrdreTient, UneCreation, LignesPrises
<1>6. CreationInconnue(c)' /\ CreationConnue(c)'
  BY <1>1, <1>4 DEF OrdreTient, CreationInconnue, CreationConnue
<1>7. VivantesTiennent(c)'
  BY <1>3 DEF OrdreTient, VivantesTiennent, RenduUneFois, Vivante
<1>8. MortesRendent(c)'
  BY <1>1, <1>3, <1>4 DEF OrdreTient, MortesRendent, Vivante
<1>9. RenduUneFois(c)'
  <2>1. SUFFICES ASSUME NEW o \in Requetes, NEW i \in LignesSuivies(c)', RendPour(o, c, i)'
                 PROVE  /\ ~Vivante(c)' /\ i \in tenues'[c]
                        /\ \A e \in Requetes \ {o} : ~RendPour(e, c, i)'
    BY DEF RenduUneFois
  <2>2. RendPour(o, c, i)
    BY <1>1, <1>3, <2>1
  <2>3. ~Vivante(c) /\ i \in tenues[c] /\ \A e \in Requetes \ {o} : ~RendPour(e, c, i)
    BY <2>2 DEF OrdreTient, RenduUneFois
  <2>4. i # l
    BY <1>3, <2>1, <2>3
  <2>5. ~Vivante(c)'
    BY <2>3 DEF Vivante
  <2>. QED BY <1>1, <1>3, <2>3, <2>4, <2>5
<1>10. LignesLues(c)'
  BY <1>1, <1>4 DEF OrdreTient, LignesLues
<1>. QED BY <1>5, <1>6, <1>7, <1>8, <1>9, <1>10 DEF OrdreTient

------------------------------------------------------------------------------
(* What a request becomes.                                                 *)

\* Moved to another step, all else kept.
Deplacee(r, x, pc) ==
  /\ x # Inactive
  /\ x.pc = pc /\ x.objet = r.objet /\ x.op = r.op
  /\ x.ligne = r.ligne /\ x.lignes = r.lignes /\ x.defait = r.defait
  /\ x.lu = r.lu /\ x.ecrit = r.ecrit

\* Passer moves the request and keeps the rest of it.
LEMMA PasserDevient ==
  ASSUME RequetesTypees, NEW q \in Requetes, requetes[q] \in Requete, NEW pc, pc # "libre",
         Passer(q, pc)
  PROVE  Devient(q, requetes'[q]) /\ Deplacee(requetes[q], requetes'[q], pc)
<1>1. PICK x : x = [requetes[q] EXCEPT !.pc = pc]
  OBVIOUS
<1>2. requetes' = [requetes EXCEPT ![q] = x]
  BY <1>1 DEF Passer
<1>3. Devient(q, x) /\ requetes'[q] = x
  BY <1>2, UneRequete DEF Devient
<1>4. Deplacee(requetes[q], x, pc)
  BY <1>1 DEF Deplacee, Requete, Inactive
<1>. QED BY <1>3, <1>4

\* After the refresh of a product, the next line, or the next one to give back.
LEMMA ContinuerDevient ==
  ASSUME RequetesTypees, NEW q \in Requetes, requetes[q] \in Requete, Continuer(q)
  PROVE  /\ Devient(q, requetes'[q])
         /\ requetes[q].objet \in Produits => requetes'[q] = Inactive
         /\ requetes[q].objet \in References /\ requetes[q].defait =>
              requetes'[q] = RendreApres(q, requetes[q].ligne, requetes[q].lignes)
         /\ requetes[q].objet \in References /\ ~requetes[q].defait =>
              LET x == requetes'[q]
                  r == requetes[q]
              IN  /\ x # Inactive /\ x.pc = "suivante" /\ x.objet = r.objet
                  /\ x.ligne = r.ligne + 1 /\ x.lignes = r.lignes /\ ~x.defait
<1>. DEFINE r == requetes[q]
            suite == [r EXCEPT !.pc = "suivante", !.ligne = @ + 1, !.lu = RienLu, !.ecrit = RienLu]
<1>1. Devient(q, requetes'[q])
  BY UneRequete DEF Continuer, Devient
<1>2. CASE r.objet \in Produits
  <2>1. r.objet \notin References
    BY <1>2, CommandeAssumption
  <2>2. requetes' = [requetes EXCEPT ![q] = Inactive]
    BY <1>2, <2>1 DEF Continuer
  <2>. QED BY <1>1, <2>1, <2>2, UneRequete DEF Devient
<1>3. CASE r.objet \in References /\ r.defait
  <2>1. r.objet \notin Produits
    BY <1>3, CommandeAssumption
  <2>2. requetes' = [requetes EXCEPT ![q] = RendreApres(q, r.ligne, r.lignes)]
    BY <1>3, <2>1 DEF Continuer
  <2>. QED BY <1>1, <1>3, <2>1, <2>2, UneRequete DEF Devient
<1>4. CASE r.objet \in References /\ ~r.defait
  <2>1. r.objet \notin Produits
    BY <1>4, CommandeAssumption
  <2>2. requetes' = [requetes EXCEPT ![q] = suite]
    BY <1>4, <2>1 DEF Continuer
  <2>3. requetes'[q] = suite
    BY <2>2, UneRequete DEF Devient
  <2>4. /\ suite # Inactive /\ suite.pc = "suivante" /\ suite.objet = r.objet
        /\ suite.ligne = r.ligne + 1 /\ suite.lignes = r.lignes /\ ~suite.defait
    BY <1>4 DEF Requete, Inactive
  <2>. QED BY <1>1, <1>4, <2>1, <2>3, <2>4
<1>. QED BY <1>1, <1>2, <1>3, <1>4 DEF Requete

------------------------------------------------------------------------------
(* The orders hold what they must at each step.                            *)

OrdresTiennent == \A c \in References : OrdreTient(c)

\* What is written from a stale reading is followed no more, and nothing comes back.
SuiviDiminue == perturbes \subseteq perturbes' /\ Suivis' \subseteq Suivis

\* Lines are followed as long as their products are.
LEMMA LignesDiminuent ==
  ASSUME SuiviDiminue, NEW c \in References
  PROVE  LignesSuivies(c)' \subseteq LignesSuivies(c)
BY DEF SuiviDiminue, LignesSuivies

\* An order the request is not about.
LEMMA OrdreAilleurs ==
  ASSUME SuiviDiminue, NEW c \in References, OrdreTient(c),
         NEW q \in Requetes, NEW x, Devient(q, x),
         ~Pour(q, c), x = Inactive \/ x.objet # c,
         tenues'[c] = tenues[c], commandes'[c] = commandes[c], journal'[c] = journal[c]
  PROVE  OrdreTient(c)'
<1>1. OrdreReste(c)
  BY LignesDiminuent DEF OrdreReste, Vivante
<1>2. ~Pour(q, c)'
  BY DEF Devient, Pour
<1>3. MemeRole(q, c)
  BY <1>2 DEF MemeRole, CreePour, RendPour
<1>. QED BY <1>1, <1>3, OrdreSuitRole DEF Devient

\* A request about order c that moves nothing else than c: it is enough to look at c.
LEMMA OrdresSuivent ==
  ASSUME SuiviDiminue, OrdresTiennent, NEW c \in References, OrdreTient(c)',
         NEW q \in Requetes, NEW x, Devient(q, x),
         requetes[q] = Inactive \/ requetes[q].objet = c, x = Inactive \/ x.objet = c,
         \A d \in References \ {c} :
           tenues'[d] = tenues[d] /\ commandes'[d] = commandes[d] /\ journal'[d] = journal[d]
  PROVE  OrdresTiennent'
<1>1. ASSUME NEW d \in References \ {c} PROVE OrdreTient(d)'
  <2>1. ~Pour(q, d) /\ (x = Inactive \/ x.objet # d)
    BY DEF Pour
  <2>. QED BY <2>1, OrdreAilleurs DEF OrdresTiennent
<1>. QED BY <1>1 DEF OrdresTiennent

\* A request that neither creates nor gives back goes on with c as it is.
LEMMA OrdreMemeRole ==
  ASSUME SuiviDiminue, NEW c \in References, OrdreTient(c), OrdreReste(c),
         NEW q \in Requetes, NEW x, Devient(q, x), MemeRole(q, c)
  PROVE  OrdreTient(c)'
BY OrdreSuitRole DEF Devient

\* A creator is alone until it registers the order.
LEMMA CreateurSeul ==
  ASSUME NEW q \in Requetes, CreationSeule, EnCreation(requetes[q]),
         NEW c, c = requetes[q].objet, c \in References, OrdreTient(c)
  PROVE  /\ Pour(q, c) /\ CreePour(q, c)
         /\ commandes[c] = Absente /\ commandes[c].statut = "ABSENTE"
         /\ journal[c].statut = "ABSENTE"
         /\ \A o \in Requetes \ {q} : ~Pour(o, c)
         /\ \A i \in LignesSuivies(c) : i \in tenues[c] <=> i \in requetes[q].lignes
         /\ \A i \in LignesSuivies(c) :
              i \in requetes[q].lignes <=>
                \/ i < requetes[q].ligne
                \/ i = requetes[q].ligne /\ requetes[q].pc \in {"rafraichir", "sauver"}
<1>1. Pour(q, c) /\ CreePour(q, c)
  BY DEF Pour, CreePour, Cree, EnCreation
<1>2. commandes[c] = Absente /\ commandes[c].statut = "ABSENTE"
  BY DEF CreationSeule, Absente
<1>. QED BY <1>1, <1>2 DEF OrdreTient, CreationInconnue, LignesPrises

\* A creator goes on, the lines it holds with it.
LEMMA CreateurSuit ==
  ASSUME CreationSeule, OrdresTiennent, SuiviDiminue, NEW q \in Requetes,
         EnCreation(requetes[q]), NEW c, c = requetes[q].objet,
         NEW x, Devient(q, x), x # Inactive, x.objet = c, Cree(x),
         x.pc \notin {"initier", "conclure"}, UNCHANGED <<commandes, journal>>,
         \A d \in References \ {c} : tenues'[d] = tenues[d],
         Reserve(x, c),
         \A i \in LignesSuivies(c)' : i \in tenues'[c] <=> i \in x.lignes
  PROVE  OrdresTiennent'
<1>1. c \in References
  BY DEF EnCreation
<1>2. /\ commandes'[c].statut = "ABSENTE" /\ journal'[c].statut = "ABSENTE"
      /\ \A o \in Requetes \ {q} : ~Pour(o, c)
  BY <1>1, CreateurSeul DEF OrdresTiennent
<1>3. OrdreTient(c)'
  BY <1>1, <1>2, OrdreSeul
<1>. QED BY <1>1, <1>3, OrdresSuivent

\* Taking a line, variant or total, on behalf of a creation.
LEMMA PrendreOrdres ==
  ASSUME TypeInv, CreationSeule, OrdresTiennent, SuiviDiminue, NEW q \in Requetes,
         PrendreVariante(q) \/ PrendreTotal(q)
  PROVE  OrdresTiennent'
<1>. DEFINE r == requetes[q]
            x == requetes'[q]
<1>. PICK c : c = r.objet
  OBVIOUS
<1>0. RequetesTypees /\ r.pc \in {"prendre", "prendreTotal"}
  BY DEF TypeInv, PrendreVariante, PrendreTotal
<1>1. r \in Requete /\ BienPlacee(r) /\ r # Inactive
  BY <1>0, EnCours
<1>2. c \in References
  BY <1>0, <1>1, SurCommande
<1>3. CASE ~r.defait
  <2>1. EnCreation(r)
    BY <1>0, <1>1, <1>2, <1>3 DEF EnCreation
  <2>2. /\ \A i \in LignesSuivies(c) : i \in tenues[c] <=> i \in r.lignes
        /\ \A i \in LignesSuivies(c) : i \in r.lignes <=> i < r.ligne
    BY <1>0, <1>2, <2>1, CreateurSeul DEF OrdresTiennent
  <2>3. LignesSuivies(c)' \subseteq LignesSuivies(c)
    BY <1>2, LignesDiminuent
  <2>4. CASE /\ \/ Passer(q, "prendreTotal") /\ r.pc = "prendre"
                \/ Passer(q, "renoncer")
             /\ UNCHANGED <<commandes, journal, tenues>>
    <3>1. PICK pc \in {"prendreTotal", "renoncer"} : Passer(q, pc)
      BY <2>4
    <3>2. Devient(q, x) /\ Deplacee(r, x, pc)
      BY <1>0, <1>1, <3>1, PasserDevient
    <3>. HIDE DEF x
    <3>3. Cree(x) /\ x # Inactive /\ x.objet = c /\ x.pc = pc /\ x.lignes = r.lignes
          /\ x.ligne = r.ligne
      BY <1>2, <1>3, <3>1, <3>2 DEF Deplacee, Cree, EnCreation
    <3>4. Reserve(x, c)
      BY <2>2, <2>3, <3>1, <3>3 DEF Reserve
    <3>. QED BY <2>1, <2>2, <2>3, <2>4, <3>1, <3>2, <3>3, <3>4, CreateurSuit
  <2>5. CASE /\ r.pc = "prendreTotal"
             /\ tenues' = [tenues EXCEPT ![c] = @ \cup {r.ligne}]
             /\ requetes' = [requetes EXCEPT ![q].pc = "rafraichir", ![q].lignes = @ \cup {r.ligne}]
             /\ UNCHANGED <<commandes, journal>>
    <3>1. PICK y : y = [r EXCEPT !.pc = "rafraichir", !.lignes = @ \cup {r.ligne}]
      OBVIOUS
    <3>2. Devient(q, y)
      BY <1>0, <2>5, <3>1, UneRequete
    <3>3. /\ y # Inactive /\ y.objet = c /\ y.pc = "rafraichir" /\ ~y.defait
          /\ y.lignes = r.lignes \cup {r.ligne} /\ y.ligne = r.ligne
      BY <1>1, <1>3, <3>1 DEF Requete, Inactive
    <3>4. Cree(y) /\ Reserve(y, c)
      BY <1>2, <2>2, <2>3, <3>3 DEF Cree, EnCreation, Reserve
    <3>5. /\ tenues'[c] = tenues[c] \cup {r.ligne}
          /\ \A d \in References \ {c} : tenues'[d] = tenues[d]
      BY <1>0, <1>2, <2>5 DEF RequetesTypees
    <3>. QED BY <2>1, <2>2, <2>3, <2>5, <3>2, <3>3, <3>4, <3>5, CreateurSuit
  <2>. QED BY <2>4, <2>5 DEF PrendreVariante, PrendreTotal
<1>4. ~r.defait
  BY <1>0, <1>1, <1>2, CommandeAssumption DEF BienPlacee
<1>. QED BY <1>3, <1>4

\* A request that gives back, seen from the other orders and from its own.
LEMMA RendreOrdres ==
  ASSUME TypeInv, OrdresTiennent, SuiviDiminue, NEW q \in Requetes,
         RendreVariante(q) \/ RendreTotal(q)
  PROVE  OrdresTiennent'
<1>. DEFINE r == requetes[q]
            x == requetes'[q]
<1>. PICK c : c = r.objet
  OBVIOUS
<1>0. RequetesTypees /\ r.pc \in {"rendre", "rendreTotal"} /\ UNCHANGED <<commandes, journal>>
  BY DEF TypeInv, RendreVariante, RendreTotal
<1>1. r \in Requete /\ BienPlacee(r) /\ r # Inactive
  BY <1>0, EnCours
<1>2. c \in References /\ Pour(q, c) /\ OrdreTient(c)
  BY <1>0, <1>1, SurCommande DEF Pour, OrdresTiennent
<1>3. r.defait
  BY <1>0, <1>1, <1>2, CommandeAssumption DEF BienPlacee
<1>4. LignesSuivies(c)' \subseteq LignesSuivies(c)
  BY <1>2, LignesDiminuent
<1>5. CASE RendreVariante(q)
  <2>1. Passer(q, "rendreTotal") /\ r.pc = "rendre" /\ UNCHANGED tenues
    BY <1>5 DEF RendreVariante
  <2>2. Devient(q, x) /\ Deplacee(r, x, "rendreTotal")
    BY <1>0, <1>1, <2>1, PasserDevient
  <2>. HIDE DEF x
  <2>3. /\ x # Inactive /\ x.objet = c /\ x.pc = "rendreTotal"
        /\ ResteARendre(x) = ResteARendre(r)
    BY <1>2, <2>1, <2>2 DEF Deplacee, ResteARendre, Rend
  <2>4. MemeRole(q, c)
    <3>1. ~CreePour(q, c) /\ ~CreePour(q, c)'
      BY <1>0, <2>2, <2>3 DEF CreePour, Cree, EnCreation, Devient
    <3>2. \A i : RendPour(q, c, i)' <=> RendPour(q, c, i)
      BY <1>2, <2>2, <2>3 DEF RendPour, Pour, Devient
    <3>3. requetes'[q].pc \notin {"transiter", "ecrire"}
      BY <2>2, <2>3 DEF Devient
    <3>. QED BY <1>2, <3>1, <3>2, <3>3 DEF MemeRole
  <2>5. OrdreReste(c)
    BY <1>0, <1>4, <2>1 DEF OrdreReste, Vivante
  <2>6. OrdreTient(c)'
    BY <1>2, <2>2, <2>4, <2>5, OrdreMemeRole
  <2>. QED BY <1>0, <1>2, <2>1, <2>2, <2>3, <2>6, OrdresSuivent
<1>6. CASE RendreTotal(q)
  <2>1. /\ Passer(q, "rafraichir") /\ r.pc = "rendreTotal"
        /\ tenues' = [tenues EXCEPT ![c] = @ \ {r.ligne}]
    BY <1>6 DEF RendreTotal
  <2>2. Devient(q, x) /\ Deplacee(r, x, "rafraichir")
    BY <1>0, <1>1, <2>1, PasserDevient
  <2>. HIDE DEF x
  <2>3. /\ tenues'[c] = tenues[c] \ {r.ligne}
        /\ \A d \in References \ {c} : tenues'[d] = tenues[d]
    BY <1>0, <1>2, <2>1 DEF RequetesTypees
  <2>4. /\ x # Inactive /\ x.objet = c /\ x.pc = "rafraichir" /\ x.defait
        /\ x.ligne = r.ligne /\ x.lignes = r.lignes
    BY <1>3, <2>2 DEF Deplacee
  <2>5. OrdreTient(c)'
    BY <1>0, <1>1, <1>2, <1>4, <2>1, <2>2, <2>3, <2>4, OrdreRendu
  <2>. QED BY <1>0, <1>2, <2>2, <2>3, <2>4, <2>5, OrdresSuivent
<1>. QED BY <1>5, <1>6

\* The refresh of a product, on behalf of a creation, of a return, or of the office.
LEMMA ContinuerOrdres ==
  ASSUME TypeInv, CreationSeule, OrdresTiennent, SuiviDiminue, NEW q \in Requetes,
         requetes[q].pc \in {"rafraichir", "sauver"}, Continuer(q),
         UNCHANGED <<commandes, journal, tenues>>
  PROVE  OrdresTiennent'
<1>. DEFINE r == requetes[q]
            x == requetes'[q]
<1>. PICK c : c = r.objet
  OBVIOUS
<1>0. RequetesTypees
  BY DEF TypeInv
<1>1. r \in Requete /\ BienPlacee(r) /\ r # Inactive
  BY <1>0, EnCours
<1>2. Devient(q, x)
  BY <1>0, <1>1, ContinuerDevient
<1>3. CASE c \in Produits
  <2>1. x = Inactive /\ c \notin References
    BY <1>0, <1>1, <1>3, ContinuerDevient, CommandeAssumption
  <2>. QED BY <1>2, <2>1, OrdreAilleurs DEF OrdresTiennent, Pour
<1>4. CASE c \in References /\ ~r.defait
  <2>1. /\ x # Inactive /\ x.pc = "suivante" /\ x.objet = c
        /\ x.ligne = r.ligne + 1 /\ x.lignes = r.lignes /\ ~x.defait
    BY <1>0, <1>1, <1>4, ContinuerDevient
  <2>2. EnCreation(r)
    BY <1>1, <1>4 DEF EnCreation
  <2>3. /\ \A i \in LignesSuivies(c) : i \in tenues[c] <=> i \in r.lignes
        /\ \A i \in LignesSuivies(c) : i \in r.lignes <=> i < r.ligne \/ i = r.ligne
    BY <1>4, <2>2, CreateurSeul DEF OrdresTiennent
  <2>4. LignesSuivies(c)' \subseteq LignesSuivies(c) /\ LignesSuivies(c) \subseteq Nat
    BY <1>4, LignesDiminuent, LigneDuPanier DEF LignesSuivies
  <2>5. r.ligne \in Nat
    BY <1>1 DEF Requete
  <2>. HIDE DEF x
  <2>6. Cree(x)
    BY <1>4, <2>1 DEF Cree, EnCreation
  <2>7. Reserve(x, c)
    <3>1. ASSUME NEW i \in LignesSuivies(c)'
          PROVE  i \in x.lignes <=> i < x.ligne
      BY <2>1, <2>3, <2>4, <2>5
    <3>. QED BY <2>1, <3>1 DEF Reserve
  <2>. QED BY <1>2, <2>1, <2>2, <2>3, <2>4, <2>6, <2>7, CreateurSuit
<1>5. CASE c \in References /\ r.defait
  <2>1. x = RendreApres(q, r.ligne, r.lignes) /\ r.ligne \in Nat
    BY <1>0, <1>1, <1>5, ContinuerDevient DEF Requete
  <2>. HIDE DEF x
  <2>2. /\ x = Inactive => \A i \in r.lignes : ~(i > r.ligne)
        /\ x # Inactive => /\ x.objet = c /\ x.pc = "rendre"
                           /\ ResteARendre(x) = {j \in r.lignes : j > r.ligne}
    BY <1>1, <1>5, <2>1, ResteApres
  <2>3. ResteARendre(r) = {j \in r.lignes : j > r.ligne}
    BY <1>1, <1>5, <2>1 DEF ResteARendre, Rend
  <2>4. MemeRole(q, c)
    <3>1. ~CreePour(q, c) /\ ~CreePour(q, c)'
      BY <1>2, <1>5, <2>2 DEF CreePour, Pour, Cree, EnCreation, Devient
    <3>2. \A i : RendPour(q, c, i)' <=> RendPour(q, c, i)
      BY <1>1, <1>2, <2>2, <2>3 DEF RendPour, Pour, Devient
    <3>3. Pour(q, c)' => requetes'[q].pc \notin {"transiter", "ecrire"}
      BY <1>2, <2>2 DEF Devient, Pour
    <3>. QED BY <1>1, <3>1, <3>2, <3>3 DEF MemeRole, Pour
  <2>5. OrdreReste(c)
    BY <1>5, LignesDiminuent DEF OrdreReste, Vivante
  <2>6. OrdreTient(c)'
    BY <1>2, <1>5, <2>4, <2>5, OrdreMemeRole DEF OrdresTiennent
  <2>. QED BY <1>2, <1>5, <2>2, <2>6, OrdresSuivent
<1>. QED BY <1>1, <1>3, <1>4, <1>5 DEF Requete

\* A request about a product, as it starts, goes on or ends, leaves orders alone.
LEMMA ProduitOrdres ==
  ASSUME OrdresTiennent, SuiviDiminue, NEW q \in Requetes, NEW x, Devient(q, x),
         requetes[q] = Inactive \/ requetes[q].objet \in Produits,
         x = Inactive \/ x.objet \in Produits,
         UNCHANGED <<commandes, journal, tenues>>
  PROVE  OrdresTiennent'
<1>1. ASSUME NEW c \in References PROVE OrdreTient(c)'
  <2>1. ~Pour(q, c) /\ (x = Inactive \/ x.objet # c)
    BY CommandeAssumption DEF Pour
  <2>. QED BY <2>1, OrdreAilleurs DEF OrdresTiennent
<1>. QED BY <1>1 DEF OrdresTiennent

\* The row is read, to be saved.
LEMMA LireOrdres ==
  ASSUME TypeInv, CreationSeule, OrdresTiennent, SuiviDiminue, NEW q \in Requetes,
         NEW lu, NEW ecrit, requetes[q].pc = "rafraichir",
         requetes' = [requetes EXCEPT ![q].pc = "sauver", ![q].lu = lu, ![q].ecrit = ecrit],
         UNCHANGED <<commandes, journal, tenues>>
  PROVE  OrdresTiennent'
<1>. DEFINE r == requetes[q]
<1>. PICK c : c = r.objet
  OBVIOUS
<1>0. RequetesTypees
  BY DEF TypeInv
<1>1. r \in Requete /\ BienPlacee(r) /\ r # Inactive
  BY <1>0, EnCours
<1>2. PICK x : x = [r EXCEPT !.pc = "sauver", !.lu = lu, !.ecrit = ecrit]
  OBVIOUS
<1>3. Devient(q, x)
  BY <1>0, <1>2, UneRequete
<1>4. /\ x # Inactive /\ x.objet = c /\ x.pc = "sauver" /\ x.defait = r.defait
      /\ x.ligne = r.ligne /\ x.lignes = r.lignes
  BY <1>1, <1>2 DEF Requete, Inactive
<1>5. CASE c \in Produits
  BY <1>3, <1>4, <1>5, ProduitOrdres
<1>6. CASE c \in References /\ ~r.defait
  <2>1. EnCreation(r)
    BY <1>1, <1>6 DEF EnCreation
  <2>2. /\ \A i \in LignesSuivies(c) : i \in tenues[c] <=> i \in r.lignes
        /\ \A i \in LignesSuivies(c) : i \in r.lignes <=> i < r.ligne \/ i = r.ligne
    BY <1>6, <2>1, CreateurSeul DEF OrdresTiennent
  <2>3. LignesSuivies(c)' \subseteq LignesSuivies(c)
    BY <1>6, LignesDiminuent
  <2>4. Cree(x) /\ Reserve(x, c)
    BY <1>4, <1>6, <2>2, <2>3 DEF Cree, EnCreation, Reserve
  <2>. QED BY <1>3, <1>4, <2>1, <2>2, <2>3, <2>4, CreateurSuit
<1>7. CASE c \in References /\ r.defait
  <2>1. ResteARendre(x) = ResteARendre(r)
    BY <1>4, <1>7 DEF ResteARendre, Rend
  <2>2. MemeRole(q, c)
    <3>1. ~CreePour(q, c) /\ ~CreePour(q, c)'
      BY <1>3, <1>4, <1>7 DEF CreePour, Cree, EnCreation, Devient
    <3>2. \A i : RendPour(q, c, i)' <=> RendPour(q, c, i)
      BY <1>1, <1>3, <1>4, <2>1 DEF RendPour, Pour, Devient
    <3>3. requetes'[q].pc \notin {"transiter", "ecrire"}
      BY <1>3, <1>4 DEF Devient
    <3>. QED BY <1>1, <3>1, <3>2, <3>3 DEF MemeRole, Pour
  <2>3. OrdreReste(c)
    BY <1>7, LignesDiminuent DEF OrdreReste, Vivante
  <2>4. OrdreTient(c)'
    BY <1>3, <1>7, <2>2, <2>3, OrdreMemeRole DEF OrdresTiennent
  <2>. QED BY <1>3, <1>4, <1>7, <2>4, OrdresSuivent
<1>. QED BY <1>1, <1>5, <1>6, <1>7 DEF Requete

\* What the gestures of the office start.
LEMMA GesteDevient ==
  ASSUME RequetesTypees, NEW q \in Requetes, NEW p \in Produits, NEW op, NEW pc, NEW ecrit,
         Geste(q, op, pc, p, ecrit)
  PROVE  /\ requetes[q] = Inactive
         /\ Devient(q, requetes'[q])
         /\ LET x == requetes'[q]
            IN  /\ x # Inactive /\ x.objet = p /\ x.pc = pc /\ ~x.defait
                /\ x.lu = produits[p] /\ x.ecrit = ecrit
<1>1. PICK x : x = [op |-> op, pc |-> pc, objet |-> p, ligne |-> 0, vu |-> "ABSENTE",
                    lu |-> produits[p], ecrit |-> ecrit, lignes |-> {}, defait |-> FALSE]
  OBVIOUS
<1>2. requetes[q] = Inactive /\ requetes' = [requetes EXCEPT ![q] = x]
  BY <1>1 DEF Geste
<1>3. Devient(q, x) /\ requetes'[q] = x
  BY <1>2, UneRequete DEF Devient
<1>4. x # Inactive /\ x.objet = p /\ x.pc = pc /\ ~x.defait /\ x.lu = produits[p] /\ x.ecrit = ecrit
  BY <1>1 DEF Inactive
<1>. QED BY <1>2, <1>3, <1>4

\* The steps of the shop, for the orders.
LEMMA BoutiqueOrdres ==
  ASSUME TypeInv, CreationSeule, OrdresTiennent, SuiviDiminue, NEW q \in Requetes,
         BoutiqueEnVol(q) \/ BoutiqueNouvelle(q)
  PROVE  OrdresTiennent'
<1>0. RequetesTypees
  BY DEF TypeInv
<1>1. CASE PrendreVariante(q) \/ PrendreTotal(q)
  BY <1>1, PrendreOrdres
<1>2. CASE RendreVariante(q) \/ RendreTotal(q)
  BY <1>2, RendreOrdres
<1>3. CASE Rafraichir(q)
  <2>1. requetes[q].pc = "rafraichir" /\ UNCHANGED <<commandes, journal, tenues>>
    BY <1>3 DEF Rafraichir
  <2>2. PICK lu, ecrit :
          \/ Continuer(q)
          \/ requetes' = [requetes EXCEPT ![q].pc = "sauver", ![q].lu = lu, ![q].ecrit = ecrit]
    BY <1>3 DEF Rafraichir
  <2>. QED BY <2>1, <2>2, ContinuerOrdres, LireOrdres
<1>4. CASE Sauver(q)
  BY <1>4, ContinuerOrdres DEF Sauver
<1>5. CASE Totaliser(q)
  <2>1. requetes[q].pc = "totaliser" /\ Passer(q, "rafraichir")
        /\ UNCHANGED <<commandes, journal, tenues>>
    BY <1>5 DEF Totaliser
  <2>2. requetes[q] \in Requete /\ requetes[q].objet \in Produits
    BY <1>0, <2>1, EnCours, SurCommande DEF EtapesDeGrille
  <2>3. Devient(q, requetes'[q]) /\ requetes'[q].objet \in Produits
    BY <1>0, <2>1, <2>2, PasserDevient DEF Deplacee
  <2>. QED BY <2>1, <2>2, <2>3, ProduitOrdres
<1>6. ASSUME NEW n \in 0 .. StockInitial, Regarnir(q, n) PROVE OrdresTiennent'
  <2>. DEFINE r == requetes[q]
  <2>1. PICK e : requetes' = [requetes EXCEPT ![q].pc = "totaliser", ![q].ecrit = e]
    BY <1>6 DEF Regarnir
  <2>2. r.pc = "regarnir" /\ UNCHANGED <<commandes, journal, tenues>>
    BY <1>6 DEF Regarnir
  <2>3. r \in Requete /\ r.objet \in Produits
    BY <1>0, <2>2, EnCours, SurCommande DEF EtapesDeGrille
  <2>4. PICK x : x = [r EXCEPT !.pc = "totaliser", !.ecrit = e]
    OBVIOUS
  <2>5. Devient(q, x)
    BY <1>0, <2>1, <2>4, UneRequete
  <2>6. x.objet \in Produits
    BY <2>3, <2>4 DEF Requete
  <2>. QED BY <2>2, <2>3, <2>5, <2>6, ProduitOrdres
<1>7. ASSUME NEW p \in Produits,
             \/ Modifier(q, p) \/ ViderGrille(q, p)
             \/ \E delta \in {-1, 1} : AjusterStock(q, p, delta)
      PROVE  OrdresTiennent'
  <2>1. UNCHANGED <<commandes, journal, tenues>>
    BY <1>7 DEF Modifier, ViderGrille, AjusterStock
  <2>2. \E op, pc, ecrit : Geste(q, op, pc, p, ecrit)
    BY <1>7 DEF Modifier, ViderGrille, AjusterStock
  <2>. QED BY <1>0, <2>1, <2>2, GesteDevient, ProduitOrdres
<1>. QED BY <1>1, <1>2, <1>3, <1>4, <1>5, <1>6, <1>7 DEF BoutiqueEnVol, BoutiqueNouvelle

------------------------------------------------------------------------------
(* The steps of CommandeService, for the orders.                           *)

\* The lines of an order written from a stale reading are followed no more.
LEMMA PerturbeeSansLigne ==
  ASSUME NEW c \in References, perturbes' = Perturbe(c)
  PROVE  LignesSuivies(c)' = {}
<1>1. \A i \in LignesDe(c) : Panier[c][i].produit \in perturbes'
  BY DEF Perturbe
<1>. QED BY <1>1 DEF LignesSuivies, Suivis

\* What a request reads of an order is every line that is followed.
LEMMA LignesARendre ==
  ASSUME NEW c \in References
  PROVE  LignesSuivies(c) \subseteq ARendre(c)
BY DEF LignesSuivies, Suivis, EnVente, ARendre

\* The steps of a purchase in flight, for the orders.
LEMMA AchatOrdres ==
  ASSUME TypeInv, CreationSeule, OrdresTiennent, SuiviDiminue, NEW q \in Requetes,
         AchatEnVol(q)
  PROVE  OrdresTiennent'
<1>. DEFINE r == requetes[q]
            x == requetes'[q]
<1>. PICK c : c = r.objet
  OBVIOUS
<1>0. /\ RequetesTypees /\ JournalTypeOK
      /\ commandes \in [References -> RangeeCommande]
  BY DEF TypeInv, TypeOKCommande, RangeeCommande
<1>1. r.pc \in {"suivante", "initier", "conclure", "renoncer"}
  BY DEF AchatEnVol, PreparerLigne, Enregistrer, InitierPaiement, Conclure, Renoncer
<1>2. r \in Requete /\ BienPlacee(r) /\ r # Inactive
  BY <1>0, <1>1, EnCours
<1>3. /\ c \in References /\ c \notin Produits /\ OrdreTient(c)
      /\ LignesDe(c) = 1 .. Len(Panier[c]) /\ Len(Panier[c]) \in Nat
      /\ LignesSuivies(c)' \subseteq LignesSuivies(c) /\ LignesSuivies(c) \subseteq LignesDe(c)
      /\ r.ligne \in Nat
  BY <1>1, <1>2, SurCommande, LigneDuPanier, LignesDiminuent
     DEF EtapesDeCommande, OrdresTiennent, LignesSuivies, Requete
<1>4. r.pc = "suivante" => EnCreation(r)
  BY <1>2, <1>3 DEF EnCreation, BienPlacee
<1>5. Pour(q, c) /\ CreePour(q, c)
  BY <1>1, <1>2, <1>4 DEF Pour, CreePour, Cree
<1>6. CASE PreparerLigne(q)
  <2>. DEFINE p == LigneCourante(q).produit
  <2>1. r.pc = "suivante" /\ UNCHANGED <<commandes, journal, tenues>>
    BY <1>6 DEF PreparerLigne
  <2>2. /\ EnCreation(r)
        /\ \A i \in LignesSuivies(c) : i \in tenues[c] <=> i \in r.lignes
        /\ \A i \in LignesSuivies(c) : i \in r.lignes <=> i < r.ligne
    BY <1>3, <1>4, <2>1, CreateurSeul
  <2>3. CASE \E pc \in {"renoncer", "prendre"} : Passer(q, pc)
    <3>1. PICK pc \in {"renoncer", "prendre"} : Passer(q, pc)
      BY <2>3
    <3>2. Devient(q, x) /\ Deplacee(r, x, pc)
      BY <1>0, <1>2, <3>1, PasserDevient
    <3>. HIDE DEF x
    <3>3. Cree(x) /\ Reserve(x, c)
      BY <1>3, <2>2, <3>1, <3>2 DEF Deplacee, Cree, EnCreation, Reserve
    <3>. QED BY <1>3, <2>1, <2>2, <3>1, <3>2, <3>3, CreateurSuit DEF Deplacee
  <2>4. CASE produits[p].statut = "PRECOMMANDE" /\ requetes' = [requetes EXCEPT ![q].ligne = @ + 1]
    <3>1. PICK y : y = [r EXCEPT !.ligne = @ + 1]
      OBVIOUS
    <3>2. Devient(q, y)
      BY <1>0, <2>4, <3>1, UneRequete
    <3>3. /\ y # Inactive /\ y.objet = c /\ y.pc = "suivante" /\ y.defait = r.defait
          /\ y.lignes = r.lignes /\ y.ligne = r.ligne + 1
      BY <1>2, <2>1, <3>1 DEF Requete, Inactive
    <3>4. r.ligne \notin LignesSuivies(c)
      BY <2>4 DEF LignesSuivies, Suivis, EnVente, LigneCourante
    <3>5. \A i \in LignesSuivies(c)' : i \in y.lignes <=> i < y.ligne
      <4>1. SUFFICES ASSUME NEW i \in LignesSuivies(c)' PROVE i < r.ligne <=> i < r.ligne + 1
        BY <1>3, <2>2, <3>3
      <4>2. i \in Nat /\ i # r.ligne
        BY <1>3, <3>4
      <4>. QED BY <1>3, <4>2
    <3>6. Cree(y) /\ Reserve(y, c)
      BY <2>2, <3>3, <3>5 DEF Cree, EnCreation, Reserve
    <3>. QED BY <1>3, <2>1, <2>2, <3>2, <3>3, <3>6, CreateurSuit
  <2>. QED BY <1>6, <2>3, <2>4 DEF PreparerLigne
<1>7. CASE Enregistrer(q)
  <2>. DEFINE e == [Absente EXCEPT !.statut = "EN_ATTENTE"]
  <2>1. /\ r.pc = "suivante" /\ r.ligne > Len(Panier[c]) /\ Ouvrir(c) /\ Passer(q, "initier")
        /\ commandes' = [commandes EXCEPT ![c] = e] /\ UNCHANGED tenues
    BY <1>7 DEF Enregistrer
  <2>2. e \in RangeeCommande /\ e.statut = "EN_ATTENTE"
    BY DEF Absente, RangeeCommande, StatutsCommande, Statuts
  <2>. HIDE DEF e
  <2>3. /\ commandes'[c].statut = "EN_ATTENTE"
        /\ \A d \in References \ {c} : commandes'[d] = commandes[d] /\ journal'[d] = journal[d]
    BY <1>0, <1>3, <2>1, <2>2, EcrireCommande, JournalAilleurs
  <2>4. /\ commandes[c].statut = "ABSENTE"
        /\ \A i \in LignesSuivies(c) : i \in r.lignes <=> i < r.ligne
    BY <1>3, <1>4, <2>1, CreateurSeul
  <2>5. LignesSuivies(c) \subseteq r.lignes
    BY <1>3, <2>1, <2>4
  <2>6. Devient(q, x) /\ Deplacee(r, x, "initier")
    BY <1>0, <1>2, <2>1, PasserDevient
  <2>. HIDE DEF x
  <2>7. OrdreTient(c)'
    BY <1>3, <1>5, <2>1, <2>3, <2>4, <2>5, <2>6, OrdreEnregistre DEF Deplacee
  <2>. QED BY <1>3, <2>1, <2>3, <2>6, <2>7, OrdresSuivent DEF Deplacee
<1>8. CASE InitierPaiement(q) \/ Conclure(q)
  <2>1. /\ r.pc \in {"initier", "conclure"} /\ UNCHANGED <<commandes, tenues>>
        /\ EnregistrerReferenceExterne(c) \/ UNCHANGED journal
        /\ Finir(q) \/ Passer(q, "conclure") \/ Passer(q, "renoncer")
    BY <1>8 DEF InitierPaiement, Conclure
  <2>2. \A d \in References \ {c} : journal'[d] = journal[d]
    BY <1>0, <1>3, <2>1, JournalAilleurs
  <2>3. /\ Devient(q, x)
        /\ \/ x = Inactive
           \/ x # Inactive /\ x.objet = c /\ x.pc \in {"conclure", "renoncer"} /\ x.lignes = r.lignes
    <3>1. CASE Finir(q)
      BY <1>0, <3>1, UneRequete DEF Finir, Devient
    <3>2. CASE Passer(q, "conclure") \/ Passer(q, "renoncer")
      BY <1>0, <1>2, <3>2, PasserDevient DEF Deplacee
    <3>. QED BY <2>1, <3>1, <3>2
  <2>. HIDE DEF x
  <2>4. OrdreTient(c)'
    BY <1>3, <1>5, <2>1, <2>3, OrdreConclu
  <2>. QED BY <1>3, <2>1, <2>2, <2>3, <2>4, OrdresSuivent
<1>9. CASE Renoncer(q)
  <2>1. /\ r.pc = "renoncer" /\ Abandonner(c) /\ UNCHANGED tenues
        /\ commandes' = [commandes EXCEPT ![c] = Absente]
        /\ requetes' = [requetes EXCEPT ![q] = RendreApres(q, 0, r.lignes)]
        /\ perturbes' = IF commandes[c].statut \in {"ABSENTE", "EN_ATTENTE"}
                        THEN perturbes ELSE Perturbe(c)
    BY <1>9 DEF Renoncer
  <2>2. Absente \in RangeeCommande /\ Absente.statut = "ABSENTE"
    BY DEF Absente, RangeeCommande, Statuts
  <2>3. /\ commandes'[c] = Absente
        /\ \A d \in References \ {c} : commandes'[d] = commandes[d] /\ journal'[d] = journal[d]
    BY <1>0, <1>3, <2>1, <2>2, EcrireCommande, JournalAilleurs
  <2>4. \/ LignesSuivies(c)' = {}
        \/ Vivante(c) /\ LignesSuivies(c) \subseteq r.lignes
        \/ CreePour(q, c) /\ commandes[c].statut = "ABSENTE"
    <3>1. CASE commandes[c].statut = "EN_ATTENTE"
      BY <1>3, <1>5, <3>1 DEF Vivante, StatutsCommande, OrdreTient, CreationConnue
    <3>2. CASE commandes[c].statut \notin {"ABSENTE", "EN_ATTENTE"}
      BY <1>3, <2>1, <3>2, PerturbeeSansLigne
    <3>. QED BY <1>5, <3>1, <3>2
  <2>5. PICK y : y = RendreApres(q, 0, r.lignes)
    OBVIOUS
  <2>6. Devient(q, y) /\ (y = Inactive \/ y.objet = c)
    <3>1. requetes' = [requetes EXCEPT ![q] = y]
      BY <2>1, <2>5
    <3>2. Devient(q, y)
      BY <1>0, <3>1, UneRequete
    <3>3. r.objet \in References /\ 0 \in Nat
      BY <1>3
    <3>4. y # Inactive => y.objet = r.objet
      BY <1>2, <2>5, <3>3, ResteApres
    <3>. QED BY <3>2, <3>4
  <2>7. ~Vivante(c)'
    BY <2>2, <2>3 DEF Vivante, StatutsCommande
  <2>8. OrdreTient(c)'
    BY <1>2, <1>3, <1>5, <2>1, <2>4, <2>5, <2>6, <2>7, OrdreDefait
  <2>. QED BY <1>3, <2>1, <2>3, <2>6, <2>8, OrdresSuivent
<1>. QED BY <1>6, <1>7, <1>8, <1>9 DEF AchatEnVol

\* A request about order c, in flight, that neither creates it nor gives it back,
\* and ends.
LEMMA FinMemeRole ==
  ASSUME NEW q \in Requetes, NEW c, Devient(q, Inactive),
         requetes[q].pc \in {"lire", "ecrire", "transiter"}
  PROVE  MemeRole(q, c)
BY DEF MemeRole, CreePour, RendPour, Pour, Devient, Cree, EnCreation, ResteARendre, Rend

\* The steps that follow an order, for the orders.
LEMMA SuiviOrdres ==
  ASSUME TypeInv, TransitionsPermises, OrdresTiennent, SuiviDiminue, NEW q \in Requetes,
         SuiviEnVol(q)
  PROVE  OrdresTiennent'
<1>. DEFINE r == requetes[q]
            x == requetes'[q]
<1>. PICK c : c = r.objet
  OBVIOUS
<1>0. /\ RequetesTypees /\ JournalTypeOK
      /\ commandes \in [References -> RangeeCommande]
  BY DEF TypeInv, TypeOKCommande, RangeeCommande
<1>1. r.pc \in {"lire", "ecrire", "transiter"} /\ UNCHANGED <<journal, tenues>>
  BY DEF SuiviEnVol, LireCommande, Confirmer, Echouer, Transiter
<1>2. r \in Requete /\ BienPlacee(r) /\ r # Inactive
  BY <1>0, <1>1, EnCours
<1>3. /\ c \in References /\ c \notin Produits /\ OrdreTient(c) /\ Pour(q, c)
      /\ LignesSuivies(c)' \subseteq LignesSuivies(c)
      /\ commandes[c] \in RangeeCommande
  BY <1>0, <1>1, <1>2, SurCommande, LignesDiminuent
     DEF EtapesDeCommande, OrdresTiennent, Pour
<1>4. ASSUME Finir(q), OrdreReste(c), \A d \in References \ {c} : commandes'[d] = commandes[d]
      PROVE  OrdresTiennent'
  <2>1. Devient(q, Inactive)
    BY <1>0, <1>4, UneRequete DEF Finir
  <2>2. OrdreTient(c)'
    BY <1>1, <1>3, <1>4, <2>1, FinMemeRole, OrdreMemeRole
  <2>. QED BY <1>1, <1>3, <1>4, <2>1, <2>2, OrdresSuivent
<1>5. ASSUME requetes' = [requetes EXCEPT ![q] = RendreApres(q, 0, r.lignes)],
             \/ LignesSuivies(c)' = {}
             \/ Vivante(c) /\ LignesSuivies(c) \subseteq r.lignes,
             ~Vivante(c)',
             commandes'[c].statut = "ABSENTE" => commandes[c].statut = "ABSENTE",
             \A d \in References \ {c} : commandes'[d] = commandes[d]
      PROVE  OrdresTiennent'
  <2>1. PICK y : y = RendreApres(q, 0, r.lignes)
    OBVIOUS
  <2>2. Devient(q, y)
    BY <1>0, <1>5, <2>1, UneRequete
  <2>3. y = Inactive \/ y.objet = c
    <3>1. r.objet \in References /\ 0 \in Nat
      BY <1>3
    <3>. QED BY <1>2, <2>1, <3>1, ResteApres
  <2>4. OrdreTient(c)'
    BY <1>1, <1>2, <1>3, <1>5, <2>1, <2>2, OrdreDefait
  <2>. QED BY <1>1, <1>3, <1>5, <2>2, <2>3, <2>4, OrdresSuivent
<1>6. CASE LireCommande(q)
  <2>1. UNCHANGED commandes
    BY <1>6 DEF LireCommande
  <2>2. OrdreReste(c)
    BY <1>1, <1>3, <2>1 DEF OrdreReste, Vivante
  <2>3. CASE requetes' = [requetes EXCEPT ![q].pc = "ecrire", ![q].lignes = ARendre(c)]
    <3>1. PICK y : y = [r EXCEPT !.pc = "ecrire", !.lignes = ARendre(c)]
      OBVIOUS
    <3>2. Devient(q, y)
      BY <1>0, <2>3, <3>1, UneRequete
    <3>3. y # Inactive /\ y.objet = c /\ y.pc = "ecrire" /\ y.lignes = ARendre(c)
      BY <1>2, <3>1 DEF Requete, Inactive
    <3>4. MemeRole(q, c)
      <4>1. ~CreePour(q, c) /\ ~CreePour(q, c)'
        BY <1>1, <3>2, <3>3 DEF CreePour, Cree, EnCreation, Devient
      <4>2. \A i : ~RendPour(q, c, i)' /\ ~RendPour(q, c, i)
        BY <1>1, <3>2, <3>3 DEF RendPour, ResteARendre, Rend, Devient
      <4>. QED BY <1>3, <3>2, <3>3, <4>1, <4>2, LignesARendre DEF MemeRole, Devient
    <3>5. OrdreTient(c)'
      BY <1>3, <2>2, <3>2, <3>4, OrdreMemeRole
    <3>. QED BY <1>1, <1>3, <2>1, <3>2, <3>3, <3>5, OrdresSuivent
  <2>. QED BY <1>4, <1>6, <2>1, <2>2, <2>3 DEF LireCommande
<1>7. CASE Confirmer(q)
  <2>. DEFINE e == [statut |-> "PAYEE", paiement |-> "COMPLETE"]
  <2>1. /\ Finir(q)
        /\ \/ UNCHANGED commandes
           \/ /\ commandes[c].statut \notin {"ABSENTE", "ANNULEE"}
              /\ commandes' = [commandes EXCEPT ![c] = e]
    BY <1>7 DEF Confirmer
  <2>2. e \in RangeeCommande /\ e.statut = "PAYEE"
    BY DEF RangeeCommande, StatutsCommande, Statuts
  <2>. HIDE DEF e
  <2>3. /\ \A d \in References \ {c} : commandes'[d] = commandes[d]
        /\ \/ commandes'[c] = commandes[c]
           \/ commandes[c].statut \notin {"ABSENTE", "ANNULEE"} /\ commandes'[c].statut = "PAYEE"
    BY <1>3, <2>1, <2>2, EcrireCommande
  <2>4. OrdreReste(c)
    BY <1>1, <1>3, <2>3 DEF OrdreReste, Vivante, RangeeCommande, StatutsCommande
  <2>. QED BY <1>4, <2>1, <2>3, <2>4
<1>8. CASE Echouer(q)
  <2>. DEFINE e == [statut |-> "ANNULEE", paiement |-> "ECHOUE"]
  <2>1. CASE commandes[c].statut = "EN_ATTENTE"
    <3>1. /\ commandes' = [commandes EXCEPT ![c] = e] /\ r.pc = "ecrire"
          /\ requetes' = [requetes EXCEPT ![q] = RendreApres(q, 0, r.lignes)]
      BY <1>8, <2>1 DEF Echouer
    <3>2. e \in RangeeCommande /\ e.statut = "ANNULEE"
      BY DEF RangeeCommande, StatutsCommande, Statuts
    <3>. HIDE DEF e
    <3>3. commandes'[c].statut = "ANNULEE" /\ \A d \in References \ {c} : commandes'[d] = commandes[d]
      BY <1>3, <3>1, <3>2, EcrireCommande
    <3>4. ~Vivante(c)' /\ Vivante(c)
      BY <2>1, <3>3 DEF Vivante, StatutsCommande
    <3>5. LignesSuivies(c) \subseteq r.lignes
      BY <1>3, <3>1 DEF OrdreTient, LignesLues
    <3>. QED BY <1>5, <3>1, <3>3, <3>4, <3>5
  <2>2. CASE commandes[c].statut # "EN_ATTENTE"
    <3>1. Finir(q) /\ UNCHANGED commandes
      BY <1>8, <2>2 DEF Echouer
    <3>2. OrdreReste(c)
      BY <1>1, <1>3, <3>1 DEF OrdreReste, Vivante
    <3>. QED BY <1>4, <3>1, <3>2
  <2>. QED BY <2>1, <2>2
<1>9. CASE Transiter(q)
  <2>. DEFINE e == [commandes[c] EXCEPT !.statut = Vers[r.op]]
  <2>1. /\ perturbes' = IF commandes[c].statut = r.vu THEN perturbes ELSE Perturbe(c)
        /\ r.pc = "transiter"
        /\ \/ UNCHANGED commandes /\ commandes[c] = Absente
           \/ commandes' = [commandes EXCEPT ![c] = e]
        /\ requetes' = [requetes EXCEPT ![q] =
             IF r.op = "annuler" THEN RendreApres(q, 0, r.lignes) ELSE Inactive]
    BY <1>9 DEF Transiter
  <2>2. /\ r.op \in DOMAIN Vers /\ r.vu \in StatutsCommande
        /\ Vers[r.op] \in TRANSITIONS[r.vu]
    BY <1>2, <2>1 DEF TransitionsPermises, TransitionPermise
  <2>3. /\ Vers[r.op] \in {"ANNULEE", "PRETE", "RETIREE"}
        /\ r.op = "annuler" <=> Vers[r.op] = "ANNULEE"
        /\ r.vu \in {"EN_ATTENTE", "PAYEE", "PRETE"}
    BY <2>2 DEF Vers, TRANSITIONS, StatutsCommande
  <2>4. e \in RangeeCommande /\ e.statut = Vers[r.op]
    BY <1>3, <2>3 DEF RangeeCommande, StatutsCommande
  <2>. HIDE DEF e
  <2>5. /\ \A d \in References \ {c} : commandes'[d] = commandes[d]
        /\ \/ commandes'[c] = commandes[c] /\ commandes[c].statut = "ABSENTE"
           \/ commandes'[c].statut = Vers[r.op]
    <3>1. CASE UNCHANGED commandes /\ commandes[c] = Absente
      BY <3>1 DEF Absente
    <3>2. CASE commandes' = [commandes EXCEPT ![c] = e]
      BY <1>3, <2>4, <3>2, EcrireCommande
    <3>. QED BY <2>1, <3>1, <3>2
  <2>6. commandes'[c].statut = "ABSENTE" => commandes[c].statut = "ABSENTE"
    BY <2>3, <2>5
  <2>7. \/ LignesSuivies(c)' = {}
        \/ commandes[c].statut = r.vu /\ Vivante(c) /\ LignesSuivies(c) \subseteq r.lignes
    <3>1. CASE commandes[c].statut = r.vu
      BY <1>3, <2>1, <2>3, <3>1 DEF Vivante, StatutsCommande, OrdreTient, LignesLues
    <3>2. CASE commandes[c].statut # r.vu
      BY <1>3, <2>1, <3>2, PerturbeeSansLigne
    <3>. QED BY <3>1, <3>2
  <2>8. CASE r.op = "annuler"
    <3>1. ~Vivante(c)'
      BY <2>3, <2>5, <2>8 DEF Vivante, StatutsCommande
    <3>. QED BY <1>5, <2>1, <2>5, <2>6, <2>7, <2>8, <3>1
  <2>9. CASE r.op # "annuler"
    <3>1. Finir(q)
      BY <2>1, <2>9 DEF Finir
    <3>2. OrdreReste(c)
      BY <1>1, <1>3, <2>3, <2>5, <2>6, <2>7, <2>9 DEF OrdreReste, Vivante, StatutsCommande
    <3>. QED BY <1>4, <2>5, <3>1, <3>2
  <2>. QED BY <2>8, <2>9
<1>. QED BY <1>6, <1>7, <1>8, <1>9 DEF SuiviEnVol

\* A request that creates an order nobody has heard of.
LEMMA CreerOrdres ==
  ASSUME TypeInv, OrdresTiennent, SuiviDiminue, NEW q \in Requetes, NEW c \in References,
         Creer(q, c)
  PROVE  OrdresTiennent'
<1>1. /\ requetes[q] = Inactive /\ commandes[c] = Absente /\ journal[c].statut = "ABSENTE"
      /\ \A o \in Requetes : ~Pour(o, c)
      /\ UNCHANGED <<journal, commandes, tenues>>
  BY DEF Creer, EnVol, Pour
<1>2. PICK x : x = Demande("creer", "suivante", c, {}) /\ requetes' = [requetes EXCEPT ![q] = x]
  BY DEF Creer
<1>3. /\ Devient(q, x) /\ x # Inactive /\ x.objet = c /\ x.pc = "suivante"
      /\ x.ligne = 1 /\ x.lignes = {} /\ ~x.defait
  <2>1. RequetesTypees
    BY DEF TypeInv
  <2>2. Devient(q, x)
    BY <1>2, <2>1, UneRequete
  <2>. QED BY <1>2, <2>2 DEF Demande, Inactive
<1>4. LignesSuivies(c)' \subseteq LignesSuivies(c) /\ LignesSuivies(c) \subseteq Nat \ {0}
  <2>1. LignesDe(c) \subseteq Nat \ {0}
    BY LigneDuPanier
  <2>. QED BY <2>1, LignesDiminuent DEF LignesSuivies
<1>5. ~Vivante(c)
  BY <1>1 DEF Vivante, Absente, StatutsCommande
<1>6. \A i \in LignesSuivies(c) : i \notin tenues[c]
  BY <1>1, <1>5 DEF OrdresTiennent, OrdreTient, MortesRendent, CreePour, RendPour
<1>7. Cree(x)
  BY <1>3 DEF Cree, EnCreation
<1>8. Reserve(x, c)
  BY <1>3, <1>4 DEF Reserve
<1>9. commandes'[c].statut = "ABSENTE" /\ journal'[c].statut = "ABSENTE"
  BY <1>1 DEF Absente
<1>10. OrdreTient(c)'
  BY <1>1, <1>3, <1>4, <1>6, <1>7, <1>8, <1>9, OrdreSeul
<1>. QED BY <1>1, <1>3, <1>10, OrdresSuivent

\* An issue or a transition that starts, for the orders.
LEMMA SuiviNouveauOrdres ==
  ASSUME TypeInv, OrdresTiennent, SuiviDiminue, NEW q \in Requetes, SuiviNouveau(q)
  PROVE  OrdresTiennent'
<1>1. ASSUME NEW c \in References, NEW op, NEW pc \in {"lire", "transiter"}, NEW lignes,
             requetes[q] = Inactive,
             requetes' = [requetes EXCEPT ![q] = Demande(op, pc, c, lignes)],
             UNCHANGED <<commandes, tenues>>,
             \A d \in References \ {c} : journal'[d] = journal[d],
             journal[c].statut = "ABSENTE" => journal'[c].statut = "ABSENTE",
             pc = "transiter" => LignesSuivies(c) \subseteq lignes,
             commandes[c].statut # "ABSENTE" \/ journal[c].statut # "ABSENTE"
      PROVE  OrdresTiennent'
  <2>. PICK x : x = Demande(op, pc, c, lignes)
    OBVIOUS
  <2>1. Devient(q, x) /\ x # Inactive /\ x.objet = c /\ x.pc = pc /\ x.lignes = lignes
    <3>1. RequetesTypees
      BY DEF TypeInv
    <3>2. Devient(q, x)
      BY <1>1, <3>1, UneRequete
    <3>. QED BY <3>2 DEF Demande, Inactive
  <2>2. OrdreReste(c)
    BY <1>1, LignesDiminuent DEF OrdreReste, Vivante
  <2>3. MemeRole(q, c)
    <3>1. ~CreePour(q, c) /\ ~CreePour(q, c)'
      BY <1>1, <2>1 DEF CreePour, Pour, Cree, EnCreation, Devient
    <3>2. \A i : ~RendPour(q, c, i)' /\ ~RendPour(q, c, i)
      BY <1>1, <2>1 DEF RendPour, Pour, ResteARendre, Rend, Devient
    <3>. QED BY <1>1, <2>1, <3>1, <3>2 DEF MemeRole, Devient
  <2>4. OrdreTient(c)'
    BY <1>1, <2>1, <2>2, <2>3, OrdreMemeRole DEF OrdresTiennent
  <2>. QED BY <1>1, <2>1, <2>4, OrdresSuivent
<1>2. ASSUME NEW c \in References, NEW i \in {"COMPLETE", "ECHOUE"},
             RecevoirIssueCommande(q, c, i)
      PROVE  OrdresTiennent'
  <2>1. PICK op, lignes : requetes' = [requetes EXCEPT ![q] = Demande(op, "lire", c, lignes)]
    BY <1>2 DEF RecevoirIssueCommande
  <2>2. /\ requetes[q] = Inactive /\ AppliquerAffecte(c, i) /\ Appliquer(c, i)
        /\ UNCHANGED <<commandes, tenues>>
    BY <1>2 DEF RecevoirIssueCommande
  <2>3. \A d \in References \ {c} : journal'[d] = journal[d]
    BY <2>2, JournalAilleurs DEF TypeInv, TypeOKCommande
  <2>. QED BY <1>1, <2>1, <2>2, <2>3 DEF AppliquerAffecte
<1>3. ASSUME NEW c \in References, NEW op \in DOMAIN Vers, LireTransition(q, op, c)
      PROVE  OrdresTiennent'
  <2>1. PICK lignes : /\ requetes' = [requetes EXCEPT ![q] = Demande(op, "transiter", c, lignes)]
                      /\ lignes = ARendre(c)
    BY <1>3 DEF LireTransition
  <2>2. /\ requetes[q] = Inactive /\ commandes[c].statut # "ABSENTE"
        /\ UNCHANGED <<commandes, tenues, journal>>
    BY <1>3 DEF LireTransition, Enregistrees
  <2>. QED BY <1>1, <2>1, <2>2, LignesARendre
<1>. QED BY <1>2, <1>3 DEF SuiviNouveau

\* The buyer who pays and the treasury that takes a proof back leave a living order
\* living.
LEMMA TresorerieOrdres ==
  ASSUME TypeInv, OrdresTiennent, SuiviDiminue, NEW c \in References, Regler(c) \/ Defaire(c)
  PROVE  OrdresTiennent'
<1>0. JournalTypeOK /\ commandes \in [References -> RangeeCommande]
  BY DEF TypeInv, TypeOKCommande, RangeeCommande
<1>1. UNCHANGED <<requetes, tenues>>
  BY DEF Regler, Defaire
<1>2. /\ \A d \in References \ {c} : commandes'[d] = commandes[d]
      /\ \/ commandes'[c] = commandes[c]
         \/ commandes[c].statut = "PAYEE" /\ commandes'[c].statut = "EN_ATTENTE"
  <2>1. CASE Regler(c)
    BY <2>1 DEF Regler
  <2>2. CASE Defaire(c)
    <3>. DEFINE e == [statut |-> "EN_ATTENTE", paiement |-> "EN_ATTENTE"]
    <3>1. e \in RangeeCommande /\ e.statut = "EN_ATTENTE"
      BY DEF RangeeCommande, StatutsCommande, Statuts
    <3>2. \/ UNCHANGED commandes
          \/ commandes[c].statut = "PAYEE" /\ commandes' = [commandes EXCEPT ![c] = e]
      BY <2>2 DEF Defaire
    <3>. HIDE DEF e
    <3>. QED BY <3>1, <3>2, EcrireCommande
  <2>. QED BY <2>1, <2>2
<1>3. \A d \in References : journal[d].statut = "ABSENTE" => journal'[d].statut = "ABSENTE"
  <2>1. CASE Regler(c)
    BY <2>1 DEF Regler
  <2>2. CASE Defaire(c)
    BY <1>0, <2>2, JournalAilleurs DEF Defaire
  <2>. QED BY <2>1, <2>2
<1>4. ASSUME NEW d \in References PROVE OrdreTient(d)'
  <2>1. OrdreReste(d)
    BY <1>1, <1>2, <1>3, LignesDiminuent DEF OrdreReste, Vivante, StatutsCommande
  <2>. QED BY <1>1, <2>1, OrdreSuitRole DEF OrdresTiennent
<1>. QED BY <1>4 DEF OrdresTiennent

\* Every step of the system keeps what the orders hold.
LEMMA OrdresEtape ==
  ASSUME IInv, OrdresTiennent, SuiviDiminue, [NextCommande]_varsCommande
  PROVE  OrdresTiennent'
<1>. USE DEF IInv
<1>1. ASSUME NEW q \in Requetes, Boutique(q) \/ Achat(q) \/ Suivi(q) PROVE OrdresTiennent'
  BY <1>1, EtapesDUneRequete, BoutiqueOrdres, AchatOrdres, SuiviOrdres, SuiviNouveauOrdres,
     CreerOrdres
<1>2. ASSUME NEW c \in References, Regler(c) \/ Defaire(c) PROVE OrdresTiennent'
  BY <1>2, TresorerieOrdres
<1>3. CASE UNCHANGED varsCommande
  <2>1. \A c \in References : OrdreReste(c)
    BY <1>3, LignesDiminuent DEF varsCommande, OrdreReste, Vivante
  <2>2. \A o \in Requetes : requetes'[o] = requetes[o]
    BY <1>3 DEF varsCommande
  <2>. QED BY <2>1, <2>2, OrdreSuitRole DEF OrdresTiennent
<1>. QED BY <1>1, <1>2, <1>3 DEF NextCommande

------------------------------------------------------------------------------
(* What is saved, and what stays followed.                                 *)

AVendre == {"DISPONIBLE", "RUPTURE"}

\* The catalogue shows what is in stock.
Coherente(l) == l.statut = "DISPONIBLE" <=> l.stock > 0

\* The row to save holds the stock that was read, and puts no product back on sale.
Sauvegarde(r) ==
  r.pc = "sauver" =>
    /\ r.ecrit.stock = r.lu.stock
    /\ r.ecrit.statut \in AVendre => r.lu.statut \in AVendre /\ Coherente(r.ecrit)

SauvegardesTiennent == \A q \in Requetes : Sauvegarde(requetes[q])

\* A row saved with the status of its stock puts nothing back on sale.
LEMMA StatutCoherent ==
  ASSUME NEW l \in RangeeProduit, NEW e, e = [l EXCEPT !.statut = statutSelonStock(l, l.stock)]
  PROVE  /\ e.stock = l.stock
         /\ e.statut = statutSelonStock(l, l.stock)
         /\ e.statut \in AVendre => l.statut \in AVendre /\ Coherente(e)
BY DEF RangeeProduit, statutSelonStock, AVendre, Coherente, StatutsProduit

\* A step of a request moves this request only.
LEMMA QuiBouge ==
  ASSUME TypeInv, NEW q \in Requetes, Boutique(q) \/ Achat(q) \/ Suivi(q)
  PROVE  Devient(q, requetes'[q])
<1>1. \E x : requetes' = [requetes EXCEPT ![q] = x]
  BY EtapesDUneRequete, BoutiqueAvance, AchatAvance, SuiviAvance, BoutiqueCommence,
     SuiviCommence, CreerCommence DEF Avance, Commence, Nouvelle
<1>2. RequetesTypees
  BY DEF TypeInv
<1>3. PICK x : requetes' = [requetes EXCEPT ![q] = x]
  BY <1>1
<1>4. Devient(q, x)
  BY <1>2, <1>3, UneRequete
<1>. QED BY <1>4 DEF Devient

\* The steps at which a request is about to touch a counter, or has just done so.
Mouvements == {"prendreTotal", "rendreTotal", "rafraichir", "sauver", "regarnir", "totaliser"}

\* The steps of CommandeService come from, and lead to, steps that move no stock.
LEMMA CommandeSansMouvement ==
  ASSUME TypeInv, NEW q \in Requetes,
         \/ AchatEnVol(q) \/ SuiviEnVol(q) \/ SuiviNouveau(q)
         \/ \E c \in References : Creer(q, c)
  PROVE  requetes[q].pc \notin Mouvements /\ requetes'[q].pc \notin Mouvements
<1>. DEFINE r == requetes[q]
            x == requetes'[q]
<1>0. RequetesTypees
  BY DEF TypeInv
<1>1. requetes[q].pc \notin Mouvements
  BY DEF AchatEnVol, SuiviEnVol, SuiviNouveau, PreparerLigne, Enregistrer, InitierPaiement,
     Conclure, Renoncer, LireCommande, Confirmer, Echouer, Transiter, RecevoirIssueCommande,
     LireTransition, Creer, Mouvements, Inactive
<1>2. CASE AchatEnVol(q) \/ SuiviEnVol(q)
  <2>1. r.pc \in EtapesDeCommande
    BY <1>2 DEF AchatEnVol, SuiviEnVol, PreparerLigne, Enregistrer, InitierPaiement,
       Conclure, Renoncer, LireCommande, Confirmer, Echouer, Transiter, EtapesDeCommande
  <2>2. r \in Requete /\ BienPlacee(r) /\ r.objet \in References /\ 0 \in Nat
    BY <1>0, <2>1, EnCours, SurCommande DEF EtapesDeCommande
  <2>3. CASE Finir(q)
    BY <1>0, <1>1, <2>3, UneRequete DEF Finir, Devient, Inactive, Mouvements
  <2>4. CASE \E pc \in {"renoncer", "prendre", "initier", "conclure"} : Passer(q, pc)
    BY <1>0, <1>1, <2>2, <2>4, PasserDevient DEF Deplacee, Mouvements
  <2>5. CASE requetes' = [requetes EXCEPT ![q] = RendreApres(q, 0, r.lignes)]
    <3>1. PICK y : y = RendreApres(q, 0, r.lignes)
      OBVIOUS
    <3>2. y = Inactive \/ y.pc = "rendre"
      BY <2>2, <3>1, ResteApres
    <3>3. x = y
      BY <1>0, <2>5, <3>1, UneRequete DEF Devient
    <3>. QED BY <1>1, <3>2, <3>3 DEF Inactive, Mouvements
  <2>6. CASE r.pc = "suivante" /\ requetes' = [requetes EXCEPT ![q].ligne = @ + 1]
    <3>1. PICK y : y = [r EXCEPT !.ligne = @ + 1]
      OBVIOUS
    <3>2. x = y
      BY <1>0, <2>6, <3>1, UneRequete DEF Devient
    <3>3. y.pc = "suivante"
      BY <2>2, <2>6, <3>1 DEF Requete
    <3>. QED BY <1>1, <3>2, <3>3 DEF Mouvements
  <2>7. CASE requetes' = [requetes EXCEPT ![q].pc = "ecrire", ![q].lignes = ARendre(r.objet)]
    <3>1. PICK lignes : lignes = ARendre(r.objet)
      OBVIOUS
    <3>4. PICK y : y = [r EXCEPT !.pc = "ecrire", !.lignes = lignes]
      OBVIOUS
    <3>5. requetes' = [requetes EXCEPT ![q] = y]
      BY <2>7, <3>1, <3>4
    <3>2. x = y
      BY <1>0, <3>5, UneRequete DEF Devient
    <3>3. y.pc = "ecrire"
      BY <2>2, <3>4 DEF Requete
    <3>. QED BY <1>1, <3>2, <3>3 DEF Mouvements
  <2>8. \/ Finir(q)
        \/ \E pc \in {"renoncer", "prendre", "initier", "conclure"} : Passer(q, pc)
        \/ requetes' = [requetes EXCEPT ![q] = RendreApres(q, 0, r.lignes)]
        \/ r.pc = "suivante" /\ requetes' = [requetes EXCEPT ![q].ligne = @ + 1]
        \/ requetes' = [requetes EXCEPT ![q].pc = "ecrire", ![q].lignes = ARendre(r.objet)]
    <3>1. CASE AchatEnVol(q)
      BY <3>1 DEF AchatEnVol, PreparerLigne, Enregistrer, InitierPaiement, Conclure, Renoncer
    <3>2. CASE SuiviEnVol(q)
      BY <3>2 DEF SuiviEnVol, LireCommande, Confirmer, Echouer, Transiter, Finir
    <3>. QED BY <1>2, <3>1, <3>2
  <2>. QED BY <1>1, <2>3, <2>4, <2>5, <2>6, <2>7, <2>8
<1>3. CASE SuiviNouveau(q) \/ \E c \in References : Creer(q, c)
  <2>1. \E op, c, lignes : \E pc \in {"suivante", "lire", "transiter"} :
          requetes' = [requetes EXCEPT ![q] = Demande(op, pc, c, lignes)]
    BY <1>3 DEF SuiviNouveau, Creer, RecevoirIssueCommande, LireTransition
  <2>2. PICK op, c, lignes : \E pc \in {"suivante", "lire", "transiter"} :
          requetes' = [requetes EXCEPT ![q] = Demande(op, pc, c, lignes)]
    BY <2>1
  <2>3. PICK pc \in {"suivante", "lire", "transiter"} :
          requetes' = [requetes EXCEPT ![q] = Demande(op, pc, c, lignes)]
    BY <2>2
  <2>4. PICK y : y = Demande(op, pc, c, lignes)
    OBVIOUS
  <2>5. requetes' = [requetes EXCEPT ![q] = y]
    BY <2>3, <2>4
  <2>6. x = y
    BY <1>0, <2>5, UneRequete DEF Devient
  <2>7. y.pc = pc
    BY <2>4 DEF Demande
  <2>. QED BY <1>1, <2>3, <2>6, <2>7 DEF Mouvements
<1>. QED BY <1>2, <1>3

\* A request that moves stock holds a product of the shop.
LEMMA ProduitEnMouvement ==
  ASSUME TypeInv, NEW q \in Requetes,
         requetes[q].pc \in EtapesDeLigne \cup EtapesDeGrille
  PROVE  /\ requetes[q] \in Requete /\ BienPlacee(requetes[q]) /\ requetes[q] # Inactive
         /\ ProduitDe(q) \in Produits /\ produits[ProduitDe(q)] \in RangeeProduit
<1>1. requetes[q] \in Requete /\ BienPlacee(requetes[q]) /\ requetes[q] # Inactive
  BY EnCours DEF TypeInv, EtapesDeLigne, EtapesDeGrille
<1>2. ProduitDe(q) \in Produits
  BY <1>1, ProduitTypee
<1>. QED BY <1>1, <1>2 DEF TypeInv, TypeOKCommande, RangeeProduit

\* The refresh either ends there, the status being right, or reads the row to save
\* it with the right one.
LEMMA RafraichirLit ==
  ASSUME TypeInv, NEW q \in Requetes, Rafraichir(q)
  PROVE  LET p == ProduitDe(q)
             juste == statutSelonStock(produits[p], produits[p].stock)
             x == requetes'[q]
         IN  \/ juste = produits[p].statut /\ Continuer(q)
             \/ /\ x # Inactive /\ x.pc = "sauver" /\ x.lu = produits[p]
                /\ x.ecrit = [produits[p] EXCEPT !.statut = juste]
                /\ x.objet = requetes[q].objet /\ x.ligne = requetes[q].ligne
<1>1. requetes[q].pc = "rafraichir"
  BY DEF Rafraichir
<1>2. requetes[q] \in Requete /\ RequetesTypees
  BY <1>1, ProduitEnMouvement DEF EtapesDeLigne, TypeInv
<1>3. PICK p, juste, e : /\ p = ProduitDe(q)
                         /\ juste = statutSelonStock(produits[p], produits[p].stock)
                         /\ e = [produits[p] EXCEPT !.statut = juste]
  OBVIOUS
<1>4. \/ juste = produits[p].statut /\ Continuer(q)
      \/ requetes' = [requetes EXCEPT ![q].pc = "sauver", ![q].lu = produits[p], ![q].ecrit = e]
  BY <1>3 DEF Rafraichir
<1>5. CASE requetes' = [requetes EXCEPT ![q].pc = "sauver", ![q].lu = produits[p], ![q].ecrit = e]
  <2>1. PICK y : y = [requetes[q] EXCEPT !.pc = "sauver", !.lu = produits[p], !.ecrit = e]
    OBVIOUS
  <2>2. requetes'[q] = y
    <3>1. Devient(q, y)
      BY <1>2, <1>5, <2>1, UneRequete
    <3>. QED BY <3>1 DEF Devient
  <2>3. /\ y # Inactive /\ y.pc = "sauver" /\ y.lu = produits[p] /\ y.ecrit = e
        /\ y.objet = requetes[q].objet /\ y.ligne = requetes[q].ligne
    BY <1>2, <2>1 DEF Requete, Inactive
  <2>. QED BY <1>3, <2>2, <2>3
<1>. QED BY <1>3, <1>4, <1>5

\* After the refresh of a product the request moves no stock.
LEMMA ContinuerSansMouvement ==
  ASSUME TypeInv, NEW q \in Requetes, requetes[q].pc \in {"rafraichir", "sauver"},
         Continuer(q)
  PROVE  requetes'[q].pc \notin Mouvements
<1>1. requetes[q] \in Requete /\ BienPlacee(requetes[q]) /\ RequetesTypees
  BY ProduitEnMouvement DEF EtapesDeLigne, TypeInv
<1>2. CASE requetes[q].objet \in References /\ requetes[q].defait
  <2>1. PICK y : y = RendreApres(q, requetes[q].ligne, requetes[q].lignes)
    OBVIOUS
  <2>2. requetes'[q] = y /\ requetes[q].ligne \in Nat
    BY <1>1, <1>2, <2>1, ContinuerDevient DEF Requete
  <2>3. y = Inactive \/ y.pc = "rendre"
    BY <1>1, <1>2, <2>1, <2>2, ResteApres
  <2>. QED BY <2>2, <2>3 DEF Inactive, Mouvements
<1>3. CASE requetes[q].objet \in Produits
  BY <1>1, <1>3, ContinuerDevient DEF Inactive, Mouvements
<1>4. CASE requetes[q].objet \in References /\ ~requetes[q].defait
  BY <1>1, <1>4, ContinuerDevient DEF Mouvements
<1>. QED BY <1>1, <1>2, <1>3, <1>4 DEF Requete

\* What the gestures of the office read and will save.
LEMMA ModifierLit ==
  ASSUME TypeInv, NEW q \in Requetes, NEW p \in Produits, Modifier(q, p)
  PROVE  LET x == requetes'[q]
         IN  /\ requetes[q] = Inactive
             /\ x # Inactive /\ x.pc = "sauver" /\ x.objet = p /\ Sauvegarde(x)
<1>. DEFINE l == produits[p]
<1>1. PICK selon, avance, retire :
         /\ selon = [l EXCEPT !.statut = statutSelonStock(l, l.stock)]
         /\ avance = [l EXCEPT !.statut = "PRECOMMANDE"]
         /\ retire = [l EXCEPT !.statut = "RETIRE"]
  OBVIOUS
<1>2. PICK op, e : e \in {selon, avance, retire} /\ Geste(q, op, "sauver", p, e)
  <2>1. \/ Geste(q, "modifier", "sauver", p, selon)
        \/ Geste(q, "precommander", "sauver", p, avance)
        \/ Geste(q, "retirer", "sauver", p, retire)
    BY <1>1 DEF Modifier
  <2>. QED BY <2>1
<1>3. l \in RangeeProduit /\ RequetesTypees
  BY DEF TypeInv, TypeOKCommande, RangeeProduit
<1>. HIDE DEF l
<1>4. /\ e.stock = l.stock
      /\ e.statut \in AVendre => l.statut \in AVendre /\ Coherente(e)
  <2>1. CASE e = selon
    BY <1>1, <1>3, <2>1, StatutCoherent
  <2>2. CASE e = avance \/ e = retire
    BY <1>1, <1>3, <2>2 DEF RangeeProduit, AVendre
  <2>. QED BY <1>2, <2>1, <2>2
<1>. QED BY <1>2, <1>3, <1>4, GesteDevient DEF Sauvegarde, l

\* Every step of a request keeps what is about to be saved.
LEMMA SauvegardesSuivent ==
  ASSUME TypeInv, SauvegardesTiennent, NEW q \in Requetes, Boutique(q) \/ Achat(q) \/ Suivi(q)
  PROVE  SauvegardesTiennent'
<1>0. RequetesTypees
  BY DEF TypeInv
<1>1. Devient(q, requetes'[q])
  BY QuiBouge
<1>2. SUFFICES Sauvegarde(requetes'[q])
  BY <1>1 DEF SauvegardesTiennent, Devient, Sauvegarde, Coherente
<1>3. ASSUME requetes'[q].pc # "sauver" PROVE Sauvegarde(requetes'[q])
  BY <1>3 DEF Sauvegarde
<1>4. CASE Rafraichir(q)
  <2>1. requetes[q].pc = "rafraichir"
    BY <1>4 DEF Rafraichir
  <2>2. produits[ProduitDe(q)] \in RangeeProduit
    BY <2>1, ProduitEnMouvement DEF EtapesDeLigne
  <2>3. CASE Continuer(q)
    BY <1>3, <2>1, <2>3, ContinuerSansMouvement DEF Mouvements
  <2>4. CASE ~Continuer(q)
    <3>1. PICK l, e : l = produits[ProduitDe(q)] /\ e = [l EXCEPT !.statut = statutSelonStock(l, l.stock)]
      OBVIOUS
    <3>2. requetes'[q].lu = l /\ requetes'[q].ecrit = e
      BY <1>4, <2>4, <3>1, RafraichirLit
    <3>. QED BY <2>2, <3>1, <3>2, StatutCoherent DEF Sauvegarde
  <2>. QED BY <2>3, <2>4
<1>5. CASE Sauver(q)
  BY <1>3, <1>5, ContinuerSansMouvement DEF Sauver, Mouvements
<1>6. CASE PrendreVariante(q) \/ RendreVariante(q) \/ RendreTotal(q) \/ Totaliser(q)
  <2>1. PICK pc \in {"prendreTotal", "renoncer", "rendreTotal", "rafraichir"} : Passer(q, pc)
    BY <1>6 DEF PrendreVariante, RendreVariante, RendreTotal, Totaliser
  <2>2. requetes[q].pc \in EtapesDeLigne \cup EtapesDeGrille
    BY <1>6 DEF PrendreVariante, RendreVariante, RendreTotal, Totaliser, EtapesDeLigne, EtapesDeGrille
  <2>. QED BY <1>0, <1>3, <2>1, <2>2, PasserDevient, ProduitEnMouvement DEF Deplacee
<1>7. CASE PrendreTotal(q)
  <2>1. requetes[q] \in Requete
    BY <1>7, ProduitEnMouvement DEF PrendreTotal, EtapesDeLigne
  <2>2. CASE Passer(q, "renoncer")
    BY <1>0, <1>3, <2>1, <2>2, PasserDevient DEF Deplacee
  <2>3. CASE requetes' = [requetes EXCEPT ![q].pc = "rafraichir",
                                          ![q].lignes = @ \cup {requetes[q].ligne}]
    <3>1. PICK y : y = [requetes[q] EXCEPT !.pc = "rafraichir", !.lignes = @ \cup {requetes[q].ligne}]
      OBVIOUS
    <3>2. Devient(q, y) /\ requetes'[q] = y
      <4>1. Devient(q, y)
        BY <1>0, <2>3, <3>1, UneRequete
      <4>. QED BY <4>1 DEF Devient
    <3>3. y.pc = "rafraichir"
      BY <2>1, <3>1 DEF Requete
    <3>. QED BY <1>3, <3>2, <3>3
  <2>. QED BY <1>7, <2>2, <2>3 DEF PrendreTotal
<1>8. ASSUME NEW n \in 0 .. StockInitial, Regarnir(q, n) PROVE Sauvegarde(requetes'[q])
  <2>1. requetes[q] \in Requete
    BY <1>8, ProduitEnMouvement DEF Regarnir, EtapesDeGrille
  <2>2. PICK e : requetes' = [requetes EXCEPT ![q].pc = "totaliser", ![q].ecrit = e]
    BY <1>8 DEF Regarnir
  <2>3. PICK y : y = [requetes[q] EXCEPT !.pc = "totaliser", !.ecrit = e]
    OBVIOUS
  <2>4. requetes'[q] = y
    <3>1. Devient(q, y)
      BY <1>0, <2>2, <2>3, UneRequete
    <3>. QED BY <3>1 DEF Devient
  <2>5. y.pc = "totaliser"
    BY <2>1, <2>3 DEF Requete
  <2>. QED BY <1>3, <2>4, <2>5
<1>9. ASSUME NEW p \in Produits, Modifier(q, p) PROVE Sauvegarde(requetes'[q])
  BY <1>9, ModifierLit
<1>10. ASSUME NEW p \in Produits,
              ViderGrille(q, p) \/ \E delta \in {-1, 1} : AjusterStock(q, p, delta)
       PROVE  Sauvegarde(requetes'[q])
  <2>1. PICK op, pc, e : pc \in {"regarnir", "rafraichir"} /\ Geste(q, op, pc, p, e)
    <3>1. \/ Geste(q, "definir", "regarnir", p, produits[p])
          \/ Geste(q, "ajuster", "rafraichir", p, produits[p])
      BY <1>10 DEF ViderGrille, AjusterStock
    <3>. QED BY <3>1
  <2>. QED BY <1>0, <1>3, <2>1, GesteDevient
<1>11. CASE \/ AchatEnVol(q) \/ SuiviEnVol(q) \/ SuiviNouveau(q)
            \/ \E c \in References : Creer(q, c)
  BY <1>3, <1>11, CommandeSansMouvement DEF Mouvements
<1>. QED BY <1>4, <1>5, <1>6, <1>7, <1>8, <1>9, <1>10, <1>11, EtapesDUneRequete
         DEF BoutiqueEnVol, BoutiqueNouvelle

\* Nothing comes back once it is not followed.
LEMMA SuiviNeFaitQueDiminuer ==
  ASSUME IInv, SauvegardesTiennent, [NextCommande]_varsCommande
  PROVE  SuiviDiminue
<1>1. perturbes \subseteq perturbes'
  <2>1. \A c : perturbes \subseteq Perturbe(c)
    BY DEF Perturbe
  <2>2. ASSUME NEW q \in Requetes, Boutique(q) \/ Achat(q) \/ Suivi(q)
        PROVE  perturbes \subseteq perturbes'
    <3>1. CASE Boutique(q)
      BY <3>1 DEF Boutique, PrendreVariante, PrendreTotal, RendreVariante,
         RendreTotal, Rafraichir, Sauver, Regarnir, Totaliser, Modifier, ViderGrille,
         AjusterStock, NoterMouvement
    <3>2. CASE Achat(q)
      BY <2>1, <3>2 DEF Achat, Creer, PreparerLigne, Enregistrer, InitierPaiement, Conclure, Renoncer
    <3>3. CASE Suivi(q)
      BY <2>1, <3>3 DEF Suivi, RecevoirIssueCommande, LireCommande, Confirmer, Depassee,
         Echouer, LireTransition, Transiter
    <3>. QED BY <2>2, <3>1, <3>2, <3>3
  <2>. QED BY <2>2 DEF NextCommande, varsCommande, Regler, Defaire
<1>2. \A p \in Produits : produits'[p].statut = produits[p].statut
        \/ p \in perturbes' \/ produits'[p].statut \notin AVendre
        \/ produits[p].statut \in AVendre
  <2>0. produits \in [Produits -> RangeeProduit]
    BY DEF IInv, TypeInv, TypeOKCommande, RangeeProduit
  <2>1. ASSUME NEW q \in Requetes, NEW s, NEW n, produits' = [produits EXCEPT ![s].stock = n],
               NEW p \in Produits
        PROVE  produits'[p].statut = produits[p].statut
    <3>1. produits[p] \in RangeeProduit
      BY <2>0
    <3>2. CASE p = s
      <4>1. produits'[p] = [produits[p] EXCEPT !.stock = n]
        BY <2>0, <2>1, <3>2
      <4>. QED BY <3>1, <4>1 DEF RangeeProduit
    <3>3. CASE p # s
      BY <2>0, <2>1, <3>3
    <3>. QED BY <3>2, <3>3
  <2>2. ASSUME NEW q \in Requetes, Sauver(q), NEW p \in Produits
        PROVE  \/ produits'[p].statut = produits[p].statut
               \/ p \in perturbes' \/ produits'[p].statut \notin AVendre
               \/ produits[p].statut \in AVendre
    <3>1. /\ requetes[q].pc = "sauver"
          /\ produits' = [produits EXCEPT ![ProduitDe(q)] = requetes[q].ecrit]
          /\ ProduitDe(q) \in perturbes' \/ produits[ProduitDe(q)] = requetes[q].lu
      BY <2>2 DEF Sauver
    <3>2. Sauvegarde(requetes[q])
      BY DEF SauvegardesTiennent
    <3>3. CASE p # ProduitDe(q)
      BY <2>0, <3>1, <3>3
    <3>4. CASE p = ProduitDe(q)
      <4>1. produits'[p] = requetes[q].ecrit
        BY <2>0, <3>1, <3>4
      <4>. QED BY <3>1, <3>2, <3>4, <4>1 DEF Sauvegarde
    <3>. QED BY <3>3, <3>4
  <2>3. \/ UNCHANGED produits
        \/ \E q \in Requetes : \E s, n : produits' = [produits EXCEPT ![s].stock = n]
        \/ \E q \in Requetes : Sauver(q)
    <3>1. ASSUME NEW q \in Requetes, Boutique(q) \/ Achat(q) \/ Suivi(q)
          PROVE  \/ UNCHANGED produits
                 \/ \E s, n : produits' = [produits EXCEPT ![s].stock = n]
                 \/ Sauver(q)
      <4>1. CASE Boutique(q)
        BY <4>1 DEF Boutique, PrendreVariante, PrendreTotal, RendreVariante,
           RendreTotal, Rafraichir, Regarnir, Totaliser, Modifier, ViderGrille, AjusterStock
      <4>2. CASE Achat(q)
        BY <4>2 DEF Achat, Creer, PreparerLigne, Enregistrer, InitierPaiement, Conclure,
           Renoncer, RienDAutre
      <4>3. CASE Suivi(q)
        BY <4>3 DEF Suivi, RecevoirIssueCommande, LireCommande, Confirmer, Echouer,
           LireTransition, Transiter, RienDAutre
      <4>. QED BY <3>1, <4>1, <4>2, <4>3
    <3>2. ASSUME NEW c \in References, Regler(c) \/ Defaire(c) PROVE UNCHANGED produits
      BY <3>2 DEF Regler, Defaire, RienDAutre
    <3>3. CASE UNCHANGED varsCommande
      BY <3>3 DEF varsCommande
    <3>. QED BY <3>1, <3>2, <3>3 DEF NextCommande
  <2>. QED BY <2>1, <2>2, <2>3
<1>3. \A p \in Produits : produits[p].statut \in StatutsProduit
  BY DEF IInv, TypeInv, TypeOKCommande
<1>4. Suivis' \subseteq Suivis
  BY <1>1, <1>2 DEF Suivis, EnVente, AVendre
<1>. QED BY <1>1, <1>4 DEF SuiviDiminue

------------------------------------------------------------------------------
(* What is held of the stock, product by product.                          *)

\* Request q is at step pc on product p, or on line x of an order.
En(q, pc, p) == requetes[q].pc = pc /\ ProduitDe(q) = p

EnMain(q, x, pc) == Pour(q, x[1]) /\ requetes[q].pc = pc /\ requetes[q].ligne = x[2]

Personne(pc, p) == \A q \in Requetes : ~En(q, pc, p)

\* The lines <<order, number>> that ask for p, those the total of p has given, and
\* those variant v has given: a movement changes the variant first.
Demandees(p) ==
  {x \in References \X Nat :
     x[2] \in LignesDe(x[1]) /\ Panier[x[1]][x[2]].produit = p}

Tenue(x) == x[2] \in tenues[x[1]]

Prise(x) ==
  \/ Tenue(x) /\ \A q \in Requetes : ~EnMain(q, x, "rendreTotal")
  \/ \E q \in Requetes : EnMain(q, x, "prendreTotal")

Tenues(p) == {x \in Demandees(p) : Tenue(x)}

Prises(p, v) == {x \in Demandees(p) : Panier[x[1]][x[2]].variante = v /\ Prise(x)}

\* A counter holds what it would without orders, less the lines of S.
Compte(n, S, total) == IsFiniteSet(S) /\ n + Cardinality(S) = total

\* Unless it was perturbed, the grid of p is written again by one request, with no
\* movement between its two counters, and is whole otherwise.
GrilleTient(p) ==
  p \notin perturbes =>
    /\ \A q, o \in Requetes :
         En(q, "regarnir", p) \/ En(q, "totaliser", p) =>
           /\ ~En(o, "prendreTotal", p) /\ ~En(o, "rendreTotal", p)
           /\ En(o, "regarnir", p) \/ En(o, "totaliser", p) => o = q
    /\ \A q \in Requetes : En(q, "regarnir", p) => declinaisons[p] = <<>>
    /\ Personne("regarnir", p) => DOMAIN declinaisons[p] = Grille[p]

\* The total, in the table or about to be set there.
TotalTient(p) ==
  p \in Suivis =>
    /\ Personne("totaliser", p) => Compte(produits[p].stock, Tenues(p), base[p][Sans])
    /\ \A q \in Requetes : En(q, "totaliser", p) =>
         Compte(requetes[q].ecrit.stock, Tenues(p), base[p][Sans])

VariantesTiennent(p) ==
  p \in Suivis =>
    \A v \in DOMAIN declinaisons[p] :
      Compte(declinaisons[p][v], Prises(p, v), base[p][v])

\* The status is that of the stock, or a refresh is on its way.
StatutTient(p) ==
  p \in Suivis =>
    Coherente(produits[p]) \/ ~Personne("rafraichir", p) \/ ~Personne("sauver", p)

StockTient(p) ==
  GrilleTient(p) /\ TotalTient(p) /\ VariantesTiennent(p) /\ StatutTient(p)

BasesTypees ==
  /\ base = [p \in Produits |-> base[p]]
  /\ \A p \in Produits : base[p] = [k \in Compteurs(p) |-> base[p][k]]

StocksTiennent == BasesTypees /\ \A p \in Produits : StockTient(p)

------------------------------------------------------------------------------
(* Counting.                                                               *)

\* One more line takes one from the counter; one less gives it back.
LEMMA CompteUn ==
  ASSUME NEW S, NEW n \in Int, NEW total, Compte(n, S, total), NEW x
  PROVE  /\ x \notin S => Compte(n - 1, S \cup {x}, total)
         /\ x \in S => Compte(n + 1, S \ {x}, total)
<1>1. IsFiniteSet(S) /\ n + Cardinality(S) = total /\ Cardinality(S) \in Nat
  BY FS_CardinalityType DEF Compte
<1>2. CASE x \notin S
  <2>1. IsFiniteSet(S \cup {x}) /\ Cardinality(S \cup {x}) = Cardinality(S) + 1
    BY <1>1, <1>2, FS_AddElement
  <2>. QED BY <1>1, <1>2, <2>1 DEF Compte
<1>3. CASE x \in S
  <2>1. IsFiniteSet(S \ {x}) /\ Cardinality(S \ {x}) = Cardinality(S) - 1
    BY <1>1, <1>3, FS_RemoveElement
  <2>. QED BY <1>1, <1>3, <2>1 DEF Compte
<1>. QED BY <1>2, <1>3

\* A line of p is in the hands of requests on p.
LEMMA EnMainSurProduit ==
  ASSUME NEW p, NEW x \in Demandees(p), NEW q, NEW pc, EnMain(q, x, pc)
  PROVE  En(q, pc, p)
<1>1. x[1] \in References
  BY DEF Demandees
<1>2. x[1] \notin Produits
  BY <1>1, CommandeAssumption
<1>. QED BY <1>1, <1>2 DEF Demandees, EnMain, En, Pour, ProduitDe, LigneCourante

\* A request left alone stays where it is.
LEMMA EnReste ==
  ASSUME NEW q, requetes'[q] = requetes[q]
  PROVE  /\ \A pc, p : En(q, pc, p)' <=> En(q, pc, p)
         /\ \A pc, x : EnMain(q, x, pc)' <=> EnMain(q, x, pc)
BY DEF En, EnMain, Pour, ProduitDe, LigneCourante

------------------------------------------------------------------------------
(* A product no request works on.                                          *)

Ailleurs(q, p) ==
  requetes'[q] = requetes[q] \/ \A pc \in Mouvements : ~En(q, pc, p) /\ ~En(q, pc, p)'

\* A product no request works on keeps its counters and its status.
LEMMA StockAilleurs ==
  ASSUME NEW p \in Produits, StockTient(p), SuiviDiminue,
         produits'[p] = produits[p], declinaisons'[p] = declinaisons[p], base'[p] = base[p],
         \A x \in Demandees(p) : Tenue(x)' <=> Tenue(x),
         \A q \in Requetes : Ailleurs(q, p)
  PROVE  StockTient(p)'
<1>1. ASSUME NEW q \in Requetes
      PROVE  /\ \A pc \in Mouvements : En(q, pc, p)' <=> En(q, pc, p)
             /\ \A x \in Demandees(p) : \A pc \in {"prendreTotal", "rendreTotal"} :
                  EnMain(q, x, pc)' <=> EnMain(q, x, pc)
             /\ En(q, "totaliser", p)' => requetes'[q] = requetes[q]
  <2>1. CASE requetes'[q] = requetes[q]
    BY <2>1, EnReste
  <2>2. CASE \A pc \in Mouvements : ~En(q, pc, p) /\ ~En(q, pc, p)'
    <3>1. \A x \in Demandees(p) : \A pc \in {"prendreTotal", "rendreTotal"} : ~EnMain(q, x, pc)
      BY <2>2, EnMainSurProduit DEF Mouvements
    <3>2. \A x \in Demandees(p) : \A pc \in {"prendreTotal", "rendreTotal"} : ~EnMain(q, x, pc)'
      <4>1. ASSUME NEW x \in Demandees(p), NEW pc, EnMain(q, x, pc)' PROVE En(q, pc, p)'
        <5>1. x[1] \in References /\ x[1] \notin Produits
          BY CommandeAssumption DEF Demandees
        <5>. QED BY <4>1, <5>1 DEF Demandees, EnMain, En, Pour, ProduitDe, LigneCourante
      <4>. QED BY <2>2, <4>1 DEF Mouvements
    <3>. QED BY <2>2, <3>1, <3>2 DEF Mouvements
  <2>. QED BY <2>1, <2>2 DEF Ailleurs
<1>2. \A pc \in Mouvements : Personne(pc, p)' <=> Personne(pc, p)
  BY <1>1 DEF Personne
<1>3. Tenues(p)' = Tenues(p)
  BY DEF Tenues, Demandees, LignesDe
<1>4. \A v : Prises(p, v)' = Prises(p, v)
  <2>1. \A x \in Demandees(p) : Prise(x)' <=> Prise(x)
    BY <1>1 DEF Prise
  <2>2. Demandees(p)' = Demandees(p)
    BY DEF Demandees, LignesDe
  <2>. QED BY <2>1, <2>2 DEF Prises
<1>5. (p \in Suivis)' => p \in Suivis
  BY DEF SuiviDiminue
<1>6. (p \notin perturbes)' => p \notin perturbes
  BY DEF SuiviDiminue
<1>7. GrilleTient(p)'
  BY <1>1, <1>2, <1>6 DEF StockTient, GrilleTient, Mouvements
<1>8. TotalTient(p)'
  BY <1>1, <1>2, <1>3, <1>5 DEF StockTient, TotalTient, Mouvements
<1>9. VariantesTiennent(p)'
  BY <1>4, <1>5 DEF StockTient, VariantesTiennent
<1>10. StatutTient(p)'
  BY <1>2, <1>5 DEF StockTient, StatutTient, Coherente, Mouvements
<1>. QED BY <1>7, <1>8, <1>9, <1>10 DEF StockTient

------------------------------------------------------------------------------
(* The product a request works on.                                         *)

\* A step of q about product s says nothing of the others.
LEMMA StockDesAutres ==
  ASSUME StocksTiennent, SuiviDiminue, NEW q \in Requetes, NEW y, Devient(q, y), NEW s,
         requetes[q].pc \notin Mouvements \/ ProduitDe(q) = s,
         requetes'[q].pc \notin Mouvements \/ ProduitDe(q)' = s,
         \A p \in Produits \ {s} :
           /\ produits'[p] = produits[p] /\ declinaisons'[p] = declinaisons[p]
           /\ base'[p] = base[p]
           /\ \A x \in Demandees(p) : Tenue(x)' <=> Tenue(x),
         s \in Produits => StockTient(s)'
  PROVE  \A p \in Produits : StockTient(p)'
<1>1. ASSUME NEW p \in Produits \ {s} PROVE StockTient(p)'
  <2>1. Ailleurs(q, p)
    BY <1>1 DEF Ailleurs, En
  <2>2. \A o \in Requetes : Ailleurs(o, p)
    BY <2>1 DEF Ailleurs, Devient
  <2>. QED BY <1>1, <2>2, StockAilleurs DEF StocksTiennent
<1>. QED BY <1>1

\* A request that keeps its object and its line keeps its product.
LEMMA MemeProduit ==
  ASSUME NEW q, requetes'[q].objet = requetes[q].objet, requetes'[q].ligne = requetes[q].ligne
  PROVE  ProduitDe(q)' = ProduitDe(q)
BY DEF ProduitDe, LigneCourante

\* The line a request that moves stock for an order is at.
LEMMA LigneDuMouvement ==
  ASSUME TypeInv, NEW q \in Requetes,
         requetes[q].pc \in {"prendre", "prendreTotal", "rendre", "rendreTotal"},
         NEW c, c = requetes[q].objet, NEW i, i = requetes[q].ligne
  PROVE  LET x == <<c, i>>
             p == ProduitDe(q)
         IN  /\ requetes[q] \in Requete /\ Pour(q, c)
             /\ c \in References /\ i \in LignesDe(c)
             /\ p \in Produits /\ produits[p] \in RangeeProduit
             /\ LigneCourante(q) = Panier[c][i] /\ LigneCourante(q).produit = p
             /\ x \in Demandees(p) /\ x[1] = c /\ x[2] = i
             /\ p \in Suivis => i \in LignesSuivies(c)
<1>1. /\ requetes[q] \in Requete /\ BienPlacee(requetes[q]) /\ requetes[q] # Inactive
      /\ ProduitDe(q) \in Produits /\ produits[ProduitDe(q)] \in RangeeProduit
  BY ProduitEnMouvement DEF EtapesDeLigne
<1>2. c \in References /\ c \notin Produits
  BY <1>1, SurCommande
<1>3. i \in LignesDe(c) /\ i \in Nat
  BY <1>1, <1>2 DEF BienPlacee, EtapesDeLigne, Requete
<1>4. LigneCourante(q) = Panier[c][i] /\ LigneCourante(q).produit = ProduitDe(q)
  BY <1>2 DEF LigneCourante, ProduitDe
<1>. QED BY <1>1, <1>2, <1>3, <1>4 DEF Pour, Demandees, LignesSuivies

\* A line the request is not at stays as it is.
LEMMA PriseReste ==
  ASSUME NEW q \in Requetes, NEW y, Devient(q, y), NEW z, Tenue(z)' <=> Tenue(z),
         ~EnMain(q, z, "prendreTotal") /\ ~EnMain(q, z, "rendreTotal"),
         ~EnMain(q, z, "prendreTotal")' /\ ~EnMain(q, z, "rendreTotal")'
  PROVE  Prise(z)' <=> Prise(z)
<1>1. \A o \in Requetes : \A pc \in {"prendreTotal", "rendreTotal"} :
        EnMain(o, z, pc)' <=> EnMain(o, z, pc)
  BY EnReste DEF Devient
<1>. QED BY <1>1 DEF Prise

\* One line of p is given or taken back by its variant, or goes on as it was.
LEMMA VarianteSuit ==
  ASSUME NEW p \in Produits, VariantesTiennent(p), SuiviDiminue, NEW x \in Demandees(p),
         NEW v, v = Panier[x[1]][x[2]].variante,
         \A w \in DOMAIN declinaisons[p] : declinaisons[p][w] \in Nat,
         base'[p] = base[p],
         DOMAIN declinaisons'[p] = DOMAIN declinaisons[p],
         \A w \in DOMAIN declinaisons[p] \ {v} : declinaisons'[p][w] = declinaisons[p][w],
         (p \in Suivis)' =>
           /\ \A z \in Demandees(p) \ {x} : Prise(z)' <=> Prise(z)
           /\ v \in DOMAIN declinaisons[p] =>
                \/ declinaisons'[p][v] = declinaisons[p][v] /\ (Prise(x)' <=> Prise(x))
                \/ declinaisons'[p][v] = declinaisons[p][v] - 1 /\ ~Prise(x) /\ Prise(x)'
                \/ declinaisons'[p][v] = declinaisons[p][v] + 1 /\ Prise(x) /\ ~Prise(x)'
  PROVE  VariantesTiennent(p)'
<1>. DEFINE d == declinaisons[p]
<1>1. SUFFICES ASSUME (p \in Suivis)', NEW w \in DOMAIN declinaisons'[p]
               PROVE  Compte(declinaisons'[p][w], Prises(p, w)', base'[p][w])
  BY DEF VariantesTiennent, Compte
<1>2. w \in DOMAIN d /\ d[w] \in Int /\ Compte(d[w], Prises(p, w), base[p][w])
  BY <1>1 DEF VariantesTiennent, SuiviDiminue
<1>3. \A z \in Demandees(p) \ {x} : Prise(z)' <=> Prise(z)
  BY <1>1
<1>4. Demandees(p)' = Demandees(p)
  BY DEF Demandees, LignesDe
<1>5. CASE w # v \/ (Prise(x)' <=> Prise(x))
  <2>1. Prises(p, w)' = Prises(p, w)
    BY <1>3, <1>4, <1>5 DEF Prises
  <2>2. declinaisons'[p][w] = d[w]
    BY <1>1, <1>2, <1>5
  <2>. QED BY <1>2, <2>1, <2>2
<1>6. CASE w = v /\ ~Prise(x) /\ Prise(x)'
  <2>1. Prises(p, w)' = Prises(p, w) \cup {x} /\ x \notin Prises(p, w)
    BY <1>3, <1>4, <1>6 DEF Prises
  <2>2. declinaisons'[p][w] = d[w] - 1
    BY <1>1, <1>2, <1>6
  <2>3. Compte(d[w] - 1, Prises(p, w) \cup {x}, base[p][w])
    BY <1>2, <2>1, CompteUn
  <2>. QED BY <2>1, <2>2, <2>3
<1>7. CASE w = v /\ Prise(x) /\ ~Prise(x)'
  <2>1. Prises(p, w)' = Prises(p, w) \ {x} /\ x \in Prises(p, w)
    BY <1>3, <1>4, <1>7 DEF Prises
  <2>2. declinaisons'[p][w] = d[w] + 1
    BY <1>1, <1>2, <1>7
  <2>3. Compte(d[w] + 1, Prises(p, w) \ {x}, base[p][w])
    BY <1>2, <2>1, CompteUn
  <2>. QED BY <2>1, <2>2, <2>3
<1>. QED BY <1>5, <1>6, <1>7

\* Where the grid and the status of p are kept.
LEMMA GrilleReste ==
  ASSUME NEW p \in Produits, GrilleTient(p), SuiviDiminue,
         \A pc \in {"regarnir", "totaliser"} : \A o \in Requetes : En(o, pc, p)' <=> En(o, pc, p),
         (p \notin perturbes)' => Personne("regarnir", p) /\ Personne("totaliser", p),
         DOMAIN declinaisons'[p] = DOMAIN declinaisons[p]
  PROVE  GrilleTient(p)'
BY DEF GrilleTient, SuiviDiminue, Personne

\* A movement is noted unless no request writes the grid of p again.
LEMMA MouvementNote ==
  ASSUME TypeInv, NEW p \in Produits, NoterMouvement(p), (p \notin perturbes)'
  PROVE  /\ Personne("regarnir", p) /\ Personne("totaliser", p)
         /\ p \notin perturbes
<1>1. ~EnDefinition(p) /\ p \notin perturbes
  BY DEF NoterMouvement
<1>2. ASSUME NEW o \in Requetes, NEW pc \in EtapesDeGrille, En(o, pc, p) PROVE FALSE
  <2>1. requetes[o] \in Requete /\ requetes[o].objet \in Produits /\ requetes[o] # Inactive
    BY <1>2, EnCours, SurCommande DEF En, EtapesDeGrille, TypeInv
  <2>. QED BY <1>1, <1>2, <2>1 DEF En, EnDefinition, EnVol, ProduitDe, EtapesDeGrille
<1>. QED BY <1>1, <1>2 DEF Personne, EtapesDeGrille

\* The counters of the variants, and what writing one of them changes.
LEMMA Declinaisons ==
  ASSUME TypeInv, NEW p \in Produits
  PROVE  /\ DOMAIN declinaisons[p] \subseteq Grille[p]
         /\ \A w \in DOMAIN declinaisons[p] : declinaisons[p][w] \in Nat
         /\ DOMAIN declinaisons[p] # {} => declinaisons[p] \in [Grille[p] -> Nat]
<1>1. declinaisons[p] \in [Grille[p] -> Nat] \/ declinaisons[p] = <<>>
  BY DEF TypeInv, TypeOKCommande
<1>. QED BY <1>1

\* The grid of one product is written.
LEMMA GrilleEcrite ==
  ASSUME TypeInv, NEW p \in Produits, NEW e, declinaisons' = [declinaisons EXCEPT ![p] = e]
  PROVE  /\ declinaisons'[p] = e
         /\ \A s \in Produits \ {p} : declinaisons'[s] = declinaisons[s]
<1>1. declinaisons = [s \in Produits |-> declinaisons[s]]
  BY DEF TypeInv, RequetesTypees
<1>. QED BY <1>1

\* One counter of a variant is written.
UneVariante(p, v, n) ==
  /\ \A s \in Produits \ {p} : declinaisons'[s] = declinaisons[s]
  /\ DOMAIN declinaisons'[p] = DOMAIN declinaisons[p]
  /\ \A w \in DOMAIN declinaisons[p] \ {v} : declinaisons'[p][w] = declinaisons[p][w]
  /\ declinaisons'[p][v] = n

\* One more or one less of a variant.
LEMMA VarianteEcrite ==
  ASSUME TypeInv, NEW p \in Produits, NEW v \in DOMAIN declinaisons[p]
  PROVE  /\ declinaisons' = [declinaisons EXCEPT ![p][v] = @ - 1] =>
              UneVariante(p, v, declinaisons[p][v] - 1)
         /\ declinaisons' = [declinaisons EXCEPT ![p][v] = @ + 1] =>
              UneVariante(p, v, declinaisons[p][v] + 1)
<1>1. PICK d : d = declinaisons[p]
  OBVIOUS
<1>2. d \in [Grille[p] -> Nat] /\ v \in Grille[p]
  BY <1>1, Declinaisons
<1>3. ASSUME NEW n, NEW e, e = [d EXCEPT ![v] = n], declinaisons' = [declinaisons EXCEPT ![p] = e]
      PROVE  UneVariante(p, v, n)
  <2>1. DOMAIN e = DOMAIN d /\ e[v] = n /\ \A w \in DOMAIN d \ {v} : e[w] = d[w]
    BY <1>2, <1>3
  <2>2. declinaisons'[p] = e /\ \A s \in Produits \ {p} : declinaisons'[s] = declinaisons[s]
    BY <1>3, GrilleEcrite
  <2>. QED BY <1>1, <2>1, <2>2 DEF UneVariante
<1>4. ASSUME declinaisons' = [declinaisons EXCEPT ![p][v] = @ - 1]
      PROVE  UneVariante(p, v, declinaisons[p][v] - 1)
  <2>1. PICK n, e : n = d[v] - 1 /\ e = [d EXCEPT ![v] = n]
    OBVIOUS
  <2>2. declinaisons' = [declinaisons EXCEPT ![p] = e]
    BY <1>1, <1>4, <2>1
  <2>3. UneVariante(p, v, n)
    BY <1>3, <2>1, <2>2
  <2>. QED BY <1>1, <2>1, <2>3
<1>5. ASSUME declinaisons' = [declinaisons EXCEPT ![p][v] = @ + 1]
      PROVE  UneVariante(p, v, declinaisons[p][v] + 1)
  <2>1. PICK n, e : n = d[v] + 1 /\ e = [d EXCEPT ![v] = n]
    OBVIOUS
  <2>2. declinaisons' = [declinaisons EXCEPT ![p] = e]
    BY <1>1, <1>5, <2>1
  <2>3. UneVariante(p, v, n)
    BY <1>3, <2>1, <2>2
  <2>. QED BY <1>1, <2>1, <2>3
<1>. QED BY <1>4, <1>5

\* The total of a product is written.
UnTotal(p, n) ==
  /\ \A s \in Produits \ {p} : produits'[s] = produits[s]
  /\ produits'[p].stock = n /\ produits'[p].statut = produits[p].statut

\* The row of one product is written.
LEMMA RangeeEcrite ==
  ASSUME TypeInv, NEW p \in Produits, NEW e, produits' = [produits EXCEPT ![p] = e]
  PROVE  produits'[p] = e /\ \A s \in Produits \ {p} : produits'[s] = produits[s]
<1>1. produits \in [Produits -> RangeeProduit]
  BY DEF TypeInv, TypeOKCommande, RangeeProduit
<1>. QED BY <1>1

\* The statements that write a stock write nothing else.
LEMMA TotalEcrit ==
  ASSUME TypeInv, NEW p \in Produits, NEW n,
         \/ produits' = [produits EXCEPT ![p].stock = n]
         \/ produits' = [produits EXCEPT ![p].stock = @ - 1] /\ n = produits[p].stock - 1
         \/ produits' = [produits EXCEPT ![p].stock = @ + 1] /\ n = produits[p].stock + 1
         \/ \E delta : produits' = [produits EXCEPT ![p].stock = @ + delta]
                      /\ n = produits[p].stock + delta
  PROVE  UnTotal(p, n)
<1>1. PICK e : e = [produits[p] EXCEPT !.stock = n]
  OBVIOUS
<1>2. produits' = [produits EXCEPT ![p] = e]
  BY <1>1
<1>3. produits'[p] = e /\ \A s \in Produits \ {p} : produits'[s] = produits[s]
  BY <1>2, RangeeEcrite
<1>4. e.stock = n /\ e.statut = produits[p].statut
  <2>1. produits[p] \in RangeeProduit
    BY DEF TypeInv, TypeOKCommande, RangeeProduit
  <2>. QED BY <1>1, <2>1 DEF RangeeProduit
<1>. QED BY <1>3, <1>4 DEF UnTotal

\* Where a movement on line x of p leaves the requests.
LEMMA StatutReste ==
  ASSUME NEW p \in Produits, StatutTient(p), SuiviDiminue, NEW q \in Requetes, NEW y, Devient(q, y),
         requetes[q].pc \notin {"rafraichir", "sauver"} \/ ProduitDe(q) # p,
         produits'[p] = produits[p]
  PROVE  StatutTient(p)'
<1>1. \A pc \in {"rafraichir", "sauver"} : \A o \in Requetes : En(o, pc, p) => En(o, pc, p)'
  BY EnReste DEF Devient, En
<1>. QED BY <1>1 DEF StatutTient, SuiviDiminue, Personne, Coherente

\* The request that takes a line of an order being created is alone on it.
LEMMA SeulSurLaLigne ==
  ASSUME TypeInv, CreationSeule, OrdresTiennent, NEW q \in Requetes,
         requetes[q].pc \in {"prendre", "prendreTotal"}, ProduitDe(q) \in Suivis,
         NEW x, x = <<requetes[q].objet, requetes[q].ligne>>
  PROVE  ~Tenue(x) /\ \A o \in Requetes \ {q} : ~Pour(o, x[1])
<1>1. PICK c, i : c = requetes[q].objet /\ i = requetes[q].ligne
  OBVIOUS
<1>2. c \in References /\ i \in LignesSuivies(c) /\ requetes[q] \in Requete /\ requetes[q] # Inactive
  BY <1>1, LigneDuMouvement DEF Pour
<1>3. ~requetes[q].defait
  <2>1. BienPlacee(requetes[q])
    BY ProduitEnMouvement DEF EtapesDeLigne
  <2>. QED BY <1>1, <1>2, <2>1, CommandeAssumption DEF BienPlacee
<1>4. EnCreation(requetes[q])
  BY <1>1, <1>2, <1>3 DEF EnCreation
<1>5. /\ \A o \in Requetes \ {q} : ~Pour(o, c)
      /\ i \in tenues[c] <=> i \in requetes[q].lignes
      /\ i \in requetes[q].lignes <=>
           \/ i < requetes[q].ligne
           \/ i = requetes[q].ligne /\ requetes[q].pc \in {"rafraichir", "sauver"}
  BY <1>1, <1>2, <1>4, CreateurSeul DEF OrdresTiennent
<1>6. i \notin tenues[c]
  BY <1>1, <1>2, <1>5 DEF Requete
<1>. QED BY <1>1, <1>5, <1>6 DEF Tenue

\* The request that gives a line back is alone to do so, the line is held, and its
\* order is not being created.
LEMMA SeulARendre ==
  ASSUME TypeInv, CreationSeule, OrdresTiennent, NEW q \in Requetes,
         requetes[q].pc \in {"rendre", "rendreTotal"}, ProduitDe(q) \in Suivis,
         NEW x, x = <<requetes[q].objet, requetes[q].ligne>>
  PROVE  /\ Tenue(x)
         /\ \A o \in Requetes \ {q} : ~EnMain(o, x, "rendreTotal")
         /\ \A o \in Requetes : ~EnMain(o, x, "prendreTotal")
<1>1. PICK c, i : c = requetes[q].objet /\ i = requetes[q].ligne
  OBVIOUS
<1>2. c \in References /\ i \in LignesSuivies(c) /\ Pour(q, c)
  BY <1>1, LigneDuMouvement
<1>3. RendPour(q, c, i)
  BY <1>1, <1>2 DEF RendPour, ResteARendre
<1>4. i \in tenues[c] /\ \A o \in Requetes \ {q} : ~RendPour(o, c, i)
  BY <1>2, <1>3 DEF OrdresTiennent, OrdreTient, RenduUneFois
<1>5. ASSUME NEW o \in Requetes, EnMain(o, x, "prendreTotal") PROVE FALSE
  <2>1. Pour(o, c) /\ requetes[o].pc = "prendreTotal" /\ o # q
    BY <1>1, <1>5 DEF EnMain
  <2>2. BienPlacee(requetes[o]) /\ requetes[o] # Inactive
    BY <2>1, ProduitEnMouvement DEF EtapesDeLigne
  <2>3. EnCreation(requetes[o])
    BY <1>2, <2>1, <2>2, CommandeAssumption DEF EnCreation, BienPlacee, Pour
  <2>4. ~Pour(q, c)
    BY <1>2, <2>1, <2>3, CreateurSeul DEF OrdresTiennent, Pour
  <2>. QED BY <1>2, <2>4
<1>6. \A o \in Requetes \ {q} : ~EnMain(o, x, "rendreTotal")
  BY <1>1, <1>4 DEF EnMain, RendPour, ResteARendre
<1>. QED BY <1>1, <1>4, <1>5, <1>6 DEF Tenue

\* The counters of p when nothing, or only the total, is written.
LEMMA TotalReste ==
  ASSUME NEW p \in Produits, TotalTient(p), SuiviDiminue,
         NEW q \in Requetes, NEW y, Devient(q, y),
         ~En(q, "totaliser", p), ~En(q, "totaliser", p)',
         produits'[p].stock = produits[p].stock, base'[p] = base[p],
         \A x \in Demandees(p) : Tenue(x)' <=> Tenue(x)
  PROVE  TotalTient(p)'
<1>1. \A o \in Requetes : En(o, "totaliser", p)' <=> En(o, "totaliser", p)
  BY EnReste DEF Devient
<1>2. \A o \in Requetes : En(o, "totaliser", p) => requetes'[o] = requetes[o]
  BY DEF Devient
<1>3. Tenues(p)' = Tenues(p)
  BY DEF Tenues, Demandees, LignesDe
<1>. QED BY <1>1, <1>2, <1>3 DEF TotalTient, SuiviDiminue, Personne

\* The total moves with what it has given, when nobody is about to set it.
LEMMA TotalBouge ==
  ASSUME NEW p \in Produits, NEW q \in Requetes, NEW y, Devient(q, y),
         ~En(q, "totaliser", p)', (p \notin perturbes)' => Personne("totaliser", p),
         (p \in Suivis)' => Compte(produits[p].stock, Tenues(p), base[p][Sans])'
  PROVE  TotalTient(p)'
<1>1. \A o \in Requetes \ {q} : En(o, "totaliser", p)' <=> En(o, "totaliser", p)
  BY EnReste DEF Devient
<1>2. (p \in Suivis)' => (p \notin perturbes)'
  BY DEF Suivis
<1>3. (p \in Suivis)' => Personne("totaliser", p)'
  BY <1>1, <1>2 DEF Personne
<1>. QED BY <1>3 DEF TotalTient, Personne

\* The variants of a product keep their counters and their lines.
LEMMA VariantesRestent ==
  ASSUME NEW p \in Produits, VariantesTiennent(p), SuiviDiminue,
         declinaisons'[p] = declinaisons[p],
         \A w \in DOMAIN declinaisons[p] : base'[p][w] = base[p][w],
         (p \in Suivis)' => \A z \in Demandees(p) : Prise(z)' <=> Prise(z)
  PROVE  VariantesTiennent(p)'
<1>1. (p \in Suivis)' => \A w : Prises(p, w)' = Prises(p, w)
  BY DEF Prises, Demandees, LignesDe
<1>. QED BY <1>1 DEF VariantesTiennent, SuiviDiminue

------------------------------------------------------------------------------
(* The movements of stock.                                                 *)

\* The variant is taken, or refused: the line is taken from it as soon as its counter
\* is, and of the total later.
LEMMA PrendreVarianteCompte ==
  ASSUME TypeInv, CreationSeule, OrdresTiennent, StocksTiennent, SuiviDiminue,
         NEW q \in Requetes, PrendreVariante(q)
  PROVE  StocksTiennent'
<1>. DEFINE r == requetes[q]
<1>1. PICK c, i, p, v, x : /\ c = r.objet /\ i = r.ligne /\ p = ProduitDe(q)
                           /\ v = LigneCourante(q).variante /\ x = <<c, i>>
  OBVIOUS
<1>2. /\ r.pc = "prendre" /\ NoterMouvement(LigneCourante(q).produit)
      /\ UNCHANGED <<produits, base, tenues>>
  BY DEF PrendreVariante
<1>3. /\ r \in Requete /\ c \in References /\ i \in LignesDe(c) /\ p \in Produits
      /\ LigneCourante(q) = Panier[c][i] /\ LigneCourante(q).produit = p
      /\ x \in Demandees(p) /\ x[1] = c /\ x[2] = i
  BY <1>1, <1>2, LigneDuMouvement
<1>4. PICK pc \in {"prendreTotal", "renoncer"} :
        /\ Passer(q, pc)
        /\ \/ UNCHANGED declinaisons /\ (v \in DOMAIN declinaisons[p] => pc = "renoncer")
           \/ /\ v \in DOMAIN declinaisons[p] /\ pc = "prendreTotal"
              /\ declinaisons' = [declinaisons EXCEPT ![p][v] = @ - 1]
  BY <1>1, <1>3 DEF PrendreVariante, SuiviParVariante
<1>5. Devient(q, requetes'[q]) /\ Deplacee(r, requetes'[q], pc) /\ RequetesTypees
  BY <1>3, <1>4, PasserDevient DEF TypeInv
<1>6. ProduitDe(q)' = p
  BY <1>1, <1>5, MemeProduit DEF Deplacee
<1>7. /\ \A s \in Produits \ {p} : declinaisons'[s] = declinaisons[s]
      /\ DOMAIN declinaisons'[p] = DOMAIN declinaisons[p]
      /\ \A w \in DOMAIN declinaisons[p] \ {v} : declinaisons'[p][w] = declinaisons[p][w]
      /\ v \in DOMAIN declinaisons[p] =>
           \/ pc = "renoncer" /\ declinaisons'[p][v] = declinaisons[p][v]
           \/ pc = "prendreTotal" /\ declinaisons'[p][v] = declinaisons[p][v] - 1
  <2>1. CASE UNCHANGED declinaisons /\ (v \in DOMAIN declinaisons[p] => pc = "renoncer")
    BY <2>1
  <2>2. CASE /\ v \in DOMAIN declinaisons[p] /\ pc = "prendreTotal"
             /\ declinaisons' = [declinaisons EXCEPT ![p][v] = @ - 1]
    <3>1. UneVariante(p, v, declinaisons[p][v] - 1)
      BY <1>3, <2>2, VarianteEcrite
    <3>. QED BY <2>2, <3>1 DEF UneVariante
  <2>. QED BY <1>4, <2>1, <2>2
<1>8. (p \notin perturbes)' => Personne("regarnir", p) /\ Personne("totaliser", p)
  BY <1>2, <1>3, MouvementNote
<1>9. StockTient(p)'
  <2>0. StockTient(p) /\ requetes'[q].pc = pc
    BY <1>3, <1>5 DEF StocksTiennent, Deplacee
  <2>1. GrilleTient(p)'
    <3>1. \A e \in {"regarnir", "totaliser"} : \A o \in Requetes : En(o, e, p)' <=> En(o, e, p)
      BY <1>2, <1>4, <1>5, <2>0, EnReste DEF Devient, En
    <3>. QED BY <1>3, <1>7, <1>8, <2>0, <3>1, GrilleReste DEF StockTient
  <2>2. TotalTient(p)'
    BY <1>2, <1>3, <1>4, <1>5, <2>0, TotalReste DEF StockTient, En, Tenue
  <2>3. VariantesTiennent(p)'
    <3>1. \A z \in Demandees(p) \ {x} : Prise(z)' <=> Prise(z)
      <4>1. ASSUME NEW z \in Demandees(p) \ {x} PROVE ~(z[1] = c /\ z[2] = i)
        BY <1>1, <1>3, <4>1 DEF Demandees
      <4>. QED BY <1>1, <1>2, <1>3, <1>5, <4>1, PriseReste DEF EnMain, Pour, Deplacee, Tenue
    <3>2. (p \in Suivis)' =>
            /\ ~Prise(x)
            /\ pc = "prendreTotal" => Prise(x)'
            /\ pc = "renoncer" => ~Prise(x)'
      <4>1. SUFFICES ASSUME p \in Suivis
                     PROVE  /\ ~Prise(x)
                            /\ pc = "prendreTotal" => Prise(x)'
                            /\ pc = "renoncer" => ~Prise(x)'
        BY DEF SuiviDiminue
      <4>2. ~Tenue(x) /\ \A o \in Requetes \ {q} : ~Pour(o, x[1])
        BY <1>1, <1>2, <4>1, SeulSurLaLigne
      <4>3. \A o \in Requetes : ~EnMain(o, x, "prendreTotal")
        BY <1>2, <4>2 DEF EnMain
      <4>4. \A o \in Requetes \ {q} : ~EnMain(o, x, "prendreTotal")'
        BY <1>5, <4>2, EnReste DEF EnMain, Devient
      <4>5. EnMain(q, x, "prendreTotal")' <=> pc = "prendreTotal"
        BY <1>1, <1>3, <1>5 DEF EnMain, Pour, Deplacee
      <4>6. ~Tenue(x)'
        BY <1>2, <4>2 DEF Tenue
      <4>. QED BY <1>4, <4>2, <4>3, <4>4, <4>5, <4>6 DEF Prise
    <3>3. v = Panier[x[1]][x[2]].variante
      BY <1>1, <1>3
    <3>. QED BY <1>2, <1>3, <1>4, <1>7, <2>0, <3>1, <3>2, <3>3, Declinaisons, VarianteSuit DEF StockTient
  <2>4. StatutTient(p)'
    BY <1>2, <1>3, <1>5, <2>0, StatutReste DEF StockTient
  <2>. QED BY <2>1, <2>2, <2>3, <2>4 DEF StockTient
<1>10. \A s \in Produits : StockTient(s)'
  BY <1>2, <1>3, <1>5, <1>6, <1>7, <1>9, StockDesAutres DEF Tenue, Mouvements
<1>. QED BY <1>2, <1>10 DEF StocksTiennent, BasesTypees

\* The total is taken, or refused and the variant given back.
LEMMA PrendreTotalCompte ==
  ASSUME TypeInv, CreationSeule, OrdresTiennent, StocksTiennent, SuiviDiminue,
         NEW q \in Requetes, PrendreTotal(q)
  PROVE  StocksTiennent'
<1>. DEFINE r == requetes[q]
<1>1. PICK c, i, p, v, x : /\ c = r.objet /\ i = r.ligne /\ p = ProduitDe(q)
                           /\ v = LigneCourante(q).variante /\ x = <<c, i>>
  OBVIOUS
<1>2. r.pc = "prendreTotal" /\ NoterMouvement(LigneCourante(q).produit) /\ UNCHANGED base
  BY DEF PrendreTotal
<1>3. /\ r \in Requete /\ c \in References /\ i \in LignesDe(c) /\ p \in Produits
      /\ LigneCourante(q) = Panier[c][i] /\ LigneCourante(q).produit = p
      /\ x \in Demandees(p) /\ x[1] = c /\ x[2] = i
  BY <1>1, <1>2, LigneDuMouvement
<1>4. v = Panier[x[1]][x[2]].variante
  BY <1>1, <1>3
<1>5. (p \notin perturbes)' => Personne("regarnir", p) /\ Personne("totaliser", p)
  BY <1>2, <1>3, MouvementNote
<1>6. p \in Suivis => ~Tenue(x) /\ \A o \in Requetes \ {q} : ~Pour(o, x[1])
  BY <1>1, <1>2, SeulSurLaLigne
<1>7. p \in Suivis => Prise(x)
  <2>1. EnMain(q, x, "prendreTotal")
    BY <1>1, <1>2, <1>3, LigneDuMouvement DEF EnMain
  <2>. QED BY <2>1 DEF Prise
<1>8. StockTient(p)
  BY <1>3 DEF StocksTiennent
<1>9. produits[p].stock \in Nat
  BY <1>3, ProduitsType DEF TypeInv, TypeOKCommande, RangeeProduit
\* Common to both: the request leaves its line.
<1>10. ASSUME NEW y, Devient(q, y), y # Inactive, y.objet = c, y.ligne = i,
              y.pc \in {"rafraichir", "renoncer"},
              \A z \in Demandees(p) \ {x} : Tenue(z)' <=> Tenue(z),
              DOMAIN declinaisons'[p] = DOMAIN declinaisons[p]
       PROVE  /\ ProduitDe(q)' = p
              /\ \A z \in Demandees(p) \ {x} : Prise(z)' <=> Prise(z)
              /\ p \in Suivis => (Prise(x)' <=> Tenue(x)')
              /\ GrilleTient(p)'
              /\ ~En(q, "totaliser", p)'
  <2>1. ProduitDe(q)' = p
    BY <1>1, <1>10, MemeProduit DEF Devient
  <2>2. \A z \in Demandees(p) \ {x} : Prise(z)' <=> Prise(z)
    <3>1. ASSUME NEW z \in Demandees(p) \ {x} PROVE ~(z[1] = c /\ z[2] = i)
      BY <1>1, <1>3, <3>1 DEF Demandees
    <3>. QED BY <1>1, <1>2, <1>3, <1>10, <3>1, PriseReste DEF EnMain, Pour, Devient
  <2>3. p \in Suivis => (Prise(x)' <=> Tenue(x)')
    <3>1. ASSUME p \in Suivis, NEW o \in Requetes, NEW pc \in {"prendreTotal", "rendreTotal"}
          PROVE  ~EnMain(o, x, pc)'
      BY <1>6, <1>10, <3>1, EnReste DEF EnMain, Devient, Pour
    <3>. QED BY <3>1 DEF Prise
  <2>4. \A e \in {"regarnir", "totaliser"} : \A o \in Requetes : En(o, e, p)' <=> En(o, e, p)
    BY <1>2, <1>10, EnReste DEF Devient, En
  <2>5. GrilleTient(p)'
    BY <1>3, <1>5, <1>8, <1>10, <2>4, GrilleReste DEF StockTient
  <2>. QED BY <1>10, <2>1, <2>2, <2>3, <2>5 DEF Devient, En
<1>11. CASE /\ produits[p].stock >= 1
            /\ produits' = [produits EXCEPT ![p].stock = @ - 1]
            /\ tenues' = [tenues EXCEPT ![c] = @ \cup {i}]
            /\ requetes' = [requetes EXCEPT ![q].pc = "rafraichir", ![q].lignes = @ \cup {i}]
            /\ UNCHANGED declinaisons
  <2>1. PICK y : y = [r EXCEPT !.pc = "rafraichir", !.lignes = @ \cup {i}]
    OBVIOUS
  <2>2. Devient(q, y)
    BY <1>11, <2>1, UneRequete DEF TypeInv
  <2>3. y # Inactive /\ y.objet = c /\ y.ligne = i /\ y.pc = "rafraichir"
    BY <1>1, <1>3, <2>1 DEF Requete, Inactive
  <2>4. /\ tenues'[c] = tenues[c] \cup {i}
        /\ \A d \in References \ {c} : tenues'[d] = tenues[d]
    BY <1>3, <1>11 DEF TypeInv, RequetesTypees
  <2>5. \A s \in Produits : \A z \in Demandees(s) \ {x} : Tenue(z)' <=> Tenue(z)
    BY <1>1, <1>3, <2>4 DEF Tenue, Demandees
  <2>6. Tenue(x)'
    BY <1>3, <2>4 DEF Tenue
  <2>7. /\ ProduitDe(q)' = p
        /\ \A z \in Demandees(p) \ {x} : Prise(z)' <=> Prise(z)
        /\ p \in Suivis => (Prise(x)' <=> Tenue(x)')
        /\ GrilleTient(p)'
        /\ ~En(q, "totaliser", p)'
    BY <1>3, <1>10, <1>11, <2>2, <2>3, <2>5
  <2>8. /\ \A s \in Produits \ {p} : produits'[s] = produits[s]
        /\ produits'[p].stock = produits[p].stock - 1
    <3>1. UnTotal(p, produits[p].stock - 1)
      BY <1>3, <1>11, TotalEcrit
    <3>. QED BY <3>1 DEF UnTotal
  <2>9. TotalTient(p)'
    <3>1. ASSUME (p \in Suivis)' PROVE Compte(produits[p].stock, Tenues(p), base[p][Sans])'
      <4>1. p \in Suivis /\ (p \notin perturbes)'
        BY <3>1 DEF SuiviDiminue, Suivis
      <4>2. Compte(produits[p].stock, Tenues(p), base[p][Sans])
        BY <1>5, <1>8, <4>1 DEF StockTient, TotalTient
      <4>3. Tenues(p)' = Tenues(p) \cup {x} /\ x \notin Tenues(p)
        BY <1>3, <1>6, <2>5, <2>6, <4>1 DEF Tenues, Demandees, LignesDe
      <4>4. Compte(produits[p].stock - 1, Tenues(p) \cup {x}, base[p][Sans])
        <5>1. produits[p].stock \in Int
          BY <1>9
        <5>. QED BY <4>2, <4>3, <5>1, CompteUn
      <4>. QED BY <1>2, <2>8, <4>3, <4>4 DEF Compte
    <3>. QED BY <1>3, <1>5, <2>2, <2>7, <3>1, TotalBouge
  <2>10. VariantesTiennent(p)'
    BY <1>2, <1>3, <1>4, <1>7, <1>8, <1>11, <2>6, <2>7, Declinaisons, VarianteSuit
       DEF StockTient, SuiviDiminue
  <2>11. StatutTient(p)'
    BY <2>2, <2>3, <2>7 DEF StatutTient, Personne, En, Devient
  <2>12. StockTient(p)'
    BY <2>7, <2>9, <2>10, <2>11 DEF StockTient
  <2>13. \A s \in Produits \ {p} : \A z \in Demandees(s) : Tenue(z)' <=> Tenue(z)
    BY <1>3, <2>5 DEF Demandees
  <2>. QED BY <1>1, <1>2, <1>11, <2>2, <2>7, <2>8, <2>12, <2>13, StockDesAutres
           DEF StocksTiennent, BasesTypees
<1>12. CASE /\ produits[p].stock = 0
            /\ declinaisons' = IF SuiviParVariante(p, v)
                               THEN [declinaisons EXCEPT ![p][v] = @ + 1] ELSE declinaisons
            /\ Passer(q, "renoncer")
            /\ UNCHANGED <<produits, tenues>>
  <2>1. Devient(q, requetes'[q]) /\ Deplacee(r, requetes'[q], "renoncer")
    BY <1>3, <1>12, PasserDevient DEF TypeInv
  <2>2. /\ \A s \in Produits \ {p} : declinaisons'[s] = declinaisons[s]
        /\ DOMAIN declinaisons'[p] = DOMAIN declinaisons[p]
        /\ \A w \in DOMAIN declinaisons[p] \ {v} : declinaisons'[p][w] = declinaisons[p][w]
        /\ v \in DOMAIN declinaisons[p] => declinaisons'[p][v] = declinaisons[p][v] + 1
    <3>1. CASE v \in DOMAIN declinaisons[p]
      <4>1. UneVariante(p, v, declinaisons[p][v] + 1)
        BY <1>3, <1>12, <3>1, VarianteEcrite DEF SuiviParVariante
      <4>. QED BY <4>1 DEF UneVariante
    <3>2. CASE v \notin DOMAIN declinaisons[p]
      BY <1>12, <3>2 DEF SuiviParVariante
    <3>. QED BY <3>1, <3>2
  <2>3. \A s : \A z \in Demandees(s) : Tenue(z)' <=> Tenue(z)
    BY <1>12 DEF Tenue
  <2>4. /\ ProduitDe(q)' = p
        /\ \A z \in Demandees(p) \ {x} : Prise(z)' <=> Prise(z)
        /\ p \in Suivis => (Prise(x)' <=> Tenue(x)')
        /\ GrilleTient(p)'
        /\ ~En(q, "totaliser", p)'
    BY <1>1, <1>3, <1>10, <2>1, <2>2, <2>3 DEF Deplacee
  <2>5. TotalTient(p)'
    BY <1>2, <1>3, <1>8, <1>12, <2>1, <2>3, <2>4, TotalReste DEF StockTient, En
  <2>6. p \in Suivis => ~Prise(x)'
    BY <1>3, <1>6, <2>3, <2>4
  <2>7. VariantesTiennent(p)'
    BY <1>2, <1>3, <1>4, <1>7, <1>8, <2>2, <2>4, <2>6, Declinaisons, VarianteSuit
       DEF StockTient, SuiviDiminue
  <2>8. StatutTient(p)'
    BY <1>2, <1>3, <1>8, <1>12, <2>1, StatutReste DEF StockTient
  <2>9. StockTient(p)'
    BY <2>4, <2>5, <2>7, <2>8 DEF StockTient
  <2>. QED BY <1>1, <1>2, <1>12, <2>1, <2>2, <2>3, <2>4, <2>9, StockDesAutres
           DEF StocksTiennent, BasesTypees
<1>. QED BY <1>1, <1>3, <1>11, <1>12 DEF PrendreTotal

\* The variant is given back, while the total still counts the line.
LEMMA RendreVarianteCompte ==
  ASSUME TypeInv, CreationSeule, OrdresTiennent, StocksTiennent, SuiviDiminue,
         NEW q \in Requetes, RendreVariante(q)
  PROVE  StocksTiennent'
<1>. DEFINE r == requetes[q]
<1>1. PICK c, i, p, v, x : /\ c = r.objet /\ i = r.ligne /\ p = ProduitDe(q)
                           /\ v = LigneCourante(q).variante /\ x = <<c, i>>
  OBVIOUS
<1>2. /\ r.pc = "rendre" /\ NoterMouvement(LigneCourante(q).produit)
      /\ UNCHANGED <<produits, base, tenues>> /\ Passer(q, "rendreTotal")
  BY DEF RendreVariante
<1>3. /\ r \in Requete /\ c \in References /\ i \in LignesDe(c) /\ p \in Produits
      /\ LigneCourante(q) = Panier[c][i] /\ LigneCourante(q).produit = p
      /\ x \in Demandees(p) /\ x[1] = c /\ x[2] = i /\ Pour(q, c)
  BY <1>1, <1>2, LigneDuMouvement
<1>4. v = Panier[x[1]][x[2]].variante
  BY <1>1, <1>3
<1>5. Devient(q, requetes'[q]) /\ Deplacee(r, requetes'[q], "rendreTotal") /\ RequetesTypees
  BY <1>2, <1>3, PasserDevient DEF TypeInv
<1>6. ProduitDe(q)' = p /\ EnMain(q, x, "rendreTotal")'
  BY <1>1, <1>3, <1>5, MemeProduit DEF Deplacee, EnMain, Pour
<1>7. /\ \A s \in Produits \ {p} : declinaisons'[s] = declinaisons[s]
      /\ DOMAIN declinaisons'[p] = DOMAIN declinaisons[p]
      /\ \A w \in DOMAIN declinaisons[p] \ {v} : declinaisons'[p][w] = declinaisons[p][w]
      /\ v \in DOMAIN declinaisons[p] => declinaisons'[p][v] = declinaisons[p][v] + 1
  <2>1. declinaisons' = IF v \in DOMAIN declinaisons[p]
                        THEN [declinaisons EXCEPT ![p][v] = @ + 1] ELSE declinaisons
    BY <1>1, <1>3 DEF RendreVariante, SuiviParVariante
  <2>2. CASE v \in DOMAIN declinaisons[p]
    <3>1. UneVariante(p, v, declinaisons[p][v] + 1)
      BY <1>3, <2>1, <2>2, VarianteEcrite
    <3>. QED BY <3>1 DEF UneVariante
  <2>3. CASE v \notin DOMAIN declinaisons[p]
    BY <2>1, <2>3
  <2>. QED BY <2>2, <2>3
<1>8. (p \notin perturbes)' => Personne("regarnir", p) /\ Personne("totaliser", p)
  BY <1>2, <1>3, MouvementNote
<1>9. StockTient(p)'
  <2>0. StockTient(p) /\ requetes'[q].pc = "rendreTotal"
    BY <1>3, <1>5 DEF StocksTiennent, Deplacee
  <2>1. GrilleTient(p)'
    <3>1. \A e \in {"regarnir", "totaliser"} : \A o \in Requetes : En(o, e, p)' <=> En(o, e, p)
      BY <1>2, <1>5, <2>0, EnReste DEF Devient, En
    <3>. QED BY <1>3, <1>7, <1>8, <2>0, <3>1, GrilleReste DEF StockTient
  <2>2. TotalTient(p)'
    BY <1>2, <1>3, <1>5, <2>0, TotalReste DEF StockTient, En, Tenue
  <2>3. VariantesTiennent(p)'
    <3>1. \A z \in Demandees(p) \ {x} : Prise(z)' <=> Prise(z)
      <4>1. ASSUME NEW z \in Demandees(p) \ {x} PROVE ~(z[1] = c /\ z[2] = i)
        BY <1>1, <1>3, <4>1 DEF Demandees
      <4>. QED BY <1>1, <1>2, <1>3, <1>5, <4>1, PriseReste DEF EnMain, Pour, Deplacee, Tenue
    <3>2. p \in Suivis => Prise(x) /\ ~Prise(x)'
      <4>1. SUFFICES ASSUME p \in Suivis PROVE Prise(x) /\ ~Prise(x)'
        OBVIOUS
      <4>2. /\ Tenue(x)
            /\ \A o \in Requetes \ {q} : ~EnMain(o, x, "rendreTotal")
            /\ \A o \in Requetes : ~EnMain(o, x, "prendreTotal")
        BY <1>1, <1>2, <4>1, SeulARendre
      <4>3. Prise(x)
        BY <1>2, <4>2 DEF Prise, EnMain
      <4>4. \A o \in Requetes : ~EnMain(o, x, "prendreTotal")'
        BY <1>5, <2>0, <4>2, EnReste DEF EnMain, Devient
      <4>. QED BY <1>6, <4>3, <4>4 DEF Prise
    <3>. QED BY <1>2, <1>3, <1>4, <1>7, <2>0, <3>1, <3>2, Declinaisons, VarianteSuit
             DEF StockTient, SuiviDiminue
  <2>4. StatutTient(p)'
    BY <1>2, <1>3, <1>5, <2>0, StatutReste DEF StockTient
  <2>. QED BY <2>1, <2>2, <2>3, <2>4 DEF StockTient
<1>10. \A s \in Produits : StockTient(s)'
  BY <1>1, <1>2, <1>3, <1>5, <1>6, <1>7, <1>9, StockDesAutres DEF Tenue
<1>. QED BY <1>2, <1>10 DEF StocksTiennent, BasesTypees

\* The total is given back.
LEMMA RendreTotalCompte ==
  ASSUME TypeInv, CreationSeule, OrdresTiennent, StocksTiennent, SuiviDiminue,
         NEW q \in Requetes, RendreTotal(q)
  PROVE  StocksTiennent'
<1>. DEFINE r == requetes[q]
<1>1. PICK c, i, p, x : c = r.objet /\ i = r.ligne /\ p = ProduitDe(q) /\ x = <<c, i>>
  OBVIOUS
<1>2. /\ r.pc = "rendreTotal" /\ NoterMouvement(LigneCourante(q).produit)
      /\ UNCHANGED <<declinaisons, base>> /\ Passer(q, "rafraichir")
  BY DEF RendreTotal
<1>3. /\ r \in Requete /\ c \in References /\ i \in LignesDe(c) /\ p \in Produits
      /\ LigneCourante(q) = Panier[c][i] /\ LigneCourante(q).produit = p
      /\ x \in Demandees(p) /\ x[1] = c /\ x[2] = i /\ Pour(q, c)
  BY <1>1, <1>2, LigneDuMouvement
<1>4. UnTotal(p, produits[p].stock + 1) /\ produits[p].stock \in Int
  <2>1. produits' = [produits EXCEPT ![p].stock = @ + 1]
    BY <1>3 DEF RendreTotal
  <2>2. produits[p].stock \in Nat
    BY <1>3, ProduitsType DEF TypeInv, TypeOKCommande, RangeeProduit
  <2>3. UnTotal(p, produits[p].stock + 1)
    BY <1>3, <2>1, TotalEcrit
  <2>. QED BY <2>2, <2>3
<1>5. Devient(q, requetes'[q]) /\ Deplacee(r, requetes'[q], "rafraichir") /\ RequetesTypees
  BY <1>2, <1>3, PasserDevient DEF TypeInv
<1>6. ProduitDe(q)' = p /\ requetes'[q].pc = "rafraichir"
  BY <1>1, <1>5, MemeProduit DEF Deplacee
<1>7. /\ tenues'[c] = tenues[c] \ {i}
      /\ \A d \in References \ {c} : tenues'[d] = tenues[d]
  <2>1. tenues' = [tenues EXCEPT ![c] = @ \ {i}]
    BY <1>1 DEF RendreTotal
  <2>. QED BY <1>3, <1>5, <2>1 DEF RequetesTypees
<1>8. /\ ~Tenue(x)' /\ \A s \in Produits : \A z \in Demandees(s) \ {x} : Tenue(z)' <=> Tenue(z)
  BY <1>1, <1>3, <1>7 DEF Tenue, Demandees
<1>9. (p \notin perturbes)' => Personne("regarnir", p) /\ Personne("totaliser", p)
  BY <1>2, <1>3, MouvementNote
<1>10. p \in Suivis => /\ Tenue(x)
                       /\ \A o \in Requetes : ~EnMain(o, x, "prendreTotal")
  BY <1>1, <1>2, SeulARendre
<1>11. StockTient(p)'
  <2>0. StockTient(p)
    BY <1>3 DEF StocksTiennent
  <2>1. GrilleTient(p)'
    <3>1. \A e \in {"regarnir", "totaliser"} : \A o \in Requetes : En(o, e, p)' <=> En(o, e, p)
      BY <1>2, <1>5, <1>6, EnReste DEF Devient, En
    <3>. QED BY <1>2, <1>3, <1>9, <2>0, <3>1, GrilleReste DEF StockTient
  <2>2. TotalTient(p)'
    <3>1. ASSUME (p \in Suivis)' PROVE Compte(produits[p].stock, Tenues(p), base[p][Sans])'
      <4>1. p \in Suivis /\ (p \notin perturbes)'
        BY <3>1 DEF SuiviDiminue, Suivis
      <4>2. Compte(produits[p].stock, Tenues(p), base[p][Sans])
        BY <1>9, <2>0, <4>1 DEF StockTient, TotalTient
      <4>3. Tenues(p)' = Tenues(p) \ {x} /\ x \in Tenues(p)
        BY <1>3, <1>8, <1>10, <4>1 DEF Tenues, Demandees, LignesDe
      <4>4. Compte(produits[p].stock + 1, Tenues(p) \ {x}, base[p][Sans])
        BY <1>4, <4>2, <4>3, CompteUn
      <4>. QED BY <1>2, <1>4, <4>3, <4>4 DEF Compte, UnTotal
    <3>2. ~En(q, "totaliser", p)'
      BY <1>6 DEF En
    <3>. QED BY <1>3, <1>5, <1>9, <3>1, <3>2, TotalBouge
  <2>3. VariantesTiennent(p)'
    <3>1. \A z \in Demandees(p) \ {x} : Prise(z)' <=> Prise(z)
      <4>1. ASSUME NEW z \in Demandees(p) \ {x} PROVE ~(z[1] = c /\ z[2] = i)
        BY <1>1, <1>3, <4>1 DEF Demandees
      <4>. QED BY <1>1, <1>2, <1>3, <1>5, <1>8, <4>1, PriseReste DEF EnMain, Pour, Deplacee
    <3>2. p \in Suivis => ~Prise(x) /\ ~Prise(x)'
      <4>1. SUFFICES ASSUME p \in Suivis PROVE ~Prise(x) /\ ~Prise(x)'
        OBVIOUS
      <4>2. EnMain(q, x, "rendreTotal")
        BY <1>1, <1>2, <1>3 DEF EnMain
      <4>3. \A o \in Requetes : ~EnMain(o, x, "prendreTotal")'
        BY <1>5, <1>6, <1>10, <4>1, EnReste DEF EnMain, Devient
      <4>. QED BY <1>8, <1>10, <4>1, <4>2, <4>3 DEF Prise
    <3>3. (p \in Suivis)' => \A z \in Demandees(p) : Prise(z)' <=> Prise(z)
      BY <3>1, <3>2 DEF SuiviDiminue
    <3>. QED BY <1>2, <1>3, <2>0, <3>3, VariantesRestent DEF StockTient
  <2>4. StatutTient(p)'
    BY <1>6 DEF StatutTient, Personne, En
  <2>. QED BY <2>1, <2>2, <2>3, <2>4 DEF StockTient
<1>12. \A s \in Produits \ {p} : \A z \in Demandees(s) : Tenue(z)' <=> Tenue(z)
  BY <1>3, <1>8 DEF Demandees
<1>13. \A s \in Produits : StockTient(s)'
  BY <1>1, <1>2, <1>3, <1>4, <1>5, <1>6, <1>11, <1>12, StockDesAutres DEF UnTotal
<1>. QED BY <1>2, <1>13 DEF StocksTiennent, BasesTypees

------------------------------------------------------------------------------
(* The refresh of a product, and what the office saves.                    *)

\* A request that neither takes nor gives back, before or after its step, and writes
\* at most the row of p.
LEMMA RangeeSeule ==
  ASSUME TypeInv, StocksTiennent, SuiviDiminue, NEW q \in Requetes, NEW y, Devient(q, y),
         NEW p \in Produits,
         requetes[q].pc \notin Mouvements \ {"rafraichir", "sauver"},
         requetes'[q].pc \notin Mouvements \ {"rafraichir", "sauver"},
         requetes[q].pc \in {"rafraichir", "sauver"} => ProduitDe(q) = p,
         requetes'[q].pc \in {"rafraichir", "sauver"} => ProduitDe(q)' = p,
         UNCHANGED <<declinaisons, base, tenues>>,
         \A s \in Produits \ {p} : produits'[s] = produits[s],
         (p \in Suivis)' =>
           /\ produits'[p].stock = produits[p].stock
           /\ \/ requetes'[q].pc \in {"rafraichir", "sauver"}
              \/ Coherente(produits[p])'
              \/ /\ produits'[p] = produits[p]
                 /\ requetes[q].pc \notin {"rafraichir", "sauver"}
  PROVE  StocksTiennent'
<1>1. StockTient(p)
  BY DEF StocksTiennent
<1>2. \A pc \in Mouvements \ {"rafraichir", "sauver"} : \A o \in Requetes :
        /\ En(o, pc, p)' <=> En(o, pc, p)
        /\ En(o, pc, p) => requetes'[o] = requetes[o]
  BY EnReste DEF Devient, En
<1>3. \A z \in Demandees(p) : Prise(z)' <=> Prise(z)
  <2>1. ASSUME NEW z \in Demandees(p) PROVE Prise(z)' <=> Prise(z)
    BY PriseReste DEF EnMain, Mouvements, Tenue
  <2>. QED BY <2>1
<1>4. GrilleTient(p)'
  BY <1>1, <1>2 DEF StockTient, GrilleTient, SuiviDiminue, Personne, Mouvements
<1>5. TotalTient(p)'
  <2>1. Tenues(p)' = Tenues(p)
    BY DEF Tenues, Demandees, LignesDe, Tenue
  <2>2. SUFFICES ASSUME (p \in Suivis)' PROVE TotalTient(p)'
    BY DEF TotalTient
  <2>3. produits'[p].stock = produits[p].stock /\ p \in Suivis
    BY <2>2 DEF SuiviDiminue
  <2>. QED BY <1>1, <1>2, <2>1, <2>3 DEF StockTient, TotalTient, Personne, Mouvements
<1>6. VariantesTiennent(p)'
  BY <1>1, <1>3, VariantesRestent DEF StockTient
<1>7. StatutTient(p)'
  <2>1. SUFFICES ASSUME (p \in Suivis)'
                 PROVE  \/ Coherente(produits[p])'
                        \/ ~Personne("rafraichir", p)' \/ ~Personne("sauver", p)'
    BY DEF StatutTient, Coherente
  <2>2. CASE requetes'[q].pc \in {"rafraichir", "sauver"}
    BY <2>2 DEF Personne, En
  <2>3. CASE /\ produits'[p] = produits[p]
             /\ requetes[q].pc \notin {"rafraichir", "sauver"}
    <3>1. StatutTient(p)'
      BY <1>1, <2>3, StatutReste DEF StockTient
    <3>. QED BY <2>1, <3>1 DEF StatutTient, Coherente
  <2>. QED BY <2>1, <2>2, <2>3
<1>8. StockTient(p)'
  BY <1>4, <1>5, <1>6, <1>7 DEF StockTient
<1>9. \A s \in Produits : StockTient(s)'
  BY <1>8, StockDesAutres DEF Tenue, Mouvements
<1>. QED BY <1>9 DEF StocksTiennent, BasesTypees

\* The refresh reads the row and, unless its status is right, is about to save it.
LEMMA RafraichirCompte ==
  ASSUME TypeInv, StocksTiennent, SuiviDiminue, NEW q \in Requetes, Rafraichir(q)
  PROVE  StocksTiennent'
<1>1. PICK p, juste : p = ProduitDe(q) /\ juste = statutSelonStock(produits[p], produits[p].stock)
  OBVIOUS
<1>2. /\ requetes[q].pc = "rafraichir"
      /\ UNCHANGED <<produits, declinaisons, base, tenues>>
  BY DEF Rafraichir
<1>3. p \in Produits /\ produits[p] \in RangeeProduit
  BY <1>1, <1>2, ProduitEnMouvement DEF EtapesDeLigne
<1>4. Devient(q, requetes'[q])
  BY QuiBouge DEF Boutique
<1>5. CASE juste = produits[p].statut /\ Continuer(q)
  <2>1. requetes'[q].pc \notin Mouvements
    BY <1>2, <1>5, ContinuerSansMouvement
  <2>2. (p \in Suivis)' => Coherente(produits[p])'
    <3>1. (p \in Suivis)' => produits[p].statut \in AVendre
      BY <1>2 DEF Suivis, EnVente, AVendre
    <3>2. produits[p].statut \in AVendre => Coherente(produits[p])
      BY <1>1, <1>3, <1>5 DEF AVendre, Coherente, statutSelonStock
    <3>. QED BY <1>2, <3>1, <3>2 DEF Coherente
  <2>. QED BY <1>1, <1>2, <1>3, <1>4, <2>1, <2>2, RangeeSeule DEF Mouvements
<1>6. CASE ~(juste = produits[p].statut /\ Continuer(q))
  <2>1. /\ requetes'[q].pc = "sauver"
        /\ requetes'[q].objet = requetes[q].objet /\ requetes'[q].ligne = requetes[q].ligne
    BY <1>1, <1>6, RafraichirLit
  <2>2. ProduitDe(q)' = p
    BY <1>1, <2>1, MemeProduit
  <2>. QED BY <1>1, <1>2, <1>3, <1>4, <2>1, <2>2, RangeeSeule DEF Mouvements
<1>. QED BY <1>5, <1>6

\* The row saved is the one that was read, but for its status, or the product is
\* followed no more.
LEMMA SauverCompte ==
  ASSUME TypeInv, SauvegardesTiennent, StocksTiennent, SuiviDiminue,
         NEW q \in Requetes, Sauver(q)
  PROVE  StocksTiennent'
<1>1. PICK p, e : p = ProduitDe(q) /\ e = requetes[q].ecrit
  OBVIOUS
<1>2. /\ requetes[q].pc = "sauver" /\ Continuer(q)
      /\ UNCHANGED <<declinaisons, base, tenues>>
      /\ produits' = [produits EXCEPT ![p] = e]
      /\ (p \notin perturbes)' => produits[p] = requetes[q].lu
  BY <1>1 DEF Sauver
<1>3. p \in Produits /\ produits[p] \in RangeeProduit
  BY <1>1, <1>2, ProduitEnMouvement DEF EtapesDeLigne
<1>4. Devient(q, requetes'[q])
  BY QuiBouge DEF Boutique
<1>5. produits'[p] = e /\ \A s \in Produits \ {p} : produits'[s] = produits[s]
  BY <1>2, <1>3, RangeeEcrite
<1>6. requetes'[q].pc \notin Mouvements
  BY <1>2, ContinuerSansMouvement
<1>7. Sauvegarde(requetes[q])
  BY DEF SauvegardesTiennent
<1>8. ASSUME (p \in Suivis)'
      PROVE  produits'[p].stock = produits[p].stock /\ Coherente(produits[p])'
  <2>1. (p \notin perturbes)' /\ produits'[p].statut \in AVendre
    BY <1>8 DEF Suivis, EnVente, AVendre
  <2>2. e.stock = produits[p].stock /\ Coherente(e)
    BY <1>1, <1>2, <1>5, <1>7, <2>1 DEF Sauvegarde
  <2>. QED BY <1>5, <2>2 DEF Coherente
<1>. QED BY <1>1, <1>2, <1>3, <1>4, <1>5, <1>6, <1>8, RangeeSeule DEF Mouvements

\* The office reads a product to save it.
LEMMA ModifierCompte ==
  ASSUME TypeInv, StocksTiennent, SuiviDiminue, NEW q \in Requetes, NEW p \in Produits,
         Modifier(q, p)
  PROVE  StocksTiennent'
<1>1. UNCHANGED <<produits, declinaisons, base, tenues>>
  BY DEF Modifier
<1>2. /\ requetes[q] = Inactive /\ requetes'[q].pc = "sauver"
      /\ requetes'[q].objet = p
  BY ModifierLit
<1>3. Devient(q, requetes'[q])
  BY QuiBouge DEF Boutique
<1>4. ProduitDe(q)' = p
  BY <1>2 DEF ProduitDe
<1>. QED BY <1>1, <1>2, <1>3, <1>4, RangeeSeule DEF Mouvements, Inactive

------------------------------------------------------------------------------
(* What the office counts again.                                           *)

\* The bases of a product are written.
LEMMA BaseEcrite ==
  ASSUME BasesTypees, NEW p \in Produits, NEW b, b = [k \in Compteurs(p) |-> b[k]],
         base' = [base EXCEPT ![p] = b]
  PROVE  BasesTypees' /\ base'[p] = b /\ \A s \in Produits \ {p} : base'[s] = base[s]
<1>1. base = [s \in Produits |-> base[s]]
  BY DEF BasesTypees
<1>2. base'[p] = b /\ \A s \in Produits \ {p} : base'[s] = base[s]
  BY <1>1
<1>3. base' = [s \in Produits |-> base'[s]]
  BY <1>1
<1>4. ASSUME NEW s \in Produits PROVE base'[s] = [k \in Compteurs(s) |-> base'[s][k]]
  BY <1>2 DEF BasesTypees
<1>. QED BY <1>2, <1>3, <1>4 DEF BasesTypees, Compteurs

\* The office adds to the total or takes from it.
LEMMA AjusterStockCompte ==
  ASSUME TypeInv, StocksTiennent, SuiviDiminue, NEW q \in Requetes, NEW p \in Produits,
         NEW delta \in {-1, 1}, AjusterStock(q, p, delta)
  PROVE  StocksTiennent'
<1>1. /\ Geste(q, "ajuster", "rafraichir", p, produits[p])
      /\ NoterMouvement(p) /\ UNCHANGED <<declinaisons, tenues>>
      /\ produits' = [produits EXCEPT ![p].stock = @ + delta]
      /\ base' = [base EXCEPT ![p][Sans] = @ + delta]
  BY DEF AjusterStock
<1>2. /\ requetes[q] = Inactive /\ Devient(q, requetes'[q]) /\ RequetesTypees
      /\ requetes'[q].objet = p /\ requetes'[q].pc = "rafraichir"
  BY <1>1, GesteDevient DEF TypeInv
<1>3. ProduitDe(q)' = p
  BY <1>2 DEF ProduitDe
<1>4. UnTotal(p, produits[p].stock + delta)
  BY <1>1, TotalEcrit
<1>5. produits[p].stock \in Nat
  BY ProduitsType DEF TypeInv, TypeOKCommande, RangeeProduit
<1>6. PICK b : b = [base[p] EXCEPT ![Sans] = @ + delta]
  OBVIOUS
<1>7. /\ b = [k \in Compteurs(p) |-> b[k]] /\ b[Sans] = base[p][Sans] + delta
      /\ \A k \in Grille[p] : b[k] = base[p][k]
  <2>1. base[p] = [k \in Compteurs(p) |-> base[p][k]]
    BY DEF StocksTiennent, BasesTypees
  <2>2. Sans \in Compteurs(p) /\ Grille[p] \subseteq Compteurs(p) /\ Sans \notin Grille[p]
    BY CommandeAssumption DEF Compteurs
  <2>. QED BY <1>6, <2>1, <2>2
<1>8. BasesTypees' /\ base'[p] = b /\ \A s \in Produits \ {p} : base'[s] = base[s]
  <2>1. base' = [base EXCEPT ![p] = b]
    BY <1>1, <1>6
  <2>. QED BY <1>7, <2>1, BaseEcrite DEF StocksTiennent
<1>9. StockTient(p)
  BY DEF StocksTiennent, StockTient
<1>10. (p \notin perturbes)' => Personne("regarnir", p) /\ Personne("totaliser", p)
  BY <1>1, MouvementNote
<1>11. GrilleTient(p)'
  <2>1. \A e \in {"regarnir", "totaliser"} : \A o \in Requetes : En(o, e, p)' <=> En(o, e, p)
    BY <1>2, EnReste DEF Devient, En, Inactive
  <2>. QED BY <1>1, <1>9, <1>10, <2>1, GrilleReste DEF StockTient
<1>12. TotalTient(p)'
  <2>1. ASSUME (p \in Suivis)' PROVE Compte(produits[p].stock, Tenues(p), base[p][Sans])'
    <3>1. p \in Suivis /\ (p \notin perturbes)'
      BY <2>1 DEF SuiviDiminue, Suivis
    <3>2. IsFiniteSet(Tenues(p)) /\ produits[p].stock + Cardinality(Tenues(p)) = base[p][Sans]
      BY <1>9, <1>10, <3>1 DEF StockTient, TotalTient, Compte
    <3>3. Tenues(p)' = Tenues(p)
      BY <1>1 DEF Tenues, Demandees, LignesDe, Tenue
    <3>4. Cardinality(Tenues(p)) \in Nat
      BY <3>2, FS_CardinalityType
    <3>. QED BY <1>4, <1>5, <1>7, <1>8, <3>2, <3>3, <3>4 DEF Compte, UnTotal
  <2>2. ~En(q, "totaliser", p)'
    BY <1>2 DEF En
  <2>. QED BY <1>2, <1>10, <2>1, <2>2, TotalBouge
<1>13. VariantesTiennent(p)'
  <2>1. \A z \in Demandees(p) : Prise(z)' <=> Prise(z)
    <3>1. ASSUME NEW z \in Demandees(p) PROVE Prise(z)' <=> Prise(z)
      BY <1>1, <1>2, PriseReste DEF EnMain, Pour, Tenue
    <3>. QED BY <3>1
  <2>2. \A w \in DOMAIN declinaisons[p] : base'[p][w] = base[p][w]
    BY <1>7, <1>8, Declinaisons
  <2>. QED BY <1>1, <1>9, <2>1, <2>2, VariantesRestent DEF StockTient
<1>14. StatutTient(p)'
  BY <1>2, <1>3 DEF StatutTient, Personne, En
<1>15. StockTient(p)'
  BY <1>11, <1>12, <1>13, <1>14 DEF StockTient
<1>16. \A s \in Produits : StockTient(s)'
  BY <1>1, <1>2, <1>3, <1>4, <1>8, <1>15, StockDesAutres DEF UnTotal, Tenue, Mouvements, Inactive
<1>. QED BY <1>8, <1>16 DEF StocksTiennent

\* The grid of a product is deleted: unless a movement is between its two counters,
\* nothing but the total counts until it is written again.
LEMMA ViderGrilleCompte ==
  ASSUME TypeInv, StocksTiennent, SuiviDiminue, NEW q \in Requetes, NEW p \in Produits,
         ViderGrille(q, p)
  PROVE  StocksTiennent'
<1>1. /\ Geste(q, "definir", "regarnir", p, produits[p]) /\ ~EnDefinition(p)
      /\ UNCHANGED <<produits, tenues, base>>
      /\ declinaisons' = [declinaisons EXCEPT ![p] = <<>>]
  BY DEF ViderGrille
<1>2. /\ requetes[q] = Inactive /\ Devient(q, requetes'[q]) /\ RequetesTypees
      /\ requetes'[q].objet = p /\ requetes'[q].pc = "regarnir"
  BY <1>1, GesteDevient DEF TypeInv
<1>3. ProduitDe(q)' = p
  BY <1>2 DEF ProduitDe
<1>4. declinaisons'[p] = <<>> /\ \A s \in Produits \ {p} : declinaisons'[s] = declinaisons[s]
  BY <1>1, GrilleEcrite
<1>5. (p \notin perturbes)' =>
        \A o \in Requetes : ~En(o, "prendreTotal", p) /\ ~En(o, "rendreTotal", p)
  BY <1>2 DEF ViderGrille, En, Inactive
<1>6. Personne("regarnir", p) /\ Personne("totaliser", p)
  <2>1. ASSUME NEW o \in Requetes, NEW pc \in EtapesDeGrille, En(o, pc, p) PROVE FALSE
    <3>1. requetes[o] \in Requete /\ requetes[o].objet \in Produits /\ requetes[o] # Inactive
      BY <1>2, <2>1, EnCours, SurCommande DEF En, EtapesDeGrille
    <3>. QED BY <1>1, <2>1, <3>1 DEF En, EnDefinition, EnVol, ProduitDe, EtapesDeGrille
  <2>. QED BY <2>1 DEF Personne, EtapesDeGrille
<1>7. \A o \in Requetes \ {q} : \A pc : En(o, pc, p)' <=> En(o, pc, p)
  BY <1>2, EnReste DEF Devient
<1>8. StockTient(p)
  BY DEF StocksTiennent
<1>9. GrilleTient(p)'
  <2>1. SUFFICES ASSUME (p \notin perturbes)'
                 PROVE  /\ \A o \in Requetes : ~En(o, "prendreTotal", p)' /\ ~En(o, "rendreTotal", p)'
                        /\ \A o \in Requetes :
                             En(o, "regarnir", p)' \/ En(o, "totaliser", p)' => o = q
                        /\ ~Personne("regarnir", p)'
    BY <1>4 DEF GrilleTient
  <2>2. \A o \in Requetes : ~En(o, "prendreTotal", p)' /\ ~En(o, "rendreTotal", p)'
    BY <1>2, <1>5, <1>7, <2>1 DEF En
  <2>3. \A o \in Requetes : En(o, "regarnir", p)' \/ En(o, "totaliser", p)' => o = q
    BY <1>6, <1>7 DEF Personne
  <2>4. ~Personne("regarnir", p)'
    BY <1>2, <1>3 DEF Personne, En
  <2>. QED BY <2>2, <2>3, <2>4
<1>10. TotalTient(p)'
  BY <1>1, <1>2, <1>8, TotalReste DEF StockTient, En, Inactive, Tenue
<1>11. VariantesTiennent(p)'
  <2>1. DOMAIN declinaisons'[p] = {}
    BY <1>4
  <2>. QED BY <2>1 DEF VariantesTiennent
<1>12. StatutTient(p)'
  BY <1>1, <1>2, <1>8, StatutReste DEF StockTient, Inactive
<1>13. StockTient(p)'
  BY <1>9, <1>10, <1>11, <1>12 DEF StockTient
<1>14. \A s \in Produits : StockTient(s)'
  BY <1>1, <1>2, <1>3, <1>4, <1>13, StockDesAutres DEF Tenue, Mouvements, Inactive
<1>. QED BY <1>1, <1>14 DEF StocksTiennent, BasesTypees

\* What the counters give away, as the specification counts it.
LEMMA TenuEst ==
  ASSUME TypeInv, NEW p \in Produits
  PROVE  /\ Tenu(p, Sans) = Cardinality(Tenues(p))
         /\ \A v \in Variantes :
              Tenu(p, v) = Cardinality({x \in Tenues(p) : Panier[x[1]][x[2]].variante = v})
<1>1. \A x : x \in LignesTenues <=> x \in References \X Nat /\ x[2] \in LignesDe(x[1]) /\ Tenue(x)
  <2>1. \A c \in References : tenues[c] \subseteq LignesDe(c) /\ LignesDe(c) \subseteq Nat
    BY LigneDuPanier DEF TypeInv, TypeOKCommande
  <2>2. ASSUME NEW x \in LignesTenues
        PROVE  x \in References \X Nat /\ x[2] \in LignesDe(x[1]) /\ Tenue(x)
    <3>1. PICK c \in References : x \in {c} \X tenues[c]
      BY <2>2 DEF LignesTenues
    <3>2. x = <<x[1], x[2]>> /\ x[1] = c /\ x[2] \in tenues[c]
      BY <3>1
    <3>3. x[2] \in LignesDe(c) /\ x[2] \in Nat
      BY <2>1, <3>2
    <3>4. <<x[1], x[2]>> \in References \X Nat
      BY <3>2, <3>3
    <3>. QED BY <3>2, <3>3, <3>4 DEF Tenue
  <2>3. ASSUME NEW x \in References \X Nat, Tenue(x) PROVE x \in LignesTenues
    <3>1. x \in {x[1]} \X tenues[x[1]] /\ x[1] \in References
      BY <2>3 DEF Tenue
    <3>. QED BY <3>1 DEF LignesTenues
  <2>. QED BY <2>2, <2>3
<1>2. Tenues(p) = {x \in LignesTenues : Panier[x[1]][x[2]].produit = p}
  BY <1>1 DEF Tenues, Demandees
<1>3. Tenu(p, Sans) = Cardinality(Tenues(p))
  BY <1>2 DEF Tenu
<1>4. ASSUME NEW v \in Variantes
      PROVE  Tenu(p, v) = Cardinality({x \in Tenues(p) : Panier[x[1]][x[2]].variante = v})
  <2>1. v # Sans
    BY CommandeAssumption
  <2>2. {x \in Tenues(p) : Panier[x[1]][x[2]].variante = v} =
        {x \in LignesTenues : LET l == Panier[x[1]][x[2]]
                              IN  l.produit = p /\ v \in {Sans, l.variante}}
    BY <1>2, <2>1
  <2>. QED BY <2>2 DEF Tenu
<1>. QED BY <1>3, <1>4

\* The grid is written again, over what orders already hold.
LEMMA RegarnirCompte ==
  ASSUME TypeInv, StocksTiennent, SuiviDiminue, NEW q \in Requetes, NEW n, Regarnir(q, n)
  PROVE  StocksTiennent'
<1>. DEFINE r == requetes[q]
<1>1. PICK p, e : /\ p = r.objet /\ e = [r.ecrit EXCEPT !.stock = Somme(p, n)]
  OBVIOUS
<1>2. /\ r.pc = "regarnir" /\ UNCHANGED <<produits, tenues, perturbes>>
      /\ declinaisons' = [declinaisons EXCEPT ![p] = [v \in Grille[p] |-> n]]
      /\ requetes' = [requetes EXCEPT ![q].pc = "totaliser", ![q].ecrit = e]
  BY <1>1 DEF Regarnir
<1>3. r \in Requete /\ p \in Produits /\ ProduitDe(q) = p
  BY <1>1, <1>2, EnCours, SurCommande DEF EtapesDeGrille, TypeInv, ProduitDe
<1>4. PICK y : y = [r EXCEPT !.pc = "totaliser", !.ecrit = e]
  OBVIOUS
<1>5. Devient(q, y)
  BY <1>2, <1>4, UneRequete DEF TypeInv
<1>6. y.pc = "totaliser" /\ y.objet = p /\ y.ecrit.stock = Somme(p, n)
  BY <1>1, <1>3, <1>4 DEF Requete, RangeeProduit
<1>7. ProduitDe(q)' = p /\ En(q, "totaliser", p)' /\ requetes'[q] = y
  BY <1>3, <1>5, <1>6 DEF ProduitDe, En, Devient
<1>8. /\ declinaisons'[p] = [v \in Grille[p] |-> n]
      /\ \A s \in Produits \ {p} : declinaisons'[s] = declinaisons[s]
  BY <1>2, <1>3, GrilleEcrite
<1>9. PICK b : b = [k \in Compteurs(p) |->
                      IF k = Sans THEN Somme(p, n) + Tenu(p, Sans) ELSE n + Tenu(p, k)]
  OBVIOUS
<1>10. /\ BasesTypees' /\ \A s \in Produits \ {p} : base'[s] = base[s]
       /\ base'[p][Sans] = Somme(p, n) + Tenu(p, Sans)
       /\ \A v \in Grille[p] : v \in Variantes /\ base'[p][v] = n + Tenu(p, v)
  <2>1. base' = [base EXCEPT ![p] = b]
    BY <1>1, <1>9 DEF Regarnir
  <2>2. b = [k \in Compteurs(p) |-> b[k]]
    BY <1>9
  <2>3. BasesTypees' /\ base'[p] = b /\ \A s \in Produits \ {p} : base'[s] = base[s]
    BY <1>3, <2>1, <2>2, BaseEcrite DEF StocksTiennent
  <2>4. Sans \in Compteurs(p) /\ \A v \in Grille[p] : v \in Compteurs(p) /\ v # Sans /\ v \in Variantes
    BY <1>3, CommandeAssumption DEF Compteurs
  <2>. QED BY <1>9, <2>3, <2>4
<1>11. StockTient(p) /\ En(q, "regarnir", p)
  BY <1>2, <1>3 DEF StocksTiennent, En
<1>12. (p \notin perturbes)' =>
         /\ \A o \in Requetes : ~En(o, "prendreTotal", p) /\ ~En(o, "rendreTotal", p)
         /\ \A o \in Requetes \ {q} : ~En(o, "regarnir", p) /\ ~En(o, "totaliser", p)
  BY <1>2, <1>11 DEF StockTient, GrilleTient
<1>13. \A o \in Requetes \ {q} : \A pc : En(o, pc, p)' <=> En(o, pc, p)
  BY <1>5, EnReste DEF Devient
<1>14. GrilleTient(p)'
  <2>1. DOMAIN declinaisons'[p] = Grille[p]
    BY <1>8
  <2>2. ~En(q, "prendreTotal", p)' /\ ~En(q, "rendreTotal", p)' /\ ~En(q, "regarnir", p)'
    BY <1>6, <1>7 DEF En
  <2>. QED BY <1>12, <1>13, <2>1, <2>2 DEF GrilleTient
<1>15. Tenues(p)' = Tenues(p)
  BY <1>2 DEF Tenues, Demandees, LignesDe, Tenue
<1>16. p \in Suivis => IsFiniteSet(Tenues(p))
  <2>1. \/ Personne("totaliser", p)
        \/ \E o \in Requetes : En(o, "totaliser", p)
    BY DEF Personne
  <2>. QED BY <1>11, <2>1 DEF StockTient, TotalTient, Compte
<1>17. TotalTient(p)'
  <2>1. SUFFICES ASSUME (p \in Suivis)' PROVE TotalTient(p)'
    BY DEF TotalTient
  <2>2. p \in Suivis /\ (p \notin perturbes)'
    BY <2>1 DEF SuiviDiminue, Suivis
  <2>3. Compte(requetes'[q].ecrit.stock, Tenues(p)', base'[p][Sans])
    BY <1>3, <1>6, <1>7, <1>10, <1>15, <1>16, <2>2, TenuEst DEF Compte
  <2>4. \A o \in Requetes : En(o, "totaliser", p)' => o = q
    BY <1>12, <1>13, <2>2
  <2>5. ~Personne("totaliser", p)'
    BY <1>7 DEF Personne
  <2>. QED BY <2>3, <2>4, <2>5 DEF TotalTient, Compte
<1>18. VariantesTiennent(p)'
  <2>1. SUFFICES ASSUME (p \in Suivis)', NEW v \in Grille[p]
                 PROVE  Compte(n, Prises(p, v)', base'[p][v])
    BY <1>8 DEF VariantesTiennent, Compte
  <2>2. p \in Suivis /\ (p \notin perturbes)'
    BY <2>1 DEF SuiviDiminue, Suivis
  <2>3. \A o \in Requetes : \A pc \in {"prendreTotal", "rendreTotal"} : ~En(o, pc, p)'
    BY <1>6, <1>7, <1>12, <1>13, <2>2 DEF En
  <2>4. ASSUME NEW x \in Demandees(p), NEW o \in Requetes, NEW pc \in {"prendreTotal", "rendreTotal"}
        PROVE  ~EnMain(o, x, pc)'
    <3>1. x[1] \in References /\ x[1] \notin Produits /\ Panier[x[1]][x[2]].produit = p
      BY CommandeAssumption DEF Demandees
    <3>. QED BY <2>3, <3>1 DEF EnMain, En, Pour, ProduitDe, LigneCourante
  <2>5. Prises(p, v)' = {x \in Tenues(p) : Panier[x[1]][x[2]].variante = v}
    <3>1. Demandees(p)' = Demandees(p) /\ \A x : Tenue(x)' <=> Tenue(x)
      BY <1>2 DEF Demandees, LignesDe, Tenue
    <3>2. \A x \in Demandees(p) : Prise(x)' <=> Tenue(x)
      BY <2>4, <3>1 DEF Prise
    <3>. QED BY <3>1, <3>2 DEF Prises, Tenues
  <2>6. IsFiniteSet(Prises(p, v)')
    <3>1. Prises(p, v)' \in SUBSET Tenues(p)
      BY <2>5
    <3>. QED BY <1>16, <2>2, <3>1, FS_Subset
  <2>7. base'[p][v] = n + Cardinality(Prises(p, v)')
    BY <1>3, <1>10, <2>1, <2>5, TenuEst
  <2>. QED BY <2>6, <2>7 DEF Compte
<1>19. StatutTient(p)'
  BY <1>2, <1>3, <1>5, <1>11, StatutReste DEF StockTient
<1>20. StockTient(p)'
  BY <1>14, <1>17, <1>18, <1>19 DEF StockTient
<1>21. \A s \in Produits : StockTient(s)'
  BY <1>2, <1>3, <1>5, <1>7, <1>8, <1>10, <1>20, StockDesAutres DEF Tenue
<1>. QED BY <1>10, <1>21 DEF StocksTiennent

\* The total is set to what the grid was given.
LEMMA TotaliserCompte ==
  ASSUME TypeInv, StocksTiennent, SuiviDiminue, NEW q \in Requetes, Totaliser(q)
  PROVE  StocksTiennent'
<1>. DEFINE r == requetes[q]
<1>1. PICK p, n : p = r.objet /\ n = r.ecrit.stock
  OBVIOUS
<1>2. /\ r.pc = "totaliser" /\ UNCHANGED <<declinaisons, tenues, base, perturbes>>
      /\ produits' = [produits EXCEPT ![p].stock = n] /\ Passer(q, "rafraichir")
  BY <1>1 DEF Totaliser
<1>3. r \in Requete /\ p \in Produits /\ ProduitDe(q) = p
  BY <1>1, <1>2, EnCours, SurCommande DEF EtapesDeGrille, TypeInv, ProduitDe
<1>4. Devient(q, requetes'[q]) /\ Deplacee(r, requetes'[q], "rafraichir")
  BY <1>2, <1>3, PasserDevient DEF TypeInv
<1>5. ProduitDe(q)' = p /\ requetes'[q].pc = "rafraichir"
  BY <1>3, <1>4, MemeProduit DEF Deplacee
<1>6. UnTotal(p, n)
  BY <1>2, <1>3, TotalEcrit
<1>7. StockTient(p) /\ En(q, "totaliser", p)
  BY <1>2, <1>3 DEF StocksTiennent, En
<1>8. \A o \in Requetes \ {q} : \A pc : En(o, pc, p)' <=> En(o, pc, p)
  BY <1>4, EnReste DEF Devient
<1>9. (p \notin perturbes)' =>
         /\ \A o \in Requetes : ~En(o, "prendreTotal", p) /\ ~En(o, "rendreTotal", p)
         /\ \A o \in Requetes \ {q} : ~En(o, "regarnir", p) /\ ~En(o, "totaliser", p)
  BY <1>2, <1>7 DEF StockTient, GrilleTient
<1>10. GrilleTient(p)'
  <2>1. SUFFICES ASSUME (p \notin perturbes)' PROVE GrilleTient(p)'
    BY DEF GrilleTient
  <2>2. \A o \in Requetes : ~En(o, "regarnir", p)' /\ ~En(o, "totaliser", p)'
    BY <1>5, <1>8, <1>9, <2>1 DEF En
  <2>3. Personne("regarnir", p)
    BY <1>2, <1>9, <2>1 DEF Personne, En
  <2>4. DOMAIN declinaisons'[p] = Grille[p]
    BY <1>2, <1>7, <2>1, <2>3 DEF StockTient, GrilleTient
  <2>. QED BY <2>2, <2>4 DEF GrilleTient
<1>11. TotalTient(p)'
  <2>1. SUFFICES ASSUME (p \in Suivis)' PROVE TotalTient(p)'
    BY DEF TotalTient
  <2>2. p \in Suivis /\ (p \notin perturbes)'
    BY <2>1 DEF SuiviDiminue, Suivis
  <2>3. Tenues(p)' = Tenues(p)
    BY <1>2 DEF Tenues, Demandees, LignesDe, Tenue
  <2>4. Compte(produits[p].stock, Tenues(p), base[p][Sans])'
    BY <1>1, <1>2, <1>6, <1>7, <2>2, <2>3 DEF StockTient, TotalTient, Compte, UnTotal
  <2>5. Personne("totaliser", p)'
    BY <1>5, <1>8, <1>9, <2>2 DEF Personne, En
  <2>. QED BY <2>4, <2>5 DEF TotalTient, Personne
<1>12. VariantesTiennent(p)'
  <2>1. \A z \in Demandees(p) : Prise(z)' <=> Prise(z)
    <3>1. ASSUME NEW z \in Demandees(p) PROVE Prise(z)' <=> Prise(z)
      BY <1>2, <1>4, <1>5, PriseReste DEF EnMain, Tenue
    <3>. QED BY <3>1
  <2>. QED BY <1>2, <1>3, <1>7, <2>1, VariantesRestent DEF StockTient
<1>13. StatutTient(p)'
  BY <1>5 DEF StatutTient, Personne, En
<1>14. StockTient(p)'
  BY <1>10, <1>11, <1>12, <1>13 DEF StockTient
<1>15. \A s \in Produits : StockTient(s)'
  BY <1>2, <1>3, <1>4, <1>5, <1>6, <1>14, StockDesAutres DEF UnTotal, Tenue
<1>. QED BY <1>2, <1>15 DEF StocksTiennent, BasesTypees

------------------------------------------------------------------------------
(* The stock of the shop agrees with its orders.                           *)

\* A step that moves no stock, or one of the movements above.
LEMMA StocksSuivent ==
  ASSUME TypeInv, CreationSeule, OrdresTiennent, SauvegardesTiennent, StocksTiennent,
         SuiviDiminue, NEW q \in Requetes, Boutique(q) \/ Achat(q) \/ Suivi(q)
  PROVE  StocksTiennent'
<1>1. CASE \/ AchatEnVol(q) \/ SuiviEnVol(q) \/ SuiviNouveau(q)
           \/ \E c \in References : Creer(q, c)
  <2>1. UNCHANGED <<produits, declinaisons, base, tenues>>
    BY <1>1 DEF AchatEnVol, SuiviEnVol, SuiviNouveau, Creer, PreparerLigne, Enregistrer,
       InitierPaiement, Conclure, Renoncer, LireCommande, Confirmer, Echouer, Transiter,
       RecevoirIssueCommande, LireTransition, RienDAutre
  <2>2. Devient(q, requetes'[q])
    BY QuiBouge
  <2>3. requetes[q].pc \notin Mouvements /\ requetes'[q].pc \notin Mouvements
    BY <1>1, CommandeSansMouvement
  <2>4. ASSUME NEW p \in Produits PROVE StockTient(p)'
    <3>1. \A o \in Requetes : Ailleurs(o, p)
      BY <2>2, <2>3 DEF Ailleurs, Devient, En
    <3>. QED BY <2>1, <3>1, StockAilleurs DEF StocksTiennent, Tenue
  <2>. QED BY <2>1, <2>4 DEF StocksTiennent, BasesTypees
<1>2. CASE BoutiqueEnVol(q)
  BY <1>2, PrendreVarianteCompte, PrendreTotalCompte, RendreVarianteCompte, RendreTotalCompte,
     RafraichirCompte, SauverCompte, RegarnirCompte, TotaliserCompte DEF BoutiqueEnVol
<1>3. CASE BoutiqueNouvelle(q)
  BY <1>3, ModifierCompte, ViderGrilleCompte, AjusterStockCompte DEF BoutiqueNouvelle
<1>. QED BY <1>1, <1>2, <1>3, EtapesDUneRequete

\* What the orders hold, what is about to be saved and what the counters say.
AccordInv == OrdresTiennent /\ SauvegardesTiennent /\ StocksTiennent

\* There is something in total exactly when there is of a variant.
LEMMA SommePositive ==
  ASSUME NEW p \in Produits, NEW n \in Nat
  PROVE  Somme(p, n) > 0 <=> n > 0
<1>1. IsFiniteSet(Grille[p])
  BY CommandeAssumption
<1>2. CASE Grille[p] # {}
  <2>1. Cardinality(Grille[p]) \in Nat /\ Cardinality(Grille[p]) # 0
    BY <1>1, <1>2, FS_CardinalityType, FS_EmptySet
  <2>2. \A k \in Nat : k # 0 => (n * k > 0 <=> n > 0)
    OBVIOUS
  <2>. QED BY <1>2, <2>1, <2>2 DEF Somme
<1>. QED BY <1>2 DEF Somme

\* An empty shop book: no order, no request, counters at their bases.
LEMMA DepartAccord == InitCommande => AccordInv
<1>. SUFFICES ASSUME InitCommande PROVE AccordInv
  OBVIOUS
<1>1. \A q \in Requetes : requetes[q] = Inactive
  BY DEF InitCommande
<1>2. /\ \A c \in References : commandes[c].statut = "ABSENTE" /\ tenues[c] = {}
  BY DEF InitCommande, Absente
<1>3. OrdresTiennent
  <2>1. ASSUME NEW c \in References PROVE OrdreTient(c)
    <3>1. \A q \in Requetes : ~Pour(q, c)
      BY <1>1 DEF Pour
    <3>2. ~Vivante(c)
      BY <1>2 DEF Vivante, StatutsCommande
    <3>. QED BY <1>2, <3>1, <3>2 DEF OrdreTient, UneCreation, CreationInconnue, CreationConnue,
             LignesPrises, VivantesTiennent, MortesRendent, RenduUneFois, LignesLues, CreePour,
             RendPour
  <2>. QED BY <2>1 DEF OrdresTiennent
<1>4. SauvegardesTiennent
  BY <1>1 DEF SauvegardesTiennent, Sauvegarde, Inactive
<1>5. BasesTypees
  BY DEF InitCommande, BasesTypees
<1>6. ASSUME NEW p \in Produits PROVE StockTient(p)
  <2>1. /\ produits[p].stock = Somme(p, StockInitial) /\ Somme(p, StockInitial) \in Nat
        /\ produits[p].statut = IF StockInitial > 0 THEN "DISPONIBLE" ELSE "RUPTURE"
    BY SommeType, CommandeAssumption DEF InitCommande
  <2>2. declinaisons[p] = [v \in Grille[p] |-> StockInitial]
    BY DEF InitCommande
  <2>3. /\ base[p][Sans] = Somme(p, StockInitial)
        /\ \A v \in Grille[p] : base[p][v] = StockInitial
    BY CommandeAssumption DEF InitCommande, Compteurs
  <2>4. \A pc \in Mouvements : Personne(pc, p)
    BY <1>1 DEF Personne, En, Inactive, Mouvements
  <2>5. \A x \in Demandees(p) : ~Tenue(x) /\ ~Prise(x)
    BY <1>1, <1>2 DEF Demandees, Tenue, Prise, EnMain, Pour
  <2>6. Tenues(p) = {} /\ \A v : Prises(p, v) = {}
    BY <2>5 DEF Tenues, Prises
  <2>7. \A n \in Nat : Compte(n, {}, n)
    BY FS_EmptySet DEF Compte
  <2>8. GrilleTient(p)
    BY <2>2, <2>4 DEF GrilleTient, Personne, Mouvements
  <2>9. TotalTient(p)
    BY <2>1, <2>3, <2>4, <2>6, <2>7 DEF TotalTient, Personne, Mouvements
  <2>10. VariantesTiennent(p)
    BY <2>2, <2>3, <2>6, <2>7, CommandeAssumption DEF VariantesTiennent
  <2>11. StatutTient(p)
    <3>1. Somme(p, StockInitial) > 0 <=> StockInitial > 0
      BY SommePositive, CommandeAssumption
    <3>. QED BY <2>1, <3>1 DEF StatutTient, Coherente
  <2>. QED BY <2>8, <2>9, <2>10, <2>11 DEF StockTient
<1>. QED BY <1>3, <1>4, <1>5, <1>6 DEF AccordInv, StocksTiennent

\* Every step of the system keeps the agreement.
LEMMA EtapeAccord ==
  ASSUME IInv, AccordInv, [NextCommande]_varsCommande
  PROVE  AccordInv'
<1>0. SuiviDiminue /\ OrdresTiennent /\ SauvegardesTiennent /\ StocksTiennent /\ TypeInv
      /\ CreationSeule
  BY SuiviNeFaitQueDiminuer DEF AccordInv, IInv
<1>1. OrdresTiennent'
  BY <1>0, OrdresEtape
<1>2. ASSUME NEW q \in Requetes, Boutique(q) \/ Achat(q) \/ Suivi(q)
      PROVE  SauvegardesTiennent' /\ StocksTiennent'
  BY <1>0, <1>2, SauvegardesSuivent, StocksSuivent
<1>3. ASSUME UNCHANGED <<produits, declinaisons, base, tenues, requetes>>
      PROVE  SauvegardesTiennent' /\ StocksTiennent'
  <2>1. SauvegardesTiennent'
    BY <1>0, <1>3 DEF SauvegardesTiennent, Sauvegarde, Coherente
  <2>2. ASSUME NEW p \in Produits PROVE StockTient(p)'
    BY <1>0, <1>3, StockAilleurs DEF StocksTiennent, Ailleurs, Tenue
  <2>. QED BY <1>0, <1>3, <2>1, <2>2 DEF StocksTiennent, BasesTypees
<1>4. ASSUME NEW c \in References, Regler(c) \/ Defaire(c)
      PROVE  UNCHANGED <<produits, declinaisons, base, tenues, requetes>>
  BY <1>4 DEF Regler, Defaire, RienDAutre
<1>5. SauvegardesTiennent' /\ StocksTiennent'
  BY <1>2, <1>3, <1>4 DEF NextCommande, varsCommande
<1>. QED BY <1>1, <1>5 DEF AccordInv

\* When no request is in flight the invariant says what the property does.
LEMMA AccordAuRepos ==
  ASSUME IInv, AccordInv
  PROVE  StocksAccordes
<1>. SUFFICES ASSUME BoutiqueAuRepos PROVE StocksAccordes
  BY DEF StocksAccordes, StockExact, StockTenuParVivantes, StatutSuitLeStock
<1>0. TypeInv
  BY DEF IInv
<1>1. \A q \in Requetes : requetes[q] = Inactive
  BY DEF BoutiqueAuRepos, EnVol
<1>2. \A p : \A pc \in Mouvements : Personne(pc, p)
  BY <1>1 DEF Personne, En, Inactive, Mouvements
<1>3. \A x : Prise(x) <=> Tenue(x)
  BY <1>1 DEF Prise, EnMain, Pour
<1>4. ASSUME NEW p \in Suivis
      PROVE  /\ produits[p].stock + Tenu(p, Sans) = base[p][Sans]
             /\ \A v \in DOMAIN declinaisons[p] : declinaisons[p][v] + Tenu(p, v) = base[p][v]
             /\ produits[p].statut = "DISPONIBLE" <=> produits[p].stock > 0
  <2>1. p \in Produits /\ StockTient(p)
    BY DEF Suivis, EnVente, AccordInv, StocksTiennent
  <2>2. Compte(produits[p].stock, Tenues(p), base[p][Sans])
    BY <1>2, <2>1 DEF StockTient, TotalTient, Mouvements
  <2>3. ASSUME NEW v \in DOMAIN declinaisons[p]
        PROVE  declinaisons[p][v] + Tenu(p, v) = base[p][v]
    <3>1. v \in Variantes
      BY <1>0, <2>1, Declinaisons, CommandeAssumption
    <3>2. Prises(p, v) = {x \in Tenues(p) : Panier[x[1]][x[2]].variante = v}
      BY <1>3 DEF Prises, Tenues
    <3>3. Compte(declinaisons[p][v], Prises(p, v), base[p][v])
      BY <2>1 DEF StockTient, VariantesTiennent
    <3>. QED BY <1>0, <2>1, <3>1, <3>2, <3>3, TenuEst DEF Compte
  <2>4. Coherente(produits[p])
    BY <1>2, <2>1 DEF StockTient, StatutTient, Mouvements
  <2>. QED BY <1>0, <2>1, <2>2, <2>3, <2>4, TenuEst DEF Compte, Coherente
<1>5. ASSUME NEW c \in References, NEW i \in tenues[c], Panier[c][i].produit \in Suivis
      PROVE  Vivante(c)
  <2>1. i \in LignesSuivies(c)
    BY <1>0, <1>5 DEF LignesSuivies, TypeInv, TypeOKCommande
  <2>2. \A q \in Requetes : ~CreePour(q, c) /\ ~RendPour(q, c, i)
    BY <1>1 DEF CreePour, RendPour, Pour
  <2>. QED BY <1>5, <2>1, <2>2 DEF AccordInv, OrdresTiennent, OrdreTient, MortesRendent
<1>6. StockExact
  BY <1>4 DEF StockExact, Suivis
<1>7. StockTenuParVivantes
  BY <1>5 DEF StockTenuParVivantes, Suivis, Vivante
<1>8. StatutSuitLeStock
  BY <1>4 DEF StatutSuitLeStock, Suivis
<1>. QED BY <1>6, <1>7, <1>8 DEF StocksAccordes

\* The inductive invariant of stocks holds for any baskets, grids and number of
\* requests: every line held is owed to a living order, to a creator or to the one
\* request that gives it back, and every counter is short of the lines it gave.
THEOREM InvariantAccord == SpecCommande => []AccordInv
<1>1. SpecCommande => []IInv
  BY Invariant
<1>2. InitCommande => AccordInv
  BY DepartAccord
<1>3. IInv /\ AccordInv /\ [NextCommande]_varsCommande => AccordInv'
  BY EtapeAccord
<1>. QED BY <1>1, <1>2, <1>3, PTL DEF SpecCommande

\* Once no request is in flight, for any baskets, grids and number of requests and
\* gestures: the total of a product and each of its variants hold what they would
\* without orders less what living orders hold, no cancelled or deleted order holds
\* any, and the catalogue shows DISPONIBLE exactly what is in stock, but for what
\* was written from a stale reading, which the history marks.
THEOREM StocksToujoursAccordes == SpecCommande => []StocksAccordes
<1>1. SpecCommande => []IInv
  BY Invariant
<1>2. SpecCommande => []AccordInv
  BY InvariantAccord
<1>3. IInv /\ AccordInv => StocksAccordes
  BY AccordAuRepos
<1>. QED BY <1>1, <1>2, <1>3, PTL

==============================================================================

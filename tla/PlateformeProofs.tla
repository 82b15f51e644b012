--------------------------- MODULE PlateformeProofs ---------------------------
(***************************************************************************)
(* Proofs about Auth, Mandats, Sondage, Notifications and Cascade, for any *)
(* number of accounts, of links, of requests, of mandates, of posts, of    *)
(* voters, of reminders, of passes and of ways to send.                    *)
(***************************************************************************)
EXTENDS Auth, Mandats, Sondage, Envois, Sommes

------------------------------------------------------------------------------
(* Auth: what the tables and the requests hold.                            *)

Usager == [existe : BOOLEAN, adresse : Adresses \cup {Aucune}, role : RolesUsagers,
           verifie : BOOLEAN, actif : BOOLEAN, motDePasse : BOOLEAN,
           attente : Adresses \cup {Aucune}, seance : Nat, ancien : BOOLEAN, fiche : BOOLEAN]

Lien == [etat : {"valable", "consomme", "expire", "efface"}, type : TypesJeton,
         compte : Usagers, boite : Adresses]

Seance == [compte : Usagers, aJour : BOOLEAN]

\* The requests, by the step they are at.
PasDuLien == {"consommer", "valider", "activer", "comparer", "definir"}

DuLien == [pc : PasDuLien, l : Liens, c : Usagers, adresse : Adresses \cup {Aucune},
           attente : Adresses \cup {Aucune}, role : RolesUsagers]
DBascule == [pc : {"basculer"}, l : Liens, c : Usagers, adresse : Adresses \cup {Aucune},
             attente : Adresses, role : RolesUsagers]
DEmission == [pc : {"invalider", "emettre"}, type : TypesJeton, c : Usagers, boite : Adresses]
DInscription == [pc : {"inscrire"}, connus : SUBSET Usagers, a : Adresses]
DeSeance == [pc : {"ouvrir", "revoquer"}, c : Usagers]
DAttente == [pc : {"noter"}, c : Usagers, a : Adresses]
DInvitation == [pc : {"inviter"}, a : Adresses]

Appel == DuLien \cup DBascule \cup DEmission \cup DInscription \cup DeSeance \cup DAttente
           \cup DInvitation

\* An account that is not there is empty, and one that is has an address.
Plein(u) == IF u.existe THEN u.adresse \in Adresses ELSE u = SansUsager

TypeAuth ==
  /\ usagers \in [Usagers -> Usager] /\ \A c \in Usagers : Plein(usagers[c])
  /\ liens \in [Liens -> Lien \cup {LienNeuf}]
  /\ seances \in Seq(Seance)
  /\ \A c \in Usagers : usagers[c].seance \in 0 .. Len(seances)
  /\ appels \in [Appels -> Appel \cup {SansAppel}]
  /\ usages \in [Liens -> Nat]
  /\ echanges \in [1 .. MaxSeances -> Nat] /\ Len(seances) <= MaxSeances
  /\ preuves \subseteq Usagers \X Adresses
  /\ chevauche \in BOOLEAN

\* Whatever the requests in flight: a link that was used is not usable again, one
\* that is usable is of somebody, and a session is of its account.
LienSuivi(l) ==
  /\ usages[l] = 0 \/ (usages[l] = 1 /\ liens[l].etat \in {"consomme", "efface"})
  /\ liens[l].etat \in {"valable", "expire"} => usagers[liens[l].compte].existe

ToujoursAuth ==
  /\ \A l \in Liens : LienSuivi(l)
  /\ \A c \in Usagers : usagers[c].seance # 0 => seances[usagers[c].seance].compte = c
  /\ \A t \in 1 .. MaxSeances : t > Len(seances) => echanges[t] = 0

\* One request at a time. A verified account proved its address, and its session
\* is of its present credentials.
CompteSur(c) ==
  /\ usagers[c].verifie => <<c, usagers[c].adresse>> \in preuves
  /\ usagers[c].seance # 0 => usagers[c].verifie /\ seances[usagers[c].seance].aJour

\* A link that can be followed was sent to the address it proves.
BoiteSure(type, c, boite) ==
  IF type = "CHANGEMENT_EMAIL"
  THEN usagers[c].verifie /\ usagers[c].attente \in {Aucune, boite}
  ELSE usagers[c].adresse = boite \/ usagers[c].verifie

Remplace(q, type, c) == appels[q].pc = "invalider" /\ appels[q].type = type /\ appels[q].c = c

LienSur(l) ==
  liens[l].etat = "valable" =>
    \/ BoiteSure(liens[l].type, liens[l].compte, liens[l].boite)
    \/ \E q \in Appels : Remplace(q, liens[l].type, liens[l].compte)

\* A token that was exchanged is not that of its account any more, or is about
\* not to be.
JetonSur(t) ==
  /\ echanges[t] <= 1
  /\ echanges[t] = 1 =>
       \/ usagers[seances[t].compte].seance # t
       \/ \E q \in Appels : appels[q].pc = "ouvrir" /\ appels[q].c = seances[t].compte

\* What a request knows of the account it is about, if it is still there.
Fondee(d) ==
  /\ d.pc \in {"invalider", "emettre"} /\ usagers[d.c].existe =>
       IF d.type = "CHANGEMENT_EMAIL" THEN usagers[d.c].verifie /\ usagers[d.c].attente = d.boite
                                      ELSE usagers[d.c].adresse = d.boite
  /\ d.pc = "noter" /\ usagers[d.c].existe => usagers[d.c].verifie
  /\ d.pc = "ouvrir" /\ usagers[d.c].existe => usagers[d.c].verifie
  /\ d.pc = "inscrire" => \A c \in d.connus : ~usagers[c].verifie
  /\ d.pc = "consommer" =>
       /\ liens[d.l] # LienNeuf /\ liens[d.l].compte = d.c
       /\ usagers[d.c].existe =>
            /\ BoiteSure(liens[d.l].type, d.c, liens[d.l].boite)
            /\ usagers[d.c].attente = d.attente
  /\ d.pc \in {"valider", "activer", "definir"} /\ usagers[d.c].existe =>
       <<d.c, usagers[d.c].adresse>> \in preuves
  /\ d.pc \in {"comparer", "basculer"} /\ usagers[d.c].existe =>
       usagers[d.c].verifie /\ (d.attente = Aucune \/ <<d.c, d.attente>> \in preuves)

EtatSur ==
  /\ \A c \in Usagers : CompteSur(c)
  /\ \A l \in Liens : LienSur(l)
  /\ \A t \in 1 .. Len(seances) : JetonSur(t)

SequenceAuth ==
  /\ \A q, r \in Appels : appels[q] # SansAppel /\ appels[r] # SansAppel => q = r
  /\ \A q \in Appels : appels[q] # SansAppel => Fondee(appels[q])
  /\ EtatSur

IInvAuth == TypeAuth /\ ToujoursAuth /\ (~chevauche => SequenceAuth)


------------------------------------------------------------------------------
(* The rows and the requests keep their shape.                             *)

\* A request at a step is one that step belongs to.
LEMMA AppelLu ==
  ASSUME TypeAuth, NEW q \in Appels
  PROVE  /\ appels[q].pc \in PasDuLien => appels[q] \in DuLien
         /\ appels[q].pc = "basculer" => appels[q] \in DBascule
         /\ appels[q].pc \in {"invalider", "emettre"} => appels[q] \in DEmission
         /\ appels[q].pc = "inscrire" => appels[q] \in DInscription
         /\ appels[q].pc \in {"ouvrir", "revoquer"} => appels[q] \in DeSeance
         /\ appels[q].pc = "noter" => appels[q] \in DAttente
         /\ appels[q].pc = "inviter" => appels[q] \in DInvitation
         /\ appels[q] # SansAppel => appels[q].pc # "libre"
         /\ appels[q].pc # "libre" => appels[q] # SansAppel
<1>1. appels[q] \in DuLien \/ appels[q] \in DEmission \/ appels[q] \in DInscription
        \/ appels[q] \in DeSeance \/ appels[q] \in DAttente \/ appels[q] \in DInvitation
        \/ appels[q] \in DBascule \/ appels[q] = SansAppel
  BY DEF TypeAuth, Appel
<1>2. SansAppel.pc = "libre"
  BY DEF SansAppel
<1>. QED BY <1>1, <1>2 DEF DuLien, PasDuLien, DBascule, DEmission, DInscription, DeSeance, DAttente, DInvitation

LEMMA UsagerLu ==
  ASSUME TypeAuth, NEW c \in Usagers
  PROVE  /\ usagers[c] \in Usager /\ Plein(usagers[c])
         /\ usagers[c].existe => usagers[c].adresse \in Adresses
         /\ ~usagers[c].existe => usagers[c].verifie = FALSE /\ usagers[c].seance = 0
                                  /\ usagers[c].fiche = FALSE /\ usagers[c].role = "VISITOR"
<1>1. usagers[c] \in Usager /\ Plein(usagers[c])
  BY DEF TypeAuth
<1>. QED BY <1>1 DEF Plein, SansUsager

\* A request is made, or goes on.
LEMMA AppelEcrit ==
  ASSUME TypeAuth, NEW q \in Appels, NEW a \in Appel \cup {SansAppel},
         appels' = [appels EXCEPT ![q] = a]
  PROVE  /\ appels' \in [Appels -> Appel \cup {SansAppel}]
         /\ appels'[q] = a /\ \A r \in Appels \ {q} : appels'[r] = appels[r]
  BY DEF TypeAuth

\* An account is written in place.
LEMMA UsagerEcrit ==
  ASSUME TypeAuth, NEW c \in Usagers, NEW u \in Usager, Plein(u),
         u.seance \in 0 .. Len(seances'),
         usagers' = [usagers EXCEPT ![c] = u], Len(seances) <= Len(seances'), Len(seances') \in Nat
  PROVE  /\ usagers' \in [Usagers -> Usager] /\ \A d \in Usagers : Plein(usagers[d])'
         /\ \A d \in Usagers : usagers'[d].seance \in 0 .. Len(seances')
         /\ usagers'[c] = u /\ \A d \in Usagers \ {c} : usagers'[d] = usagers[d]
<1>1. /\ usagers' \in [Usagers -> Usager]
      /\ usagers'[c] = u /\ \A d \in Usagers \ {c} : usagers'[d] = usagers[d]
  BY DEF TypeAuth
<1>2. \A d \in Usagers : Plein(usagers[d]) /\ usagers[d].seance \in 0 .. Len(seances) /\ Len(seances) \in Nat
  BY DEF TypeAuth
<1>3. \A d \in Usagers : Plein(usagers'[d])
  BY <1>1, <1>2
<1>. QED BY <1>1, <1>2, <1>3

\* The sessions of one's former credentials stay, marked.
LEMMA SeancesPerimees ==
  ASSUME TypeAuth, NEW c \in Usagers, Perimer(c)
  PROVE  /\ seances' \in Seq(Seance) /\ Len(seances') = Len(seances) /\ Len(seances) \in Nat
         /\ \A t \in 1 .. Len(seances) :
              /\ seances'[t].compte = seances[t].compte
              /\ seances[t].compte # c => seances'[t] = seances[t]
<1>1. seances \in Seq(Seance) /\ Len(seances) \in Nat /\ DOMAIN seances = 1 .. Len(seances)
  BY DEF TypeAuth
<1>2. seances' = [t \in 1 .. Len(seances) |-> [seances[t] EXCEPT !.aJour = @ /\ seances[t].compte # c]]
  BY <1>1 DEF Perimer
<1>3. ASSUME NEW t \in 1 .. Len(seances)
      PROVE  /\ [seances[t] EXCEPT !.aJour = @ /\ seances[t].compte # c] \in Seance
             /\ seances'[t].compte = seances[t].compte
             /\ seances[t].compte # c => seances'[t] = seances[t]
  <2>1. PICK s \in Seance : s = seances[t]
    BY <1>1
  <2>2. PICK k \in Usagers, b \in BOOLEAN : s.compte = k /\ s.aJour = b /\ s = [compte |-> k, aJour |-> b]
    BY <2>1 DEF Seance
  <2>3. [s EXCEPT !.aJour = @ /\ s.compte # c] = [compte |-> k, aJour |-> b /\ k # c]
    BY <2>2
  <2>4. k \in Usagers
    BY <2>2
  <2>5. seances'[t] = [compte |-> k, aJour |-> b /\ k # c]
    BY <1>2, <2>1, <2>3
  <2>6. k # c => [compte |-> k, aJour |-> b /\ k # c] = [compte |-> k, aJour |-> b]
    OBVIOUS
  <2>7. [compte |-> k, aJour |-> b /\ k # c] \in Seance
    BY <2>4 DEF Seance
  <2>. QED BY <2>1, <2>2, <2>3, <2>5, <2>6, <2>7
<1>4. seances' \in [1 .. Len(seances) -> Seance]
  BY <1>2, <1>3
<1>5. seances' \in Seq(Seance) /\ Len(seances') = Len(seances)
  BY <1>1, <1>4
<1>. QED BY <1>1, <1>3, <1>5

------------------------------------------------------------------------------
(* What each kind of write keeps.                                          *)

\* The requests, as they are after a step that ends none of those others rely on.
Tenus ==
  /\ appels' \in [Appels -> Appel \cup {SansAppel}] /\ chevauche' \in BOOLEAN
  /\ \A r \in Appels : appels[r].pc \in {"invalider", "ouvrir"} => appels'[r] = appels[r]

\* An account is corrected.
Corrige1(c, u) ==
  /\ usagers' = [usagers EXCEPT ![c] = u] /\ usagers[c].existe /\ u.existe
  /\ u.adresse \in Adresses /\ u.seance \in {0, usagers[c].seance}
  /\ UNCHANGED <<liens, preuves, echanges, usages>>
  /\ seances' = seances \/ Perimer(c)

LEMMA CorrigeTient ==
  ASSUME TypeAuth, ToujoursAuth, NEW c \in Usagers, NEW u \in Usager, Corrige1(c, u), Tenus
  PROVE  /\ TypeAuth' /\ ToujoursAuth'
         /\ usagers'[c] = u /\ \A d \in Usagers \ {c} : usagers'[d] = usagers[d]
         /\ Len(seances') = Len(seances) /\ Len(seances) \in Nat
         /\ \A t \in 1 .. Len(seances) : /\ seances'[t].compte = seances[t].compte
                                         /\ seances[t].compte # c => seances'[t] = seances[t]
<1>. USE DEF Corrige1
<1>1. /\ seances' \in Seq(Seance) /\ Len(seances') = Len(seances) /\ Len(seances) \in Nat
      /\ \A t \in 1 .. Len(seances) : /\ seances'[t].compte = seances[t].compte
                                      /\ seances[t].compte # c => seances'[t] = seances[t]
  <2>1. CASE seances' = seances
    BY <2>1 DEF TypeAuth
  <2>2. CASE Perimer(c)
    BY <2>2, SeancesPerimees
  <2>. QED BY <2>1, <2>2
<1>2. Plein(u)
  BY DEF Plein
<1>3. usagers[c].seance \in 0 .. Len(seances)
  BY DEF TypeAuth
<1>4. u.seance \in 0 .. Len(seances') /\ Len(seances) <= Len(seances') /\ Len(seances') \in Nat
  BY <1>1, <1>3
<1>5. /\ usagers' \in [Usagers -> Usager] /\ \A d \in Usagers : Plein(usagers[d])'
      /\ \A d \in Usagers : usagers'[d].seance \in 0 .. Len(seances')
      /\ usagers'[c] = u /\ \A d \in Usagers \ {c} : usagers'[d] = usagers[d]
  BY <1>2, <1>4, UsagerEcrit
<1>6. TypeAuth'
  BY <1>1, <1>5 DEF TypeAuth, Tenus
<1>7. \A d \in Usagers : usagers[d].seance # 0 => seances[usagers[d].seance].compte = d /\ usagers[d].seance \in 1 .. Len(seances)
  BY <1>1 DEF ToujoursAuth, TypeAuth
<1>8. \A d \in Usagers : usagers'[d].seance # 0 => usagers'[d].seance = usagers[d].seance
  BY <1>5
<1>9. \A d \in Usagers : usagers'[d].existe <=> usagers[d].existe
  BY <1>5
<1>10. \A l \in Liens : LienSuivi(l)'
  <2>. TAKE l \in Liens
  <2>1. LienSuivi(l)
    BY DEF ToujoursAuth
  <2>2. liens[l].etat \in {"valable", "expire"} => liens[l].compte \in Usagers
    BY DEF TypeAuth, Lien, LienNeuf
  <2>. QED BY <1>9, <2>1, <2>2 DEF LienSuivi
<1>11. ToujoursAuth'
  BY <1>1, <1>7, <1>8, <1>10 DEF ToujoursAuth
<1>. QED BY <1>1, <1>5, <1>6, <1>11

LEMMA CorrigeSur ==
  ASSUME TypeAuth, ToujoursAuth, EtatSur, NEW c \in Usagers, NEW u \in Usager, Corrige1(c, u), Tenus,
         usagers[c].verifie => u.verifie,
         u.adresse = usagers[c].adresse \/ u.verifie,
         u.verifie => <<c, u.adresse>> \in preuves,
         u.seance # 0 => seances' = seances,
         \/ u.attente \in {Aucune, usagers[c].attente}
         \/ \E q \in Appels : Remplace(q, "CHANGEMENT_EMAIL", c)'
  PROVE  EtatSur'
<1>1. /\ TypeAuth' /\ ToujoursAuth'
      /\ usagers'[c] = u /\ \A d \in Usagers \ {c} : usagers'[d] = usagers[d]
      /\ Len(seances') = Len(seances) /\ Len(seances) \in Nat
      /\ \A t \in 1 .. Len(seances) : /\ seances'[t].compte = seances[t].compte
                                      /\ seances[t].compte # c => seances'[t] = seances[t]
  BY CorrigeTient
<1>2. UNCHANGED <<liens, preuves, echanges>>
  BY DEF Corrige1
<1>3. \A d \in Usagers : CompteSur(d)'
  <2>. TAKE d \in Usagers
  <2>1. CompteSur(d) /\ usagers[d].seance \in 0 .. Len(seances)
        /\ (usagers[d].seance # 0 => seances[usagers[d].seance].compte = d)
    BY DEF EtatSur, TypeAuth, ToujoursAuth
  <2>2. CASE d = c
    BY <1>1, <1>2, <2>1, <2>2 DEF CompteSur, Corrige1
  <2>3. CASE d # c
    <3>1. usagers'[d] = usagers[d]
      BY <1>1, <2>3
    <3>2. usagers[d].seance # 0 => seances'[usagers[d].seance] = seances[usagers[d].seance]
      BY <1>1, <2>1, <2>3
    <3>. QED BY <1>2, <2>1, <3>1, <3>2 DEF CompteSur
  <2>. QED BY <2>2, <2>3
<1>4. \A l \in Liens : LienSur(l)'
  <2>. SUFFICES ASSUME NEW l \in Liens, liens[l].etat = "valable"
                PROVE  LienSur(l)'
    BY <1>2 DEF LienSur
  <2>1. PICK d \in Usagers : d = liens[l].compte
    BY DEF TypeAuth, Lien, LienNeuf
  <2>2. liens'[l] = liens[l]
    BY <1>2
  <2>3. CASE \E q \in Appels : Remplace(q, liens[l].type, d)
    <3>1. PICK q \in Appels : Remplace(q, liens[l].type, d)
      BY <2>3
    <3>2. appels'[q] = appels[q]
      BY <3>1 DEF Tenus, Remplace
    <3>. QED BY <2>1, <2>2, <3>1, <3>2 DEF LienSur, Remplace
  <2>4. CASE BoiteSure(liens[l].type, d, liens[l].boite)
    <3>1. CASE d = c
      <4>1. \/ BoiteSure(liens[l].type, d, liens[l].boite)'
            \/ liens[l].type = "CHANGEMENT_EMAIL" /\ \E q \in Appels : Remplace(q, "CHANGEMENT_EMAIL", c)'
        BY <1>1, <2>2, <2>4, <3>1 DEF BoiteSure
      <4>. QED BY <2>1, <2>2, <3>1, <4>1 DEF LienSur
    <3>2. CASE d # c
      BY <1>1, <2>1, <2>2, <2>4, <3>2 DEF LienSur, BoiteSure
    <3>. QED BY <3>1, <3>2
  <2>. QED BY <2>1, <2>3, <2>4 DEF EtatSur, LienSur
<1>5. \A t \in 1 .. Len(seances) : JetonSur(t)'
  <2>. TAKE t \in 1 .. Len(seances)
  <2>1. JetonSur(t) /\ t # 0
    BY DEF EtatSur
  <2>. seances[t] \in Seance
    BY DEF TypeAuth
  <2>2. PICK d \in Usagers : d = seances[t].compte /\ d = seances'[t].compte
    BY <1>1 DEF Seance
  <2>3. usagers'[d].seance \in {0, usagers[d].seance}
    BY <1>1 DEF Corrige1
  <2>4. \A q \in Appels : appels[q].pc = "ouvrir" => appels'[q] = appels[q]
    BY DEF Tenus
  <2>. QED BY <1>2, <2>1, <2>2, <2>3, <2>4 DEF JetonSur
<1>. QED BY <1>1, <1>3, <1>4, <1>5 DEF EtatSur

\* A request starts, goes on or ends, and nothing is written.
LEMMA RienTient ==
  ASSUME TypeAuth, ToujoursAuth, Tenus,
         UNCHANGED <<usagers, liens, seances, usages, echanges, preuves>>
  PROVE  TypeAuth' /\ ToujoursAuth' /\ (EtatSur => EtatSur')
<1>1. TypeAuth'
  BY DEF TypeAuth, Tenus
<1>2. ToujoursAuth'
  BY DEF ToujoursAuth, LienSuivi
<1>3. ASSUME EtatSur PROVE EtatSur'
  <2>1. \A r \in Appels : appels[r].pc \in {"invalider", "ouvrir"} => appels'[r] = appels[r]
    BY DEF Tenus
  <2>2. \A c \in Usagers : CompteSur(c)'
    BY <1>3 DEF EtatSur, CompteSur
  <2>3. \A l \in Liens : LienSur(l)'
    <3>. TAKE l \in Liens
    <3>1. LienSur(l)
      BY <1>3 DEF EtatSur
    <3>. QED BY <2>1, <3>1 DEF LienSur, BoiteSure, Remplace
  <2>4. \A t \in 1 .. Len(seances) : JetonSur(t)'
    <3>. TAKE t \in 1 .. Len(seances)
    <3>1. JetonSur(t)
      BY <1>3 DEF EtatSur
    <3>. QED BY <2>1, <3>1 DEF JetonSur
  <2>. QED BY <2>2, <2>3, <2>4 DEF EtatSur
<1>. QED BY <1>1, <1>2, <1>3

\* A new account.
LEMMA CreationTient ==
  ASSUME TypeAuth, ToujoursAuth, Tenus, NEW c \in Usagers, NEW u \in Usager,
         ~usagers[c].existe, u.existe, u.adresse \in Adresses, u.verifie = FALSE, u.seance = 0,
         usagers' = [usagers EXCEPT ![c] = u],
         UNCHANGED <<liens, seances, usages, echanges, preuves>>
  PROVE  /\ TypeAuth' /\ ToujoursAuth' /\ (EtatSur => EtatSur')
         /\ usagers'[c] = u
<1>1. Plein(u) /\ Len(seances) \in Nat /\ seances' = seances
  BY DEF Plein, TypeAuth
<1>0. u.seance \in 0 .. Len(seances') /\ Len(seances) <= Len(seances') /\ Len(seances') \in Nat
  BY <1>1
<1>2. /\ usagers' \in [Usagers -> Usager] /\ \A d \in Usagers : Plein(usagers[d])'
      /\ \A d \in Usagers : usagers'[d].seance \in 0 .. Len(seances')
      /\ usagers'[c] = u /\ \A d \in Usagers \ {c} : usagers'[d] = usagers[d]
  BY <1>0, <1>1, UsagerEcrit
<1>3. TypeAuth'
  BY <1>2 DEF TypeAuth, Tenus
<1>4. \A l \in Liens : liens[l].etat \in {"valable", "expire"} =>
        /\ liens[l].compte \in Usagers /\ usagers[liens[l].compte].existe
        /\ usagers'[liens[l].compte] = usagers[liens[l].compte]
  BY <1>2 DEF TypeAuth, Lien, LienNeuf, ToujoursAuth, LienSuivi
<1>5. ToujoursAuth'
  BY <1>2, <1>4 DEF ToujoursAuth, LienSuivi
<1>6. ASSUME EtatSur PROVE EtatSur'
  <2>1. \A r \in Appels : appels[r].pc \in {"invalider", "ouvrir"} => appels'[r] = appels[r]
    BY DEF Tenus
  <2>2. \A d \in Usagers : CompteSur(d)'
    BY <1>2, <1>6 DEF EtatSur, CompteSur
  <2>3. \A l \in Liens : LienSur(l)'
    <3>. SUFFICES ASSUME NEW l \in Liens, liens[l].etat = "valable" PROVE LienSur(l)'
      BY DEF LienSur
    <3>1. LienSur(l) /\ usagers'[liens[l].compte] = usagers[liens[l].compte] /\ liens' = liens
      BY <1>4, <1>6 DEF EtatSur
    <3>. QED BY <2>1, <3>1 DEF LienSur, BoiteSure, Remplace
  <2>4. \A t \in 1 .. Len(seances) : JetonSur(t)'
    <3>. TAKE t \in 1 .. Len(seances)
    <3>1. JetonSur(t) /\ seances[t] \in Seance /\ t # 0
      BY <1>6 DEF EtatSur, TypeAuth
    <3>2. seances[t].compte \in Usagers
      BY <3>1 DEF Seance
    <3>3. usagers'[seances[t].compte].seance \in {0, usagers[seances[t].compte].seance}
      BY <1>2, <3>2
    <3>. QED BY <2>1, <3>1, <3>3 DEF JetonSur
  <2>. QED BY <2>2, <2>3, <2>4 DEF EtatSur
<1>. QED BY <1>2, <1>3, <1>5, <1>6

\* Accounts go, and their links and what they proved with them.
LEMMA EffacerTient ==
  ASSUME TypeAuth, ToujoursAuth, Tenus, NEW S \in SUBSET Usagers, Effacer(S)
  PROVE  /\ TypeAuth' /\ ToujoursAuth' /\ (EtatSur => EtatSur')
         /\ \A c \in Usagers : usagers'[c] = IF c \in S THEN SansUsager ELSE usagers[c]
         /\ \A l \in Liens : liens'[l] # liens[l] => liens[l].compte \in S
         /\ \A l \in Liens : liens[l] # LienNeuf => liens'[l] # LienNeuf
              /\ liens'[l].compte = liens[l].compte /\ liens'[l].etat \in {liens[l].etat, "efface"}
         /\ \A c \in Usagers \ S, a \in Adresses : <<c, a>> \in preuves => <<c, a>> \in preuves'
<1>1. \A c \in Usagers : usagers'[c] = IF c \in S THEN SansUsager ELSE usagers[c]
  BY DEF Effacer
<1>2. SansUsager \in Usager /\ Plein(SansUsager) /\ SansUsager.seance = 0 /\ SansUsager.verifie = FALSE
  BY DEF SansUsager, Usager, RolesUsagers, Plein
<1>3. UNCHANGED <<seances, usages, echanges>> /\ preuves' = {p \in preuves : p[1] \notin S}
  BY DEF Effacer
<1>4. \A l \in Liens :
        \/ liens'[l] = liens[l] /\ (liens[l] # LienNeuf => liens[l].compte \notin S)
        \/ /\ liens[l] \in Lien /\ liens[l].compte \in S /\ liens'[l] \in Lien
           /\ liens'[l].etat = "efface" /\ liens'[l].compte = liens[l].compte
  <2>. TAKE l \in Liens
  <2>1. liens[l] \in Lien \cup {LienNeuf}
    BY DEF TypeAuth
  <2>2. liens'[l] = IF liens[l] # LienNeuf /\ liens[l].compte \in S THEN [liens[l] EXCEPT !.etat = "efface"] ELSE liens[l]
    BY DEF Effacer
  <2>. QED BY <2>1, <2>2 DEF Lien
<1>5. \A x \in Lien : x # LienNeuf
  BY DEF Lien, LienNeuf
<1>6. TypeAuth'
  <2>1. usagers' \in [Usagers -> Usager] /\ (\A c \in Usagers : Plein(usagers'[c]))
        /\ \A c \in Usagers : usagers'[c].seance \in 0 .. Len(seances)
    BY <1>1, <1>2 DEF TypeAuth, Effacer
  <2>2. liens' \in [Liens -> Lien \cup {LienNeuf}]
    <3>1. \A l \in Liens : liens'[l] \in Lien \cup {LienNeuf}
      BY <1>4 DEF TypeAuth
    <3>2. liens' = [l \in Liens |-> IF liens[l] # LienNeuf /\ liens[l].compte \in S
                                    THEN [liens[l] EXCEPT !.etat = "efface"] ELSE liens[l]]
      BY DEF Effacer
    <3>. QED BY <3>1, <3>2
  <2>. QED BY <1>3, <2>1, <2>2 DEF TypeAuth, Tenus
<1>7. LienNeuf.etat = "neuf"
  BY DEF LienNeuf
<1>8. \A l \in Liens : liens'[l].etat \in {"valable", "expire"} =>
        /\ liens'[l] = liens[l] /\ liens[l] \in Lien /\ liens[l].compte \in Usagers \ S
        /\ usagers'[liens[l].compte] = usagers[liens[l].compte]
  <2>. TAKE l \in Liens
  <2>. HAVE liens'[l].etat \in {"valable", "expire"}
  <2>1. liens'[l] = liens[l] /\ liens[l] # LienNeuf /\ liens[l].compte \notin S
    BY <1>4, <1>7
  <2>2. liens[l] \in Lien /\ liens[l].compte \in Usagers
    BY <2>1 DEF TypeAuth, Lien
  <2>. QED BY <1>1, <2>1, <2>2
<1>9. ToujoursAuth'
  <2>1. \A l \in Liens : LienSuivi(l)'
    <3>. TAKE l \in Liens
    <3>1. LienSuivi(l)
      BY DEF ToujoursAuth
    <3>2. usages'[l] = 0 \/ (usages'[l] = 1 /\ liens'[l].etat \in {"consomme", "efface"})
      BY <1>3, <1>4, <3>1 DEF LienSuivi
    <3>3. liens'[l].etat \in {"valable", "expire"} => usagers'[liens'[l].compte].existe
      BY <1>8, <3>1 DEF LienSuivi
    <3>. QED BY <3>2, <3>3 DEF LienSuivi
  <2>. QED BY <1>1, <1>2, <1>3, <2>1 DEF ToujoursAuth
<1>10. \A c \in Usagers \ S, a \in Adresses : <<c, a>> \in preuves => <<c, a>> \in preuves'
  BY <1>3
<1>11. ASSUME EtatSur PROVE EtatSur'
  <2>1. \A r \in Appels : appels[r].pc \in {"invalider", "ouvrir"} => appels'[r] = appels[r]
    BY DEF Tenus
  <2>2. \A d \in Usagers : CompteSur(d)'
    <3>. TAKE d \in Usagers
    <3>1. CompteSur(d) /\ usagers[d] \in Usager
      BY <1>11 DEF EtatSur, TypeAuth
    <3>2. CASE d \in S
      BY <1>1, <1>2, <3>2 DEF CompteSur
    <3>3. CASE d \notin S
      <4>1. usagers'[d] = usagers[d] /\ seances' = seances
        BY <1>1, <1>3, <3>3
      <4>2. <<d, usagers[d].adresse>> \in preuves => <<d, usagers[d].adresse>> \in preuves'
        BY <1>3, <3>3
      <4>. QED BY <3>1, <4>1, <4>2 DEF CompteSur
    <3>. QED BY <3>2, <3>3
  <2>3. \A l \in Liens : LienSur(l)'
    <3>. SUFFICES ASSUME NEW l \in Liens, liens'[l].etat = "valable" PROVE LienSur(l)'
      BY DEF LienSur
    <3>1. LienSur(l) /\ usagers'[liens[l].compte] = usagers[liens[l].compte] /\ liens'[l] = liens[l]
      BY <1>8, <1>11 DEF EtatSur
    <3>. QED BY <2>1, <3>1 DEF LienSur, BoiteSure, Remplace
  <2>4. \A t \in 1 .. Len(seances) : JetonSur(t)'
    <3>. TAKE t \in 1 .. Len(seances)
    <3>1. JetonSur(t) /\ seances[t] \in Seance /\ t # 0
      BY <1>11 DEF EtatSur, TypeAuth
    <3>2. seances[t].compte \in Usagers
      BY <3>1 DEF Seance
    <3>3. usagers'[seances[t].compte].seance \in {0, usagers[seances[t].compte].seance}
      BY <1>1, <1>2, <3>2
    <3>. QED BY <1>3, <2>1, <3>1, <3>3 DEF JetonSur
  <2>. QED BY <1>3, <2>2, <2>3, <2>4 DEF EtatSur
<1>. QED BY <1>1, <1>4, <1>5, <1>6, <1>9, <1>10, <1>11

\* Links are used, replaced or too old.
Ferme1(l) ==
  \/ liens'[l] = liens[l] /\ usages'[l] = usages[l]
  \/ /\ liens[l].etat \in {"valable", "expire"} /\ liens'[l] \in Lien
     /\ liens'[l].compte = liens[l].compte /\ liens'[l].boite = liens[l].boite
     /\ liens'[l].type = liens[l].type
     /\ \/ liens'[l].etat = "expire" /\ usages'[l] = usages[l]
        \/ liens'[l].etat = "consomme" /\ usages'[l] \in {usages[l], usages[l] + 1}

FermeLiens ==
  /\ liens' \in [Liens -> Lien \cup {LienNeuf}] /\ usages' \in [Liens -> Nat]
  /\ \A l \in Liens : Ferme1(l)
  /\ UNCHANGED <<usagers, seances, echanges>>
  /\ preuves \subseteq preuves' /\ preuves' \subseteq Usagers \X Adresses
  /\ appels' \in [Appels -> Appel \cup {SansAppel}] /\ chevauche' \in BOOLEAN

LEMMA FermeLiensTient ==
  ASSUME TypeAuth, ToujoursAuth, FermeLiens,
         \A q \in Appels, l \in Liens :
           liens'[l].etat = "valable" /\ Remplace(q, liens[l].type, liens[l].compte)
             => Remplace(q, liens[l].type, liens[l].compte)',
         \A r \in Appels : appels[r].pc = "ouvrir" => appels'[r] = appels[r]
  PROVE  TypeAuth' /\ ToujoursAuth' /\ (EtatSur => EtatSur')
<1>. USE DEF FermeLiens
<1>1. TypeAuth'
  BY DEF TypeAuth
<1>2. \A l \in Liens : LienSuivi(l)'
  <2>. TAKE l \in Liens
  <2>1. LienSuivi(l) /\ usages[l] \in Nat /\ usages'[l] \in Nat /\ Ferme1(l)
    BY DEF ToujoursAuth, TypeAuth
  <2>2. CASE liens'[l] = liens[l] /\ usages'[l] = usages[l]
    BY <2>1, <2>2 DEF LienSuivi
  <2>3. CASE liens[l].etat \in {"valable", "expire"} /\ liens'[l].compte = liens[l].compte
             /\ \/ liens'[l].etat = "expire" /\ usages'[l] = usages[l]
                \/ liens'[l].etat = "consomme" /\ usages'[l] \in {usages[l], usages[l] + 1}
    <3>1. usages[l] = 0
      BY <2>1, <2>3 DEF LienSuivi
    <3>. QED BY <2>1, <2>3, <3>1 DEF LienSuivi
  <2>. QED BY <2>1, <2>2, <2>3 DEF Ferme1
<1>3. ToujoursAuth'
  BY <1>2 DEF ToujoursAuth
<1>4. ASSUME EtatSur PROVE EtatSur'
  <2>1. \A d \in Usagers : CompteSur(d)'
    BY <1>4 DEF EtatSur, CompteSur
  <2>2. \A l \in Liens : LienSur(l)'
    <3>. SUFFICES ASSUME NEW l \in Liens, liens'[l].etat = "valable" PROVE LienSur(l)'
      BY DEF LienSur
    <3>1. LienSur(l) /\ liens'[l] = liens[l]
      BY <1>4 DEF EtatSur, Ferme1
    <3>2. CASE BoiteSure(liens[l].type, liens[l].compte, liens[l].boite)
      BY <3>1, <3>2 DEF LienSur, BoiteSure
    <3>3. CASE \E q \in Appels : Remplace(q, liens[l].type, liens[l].compte)
      <4>1. \E q \in Appels : Remplace(q, liens[l].type, liens[l].compte)'
        BY <3>3
      <4>. QED BY <3>1, <4>1 DEF LienSur, Remplace
    <3>. QED BY <3>1, <3>2, <3>3 DEF LienSur
  <2>3. \A t \in 1 .. Len(seances) : JetonSur(t)'
    <3>. TAKE t \in 1 .. Len(seances)
    <3>1. JetonSur(t)
      BY <1>4 DEF EtatSur
    <3>. QED BY <3>1 DEF JetonSur
  <2>. QED BY <2>1, <2>2, <2>3 DEF EtatSur
<1>. QED BY <1>1, <1>3, <1>4

\* invalider, for a type and an account.
LEMMA LiensInvalidesEcrits ==
  ASSUME TypeAuth, NEW c \in Usagers, NEW type \in TypesJeton, liens' = LiensInvalides(c, type),
         UNCHANGED usages
  PROVE  /\ liens' \in [Liens -> Lien \cup {LienNeuf}] /\ \A l \in Liens : Ferme1(l)
         /\ \A l \in Liens : liens'[l].etat = "valable" =>
              liens'[l] = liens[l] /\ ~(liens[l].compte = c /\ liens[l].type = type)
<1>1. \A x \in Lien : x # LienNeuf
  BY DEF Lien, LienNeuf
<1>2. ASSUME NEW l \in Liens
      PROVE  /\ liens'[l] \in Lien \cup {LienNeuf} /\ Ferme1(l)
             /\ liens'[l].etat = "valable" =>
                  liens'[l] = liens[l] /\ ~(liens[l].compte = c /\ liens[l].type = type)
  <2>1. liens[l] \in Lien \cup {LienNeuf} /\ usages'[l] = usages[l]
    BY DEF TypeAuth
  <2>2. CASE liens[l] # LienNeuf /\ liens[l].compte = c /\ liens[l].type = type /\ liens[l].etat = "valable"
    <3>1. PICK n : n = [liens[l] EXCEPT !.etat = "consomme"]
      OBVIOUS
    <3>2. n \in Lien /\ n.etat = "consomme" /\ n.compte = liens[l].compte /\ n.boite = liens[l].boite
          /\ n.type = liens[l].type
      BY <2>1, <2>2, <3>1 DEF Lien
    <3>3. liens'[l] = n
      BY <2>2, <3>1 DEF LiensInvalides
    <3>. QED BY <2>1, <2>2, <3>2, <3>3 DEF Ferme1
  <2>3. CASE ~(liens[l] # LienNeuf /\ liens[l].compte = c /\ liens[l].type = type /\ liens[l].etat = "valable")
    <3>1. liens'[l] = liens[l]
      BY <2>3 DEF LiensInvalides
    <3>2. LienNeuf.etat # "valable"
      BY DEF LienNeuf
    <3>. QED BY <2>1, <2>3, <3>1, <3>2 DEF Ferme1
  <2>. QED BY <2>2, <2>3
<1>3. liens' = [l \in Liens |-> liens'[l]]
  BY DEF LiensInvalides
<1>4. liens' \in [Liens -> Lien \cup {LienNeuf}]
  BY <1>2, <1>3
<1>. QED BY <1>2, <1>4

------------------------------------------------------------------------------
(* The requests: what each step keeps of the invariant.                    *)

LEMMA InitAuthTient == InitAuth => IInvAuth
<1>. SUFFICES ASSUME InitAuth PROVE IInvAuth
  OBVIOUS
<1>. USE DEF InitAuth
<1>1. SansUsager \in Usager /\ Plein(SansUsager) /\ SansUsager.seance = 0 /\ SansUsager.verifie = FALSE
  BY DEF SansUsager, Usager, RolesUsagers, Plein
<1>2. seances \in Seq(Seance) /\ Len(seances) = 0 /\ MaxSeances \in Nat
  BY AuthAssumption
<1>3. TypeAuth
  <2>1. /\ usagers \in [Usagers -> Usager] /\ \A c \in Usagers : usagers[c] = SansUsager
        /\ liens \in [Liens -> Lien \cup {LienNeuf}] /\ usages \in [Liens -> Nat]
        /\ appels \in [Appels -> Appel \cup {SansAppel}]
        /\ echanges \in [1 .. MaxSeances -> Nat]
        /\ preuves \subseteq Usagers \X Adresses /\ chevauche \in BOOLEAN
    BY <1>1
  <2>2. Len(seances) <= MaxSeances /\ 0 \in 0 .. Len(seances)
    BY <1>2
  <2>. QED BY <1>1, <1>2, <2>1, <2>2 DEF TypeAuth
<1>4. LienNeuf.etat = "neuf"
  BY DEF LienNeuf
<1>5. ToujoursAuth
  BY <1>1, <1>2, <1>4 DEF ToujoursAuth, LienSuivi
<1>6. EtatSur
  BY <1>1, <1>2, <1>4 DEF EtatSur, CompteSur, LienSur, JetonSur
<1>. QED BY <1>3, <1>5, <1>6 DEF IInvAuth, SequenceAuth

\* A step that leaves the requests others rely on.
LEMMA TenusApres ==
  ASSUME TypeAuth, NEW q \in Appels, NEW a \in Appel \cup {SansAppel},
         appels[q].pc \notin {"invalider", "ouvrir"},
         appels' = [appels EXCEPT ![q] = a], chevauche' \in BOOLEAN
  PROVE  Tenus
<1>1. /\ appels' \in [Appels -> Appel \cup {SansAppel}]
      /\ appels'[q] = a /\ \A r \in Appels \ {q} : appels'[r] = appels[r]
  BY AppelEcrit
<1>. QED BY <1>1 DEF Tenus

LEMMA RecevoirTenus ==
  ASSUME TypeAuth, NEW q \in Appels, NEW a \in Appel \cup {SansAppel}, Recevoir(q, a)
  PROVE  Tenus
<1>1. appels[q].pc \notin {"invalider", "ouvrir"}
  BY DEF Recevoir, SansAppel
<1>2. chevauche' \in BOOLEAN
  BY DEF TypeAuth, Recevoir
<1>. QED BY <1>1, <1>2, TenusApres DEF Recevoir

\* A request goes on.
LEMMA PoursuiteTient ==
  ASSUME IInvAuth, NEW q \in Appels, appels[q].pc # "libre",
         NEW a \in Appel \cup {SansAppel}, Poursuivre(q, a), TypeAuth', ToujoursAuth',
         SequenceAuth => EtatSur' /\ (a # SansAppel => Fondee(a)')
  PROVE  IInvAuth'
<1>1. /\ appels'[q] = a /\ (\A r \in Appels \ {q} : appels'[r] = appels[r]) /\ chevauche' = chevauche
      /\ appels[q] # SansAppel
  BY AppelEcrit, AppelLu DEF Poursuivre, IInvAuth
<1>2. ASSUME ~chevauche' PROVE SequenceAuth'
  <2>1. SequenceAuth
    BY <1>1, <1>2 DEF IInvAuth
  <2>2. \A r \in Appels \ {q} : appels'[r] = SansAppel
    BY <1>1, <2>1 DEF SequenceAuth
  <2>3. \A r, s \in Appels : appels'[r] # SansAppel /\ appels'[s] # SansAppel => r = s
    BY <2>2
  <2>4. \A r \in Appels : appels'[r] # SansAppel => Fondee(appels[r])'
    <3>. SUFFICES ASSUME NEW r \in Appels, appels'[r] # SansAppel PROVE Fondee(appels[r])'
      OBVIOUS
    <3>1. r = q /\ appels'[r] = a
      BY <1>1, <2>2
    <3>2. Fondee(a)'
      BY <2>1, <3>1
    <3>. QED BY <3>1, <3>2 DEF Fondee, BoiteSure
  <2>. QED BY <2>1, <2>3, <2>4 DEF SequenceAuth
<1>. QED BY <1>2 DEF IInvAuth

\* A request is received.
LEMMA DebutTient ==
  ASSUME IInvAuth, NEW q \in Appels, NEW a \in Appel \cup {SansAppel}, Recevoir(q, a),
         TypeAuth', ToujoursAuth',
         SequenceAuth /\ (\A r \in Appels : appels[r] = SansAppel)
           => EtatSur' /\ (a # SansAppel => Fondee(a)')
  PROVE  IInvAuth'
<1>1. /\ appels'[q] = a /\ \A r \in Appels \ {q} : appels'[r] = appels[r]
      /\ appels[q] = SansAppel
      /\ chevauche' = (chevauche \/ \E r \in Appels \ {q} : appels[r] # SansAppel)
  BY AppelEcrit DEF Recevoir, IInvAuth
<1>2. ASSUME ~chevauche' PROVE SequenceAuth'
  <2>1. SequenceAuth /\ \A r \in Appels : appels[r] = SansAppel
    BY <1>1, <1>2 DEF IInvAuth
  <2>2. \A r \in Appels \ {q} : appels'[r] = SansAppel
    BY <1>1, <2>1
  <2>3. \A r, s \in Appels : appels'[r] # SansAppel /\ appels'[s] # SansAppel => r = s
    BY <2>2
  <2>4. \A r \in Appels : appels'[r] # SansAppel => Fondee(appels[r])'
    <3>. SUFFICES ASSUME NEW r \in Appels, appels'[r] # SansAppel PROVE Fondee(appels[r])'
      OBVIOUS
    <3>1. r = q /\ appels'[r] = a
      BY <1>1, <2>2
    <3>2. Fondee(a)'
      BY <2>1, <3>1
    <3>. QED BY <3>1, <3>2 DEF Fondee, BoiteSure
  <2>. QED BY <2>1, <2>3, <2>4 DEF SequenceAuth
<1>. QED BY <1>2 DEF IInvAuth

\* A request that is received and has written nothing yet.
LEMMA DebutSansEcrire ==
  ASSUME IInvAuth, NEW q \in Appels, NEW a \in Appel, Recevoir(q, a),
         UNCHANGED <<usagers, liens, seances, usages, echanges, preuves>>,
         SequenceAuth => Fondee(a)
  PROVE  IInvAuth'
<1>1. TypeAuth /\ ToujoursAuth /\ Tenus
  BY RecevoirTenus DEF IInvAuth
<1>2. TypeAuth' /\ ToujoursAuth' /\ (EtatSur => EtatSur')
  BY <1>1, RienTient
<1>3. SequenceAuth => EtatSur' /\ Fondee(a)'
  BY <1>2 DEF SequenceAuth, Fondee, BoiteSure
<1>. QED BY <1>2, <1>3, DebutTient

\* The requests that only look at an account, at a link or at nothing.
LEMMA DebutsTiennent ==
  ASSUME IInvAuth, NEW q \in Appels,
         \/ \E a \in Adresses : Inscrire(q, a) \/ Inviter(q, a)
         \/ \E c \in Usagers :
              \/ RenvoyerVerification(q, c) \/ Connecter(q, c)
              \/ DemanderReinitialisation(q, c) \/ Reinviter(q, c)
              \/ \E a \in Adresses : DemanderChangementEmail(q, c, a)
  PROVE  IInvAuth'
<1>. TypeAuth
  BY DEF IInvAuth
<1>. USE DEF LiensInchanges, HistoiresInchangees
<1>1. ASSUME NEW a \in Adresses, Inscrire(q, a) PROVE IInvAuth'
  <2>1. PICK r : r = [pc |-> "inscrire", connus |-> Titulaires(a), a |-> a]
    OBVIOUS
  <2>2. Titulaires(a) \in SUBSET Usagers /\ \A c \in Titulaires(a) : ~usagers[c].verifie
    BY <1>1 DEF Inscrire, Titulaires
  <2>3. r \in Appel
    BY <2>1, <2>2 DEF Appel, DInscription
  <2>4. Fondee(r)
    BY <2>1, <2>2 DEF Fondee
  <2>5. Recevoir(q, r) /\ UNCHANGED <<usagers, liens, seances, usages, echanges, preuves>>
    BY <1>1, <2>1 DEF Inscrire
  <2>. QED BY <2>3, <2>4, <2>5, DebutSansEcrire
<1>2. ASSUME NEW a \in Adresses, Inviter(q, a) PROVE IInvAuth'
  <2>1. PICK r : r = [pc |-> "inviter", a |-> a]
    OBVIOUS
  <2>2. r \in Appel /\ Fondee(r)
    BY <2>1 DEF Appel, DInvitation, Fondee
  <2>3. Recevoir(q, r) /\ UNCHANGED <<usagers, liens, seances, usages, echanges, preuves>>
    BY <1>2, <2>1 DEF Inviter
  <2>. QED BY <2>2, <2>3, DebutSansEcrire
<1>3. ASSUME NEW c \in Usagers, NEW type \in TypesJeton \ {"CHANGEMENT_EMAIL"}, usagers[c].existe,
             Recevoir(q, Emission(type, c, usagers[c].adresse)), UNCHANGED usagers, LiensInchanges
      PROVE  IInvAuth'
  <2>1. PICK x \in Adresses : x = usagers[c].adresse
    BY <1>3, UsagerLu
  <2>2. PICK r : r = Emission(type, c, x)
    OBVIOUS
  <2>3. r \in DEmission /\ r.type = type /\ r.c = c /\ r.boite = x
    BY <2>2 DEF Emission, DEmission
  <2>4. r \in Appel /\ Fondee(r)
    BY <1>3, <2>1, <2>3 DEF Appel, DEmission, Fondee
  <2>5. Recevoir(q, r) /\ UNCHANGED <<usagers, liens, seances, usages, echanges, preuves>>
    BY <1>3, <2>1, <2>2
  <2>. QED BY <2>4, <2>5, DebutSansEcrire
<1>4. ASSUME NEW c \in Usagers,
             RenvoyerVerification(q, c) \/ DemanderReinitialisation(q, c) \/ Reinviter(q, c)
      PROVE  IInvAuth'
  <2>1. PICK type \in TypesJeton \ {"CHANGEMENT_EMAIL"} :
          /\ Recevoir(q, Emission(type, c, usagers[c].adresse))
          /\ usagers[c].existe \/ usagers[c].fiche
          /\ UNCHANGED usagers /\ LiensInchanges
    BY <1>4 DEF RenvoyerVerification, DemanderReinitialisation, Reinviter, TypesJeton
  <2>2. usagers[c].existe
    BY <2>1, UsagerLu
  <2>. QED BY <1>3, <2>1, <2>2
<1>5. ASSUME NEW c \in Usagers, Connecter(q, c) PROVE IInvAuth'
  <2>1. PICK r : r = [pc |-> "ouvrir", c |-> c]
    OBVIOUS
  <2>2. r \in Appel /\ Fondee(r)
    BY <1>5, <2>1 DEF Appel, DeSeance, Fondee, Connecter
  <2>3. Recevoir(q, r) /\ UNCHANGED <<usagers, liens, seances, usages, echanges, preuves>>
    BY <1>5, <2>1 DEF Connecter
  <2>. QED BY <2>2, <2>3, DebutSansEcrire
<1>6. ASSUME NEW c \in Usagers, NEW a \in Adresses, DemanderChangementEmail(q, c, a) PROVE IInvAuth'
  <2>1. PICK r : r = [pc |-> "noter", c |-> c, a |-> a]
    OBVIOUS
  <2>2. r \in Appel /\ Fondee(r)
    BY <1>6, <2>1 DEF Appel, DAttente, Fondee, DemanderChangementEmail
  <2>3. Recevoir(q, r) /\ UNCHANGED <<usagers, liens, seances, usages, echanges, preuves>>
    BY <1>6, <2>1 DEF DemanderChangementEmail
  <2>. QED BY <2>2, <2>3, DebutSansEcrire
<1>. QED BY <1>1, <1>2, <1>4, <1>5, <1>6

\* A link is followed.
LEMMA SuivreTient ==
  ASSUME IInvAuth, NEW q \in Appels, NEW l \in Liens, Suivre(q, l)
  PROVE  IInvAuth'
<1>1. TypeAuth /\ LienSuivi(l) /\ liens[l].etat = "valable"
  BY DEF IInvAuth, ToujoursAuth, Suivre
<1>2. liens[l] \in Lien /\ liens[l] # LienNeuf
  BY <1>1 DEF TypeAuth, LienNeuf
<1>3. PICK c \in Usagers : c = liens[l].compte /\ usagers[c] \in Usager
  BY <1>1, <1>2 DEF Lien, TypeAuth
<1>4. PICK r : r = [pc |-> "consommer", l |-> l, c |-> c, adresse |-> usagers[c].adresse,
                    attente |-> usagers[c].attente, role |-> usagers[c].role]
  OBVIOUS
<1>5. r \in Appel
  BY <1>3, <1>4 DEF Appel, DuLien, PasDuLien, Usager
<1>6. Recevoir(q, r) /\ UNCHANGED <<usagers, liens, seances, usages, echanges, preuves>>
  BY <1>3, <1>4 DEF Suivre, LiensInchanges, HistoiresInchangees
<1>7. ASSUME SequenceAuth, \A s \in Appels : appels[s] = SansAppel PROVE Fondee(r)
  <2>1. LienSur(l) /\ \A s \in Appels : appels[s].pc = "libre"
    BY <1>7 DEF SequenceAuth, EtatSur, SansAppel
  <2>2. BoiteSure(liens[l].type, c, liens[l].boite)
    BY <1>1, <1>3, <2>1 DEF LienSur, Remplace
  <2>. QED BY <1>2, <1>3, <1>4, <2>2 DEF Fondee
<1>8. Tenus
  BY <1>1, <1>5, <1>6, RecevoirTenus
<1>9. TypeAuth' /\ ToujoursAuth' /\ (EtatSur => EtatSur')
  BY <1>6, <1>8, RienTient DEF IInvAuth
<1>10. SequenceAuth /\ (\A s \in Appels : appels[s] = SansAppel) => EtatSur' /\ Fondee(r)'
  BY <1>6, <1>7, <1>9 DEF SequenceAuth, Fondee, BoiteSure
<1>. QED BY <1>5, <1>6, <1>9, <1>10, DebutTient

\* A request of one statement, which corrects an account and proves nothing.
LEMMA DebutCorrige ==
  ASSUME IInvAuth, NEW q \in Appels, NEW a \in Appel \cup {SansAppel}, Recevoir(q, a),
         NEW c \in Usagers, NEW u \in Usager, Corrige1(c, u),
         u.adresse = usagers[c].adresse, u.verifie = usagers[c].verifie, u.attente = usagers[c].attente,
         u.seance # 0 => seances' = seances,
         a = SansAppel \/ a.pc = "revoquer"
  PROVE  IInvAuth'
<1>1. TypeAuth /\ ToujoursAuth /\ Tenus
  BY RecevoirTenus DEF IInvAuth
<1>2. TypeAuth' /\ ToujoursAuth'
  BY <1>1, CorrigeTient
<1>3. ASSUME SequenceAuth PROVE EtatSur'
  <2>1. EtatSur /\ CompteSur(c)
    BY <1>3 DEF SequenceAuth, EtatSur
  <2>2. u.verifie => <<c, u.adresse>> \in preuves
    BY <2>1 DEF CompteSur
  <2>. QED BY <1>1, <2>1, <2>2, CorrigeSur
<1>4. a # SansAppel => Fondee(a)'
  BY DEF Fondee
<1>. QED BY <1>2, <1>3, <1>4, DebutTient

LEMMA GestesTiennent ==
  ASSUME IInvAuth, NEW q \in Appels, NEW c \in Usagers,
         Deconnecter(q, c) \/ ChangerMotDePasse(q, c) \/ Desactiver(q, c) \/ Nommer(q, c)
  PROVE  IInvAuth'
<1>1. TypeAuth /\ usagers[c].existe
  BY DEF IInvAuth, Deconnecter, ChangerMotDePasse, Desactiver, Nommer
<1>2. PICK v \in Usager : v = usagers[c] /\ v.adresse \in Adresses
  BY <1>1, UsagerLu
<1>3. PICK u \in Usager, a \in Appel \cup {SansAppel} :
        /\ usagers' = [usagers EXCEPT ![c] = u]
        /\ u.existe /\ u.adresse = v.adresse /\ u.verifie = v.verifie /\ u.attente = v.attente
        /\ u.seance \in {0, v.seance}
        /\ seances' = seances \/ (Perimer(c) /\ u.seance = 0)
        /\ UNCHANGED <<liens, usages, echanges, preuves>>
        /\ Recevoir(q, a) /\ (a = SansAppel \/ a.pc = "revoquer")
  <2>. USE DEF LiensInchanges, HistoiresInchangees, Servir
  <2>1. CASE Deconnecter(q, c)
    <3>1. PICK u : u = [v EXCEPT !.seance = 0]
      OBVIOUS
    <3>2. u \in Usager /\ u.existe /\ u.adresse = v.adresse /\ u.verifie = v.verifie /\ u.attente = v.attente
          /\ u.seance = 0
      BY <1>1, <1>2, <3>1 DEF Usager
    <3>3. usagers' = [usagers EXCEPT ![c] = u]
      BY <1>2, <2>1, <3>1 DEF Deconnecter
    <3>. QED BY <2>1, <3>2, <3>3 DEF Deconnecter
  <2>2. CASE ChangerMotDePasse(q, c)
    <3>1. PICK u : u = [v EXCEPT !.seance = 0]
      OBVIOUS
    <3>2. u \in Usager /\ u.existe /\ u.adresse = v.adresse /\ u.verifie = v.verifie /\ u.attente = v.attente
          /\ u.seance = 0
      BY <1>1, <1>2, <3>1 DEF Usager
    <3>3. usagers' = [usagers EXCEPT ![c] = u]
      BY <1>2, <2>2, <3>1 DEF ChangerMotDePasse
    <3>. QED BY <2>2, <3>2, <3>3 DEF ChangerMotDePasse
  <2>3. CASE Desactiver(q, c)
    <3>1. PICK u : u = [v EXCEPT !.actif = ~@]
      OBVIOUS
    <3>2. u \in Usager /\ u.existe /\ u.adresse = v.adresse /\ u.verifie = v.verifie /\ u.attente = v.attente
          /\ u.seance = v.seance
      BY <1>1, <1>2, <3>1 DEF Usager
    <3>3. usagers' = [usagers EXCEPT ![c] = u]
      BY <1>2, <2>3, <3>1 DEF Desactiver
    <3>4. PICK a : a = IF v.actif THEN [pc |-> "revoquer", c |-> c] ELSE SansAppel
      OBVIOUS
    <3>5. a \in Appel \cup {SansAppel} /\ (a = SansAppel \/ a.pc = "revoquer")
      BY <3>4 DEF Appel, DeSeance
    <3>6. Recevoir(q, a)
      BY <1>2, <2>3, <3>4 DEF Desactiver
    <3>. QED BY <2>3, <3>2, <3>3, <3>5, <3>6 DEF Desactiver
  <2>4. CASE Nommer(q, c)
    <3>1. PICK u : u = [v EXCEPT !.role = "ADMIN"]
      OBVIOUS
    <3>2. u \in Usager /\ u.existe /\ u.adresse = v.adresse /\ u.verifie = v.verifie /\ u.attente = v.attente
          /\ u.seance = v.seance
      BY <1>1, <1>2, <3>1 DEF Usager, RolesUsagers
    <3>3. usagers' = [usagers EXCEPT ![c] = u]
      BY <1>2, <2>4, <3>1 DEF Nommer
    <3>. QED BY <2>4, <3>2, <3>3 DEF Nommer
  <2>. QED BY <2>1, <2>2, <2>3, <2>4
<1>4. Corrige1(c, u)
  BY <1>1, <1>2, <1>3 DEF Corrige1
<1>. QED BY <1>2, <1>3, <1>4, DebutCorrige

\* A partner is deleted.
LEMMA SupprimerPartenaireTient ==
  ASSUME IInvAuth, NEW q \in Appels, NEW c \in Usagers, SupprimerPartenaire(q, c)
  PROVE  IInvAuth'
<1>1. TypeAuth /\ ToujoursAuth /\ Recevoir(q, SansAppel) /\ Effacer({c}) /\ {c} \in SUBSET Usagers
  BY DEF IInvAuth, SupprimerPartenaire, Servir
<1>2. Tenus
  BY <1>1, RecevoirTenus
<1>3. TypeAuth' /\ ToujoursAuth' /\ (EtatSur => EtatSur')
  BY <1>1, <1>2, EffacerTient
<1>. QED BY <1>1, <1>3, DebutTient DEF SequenceAuth

\* A token is shown.
LEMMA RafraichirTient ==
  ASSUME IInvAuth, NEW q \in Appels, NEW t \in DOMAIN seances, Rafraichir(q, t)
  PROVE  IInvAuth'
<1>1. TypeAuth /\ ToujoursAuth /\ t \in 1 .. Len(seances) /\ seances[t] \in Seance /\ Len(seances) \in Nat
      /\ t \in 1 .. MaxSeances /\ t # 0
  <2>1. TypeAuth /\ ToujoursAuth
    BY DEF IInvAuth
  <2>2. seances \in Seq(Seance) /\ Len(seances) <= MaxSeances /\ MaxSeances \in Nat
    BY <2>1, AuthAssumption DEF TypeAuth
  <2>. QED BY <2>1, <2>2
<1>2. PICK c \in Usagers : c = seances[t].compte
  BY <1>1 DEF Seance
<1>3. PICK r : r = [pc |-> IF Correspond(t) THEN "ouvrir" ELSE "revoquer", c |-> c]
  OBVIOUS
<1>4. r \in Appel /\ r.c = c /\ r.pc = IF Correspond(t) THEN "ouvrir" ELSE "revoquer"
  BY <1>3 DEF Appel, DeSeance
<1>5. Recevoir(q, r) /\ UNCHANGED <<usagers, liens, seances, usages, preuves>>
      /\ usagers[c].existe /\ usagers[c].seance # 0
      /\ echanges' = [echanges EXCEPT ![t] = IF Correspond(t) /\ @ < 2 THEN @ + 1 ELSE @]
  BY <1>2, <1>3 DEF Rafraichir
<1>6. /\ echanges' \in [1 .. MaxSeances -> Nat]
      /\ \A s \in 1 .. MaxSeances : s # t => echanges'[s] = echanges[s]
      /\ echanges'[t] \in {echanges[t], echanges[t] + 1} /\ (~Correspond(t) => echanges'[t] = echanges[t])
  BY <1>1, <1>5 DEF TypeAuth
<1>7. Tenus
  BY <1>1, <1>4, <1>5, RecevoirTenus
<1>8. TypeAuth'
  BY <1>1, <1>5, <1>6, <1>7 DEF TypeAuth, Tenus
<1>9. ToujoursAuth'
  BY <1>1, <1>5, <1>6 DEF ToujoursAuth, LienSuivi
<1>10. ASSUME SequenceAuth, \A s \in Appels : appels[s] = SansAppel PROVE EtatSur' /\ Fondee(r)'
  <2>1. EtatSur /\ CompteSur(c) /\ JetonSur(t) /\ \A s \in Appels : appels[s].pc = "libre"
    BY <1>1, <1>10 DEF SequenceAuth, EtatSur, SansAppel
  <2>2. Fondee(r)'
    BY <1>4, <1>5, <2>1 DEF Fondee, CompteSur
  <2>3. \A d \in Usagers : CompteSur(d)'
    BY <1>5, <2>1 DEF EtatSur, CompteSur
  <2>4. \A l \in Liens : LienSur(l)'
    <3>. TAKE l \in Liens
    <3>1. LienSur(l)
      BY <2>1 DEF EtatSur
    <3>. QED BY <1>5, <2>1, <3>1 DEF LienSur, BoiteSure, Remplace
  <2>5. \A s \in 1 .. Len(seances) : JetonSur(s)'
    <3>. TAKE s \in 1 .. Len(seances)
    <3>1. JetonSur(s) /\ s \in 1 .. MaxSeances /\ echanges[s] \in Nat
      BY <1>1, <2>1, AuthAssumption DEF EtatSur, TypeAuth
    <3>2. CASE s # t
      BY <1>5, <1>6, <2>1, <3>1, <3>2 DEF JetonSur
    <3>3. CASE s = t /\ Correspond(t)
      <4>1. echanges[t] = 0
        BY <1>2, <2>1, <3>1, <3>3 DEF JetonSur, Correspond
      <4>2. appels'[q] = r
        BY <1>1, <1>4, <1>5, AppelEcrit DEF Recevoir
      <4>. QED BY <1>2, <1>4, <1>5, <1>6, <3>1, <3>3, <4>1, <4>2 DEF JetonSur
    <3>4. CASE s = t /\ ~Correspond(t)
      BY <1>2, <1>5, <1>6, <3>1, <3>4 DEF JetonSur, Correspond
    <3>. QED BY <3>2, <3>3, <3>4
  <2>. QED BY <1>5, <2>2, <2>3, <2>4, <2>5 DEF EtatSur
<1>. QED BY <1>4, <1>5, <1>8, <1>9, <1>10, DebutTient

\* The earlier links go, then the new one is written.
LEMMA InvaliderTient ==
  ASSUME IInvAuth, NEW q \in Appels, Invalider(q)
  PROVE  IInvAuth'
<1>. USE DEF HistoiresInchangees
<1>1. TypeAuth /\ ToujoursAuth /\ appels[q].pc = "invalider"
  BY DEF IInvAuth, Invalider, Etape
<1>2. PICK d \in DEmission : d = appels[q] /\ d.pc = "invalider"
  BY <1>1, AppelLu
<1>3. PICK e : e = [d EXCEPT !.pc = "emettre"]
  OBVIOUS
<1>4. /\ e \in Appel /\ e.pc = "emettre" /\ e.type = d.type /\ e.c = d.c /\ e.boite = d.boite
      /\ d.type \in TypesJeton /\ d.c \in Usagers
  BY <1>2, <1>3 DEF DEmission, Appel
<1>5. /\ Poursuivre(q, e) /\ liens' = LiensInvalides(d.c, d.type)
      /\ UNCHANGED <<usagers, seances, usages, echanges, preuves>>
  BY <1>2, <1>3 DEF Invalider
<1>6. /\ liens' \in [Liens -> Lien \cup {LienNeuf}] /\ (\A l \in Liens : Ferme1(l))
      /\ \A l \in Liens : liens'[l].etat = "valable" =>
           liens'[l] = liens[l] /\ ~(liens[l].compte = d.c /\ liens[l].type = d.type)
  BY <1>1, <1>4, <1>5, LiensInvalidesEcrits
<1>7. /\ appels' \in [Appels -> Appel \cup {SansAppel}]
      /\ appels'[q] = e /\ (\A r \in Appels \ {q} : appels'[r] = appels[r]) /\ chevauche' = chevauche
  BY <1>1, <1>4, <1>5, AppelEcrit DEF Poursuivre
<1>8. FermeLiens
  BY <1>1, <1>5, <1>6, <1>7 DEF FermeLiens, TypeAuth
<1>9. \A r \in Appels : appels[r].pc = "ouvrir" => appels'[r] = appels[r]
  BY <1>1, <1>7
<1>10. \A r \in Appels, l \in Liens :
         liens'[l].etat = "valable" /\ Remplace(r, liens[l].type, liens[l].compte)
           => Remplace(r, liens[l].type, liens[l].compte)'
  <2>. TAKE r \in Appels, l \in Liens
  <2>. HAVE liens'[l].etat = "valable" /\ Remplace(r, liens[l].type, liens[l].compte)
  <2>1. r # q /\ liens'[l] = liens[l]
    BY <1>2, <1>6 DEF Remplace
  <2>. QED BY <1>7, <2>1 DEF Remplace
<1>11. TypeAuth' /\ ToujoursAuth' /\ (EtatSur => EtatSur')
  BY <1>1, <1>8, <1>9, <1>10, FermeLiensTient
<1>12. SequenceAuth => EtatSur' /\ Fondee(e)'
  <2>. SUFFICES ASSUME SequenceAuth PROVE EtatSur' /\ Fondee(e)'
    OBVIOUS
  <2>1. Fondee(d) /\ EtatSur
    BY <1>1, <1>2, AppelLu DEF SequenceAuth
  <2>2. Fondee(e)'
    BY <1>2, <1>4, <1>5, <2>1 DEF Fondee
  <2>. QED BY <1>11, <2>1, <2>2
<1>. QED BY <1>1, <1>4, <1>5, <1>11, <1>12, PoursuiteTient

LEMMA EmettreTient ==
  ASSUME IInvAuth, NEW q \in Appels, Emettre(q)
  PROVE  IInvAuth'
<1>. USE DEF HistoiresInchangees
<1>1. TypeAuth /\ ToujoursAuth /\ appels[q].pc = "emettre"
  BY DEF IInvAuth, Emettre, Etape
<1>2. PICK d \in DEmission : d = appels[q] /\ d.pc = "emettre"
  BY <1>1, AppelLu
<1>3. d.type \in TypesJeton /\ d.c \in Usagers /\ d.boite \in Adresses
  BY <1>2 DEF DEmission
<1>4. /\ Poursuivre(q, SansAppel) /\ UNCHANGED <<usagers, seances, usages, echanges, preuves>>
      /\ \E l \in Liens : liens[l] = LienNeuf
      /\ liens' = IF ~usagers[d.c].existe THEN liens
                  ELSE [liens EXCEPT ![CHOOSE l \in Liens : liens[l] = LienNeuf] =
                          [etat |-> "valable", type |-> d.type, compte |-> d.c, boite |-> d.boite]]
  BY <1>2 DEF Emettre, Repondre
<1>5. Tenus
  BY <1>1, <1>4, TenusApres DEF Poursuivre, TypeAuth
<1>6. CASE ~usagers[d.c].existe
  <2>1. TypeAuth' /\ ToujoursAuth' /\ (EtatSur => EtatSur')
    BY <1>1, <1>4, <1>5, <1>6, RienTient
  <2>. QED BY <1>1, <1>4, <2>1, PoursuiteTient DEF SequenceAuth
<1>7. CASE usagers[d.c].existe
  <2>1. PICK m \in Liens : m = (CHOOSE l \in Liens : liens[l] = LienNeuf) /\ liens[m] = LienNeuf
    BY <1>4
  <2>2. PICK n : n = [etat |-> "valable", type |-> d.type, compte |-> d.c, boite |-> d.boite]
    OBVIOUS
  <2>3. n \in Lien /\ n.etat = "valable" /\ n.type = d.type /\ n.compte = d.c /\ n.boite = d.boite
    BY <1>3, <2>2 DEF Lien
  <2>4. liens' = [liens EXCEPT ![m] = n]
    BY <1>4, <1>7, <2>1, <2>2
  <2>5. /\ liens' \in [Liens -> Lien \cup {LienNeuf}]
        /\ liens'[m] = n /\ \A l \in Liens \ {m} : liens'[l] = liens[l]
    BY <1>1, <2>3, <2>4 DEF TypeAuth
  <2>6. usages[m] = 0 /\ LienNeuf.etat = "neuf"
    BY <1>1, <2>1 DEF ToujoursAuth, LienSuivi, LienNeuf
  <2>7. TypeAuth'
    BY <1>1, <1>4, <1>5, <2>5 DEF TypeAuth, Tenus
  <2>8. \A l \in Liens : LienSuivi(l)'
    <3>. TAKE l \in Liens
    <3>1. CASE l = m
      BY <1>4, <1>7, <2>3, <2>5, <2>6, <3>1 DEF LienSuivi
    <3>2. CASE l # m
      <4>1. LienSuivi(l)
        BY <1>1 DEF ToujoursAuth
      <4>. QED BY <1>4, <2>5, <3>2, <4>1 DEF LienSuivi
    <3>. QED BY <3>1, <3>2
  <2>9. ToujoursAuth'
    BY <1>1, <1>4, <2>8 DEF ToujoursAuth
  <2>10. ASSUME SequenceAuth PROVE EtatSur'
    <3>1. EtatSur /\ Fondee(d)
      BY <1>1, <1>2, <2>10, AppelLu DEF SequenceAuth
    <3>2. \A c \in Usagers : CompteSur(c)'
      BY <1>4, <3>1 DEF EtatSur, CompteSur
    <3>3. \A r \in Appels : appels[r].pc \in {"invalider", "ouvrir"} => appels'[r] = appels[r]
      BY <1>5 DEF Tenus
    <3>4. \A l \in Liens : LienSur(l)'
      <4>. TAKE l \in Liens
      <4>1. CASE l = m
        <5>1. BoiteSure(d.type, d.c, d.boite)'
          BY <1>2, <1>4, <1>7, <3>1 DEF Fondee, BoiteSure
        <5>. QED BY <2>3, <2>5, <4>1, <5>1 DEF LienSur
      <4>2. CASE l # m
        <5>1. LienSur(l) /\ liens'[l] = liens[l]
          BY <2>5, <3>1, <4>2 DEF EtatSur
        <5>. QED BY <1>4, <3>3, <5>1 DEF LienSur, BoiteSure, Remplace
      <4>. QED BY <4>1, <4>2
    <3>5. \A t \in 1 .. Len(seances) : JetonSur(t)'
      <4>. TAKE t \in 1 .. Len(seances)
      <4>1. JetonSur(t)
        BY <3>1 DEF EtatSur
      <4>. QED BY <1>4, <3>3, <4>1 DEF JetonSur
    <3>. QED BY <1>4, <3>2, <3>4, <3>5 DEF EtatSur
  <2>. QED BY <1>1, <1>4, <2>7, <2>9, <2>10, PoursuiteTient
<1>. QED BY <1>6, <1>7

\* A link is consumed: it proves the address it was sent to.
LEMMA ConsommerTient ==
  ASSUME IInvAuth, NEW q \in Appels, Consommer(q)
  PROVE  IInvAuth'
<1>1. TypeAuth /\ ToujoursAuth /\ appels[q].pc = "consommer"
  BY DEF IInvAuth, Consommer, Etape
<1>2. PICK d \in DuLien : d = appels[q] /\ d.pc = "consommer"
  BY <1>1, AppelLu DEF PasDuLien
<1>3. d.l \in Liens /\ d.c \in Usagers /\ liens[d.l] \in Lien \cup {LienNeuf}
  BY <1>1, <1>2 DEF DuLien, TypeAuth
<1>4. UNCHANGED <<usagers, seances, echanges>>
  BY DEF Consommer
<1>5. CASE ~Consommable(d.l)
  <2>1. Poursuivre(q, SansAppel) /\ UNCHANGED <<usagers, liens, seances, usages, echanges, preuves>>
    BY <1>2, <1>5 DEF Consommer, Repondre
  <2>2. Tenus
    BY <1>1, <2>1, TenusApres DEF Poursuivre, TypeAuth
  <2>3. TypeAuth' /\ ToujoursAuth' /\ (EtatSur => EtatSur')
    BY <1>1, <2>1, <2>2, RienTient
  <2>. QED BY <1>1, <2>1, <2>3, PoursuiteTient DEF SequenceAuth
<1>6. CASE Consommable(d.l)
  <2>1. liens[d.l] \in Lien /\ liens[d.l].etat \in {"valable", "expire"}
    BY <1>3, <1>6 DEF Consommable, LienNeuf
  <2>2. PICK n : n = [liens[d.l] EXCEPT !.etat = "consomme"]
    OBVIOUS
  <2>3. n \in Lien /\ n.etat = "consomme" /\ n.type = liens[d.l].type /\ n.compte = liens[d.l].compte
        /\ n.boite = liens[d.l].boite
    BY <2>1, <2>2 DEF Lien
  <2>4. PICK x \in Adresses : x = liens[d.l].boite
    BY <2>1 DEF Lien
  <2>5. PICK e : e = [d EXCEPT !.pc = SuiteDuLien(liens[d.l].type)]
    OBVIOUS
  <2>6. /\ e \in Appel /\ e.pc = SuiteDuLien(liens[d.l].type) /\ e.c = d.c /\ e.attente = d.attente
    <3>1. SuiteDuLien(liens[d.l].type) \in PasDuLien
      BY DEF SuiteDuLien, PasDuLien
    <3>2. e \in DuLien /\ e.pc = SuiteDuLien(liens[d.l].type) /\ e.c = d.c /\ e.attente = d.attente
      BY <2>5, <3>1 DEF DuLien
    <3>. QED BY <3>2 DEF Appel
  <2>7. /\ liens' = [liens EXCEPT ![d.l] = n] /\ usages' = [usages EXCEPT ![d.l] = @ + 1]
        /\ preuves' = preuves \cup {<<d.c, x>>} /\ Poursuivre(q, e)
    <3>1. /\ liens' = [liens EXCEPT ![d.l].etat = "consomme"] /\ usages' = [usages EXCEPT ![d.l] = @ + 1]
          /\ preuves' = preuves \cup {<<d.c, liens[d.l].boite>>}
          /\ Poursuivre(q, [d EXCEPT !.pc = SuiteDuLien(liens[d.l].type)])
      BY <1>2, <1>6 DEF Consommer
    <3>. QED BY <2>2, <2>4, <2>5, <3>1
  <2>8. /\ liens' \in [Liens -> Lien \cup {LienNeuf}] /\ usages' \in [Liens -> Nat]
        /\ liens'[d.l] = n /\ \A l \in Liens \ {d.l} : liens'[l] = liens[l] /\ usages'[l] = usages[l]
        /\ usages'[d.l] = usages[d.l] + 1
    BY <1>1, <1>3, <2>3, <2>7 DEF TypeAuth
  <2>9. \A l \in Liens : Ferme1(l)
    <3>. TAKE l \in Liens
    <3>1. CASE l = d.l
      BY <2>1, <2>3, <2>8, <3>1 DEF Ferme1
    <3>2. CASE l # d.l
      BY <2>8, <3>2 DEF Ferme1
    <3>. QED BY <3>1, <3>2
  <2>10. Tenus
    BY <1>1, <2>6, <2>7, TenusApres DEF Poursuivre, TypeAuth
  <2>11. FermeLiens
    BY <1>1, <1>3, <1>4, <2>4, <2>7, <2>8, <2>9, <2>10 DEF FermeLiens, Tenus, TypeAuth
  <2>12. \A r \in Appels : appels[r].pc \in {"invalider", "ouvrir"} => appels'[r] = appels[r]
    BY <2>10 DEF Tenus
  <2>13. \A r \in Appels, l \in Liens :
           liens'[l].etat = "valable" /\ Remplace(r, liens[l].type, liens[l].compte)
             => Remplace(r, liens[l].type, liens[l].compte)'
    <3>. TAKE r \in Appels, l \in Liens
    <3>. HAVE liens'[l].etat = "valable" /\ Remplace(r, liens[l].type, liens[l].compte)
    <3>1. l # d.l
      BY <2>3, <2>8
    <3>2. liens'[l] = liens[l]
      BY <2>8, <3>1
    <3>. QED BY <2>12, <3>2 DEF Remplace
  <2>14. TypeAuth' /\ ToujoursAuth' /\ (EtatSur => EtatSur')
    BY <1>1, <2>11, <2>12, <2>13, FermeLiensTient
  <2>15. SequenceAuth => Fondee(e)'
    <3>. SUFFICES ASSUME SequenceAuth PROVE Fondee(e)'
      OBVIOUS
    <3>1. Fondee(d) /\ CompteSur(d.c)
      BY <1>1, <1>2, <1>3, AppelLu DEF SequenceAuth, EtatSur
    <3>2. <<d.c, x>> \in preuves' /\ (\A p \in preuves : p \in preuves') /\ usagers' = usagers
      BY <1>4, <2>7
    <3>3. usagers[d.c].existe => BoiteSure(liens[d.l].type, d.c, x) /\ usagers[d.c].attente = d.attente
      BY <1>2, <2>4, <3>1 DEF Fondee
    <3>4. CASE liens[d.l].type = "CHANGEMENT_EMAIL"
      <4>1. e.pc = "comparer"
        BY <2>6, <3>4 DEF SuiteDuLien
      <4>. QED BY <2>6, <3>2, <3>3, <3>4, <4>1 DEF Fondee, BoiteSure
    <3>5. CASE liens[d.l].type # "CHANGEMENT_EMAIL"
      <4>1. e.pc \in {"valider", "definir"}
        BY <2>6, <3>5 DEF SuiteDuLien
      <4>2. usagers[d.c].existe => <<d.c, usagers[d.c].adresse>> \in preuves'
        BY <3>1, <3>2, <3>3, <3>5 DEF BoiteSure, CompteSur
      <4>. QED BY <2>6, <3>2, <4>1, <4>2 DEF Fondee
    <3>. QED BY <3>4, <3>5
  <2>. QED BY <1>1, <2>6, <2>7, <2>14, <2>15, PoursuiteTient DEF SequenceAuth
<1>. QED BY <1>5, <1>6

\* A request goes on, or ends, and writes nothing.
LEMMA SuiteSansEcrire ==
  ASSUME IInvAuth, NEW q \in Appels, appels[q].pc \notin {"libre", "invalider", "ouvrir"},
         NEW a \in Appel \cup {SansAppel}, Poursuivre(q, a),
         UNCHANGED <<usagers, liens, seances, usages, echanges, preuves>>,
         SequenceAuth /\ a # SansAppel => Fondee(a)
  PROVE  IInvAuth'
<1>1. TypeAuth /\ ToujoursAuth
  BY DEF IInvAuth
<1>2. Tenus
  BY <1>1, TenusApres DEF Poursuivre, TypeAuth
<1>3. TypeAuth' /\ ToujoursAuth' /\ (EtatSur => EtatSur')
  BY <1>1, <1>2, RienTient
<1>4. SequenceAuth => EtatSur' /\ (a # SansAppel => Fondee(a)')
  BY <1>3 DEF SequenceAuth, Fondee, BoiteSure
<1>. QED BY <1>3, <1>4, PoursuiteTient

\* A request goes on, or ends, and corrects an account.
LEMMA SuiteCorrige ==
  ASSUME IInvAuth, NEW q \in Appels, appels[q].pc \notin {"libre", "invalider", "ouvrir"},
         NEW a \in Appel \cup {SansAppel}, Poursuivre(q, a),
         NEW c \in Usagers, NEW u \in Usager, Corrige1(c, u),
         SequenceAuth =>
           /\ usagers[c].verifie => u.verifie
           /\ u.adresse = usagers[c].adresse \/ u.verifie
           /\ u.verifie => <<c, u.adresse>> \in preuves
           /\ u.seance # 0 => seances' = seances
           /\ \/ u.attente \in {Aucune, usagers[c].attente}
              \/ \E r \in Appels : Remplace(r, "CHANGEMENT_EMAIL", c)'
           /\ a # SansAppel => Fondee(a)'
  PROVE  IInvAuth'
<1>1. TypeAuth /\ ToujoursAuth
  BY DEF IInvAuth
<1>2. Tenus
  BY <1>1, TenusApres DEF Poursuivre, TypeAuth
<1>3. TypeAuth' /\ ToujoursAuth'
  BY <1>1, <1>2, CorrigeTient
<1>4. SequenceAuth => EtatSur'
  BY <1>1, <1>2, CorrigeSur DEF SequenceAuth
<1>. QED BY <1>3, <1>4, PoursuiteTient

\* A request goes on with a new account.
LEMMA SuiteCreation ==
  ASSUME IInvAuth, NEW q \in Appels, appels[q].pc \notin {"libre", "invalider", "ouvrir"},
         NEW c \in Usagers, ~usagers[c].existe, NEW u \in Usager, NEW x \in Adresses,
         u.existe, u.adresse = x, u.verifie = FALSE, u.seance = 0,
         usagers' = [usagers EXCEPT ![c] = u],
         NEW type \in TypesJeton \ {"CHANGEMENT_EMAIL"}, Poursuivre(q, Emission(type, c, x)),
         UNCHANGED <<liens, seances, usages, echanges, preuves>>
  PROVE  IInvAuth'
<1>1. TypeAuth /\ ToujoursAuth
  BY DEF IInvAuth
<1>2. PICK r : r = Emission(type, c, x)
  OBVIOUS
<1>3. r \in DEmission /\ r.type = type /\ r.c = c /\ r.boite = x
  BY <1>2 DEF Emission, DEmission
<1>4. r \in Appel /\ Poursuivre(q, r)
  BY <1>2, <1>3 DEF Appel
<1>5. Tenus
  BY <1>1, <1>4, TenusApres DEF Poursuivre, TypeAuth
<1>6. TypeAuth' /\ ToujoursAuth' /\ (EtatSur => EtatSur') /\ usagers'[c] = u
  BY <1>1, <1>5, CreationTient
<1>7. Fondee(r)'
  BY <1>3, <1>6 DEF Fondee, DEmission
<1>. QED BY <1>4, <1>6, <1>7, PoursuiteTient DEF SequenceAuth

\* enregistrer, after the address was looked for.
LEMMA EnregistrerTient ==
  ASSUME IInvAuth, NEW q \in Appels, EnregistrerInscription(q)
  PROVE  IInvAuth'
<1>. USE DEF HistoiresInchangees
<1>1. TypeAuth /\ ToujoursAuth /\ appels[q].pc = "inscrire" /\ UNCHANGED <<liens, usages, echanges, preuves>>
  BY DEF IInvAuth, EnregistrerInscription, Etape
<1>2. PICK d \in DInscription : d = appels[q]
  BY <1>1, AppelLu
<1>3. d.connus \in SUBSET Usagers /\ d.a \in Adresses
  BY <1>2 DEF DInscription
<1>4. CASE UNCHANGED <<usagers, seances>> /\ Repondre(q)
  BY <1>1, <1>4, SuiteSansEcrire DEF Repondre
<1>5. ASSUME NEW c \in d.connus, usagers[c].existe,
             usagers' = [usagers EXCEPT ![c].motDePasse = TRUE], Perimer(c),
             Poursuivre(q, Emission("VERIFICATION_EMAIL", c, usagers[c].adresse))
      PROVE  IInvAuth'
  <2>1. PICK v \in Usager, x \in Adresses : v = usagers[c] /\ v.adresse = x /\ c \in Usagers
    BY <1>1, <1>3, <1>5, UsagerLu
  <2>2. PICK u : u = [v EXCEPT !.motDePasse = TRUE]
    OBVIOUS
  <2>3. /\ u \in Usager /\ u.existe /\ u.adresse = x /\ u.verifie = v.verifie /\ u.attente = v.attente
        /\ u.seance = v.seance
    BY <1>5, <2>1, <2>2 DEF Usager
  <2>4. usagers' = [usagers EXCEPT ![c] = u]
    BY <1>5, <2>1, <2>2
  <2>5. PICK r : r = Emission("VERIFICATION_EMAIL", c, x)
    OBVIOUS
  <2>6. r \in DEmission /\ r.type = "VERIFICATION_EMAIL" /\ r.c = c /\ r.boite = x
    BY <2>1, <2>5 DEF Emission, DEmission, TypesJeton
  <2>7. r \in Appel /\ Poursuivre(q, r)
    BY <1>5, <2>1, <2>5, <2>6 DEF Appel
  <2>8. Corrige1(c, u)
    BY <1>1, <1>5, <2>1, <2>3, <2>4 DEF Corrige1
  <2>9. usagers'[c] = u
    BY <1>1, <2>1, <2>3, <2>4 DEF TypeAuth
  <2>10. ASSUME SequenceAuth PROVE CompteSur(c) /\ ~v.verifie /\ v.seance = 0
    <3>1. Fondee(d) /\ CompteSur(c)
      BY <1>1, <1>2, <2>1, <2>10, AppelLu DEF SequenceAuth, EtatSur
    <3>. QED BY <1>1, <1>2, <1>5, <2>1, <3>1 DEF Fondee, CompteSur
  <2>11. SequenceAuth => Fondee(r)'
    BY <2>3, <2>6, <2>9 DEF Fondee, DEmission
  <2>. QED BY <1>1, <2>1, <2>3, <2>7, <2>8, <2>10, <2>11, SuiteCorrige
<1>6. ASSUME NEW c \in Usagers, ~usagers[c].existe, UNCHANGED seances,
             usagers' = [usagers EXCEPT ![c] = NouvelUsager(d.a, "VISITOR", TRUE)],
             Poursuivre(q, Emission("VERIFICATION_EMAIL", c, d.a))
      PROVE  IInvAuth'
  <2>1. PICK u : u = NouvelUsager(d.a, "VISITOR", TRUE)
    OBVIOUS
  <2>2. /\ u \in Usager /\ u.existe /\ u.adresse = d.a /\ u.verifie = FALSE /\ u.seance = 0
    BY <1>3, <2>1 DEF NouvelUsager, SansUsager, Usager, RolesUsagers
  <2>3. "VERIFICATION_EMAIL" \in TypesJeton \ {"CHANGEMENT_EMAIL"}
    BY DEF TypesJeton
  <2>4. usagers' = [usagers EXCEPT ![c] = u]
    BY <1>6, <2>1
  <2>. QED BY <1>1, <1>3, <1>6, <2>2, <2>3, <2>4, SuiteCreation
<1>7. \/ \E c \in d.connus :
           IF usagers[c].existe
           THEN /\ usagers' = [usagers EXCEPT ![c].motDePasse = TRUE]
                /\ Perimer(c)
                /\ Poursuivre(q, Emission("VERIFICATION_EMAIL", c, usagers[c].adresse))
           ELSE UNCHANGED <<usagers, seances>> /\ Repondre(q)
      \/ /\ \E c \in Usagers :
              /\ ~usagers[c].existe
              /\ usagers' = [usagers EXCEPT ![c] = NouvelUsager(d.a, "VISITOR", TRUE)]
              /\ Poursuivre(q, Emission("VERIFICATION_EMAIL", c, d.a))
         /\ UNCHANGED seances
      \/ Repondre(q) /\ UNCHANGED <<usagers, seances>>
  BY <1>2 DEF EnregistrerInscription
<1>. QED BY <1>4, <1>5, <1>6, <1>7

\* Somebody is invited.
LEMMA CreerPartenaireTient ==
  ASSUME IInvAuth, NEW q \in Appels, CreerPartenaire(q)
  PROVE  IInvAuth'
<1>. USE DEF LiensInchanges, HistoiresInchangees
<1>1. TypeAuth /\ ToujoursAuth /\ appels[q].pc = "inviter"
      /\ UNCHANGED <<liens, seances, usages, echanges, preuves>>
  BY DEF IInvAuth, CreerPartenaire, Etape
<1>2. PICK d \in DInvitation : d = appels[q]
  BY <1>1, AppelLu
<1>3. d.a \in Adresses
  BY <1>2 DEF DInvitation
<1>4. CASE UNCHANGED usagers /\ Repondre(q)
  BY <1>1, <1>4, SuiteSansEcrire DEF Repondre
<1>5. ASSUME NEW c \in Usagers, ~usagers[c].existe,
             usagers' = [usagers EXCEPT ![c] = [NouvelUsager(d.a, "SPONSOR", FALSE) EXCEPT !.fiche = TRUE]],
             Poursuivre(q, Emission("INVITATION_SPONSOR", c, d.a))
      PROVE  IInvAuth'
  <2>1. PICK u : u = [NouvelUsager(d.a, "SPONSOR", FALSE) EXCEPT !.fiche = TRUE]
    OBVIOUS
  <2>2. /\ u \in Usager /\ u.existe /\ u.adresse = d.a /\ u.verifie = FALSE /\ u.seance = 0
    BY <1>3, <2>1 DEF NouvelUsager, SansUsager, Usager, RolesUsagers
  <2>3. "INVITATION_SPONSOR" \in TypesJeton \ {"CHANGEMENT_EMAIL"}
    BY DEF TypesJeton
  <2>4. usagers' = [usagers EXCEPT ![c] = u]
    BY <1>5, <2>1
  <2>. QED BY <1>1, <1>3, <1>5, <2>2, <2>3, <2>4, SuiteCreation
<1>6. \/ \E c \in Usagers :
           /\ ~usagers[c].existe
           /\ usagers' = [usagers EXCEPT ![c] = [NouvelUsager(d.a, "SPONSOR", FALSE) EXCEPT !.fiche = TRUE]]
           /\ Poursuivre(q, Emission("INVITATION_SPONSOR", c, d.a))
      \/ UNCHANGED usagers /\ Repondre(q)
  BY <1>2 DEF CreerPartenaire
<1>. QED BY <1>4, <1>5, <1>6

\* A verified account: the other links of verification go first.
LEMMA InvaliderVerificationsTient ==
  ASSUME IInvAuth, NEW q \in Appels, InvaliderVerifications(q)
  PROVE  IInvAuth'
<1>. USE DEF HistoiresInchangees
<1>1. TypeAuth /\ ToujoursAuth /\ appels[q].pc = "valider"
  BY DEF IInvAuth, InvaliderVerifications, Etape
<1>2. PICK d \in DuLien : d = appels[q] /\ d.pc = "valider"
  BY <1>1, AppelLu DEF PasDuLien
<1>3. PICK e : e = [d EXCEPT !.pc = "activer"]
  OBVIOUS
<1>4. e \in DuLien /\ e.pc = "activer" /\ e.c = d.c /\ d.c \in Usagers
  BY <1>2, <1>3 DEF DuLien, PasDuLien
<1>5. e \in Appel /\ "VERIFICATION_EMAIL" \in TypesJeton
  BY <1>4 DEF Appel, TypesJeton
<1>6. /\ Poursuivre(q, e) /\ liens' = LiensInvalides(d.c, "VERIFICATION_EMAIL")
      /\ UNCHANGED <<usagers, seances, usages, echanges, preuves>>
  BY <1>2, <1>3 DEF InvaliderVerifications
<1>7. /\ liens' \in [Liens -> Lien \cup {LienNeuf}] /\ (\A l \in Liens : Ferme1(l))
      /\ \A l \in Liens : liens'[l].etat = "valable" => liens'[l] = liens[l]
  BY <1>1, <1>4, <1>5, <1>6, LiensInvalidesEcrits
<1>8. Tenus
  BY <1>1, <1>5, <1>6, TenusApres DEF Poursuivre, TypeAuth
<1>9. FermeLiens
  BY <1>1, <1>6, <1>7, <1>8 DEF FermeLiens, Tenus, TypeAuth
<1>10. \A r \in Appels : appels[r].pc \in {"invalider", "ouvrir"} => appels'[r] = appels[r]
  BY <1>8 DEF Tenus
<1>11. \A r \in Appels, l \in Liens :
         liens'[l].etat = "valable" /\ Remplace(r, liens[l].type, liens[l].compte)
           => Remplace(r, liens[l].type, liens[l].compte)'
  BY <1>7, <1>10 DEF Remplace
<1>12. TypeAuth' /\ ToujoursAuth' /\ (EtatSur => EtatSur')
  BY <1>1, <1>9, <1>10, <1>11, FermeLiensTient
<1>13. SequenceAuth => EtatSur' /\ Fondee(e)'
  <2>. SUFFICES ASSUME SequenceAuth PROVE EtatSur' /\ Fondee(e)'
    OBVIOUS
  <2>1. Fondee(d) /\ EtatSur
    BY <1>1, <1>2, AppelLu DEF SequenceAuth
  <2>2. Fondee(e)'
    BY <1>2, <1>4, <1>6, <2>1 DEF Fondee
  <2>. QED BY <1>12, <2>1, <2>2
<1>. QED BY <1>1, <1>5, <1>6, <1>12, <1>13, PoursuiteTient

\* The account a link proved is activated, or given a password; or a session is
\* closed.
LEMMA ActiverTient ==
  ASSUME IInvAuth, NEW q \in Appels, ActiverCompte(q)
  PROVE  IInvAuth'
<1>. USE DEF LiensInchanges, HistoiresInchangees
<1>1. TypeAuth /\ ToujoursAuth /\ appels[q].pc = "activer"
      /\ UNCHANGED <<liens, seances, usages, echanges, preuves>>
  BY DEF IInvAuth, ActiverCompte, Etape
<1>2. PICK d \in DuLien : d = appels[q]
  BY <1>1, AppelLu DEF PasDuLien
<1>3. PICK c \in Usagers : c = d.c
  BY <1>2 DEF DuLien
<1>4. CASE ~usagers[c].existe
  <2>1. UNCHANGED usagers /\ Poursuivre(q, SansAppel)
    BY <1>2, <1>3, <1>4 DEF ActiverCompte, Repondre
  <2>. QED BY <1>1, <2>1, SuiteSansEcrire
<1>5. CASE usagers[c].existe
  <2>1. PICK v \in Usager : v = usagers[c] /\ v.adresse \in Adresses
    BY <1>1, <1>5, UsagerLu
  <2>2. PICK u : u = [v EXCEPT !.verifie = TRUE, !.role = RoleSelon(d.adresse)]
    OBVIOUS
  <2>3. /\ u \in Usager /\ u.existe /\ u.adresse = v.adresse /\ u.verifie = TRUE /\ u.attente = v.attente
        /\ u.seance = v.seance
    BY <1>5, <2>1, <2>2 DEF Usager, RolesUsagers, RoleSelon
  <2>4. usagers' = [usagers EXCEPT ![c] = u]
    BY <1>2, <1>3, <1>5, <2>1, <2>2 DEF ActiverCompte
  <2>5. PICK r : r = [pc |-> "ouvrir", c |-> c]
    OBVIOUS
  <2>6. r \in Appel /\ r.pc = "ouvrir" /\ r.c = c
    BY <2>5 DEF Appel, DeSeance
  <2>7. Poursuivre(q, r)
    BY <1>2, <1>3, <1>5, <2>5 DEF ActiverCompte
  <2>8. Corrige1(c, u)
    BY <1>1, <1>5, <2>1, <2>3, <2>4 DEF Corrige1
  <2>9. usagers'[c] = u
    BY <1>1, <2>4 DEF TypeAuth
  <2>10. SequenceAuth => <<c, u.adresse>> \in preuves
    <3>. SUFFICES ASSUME SequenceAuth PROVE <<c, u.adresse>> \in preuves
      OBVIOUS
    <3>1. Fondee(d)
      BY <1>1, <1>2, AppelLu DEF SequenceAuth
    <3>. QED BY <1>1, <1>2, <1>3, <1>5, <2>1, <2>3, <3>1 DEF Fondee
  <2>11. Fondee(r)'
    BY <2>3, <2>6, <2>9 DEF Fondee
  <2>. QED BY <1>1, <2>1, <2>3, <2>6, <2>7, <2>8, <2>10, <2>11, SuiteCorrige
<1>. QED BY <1>4, <1>5

LEMMA DefinirTient ==
  ASSUME IInvAuth, NEW q \in Appels, DefinirMotDePasse(q)
  PROVE  IInvAuth'
<1>. USE DEF HistoiresInchangees
<1>1. TypeAuth /\ ToujoursAuth /\ appels[q].pc = "definir"
      /\ UNCHANGED <<liens, usages, echanges, preuves>>
  BY DEF IInvAuth, DefinirMotDePasse, Etape
<1>2. PICK d \in DuLien : d = appels[q]
  BY <1>1, AppelLu DEF PasDuLien
<1>3. PICK c \in Usagers : c = d.c
  BY <1>2 DEF DuLien
<1>4. CASE ~usagers[c].existe
  <2>1. UNCHANGED <<usagers, seances>> /\ Poursuivre(q, SansAppel)
    BY <1>2, <1>3, <1>4 DEF DefinirMotDePasse, Repondre
  <2>. QED BY <1>1, <2>1, SuiteSansEcrire
<1>5. CASE usagers[c].existe
  <2>1. PICK v \in Usager : v = usagers[c] /\ v.adresse \in Adresses
    BY <1>1, <1>5, UsagerLu
  <2>2. PICK u : u = [v EXCEPT !.motDePasse = TRUE, !.verifie = TRUE, !.seance = 0]
    OBVIOUS
  <2>3. /\ u \in Usager /\ u.existe /\ u.adresse = v.adresse /\ u.verifie = TRUE /\ u.attente = v.attente
        /\ u.seance = 0
    BY <1>5, <2>1, <2>2 DEF Usager
  <2>4. usagers' = [usagers EXCEPT ![c] = u] /\ Perimer(c)
    BY <1>2, <1>3, <1>5, <2>1, <2>2 DEF DefinirMotDePasse
  <2>5. PICK r : r = [pc |-> "ouvrir", c |-> c]
    OBVIOUS
  <2>6. r \in Appel /\ r.pc = "ouvrir" /\ r.c = c
    BY <2>5 DEF Appel, DeSeance
  <2>7. Poursuivre(q, r)
    BY <1>2, <1>3, <1>5, <2>5 DEF DefinirMotDePasse
  <2>8. Corrige1(c, u)
    BY <1>1, <1>5, <2>1, <2>3, <2>4 DEF Corrige1
  <2>9. usagers'[c] = u
    BY <1>1, <2>4 DEF TypeAuth
  <2>10. SequenceAuth => <<c, u.adresse>> \in preuves
    <3>. SUFFICES ASSUME SequenceAuth PROVE <<c, u.adresse>> \in preuves
      OBVIOUS
    <3>1. Fondee(d)
      BY <1>1, <1>2, AppelLu DEF SequenceAuth
    <3>. QED BY <1>1, <1>2, <1>3, <1>5, <2>1, <2>3, <3>1 DEF Fondee
  <2>11. Fondee(r)'
    BY <2>3, <2>6, <2>9 DEF Fondee
  <2>. QED BY <1>1, <2>1, <2>3, <2>6, <2>7, <2>8, <2>10, <2>11, SuiteCorrige
<1>. QED BY <1>4, <1>5

LEMMA RevoquerTient ==
  ASSUME IInvAuth, NEW q \in Appels, Revoquer(q)
  PROVE  IInvAuth'
<1>. USE DEF LiensInchanges, HistoiresInchangees
<1>1. TypeAuth /\ ToujoursAuth /\ appels[q].pc = "revoquer" /\ Poursuivre(q, SansAppel)
      /\ UNCHANGED <<liens, seances, usages, echanges, preuves>>
  BY DEF IInvAuth, Revoquer, Etape, Repondre
<1>2. PICK d \in DeSeance : d = appels[q]
  BY <1>1, AppelLu
<1>3. PICK c \in Usagers : c = d.c
  BY <1>2 DEF DeSeance
<1>4. usagers' = [usagers EXCEPT ![c].seance = 0]
  BY <1>2, <1>3 DEF Revoquer
<1>5. CASE ~usagers[c].existe
  <2>1. usagers[c] \in Usager /\ usagers[c].seance = 0
    BY <1>1, <1>5, UsagerLu
  <2>2. [usagers[c] EXCEPT !.seance = 0] = usagers[c]
    BY <2>1 DEF Usager
  <2>3. usagers' = usagers
    BY <1>1, <1>4, <2>2 DEF TypeAuth
  <2>. QED BY <1>1, <2>3, SuiteSansEcrire
<1>6. CASE usagers[c].existe
  <2>1. PICK v \in Usager : v = usagers[c] /\ v.adresse \in Adresses
    BY <1>1, <1>6, UsagerLu
  <2>2. PICK u : u = [v EXCEPT !.seance = 0]
    OBVIOUS
  <2>3. /\ u \in Usager /\ u.existe /\ u.adresse = v.adresse /\ u.verifie = v.verifie /\ u.attente = v.attente
        /\ u.seance = 0
    BY <1>6, <2>1, <2>2 DEF Usager
  <2>4. usagers' = [usagers EXCEPT ![c] = u]
    BY <1>4, <2>1, <2>2
  <2>5. Corrige1(c, u)
    BY <1>1, <1>6, <2>1, <2>3, <2>4 DEF Corrige1
  <2>6. SequenceAuth => (v.verifie => <<c, u.adresse>> \in preuves)
    BY <1>3, <2>1, <2>3 DEF SequenceAuth, EtatSur, CompteSur
  <2>. QED BY <1>1, <2>1, <2>3, <2>5, <2>6, SuiteCorrige
<1>. QED BY <1>5, <1>6

\* The address asked for is noted: the link to it comes after.
LEMMA NoterTient ==
  ASSUME IInvAuth, NEW q \in Appels, NoterAttente(q)
  PROVE  IInvAuth'
<1>. USE DEF LiensInchanges, HistoiresInchangees
<1>1. TypeAuth /\ ToujoursAuth /\ appels[q].pc = "noter"
      /\ UNCHANGED <<liens, seances, usages, echanges, preuves>>
  BY DEF IInvAuth, NoterAttente, Etape
<1>2. PICK d \in DAttente : d = appels[q]
  BY <1>1, AppelLu
<1>3. PICK c \in Usagers, a \in Adresses : c = d.c /\ a = d.a
  BY <1>2 DEF DAttente
<1>4. CASE ~usagers[c].existe
  <2>1. UNCHANGED usagers /\ Poursuivre(q, SansAppel)
    BY <1>2, <1>3, <1>4 DEF NoterAttente, Repondre
  <2>. QED BY <1>1, <2>1, SuiteSansEcrire
<1>5. CASE usagers[c].existe
  <2>1. PICK v \in Usager : v = usagers[c] /\ v.adresse \in Adresses
    BY <1>1, <1>5, UsagerLu
  <2>2. PICK u : u = [v EXCEPT !.attente = a]
    OBVIOUS
  <2>3. /\ u \in Usager /\ u.existe /\ u.adresse = v.adresse /\ u.verifie = v.verifie /\ u.attente = a
        /\ u.seance = v.seance
    BY <1>5, <2>1, <2>2, <1>3 DEF Usager
  <2>4. usagers' = [usagers EXCEPT ![c] = u]
    BY <1>2, <1>3, <1>5, <2>1, <2>2 DEF NoterAttente
  <2>5. PICK r : r = Emission("CHANGEMENT_EMAIL", c, a)
    OBVIOUS
  <2>6. r \in DEmission /\ r.pc = "invalider" /\ r.type = "CHANGEMENT_EMAIL" /\ r.c = c /\ r.boite = a
    BY <1>3, <2>5 DEF Emission, DEmission, TypesJeton, LIENS_CUMULABLES
  <2>7. r \in Appel /\ Poursuivre(q, r)
    BY <1>2, <1>3, <1>5, <2>5, <2>6 DEF Appel, NoterAttente
  <2>8. Corrige1(c, u)
    BY <1>1, <1>5, <2>1, <2>3, <2>4 DEF Corrige1
  <2>9. usagers'[c] = u /\ appels'[q] = r
    BY <1>1, <2>4, <2>7 DEF TypeAuth, Poursuivre
  <2>10. \E s \in Appels : Remplace(s, "CHANGEMENT_EMAIL", c)'
    BY <2>6, <2>9 DEF Remplace
  <2>11. ASSUME SequenceAuth PROVE v.verifie /\ CompteSur(c)
    <3>1. Fondee(d) /\ CompteSur(c)
      BY <1>1, <1>2, <2>11, AppelLu DEF SequenceAuth, EtatSur
    <3>. QED BY <1>1, <1>2, <1>3, <1>5, <2>1, <3>1 DEF Fondee
  <2>12. SequenceAuth => Fondee(r)' /\ (u.verifie => <<c, u.adresse>> \in preuves)
    BY <2>1, <2>3, <2>6, <2>9, <2>11 DEF Fondee, CompteSur
  <2>. QED BY <1>1, <2>1, <2>3, <2>7, <2>8, <2>10, <2>12, SuiteCorrige
<1>. QED BY <1>4, <1>5

\* The new address is compared with those of the others, then taken.
LEMMA ComparerTient ==
  ASSUME IInvAuth, NEW q \in Appels, ComparerAdresse(q)
  PROVE  IInvAuth'
<1>. USE DEF LiensInchanges, HistoiresInchangees
<1>1. TypeAuth /\ ToujoursAuth /\ appels[q].pc = "comparer"
      /\ UNCHANGED <<liens, seances, usages, echanges, preuves>>
  BY DEF IInvAuth, ComparerAdresse, Etape
<1>2. PICK d \in DuLien : d = appels[q] /\ d.pc = "comparer"
  BY <1>1, AppelLu DEF PasDuLien
<1>3. PICK c \in Usagers : c = d.c
  BY <1>2 DEF DuLien
<1>4. PICK v \in Usager : v = usagers[c]
  BY <1>1 DEF TypeAuth
<1>5. CASE d.attente # Aucune /\ Titulaires(d.attente) = {}
  <2>1. PICK e : e = [d EXCEPT !.pc = "basculer"]
    OBVIOUS
  <2>2. e \in DBascule /\ e.c = c /\ e.pc = "basculer" /\ e.attente = d.attente
    BY <1>2, <1>3, <1>5, <2>1 DEF DuLien, DBascule
  <2>3. e \in Appel /\ Poursuivre(q, e) /\ UNCHANGED usagers
    BY <1>2, <1>5, <2>1, <2>2 DEF Appel, ComparerAdresse
  <2>4. SequenceAuth => Fondee(e)
    <3>. SUFFICES ASSUME SequenceAuth PROVE Fondee(e)
      OBVIOUS
    <3>1. Fondee(d)
      BY <1>1, <1>2, AppelLu DEF SequenceAuth
    <3>. QED BY <1>2, <1>3, <2>2, <3>1 DEF Fondee
  <2>. QED BY <1>1, <2>3, <2>4, SuiteSansEcrire
<1>6. CASE ~(d.attente # Aucune /\ Titulaires(d.attente) = {})
  <2>1. PICK x \in {v.attente, Aucune} : x = IF d.attente = Aucune THEN v.attente ELSE Aucune
    OBVIOUS
  <2>2. PICK u : u = [v EXCEPT !.attente = x]
    OBVIOUS
  <2>3. /\ u \in Usager /\ u.existe = v.existe /\ u.adresse = v.adresse /\ u.verifie = v.verifie
        /\ u.attente = x /\ u.seance = v.seance
    BY <1>4, <2>1, <2>2 DEF Usager
  <2>4. usagers' = [usagers EXCEPT ![c] = u] /\ Poursuivre(q, SansAppel)
    BY <1>2, <1>3, <1>4, <1>6, <2>1, <2>2 DEF ComparerAdresse, Repondre
  <2>5. CASE ~v.existe
    <3>1. v = SansUsager
      BY <1>1, <1>4, <2>5, UsagerLu DEF Plein
    <3>2. v.attente = Aucune
      BY <3>1 DEF SansUsager
    <3>3. u = v
      BY <1>4, <2>1, <2>2, <3>2 DEF Usager
    <3>4. usagers' = usagers
      BY <1>1, <1>4, <2>4, <3>3 DEF TypeAuth
    <3>. QED BY <1>1, <2>4, <3>4, SuiteSansEcrire
  <2>6. CASE v.existe
    <3>1. v.adresse \in Adresses
      BY <1>1, <1>4, <2>6, UsagerLu
    <3>2. Corrige1(c, u)
      BY <1>1, <1>4, <2>3, <2>4, <2>6, <3>1 DEF Corrige1
    <3>3. SequenceAuth => (u.verifie => <<c, u.adresse>> \in preuves)
      BY <1>4, <2>3 DEF SequenceAuth, EtatSur, CompteSur
    <3>4. u.attente \in {Aucune, v.attente}
      BY <2>1, <2>3
    <3>. QED BY <1>1, <1>4, <2>3, <2>4, <3>2, <3>3, <3>4, SuiteCorrige
  <2>. QED BY <2>5, <2>6
<1>. QED BY <1>5, <1>6

LEMMA BasculerTient ==
  ASSUME IInvAuth, NEW q \in Appels, BasculerAdresse(q)
  PROVE  IInvAuth'
<1>. USE DEF HistoiresInchangees
<1>1. TypeAuth /\ ToujoursAuth /\ appels[q].pc = "basculer"
      /\ UNCHANGED <<liens, usages, echanges, preuves>>
  BY DEF IInvAuth, BasculerAdresse, Etape
<1>2. PICK d \in DBascule : d = appels[q] /\ d.pc = "basculer"
  BY <1>1, AppelLu
<1>3. PICK c \in Usagers, a \in Adresses : c = d.c /\ a = d.attente /\ a # Aucune
  BY <1>2, AuthAssumption DEF DBascule
<1>4. CASE ~(usagers[c].existe /\ AdresseLibre(a))
  <2>1. UNCHANGED <<usagers, seances>> /\ Poursuivre(q, SansAppel)
    BY <1>2, <1>3, <1>4 DEF BasculerAdresse, Repondre
  <2>. QED BY <1>1, <2>1, SuiteSansEcrire
<1>5. CASE usagers[c].existe /\ AdresseLibre(a)
  <2>1. PICK v \in Usager : v = usagers[c]
    BY <1>1 DEF TypeAuth
  <2>2. PICK ro \in RolesUsagers : ro = IF d.role \in {"ADMIN", "SPONSOR"} THEN v.role ELSE RoleSelon(a)
    BY <2>1 DEF Usager, RolesUsagers, RoleSelon
  <2>3. PICK u : u = [v EXCEPT !.adresse = a, !.attente = Aucune, !.verifie = TRUE, !.seance = 0, !.role = ro]
    OBVIOUS
  <2>4. u \in Usager /\ u.existe /\ u.adresse = a /\ u.verifie = TRUE /\ u.attente = Aucune /\ u.seance = 0
    BY <1>3, <1>5, <2>1, <2>2, <2>3 DEF Usager
  <2>5. usagers' = [usagers EXCEPT ![c] = u] /\ Perimer(c)
    <3>1. /\ usagers' = [usagers EXCEPT
                ![c].adresse = a, ![c].attente = Aucune, ![c].verifie = TRUE, ![c].seance = 0,
                ![c].role = IF d.role \in {"ADMIN", "SPONSOR"} THEN @ ELSE RoleSelon(a)]
          /\ Perimer(c)
      BY <1>2, <1>3, <1>5 DEF BasculerAdresse
    <3>2. [v EXCEPT !.adresse = a, !.attente = Aucune, !.verifie = TRUE, !.seance = 0,
             !.role = IF d.role \in {"ADMIN", "SPONSOR"} THEN @ ELSE RoleSelon(a)] = u
      BY <2>2, <2>3 DEF Usager
    <3>. QED BY <1>1, <2>1, <3>1, <3>2 DEF TypeAuth
  <2>6. PICK r : r = [pc |-> "ouvrir", c |-> c]
    OBVIOUS
  <2>7. r \in Appel /\ r.pc = "ouvrir" /\ r.c = c
    BY <2>6 DEF Appel, DeSeance
  <2>8. Poursuivre(q, r)
    BY <1>2, <1>3, <1>5, <2>6 DEF BasculerAdresse
  <2>9. Corrige1(c, u)
    BY <1>1, <1>3, <1>5, <2>1, <2>4, <2>5 DEF Corrige1
  <2>10. usagers'[c] = u
    BY <1>1, <2>5 DEF TypeAuth
  <2>11. SequenceAuth => <<c, u.adresse>> \in preuves
    <3>. SUFFICES ASSUME SequenceAuth PROVE <<c, u.adresse>> \in preuves
      OBVIOUS
    <3>1. Fondee(d)
      BY <1>1, <1>2, AppelLu DEF SequenceAuth
    <3>. QED BY <1>2, <1>3, <1>5, <2>4, <3>1 DEF Fondee
  <2>12. Fondee(r)'
    BY <2>4, <2>7, <2>10 DEF Fondee
  <2>. QED BY <1>1, <2>1, <2>4, <2>7, <2>8, <2>9, <2>11, <2>12, SuiteCorrige
<1>. QED BY <1>4, <1>5

\* A session is opened: the account keeps the last token.
LEMMA OuvrirTient ==
  ASSUME IInvAuth, NEW q \in Appels, Ouvrir(q)
  PROVE  IInvAuth'
<1>. USE DEF HistoiresInchangees
<1>1. TypeAuth /\ ToujoursAuth /\ appels[q].pc = "ouvrir" /\ Poursuivre(q, SansAppel)
      /\ UNCHANGED <<liens, usages, echanges, preuves>>
  BY DEF IInvAuth, Ouvrir, Etape, Repondre
<1>2. PICK d \in DeSeance : d = appels[q]
  BY <1>1, AppelLu
<1>3. PICK c \in Usagers : c = d.c
  BY <1>2 DEF DeSeance
<1>4. PICK n \in Nat : n = Len(seances) /\ n < MaxSeances /\ MaxSeances \in Nat
  <2>1. Len(seances) \in Nat /\ MaxSeances \in Nat
    BY <1>1, AuthAssumption DEF TypeAuth
  <2>2. Len(seances) < MaxSeances
    BY DEF Ouvrir
  <2>. QED BY <2>1, <2>2
<1>5. PICK z \in Seance : z = [compte |-> c, aJour |-> TRUE]
  BY DEF Seance
<1>6. /\ seances' = Append(seances, z)
      /\ usagers' = [usagers EXCEPT ![c].seance = IF usagers[c].existe THEN n + 1 ELSE 0]
  BY <1>2, <1>3, <1>4, <1>5 DEF Ouvrir
<1>7. /\ seances' \in Seq(Seance) /\ Len(seances') = n + 1 /\ seances'[n + 1] = z
      /\ \A t \in 1 .. n : seances'[t] = seances[t] /\ seances[t] \in Seance
  BY <1>1, <1>4, <1>6 DEF TypeAuth
<1>8. PICK v \in Usager : v = usagers[c] /\ Plein(v)
  BY <1>1, UsagerLu
<1>9. PICK k \in Nat : k = (IF v.existe THEN n + 1 ELSE 0) /\ k \in 0 .. n + 1
  BY <1>4
<1>10. PICK u : u = [v EXCEPT !.seance = k]
  OBVIOUS
<1>11. /\ u \in Usager /\ u.existe = v.existe /\ u.adresse = v.adresse /\ u.verifie = v.verifie
       /\ u.attente = v.attente /\ u.seance = k
  BY <1>8, <1>9, <1>10 DEF Usager
<1>12. Plein(u)
  <2>1. CASE v.existe
    BY <1>8, <1>11, <2>1 DEF Plein
  <2>2. CASE ~v.existe
    <3>1. v = SansUsager /\ v.seance = 0
      BY <1>8, <2>2 DEF Plein, SansUsager
    <3>2. u = v
      BY <1>8, <1>9, <1>10, <2>2, <3>1 DEF Usager
    <3>. QED BY <1>8, <3>2
  <2>. QED BY <2>1, <2>2
<1>13. usagers' = [usagers EXCEPT ![c] = u]
  BY <1>1, <1>6, <1>8, <1>9, <1>10 DEF TypeAuth
<1>14. /\ usagers' \in [Usagers -> Usager] /\ (\A e \in Usagers : Plein(usagers[e])')
       /\ (\A e \in Usagers : usagers'[e].seance \in 0 .. Len(seances'))
       /\ usagers'[c] = u /\ \A e \in Usagers \ {c} : usagers'[e] = usagers[e]
  <2>1. u.seance \in 0 .. Len(seances') /\ Len(seances) <= Len(seances') /\ Len(seances') \in Nat
    BY <1>4, <1>7, <1>9, <1>11
  <2>. QED BY <1>1, <1>11, <1>12, <1>13, <2>1, UsagerEcrit
<1>15. /\ appels' \in [Appels -> Appel \cup {SansAppel}]
       /\ appels'[q] = SansAppel /\ (\A r \in Appels \ {q} : appels'[r] = appels[r])
       /\ chevauche' = chevauche
  BY <1>1, AppelEcrit DEF Poursuivre
<1>16. TypeAuth'
  <2>1. Len(seances') <= MaxSeances
    BY <1>4, <1>7
  <2>. QED BY <1>1, <1>7, <1>14, <1>15, <2>1 DEF TypeAuth
<1>17. \A e \in Usagers : usagers[e].seance # 0 =>
         /\ usagers[e].seance \in 1 .. n /\ seances[usagers[e].seance].compte = e
         /\ seances'[usagers[e].seance] = seances[usagers[e].seance]
  BY <1>1, <1>4, <1>7 DEF TypeAuth, ToujoursAuth
<1>18. \A l \in Liens : LienSuivi(l)'
  <2>. TAKE l \in Liens
  <2>1. LienSuivi(l) /\ (liens[l].etat \in {"valable", "expire"} => liens[l].compte \in Usagers)
    BY <1>1 DEF ToujoursAuth, TypeAuth, Lien, LienNeuf
  <2>2. \A e \in Usagers : usagers'[e].existe = usagers[e].existe
    BY <1>8, <1>11, <1>14
  <2>. QED BY <1>1, <2>1, <2>2 DEF LienSuivi
<1>19. u.seance # 0 => u.existe /\ u.seance = n + 1 /\ seances'[n + 1] = z /\ z.compte = c /\ z.aJour = TRUE
  BY <1>5, <1>7, <1>9, <1>11
<1>20. ToujoursAuth'
  <2>1. \A e \in Usagers : usagers'[e].seance # 0 => seances'[usagers'[e].seance].compte = e
    <3>. TAKE e \in Usagers
    <3>1. CASE e = c
      BY <1>14, <1>19, <3>1
    <3>2. CASE e # c
      BY <1>14, <1>17, <3>2
    <3>. QED BY <3>1, <3>2
  <2>2. \A t \in 1 .. MaxSeances : t > Len(seances') => echanges'[t] = 0
    BY <1>1, <1>4, <1>7 DEF ToujoursAuth
  <2>. QED BY <1>18, <2>1, <2>2 DEF ToujoursAuth
<1>21. ASSUME SequenceAuth PROVE EtatSur'
  <2>1. EtatSur /\ Fondee(d) /\ \A r \in Appels : r # q => appels[r] = SansAppel
    BY <1>1, <1>2, <1>21, AppelLu DEF SequenceAuth
  <2>2. \A e \in Usagers : CompteSur(e)'
    <3>. TAKE e \in Usagers
    <3>1. CompteSur(e)
      BY <2>1 DEF EtatSur
    <3>2. CASE e = c
      <4>1. u.seance # 0 => u.verifie
        BY <1>1, <1>2, <1>3, <1>8, <1>11, <1>19, <2>1 DEF Fondee
      <4>. QED BY <1>1, <1>8, <1>11, <1>14, <1>19, <3>1, <3>2, <4>1 DEF CompteSur
    <3>3. CASE e # c
      <4>1. usagers'[e] = usagers[e]
        BY <1>14, <3>3
      <4>. QED BY <1>1, <1>17, <3>1, <4>1 DEF CompteSur
    <3>. QED BY <3>2, <3>3
  <2>3. \A l \in Liens : LienSur(l)'
    <3>. SUFFICES ASSUME NEW l \in Liens, liens[l].etat = "valable" PROVE LienSur(l)'
      BY <1>1 DEF LienSur
    <3>1. liens'[l] = liens[l] /\ liens[l].compte \in Usagers /\ LienSur(l)
      BY <1>1, <2>1 DEF TypeAuth, Lien, LienNeuf, EtatSur
    <3>2. ~\E r \in Appels : Remplace(r, liens[l].type, liens[l].compte)
      BY <1>1, <2>1 DEF Remplace, SansAppel
    <3>3. BoiteSure(liens[l].type, liens[l].compte, liens[l].boite)
      BY <3>1, <3>2 DEF LienSur
    <3>4. \A e \in Usagers : /\ usagers'[e].verifie = usagers[e].verifie /\ usagers'[e].attente = usagers[e].attente
                             /\ usagers'[e].adresse = usagers[e].adresse
      BY <1>8, <1>11, <1>14
    <3>. QED BY <3>1, <3>3, <3>4 DEF LienSur, BoiteSure
  <2>4. \A t \in 1 .. Len(seances') : JetonSur(t)'
    <3>. TAKE t \in 1 .. Len(seances')
    <3>1. CASE t = n + 1
      <4>1. echanges[t] = 0
        BY <1>1, <1>4, <3>1 DEF ToujoursAuth
      <4>. QED BY <1>1, <4>1 DEF JetonSur
    <3>2. CASE t # n + 1
      <4>1. t \in 1 .. n
        BY <1>7, <3>2
      <4>2. JetonSur(t) /\ seances'[t] = seances[t] /\ seances[t] \in Seance
        BY <1>4, <1>7, <2>1, <4>1 DEF EtatSur
      <4>3. PICK e \in Usagers : e = seances[t].compte
        BY <4>2 DEF Seance
      <4>4. CASE e = c
        <5>1. usagers'[e].seance # t
          BY <1>9, <1>11, <1>14, <4>1, <4>4
        <5>. QED BY <1>1, <4>2, <4>3, <5>1 DEF JetonSur
      <4>5. CASE e # c
        <5>1. \A r \in Appels : appels[r].pc = "ouvrir" => appels[r].c = c
          BY <1>2, <1>3, <2>1 DEF SansAppel
        <5>. QED BY <1>1, <1>14, <4>2, <4>3, <4>5, <5>1 DEF JetonSur
      <4>. QED BY <4>4, <4>5
    <3>. QED BY <3>1, <3>2
  <2>. QED BY <2>2, <2>3, <2>4 DEF EtatSur
<1>. QED BY <1>1, <1>16, <1>20, <1>21, PoursuiteTient

------------------------------------------------------------------------------
(* Time passes while a request is served.                                  *)

\* What the requests know holds after a step that is none of theirs.
LEMMA AiguilleTient ==
  ASSUME IInvAuth, UNCHANGED <<appels, chevauche>>, TypeAuth', ToujoursAuth',
         SequenceAuth => EtatSur',
         ASSUME SequenceAuth, NEW q \in Appels, appels[q] # SansAppel, Fondee(appels[q])
         PROVE  Fondee(appels[q])'
  PROVE  IInvAuth'
<1>1. ASSUME SequenceAuth PROVE SequenceAuth'
  <2>1. \A q, r \in Appels : appels'[q] # SansAppel /\ appels'[r] # SansAppel => q = r
    BY <1>1 DEF SequenceAuth
  <2>2. \A q \in Appels : appels'[q] # SansAppel => Fondee(appels[q])'
    BY <1>1 DEF SequenceAuth
  <2>. QED BY <1>1, <2>1, <2>2 DEF SequenceAuth
<1>. QED BY <1>1 DEF IInvAuth

LEMMA ExpirerTient ==
  ASSUME IInvAuth, NEW l \in Liens, Expirer(l)
  PROVE  IInvAuth'
<1>1. TypeAuth /\ ToujoursAuth /\ liens[l].etat = "valable"
      /\ UNCHANGED <<usagers, seances, appels, chevauche, usages, echanges, preuves>>
      /\ liens' = [liens EXCEPT ![l].etat = "expire"]
  BY DEF IInvAuth, Expirer, HistoiresInchangees
<1>2. liens[l] \in Lien
  BY <1>1 DEF TypeAuth, LienNeuf
<1>3. PICK n : n = [liens[l] EXCEPT !.etat = "expire"]
  OBVIOUS
<1>4. n \in Lien /\ n.etat = "expire" /\ n.compte = liens[l].compte /\ n.boite = liens[l].boite
      /\ n.type = liens[l].type /\ n # LienNeuf
  BY <1>2, <1>3 DEF Lien, LienNeuf
<1>5. /\ liens' \in [Liens -> Lien \cup {LienNeuf}]
      /\ liens'[l] = n /\ \A m \in Liens \ {l} : liens'[m] = liens[m]
  BY <1>1, <1>3, <1>4 DEF TypeAuth
<1>6. \A m \in Liens : Ferme1(m)
  <2>. TAKE m \in Liens
  <2>1. CASE m = l
    BY <1>1, <1>4, <1>5, <2>1 DEF Ferme1
  <2>2. CASE m # l
    BY <1>1, <1>5, <2>2 DEF Ferme1
  <2>. QED BY <2>1, <2>2
<1>7. FermeLiens
  BY <1>1, <1>5, <1>6 DEF FermeLiens, TypeAuth
<1>8. TypeAuth' /\ ToujoursAuth' /\ (EtatSur => EtatSur')
  <2>1. \A q \in Appels, m \in Liens :
          liens'[m].etat = "valable" /\ Remplace(q, liens[m].type, liens[m].compte)
            => Remplace(q, liens[m].type, liens[m].compte)'
    BY <1>1, <1>4, <1>5 DEF Remplace
  <2>2. \A q \in Appels : appels[q].pc = "ouvrir" => appels'[q] = appels[q]
    BY <1>1
  <2>. QED BY <1>1, <1>7, <2>1, <2>2, FermeLiensTient
<1>9. ASSUME SequenceAuth, NEW q \in Appels, appels[q] # SansAppel, Fondee(appels[q])
      PROVE  Fondee(appels[q])'
  <2>1. appels[q].pc = "consommer" => appels[q].l \in Liens
    BY <1>1, AppelLu DEF PasDuLien, DuLien
  <2>2. \A m \in Liens : /\ liens'[m].compte = liens[m].compte /\ liens'[m].boite = liens[m].boite
                         /\ liens'[m].type = liens[m].type /\ (liens[m] # LienNeuf => liens'[m] # LienNeuf)
    BY <1>4, <1>5
  <2>3. PICK d : d = appels[q] /\ d = appels'[q]
    BY <1>1
  <2>4. Fondee(d)'
    BY <1>1, <1>9, <2>1, <2>2, <2>3 DEF Fondee, BoiteSure
  <2>. QED BY <2>3, <2>4 DEF Fondee, BoiteSure
<1>10. SequenceAuth => EtatSur'
  BY <1>8 DEF SequenceAuth
<1>. QED BY <1>1, <1>8, <1>9, <1>10, AiguilleTient

LEMMA VieillirTient ==
  ASSUME IInvAuth, NEW c \in Usagers, Vieillir(c)
  PROVE  IInvAuth'
<1>1. TypeAuth /\ ToujoursAuth /\ usagers[c].existe
      /\ UNCHANGED <<liens, seances, appels, chevauche, usages, echanges, preuves>>
      /\ usagers' = [usagers EXCEPT ![c].ancien = TRUE]
  BY DEF IInvAuth, Vieillir, LiensInchanges, HistoiresInchangees
<1>2. PICK v \in Usager : v = usagers[c] /\ v.adresse \in Adresses
  BY <1>1, UsagerLu
<1>3. PICK u : u = [v EXCEPT !.ancien = TRUE]
  OBVIOUS
<1>4. /\ u \in Usager /\ u.existe /\ u.adresse = v.adresse /\ u.verifie = v.verifie /\ u.attente = v.attente
      /\ u.seance = v.seance
  BY <1>1, <1>2, <1>3 DEF Usager
<1>5. usagers' = [usagers EXCEPT ![c] = u]
  BY <1>1, <1>2, <1>3
<1>6. Corrige1(c, u)
  BY <1>1, <1>2, <1>4, <1>5 DEF Corrige1
<1>7. Tenus
  BY <1>1 DEF Tenus, TypeAuth
<1>8. TypeAuth' /\ ToujoursAuth' /\ usagers'[c] = u /\ \A e \in Usagers \ {c} : usagers'[e] = usagers[e]
  BY <1>1, <1>4, <1>6, <1>7, CorrigeTient
<1>9. SequenceAuth => EtatSur'
  <2>. SUFFICES ASSUME SequenceAuth PROVE EtatSur'
    OBVIOUS
  <2>1. EtatSur /\ CompteSur(c)
    BY DEF SequenceAuth, EtatSur
  <2>2. u.verifie => <<c, u.adresse>> \in preuves
    BY <1>2, <1>4, <2>1 DEF CompteSur
  <2>. QED BY <1>1, <1>2, <1>4, <1>6, <1>7, <2>1, <2>2, CorrigeSur
<1>10. ASSUME SequenceAuth, NEW q \in Appels, appels[q] # SansAppel, Fondee(appels[q])
       PROVE  Fondee(appels[q])'
  <2>1. \A e \in Usagers : /\ usagers'[e].existe = usagers[e].existe /\ usagers'[e].verifie = usagers[e].verifie
                           /\ usagers'[e].attente = usagers[e].attente /\ usagers'[e].adresse = usagers[e].adresse
    BY <1>1, <1>2, <1>4, <1>8
  <2>2. PICK d : d = appels[q] /\ d = appels'[q]
    BY <1>1
  <2>3. d.pc \in PasDuLien \cup {"basculer", "invalider", "emettre", "ouvrir", "noter"} => d.c \in Usagers
    BY <1>1, <2>2, AppelLu DEF DuLien, DBascule, DEmission, DeSeance, DAttente
  <2>4. d.pc = "inscrire" => d.connus \subseteq Usagers
    BY <1>1, <2>2, AppelLu DEF DInscription
  <2>5. Fondee(d)'
    BY <1>1, <1>10, <2>1, <2>2, <2>3, <2>4 DEF Fondee, BoiteSure, PasDuLien
  <2>. QED BY <2>2, <2>5 DEF Fondee, BoiteSure
<1>. QED BY <1>1, <1>8, <1>9, <1>10, AiguilleTient

LEMMA PurgerTient ==
  ASSUME IInvAuth, Purger
  PROVE  IInvAuth'
<1>1. TypeAuth /\ ToujoursAuth /\ Effacer(Purgeables) /\ Purgeables \in SUBSET Usagers
      /\ UNCHANGED <<appels, chevauche>>
  BY DEF IInvAuth, Purger, Purgeables
<1>2. Tenus
  BY <1>1 DEF Tenus, TypeAuth
<1>3. /\ TypeAuth' /\ ToujoursAuth' /\ (EtatSur => EtatSur')
      /\ \A c \in Usagers : usagers'[c] = IF c \in Purgeables THEN SansUsager ELSE usagers[c]
      /\ \A l \in Liens : liens'[l] # liens[l] => liens[l].compte \in Purgeables
      /\ \A l \in Liens : liens[l] # LienNeuf => liens'[l] # LienNeuf
           /\ liens'[l].compte = liens[l].compte /\ liens'[l].etat \in {liens[l].etat, "efface"}
      /\ \A c \in Usagers \ Purgeables, a \in Adresses : <<c, a>> \in preuves => <<c, a>> \in preuves'
  BY <1>1, <1>2, EffacerTient
<1>4. SansUsager.existe = FALSE /\ SansUsager.verifie = FALSE
  BY DEF SansUsager
<1>5. ASSUME SequenceAuth, NEW q \in Appels, appels[q] # SansAppel, Fondee(appels[q])
      PROVE  Fondee(appels[q])'
  <2>1. PICK d : d = appels[q] /\ d = appels'[q]
    BY <1>1
  <2>2. CASE d.pc = "inscrire"
    <3>1. d.connus \subseteq Usagers
      BY <1>1, <2>1, <2>2, AppelLu DEF DInscription
    <3>. QED BY <1>3, <1>4, <1>5, <2>1, <2>2, <3>1 DEF Fondee
  <2>3. CASE d.pc \in PasDuLien \cup {"basculer", "invalider", "emettre", "ouvrir", "noter"}
    <3>1. PICK c \in Usagers : c = d.c
      BY <1>1, <2>1, <2>3, AppelLu DEF DuLien, DBascule, DEmission, DeSeance, DAttente
    <3>2. d.pc = "consommer" => d.l \in Liens
      BY <1>1, <2>1, AppelLu DEF PasDuLien, DuLien
    <3>3. d.pc = "consommer" => liens'[d.l] # LienNeuf /\ liens'[d.l].compte = c
      BY <1>3, <1>5, <2>1, <3>1, <3>2 DEF Fondee
    <3>4. CASE c \in Purgeables
      <4>1. usagers'[c].existe = FALSE /\ usagers'[c].verifie = FALSE
        BY <1>3, <1>4, <3>4
      <4>. QED BY <2>1, <2>3, <3>1, <3>3, <4>1 DEF Fondee, PasDuLien
    <3>5. CASE c \notin Purgeables
      <4>1. usagers'[c] = usagers[c]
        BY <1>3, <3>5
      <4>2. d.pc = "consommer" => liens'[d.l] = liens[d.l]
        BY <1>3, <1>5, <2>1, <3>1, <3>2, <3>5 DEF Fondee
      <4>3. usagers[c].existe => usagers[c].adresse \in Adresses
        BY <1>1, UsagerLu
      <4>4. d.pc \in {"comparer", "basculer"} => d.attente \in Adresses \cup {Aucune}
        BY <1>1, <2>1, AppelLu DEF PasDuLien, DuLien, DBascule
      <4>5. Fondee(d)'
        BY <1>3, <1>5, <2>1, <2>3, <3>1, <3>3, <3>5, <4>1, <4>2, <4>3, <4>4 DEF Fondee, BoiteSure, PasDuLien
      <4>. QED BY <2>1, <4>5 DEF Fondee, BoiteSure
    <3>. QED BY <3>4, <3>5
  <2>4. CASE d.pc \notin PasDuLien \cup {"basculer", "invalider", "emettre", "ouvrir", "noter", "inscrire"}
    BY <2>1, <2>4 DEF Fondee, PasDuLien
  <2>. QED BY <2>2, <2>3, <2>4
<1>6. SequenceAuth => EtatSur'
  BY <1>3 DEF SequenceAuth
<1>. QED BY <1>1, <1>3, <1>5, <1>6, AiguilleTient

------------------------------------------------------------------------------
(* The invariant, and what it says of links, sessions and tokens.          *)

LEMMA PasAuthTient ==
  ASSUME IInvAuth, [NextAuth]_varsAuth
  PROVE  IInvAuth'
<1>1. CASE UNCHANGED varsAuth
  BY <1>1 DEF varsAuth, IInvAuth, TypeAuth, ToujoursAuth, LienSuivi, SequenceAuth, EtatSur, CompteSur,
              LienSur, JetonSur, Fondee, BoiteSure, Remplace
<1>2. CASE NextAuth
  <2>1. ASSUME NEW q \in Appels, NEW a \in Adresses, Inscrire(q, a) \/ Inviter(q, a) PROVE IInvAuth'
    BY <2>1, DebutsTiennent
  <2>2. ASSUME NEW q \in Appels, NEW c \in Usagers,
               \/ RenvoyerVerification(q, c) \/ Connecter(q, c)
               \/ DemanderReinitialisation(q, c) \/ Reinviter(q, c)
               \/ \E a \in Adresses : DemanderChangementEmail(q, c, a)
        PROVE  IInvAuth'
    BY <2>2, DebutsTiennent
  <2>3. ASSUME NEW q \in Appels, NEW c \in Usagers,
               Deconnecter(q, c) \/ ChangerMotDePasse(q, c) \/ Desactiver(q, c) \/ Nommer(q, c)
        PROVE  IInvAuth'
    BY <2>3, GestesTiennent
  <2>4. ASSUME NEW q \in Appels, NEW c \in Usagers, SupprimerPartenaire(q, c) PROVE IInvAuth'
    BY <2>4, SupprimerPartenaireTient
  <2>5. ASSUME NEW q \in Appels, NEW l \in Liens, Suivre(q, l) PROVE IInvAuth'
    BY <2>5, SuivreTient
  <2>6. ASSUME NEW q \in Appels, NEW t \in DOMAIN seances, Rafraichir(q, t) PROVE IInvAuth'
    BY <2>6, RafraichirTient
  <2>7. ASSUME NEW q \in Appels, Invalider(q) \/ Emettre(q) \/ Consommer(q) PROVE IInvAuth'
    BY <2>7, InvaliderTient, EmettreTient, ConsommerTient
  <2>8. ASSUME NEW q \in Appels, EnregistrerInscription(q) \/ InvaliderVerifications(q) \/ ActiverCompte(q)
        PROVE  IInvAuth'
    BY <2>8, EnregistrerTient, InvaliderVerificationsTient, ActiverTient
  <2>9. ASSUME NEW q \in Appels, Ouvrir(q) \/ Revoquer(q) \/ DefinirMotDePasse(q) PROVE IInvAuth'
    BY <2>9, OuvrirTient, RevoquerTient, DefinirTient
  <2>10. ASSUME NEW q \in Appels,
                NoterAttente(q) \/ ComparerAdresse(q) \/ BasculerAdresse(q) \/ CreerPartenaire(q)
         PROVE  IInvAuth'
    BY <2>10, NoterTient, ComparerTient, BasculerTient, CreerPartenaireTient
  <2>11. CASE (\E l \in Liens : Expirer(l)) \/ (\E c \in Usagers : Vieillir(c)) \/ Purger
    BY <2>11, ExpirerTient, VieillirTient, PurgerTient
  <2>. QED BY <1>2, <2>1, <2>2, <2>3, <2>4, <2>5, <2>6, <2>7, <2>8, <2>9, <2>10, <2>11 DEF NextAuth
<1>. QED BY <1>1, <1>2

\* Whatever the requests, a link that was used stays so and a usable one is of
\* somebody; one request at a time, links, sessions and tokens are those of the
\* present credentials (JetonService, AuthService).
THEOREM InvariantAuth == SpecAuth => []IInvAuth
<1>1. InitAuth => IInvAuth
  BY InitAuthTient
<1>2. IInvAuth /\ [NextAuth]_varsAuth => IInvAuth'
  BY PasAuthTient
<1>. QED BY <1>1, <1>2, PTL DEF SpecAuth

\* A link works once however often it is followed at the same time; and one
\* request at a time, a verified account proved its address, its session was
\* opened with its present credentials, and a refresh token gives one other.
THEOREM JetonsToujoursJustes == SpecAuth => []JetonsJustes
<1>1. IInvAuth => JetonsJustes
  <2>. SUFFICES ASSUME IInvAuth PROVE JetonsJustes
    OBVIOUS
  <2>1. TypeAuth /\ ToujoursAuth
    BY DEF IInvAuth
  <2>2. LienUneFois
    <3>. SUFFICES ASSUME NEW l \in Liens PROVE usages[l] <= 1
      BY DEF LienUneFois
    <3>1. LienSuivi(l)
      BY <2>1 DEF ToujoursAuth
    <3>. QED BY <3>1 DEF LienSuivi
  <2>3. AdresseProuvee /\ SeanceAJour
    BY DEF IInvAuth, SequenceAuth, EtatSur, CompteSur, AdresseProuvee, SeanceAJour
  <2>4. RafraichiUneFois
    <3>. SUFFICES ASSUME ~chevauche, NEW t \in 1 .. MaxSeances PROVE echanges[t] <= 1
      BY DEF RafraichiUneFois
    <3>1. Len(seances) \in Nat /\ MaxSeances \in Nat
      BY <2>1, AuthAssumption DEF TypeAuth
    <3>2. CASE t > Len(seances)
      BY <2>1, <3>2 DEF ToujoursAuth
    <3>3. CASE ~(t > Len(seances))
      <4>1. t \in 1 .. Len(seances)
        BY <3>1, <3>3
      <4>2. JetonSur(t)
        BY <4>1 DEF IInvAuth, SequenceAuth, EtatSur
      <4>. QED BY <4>2 DEF JetonSur
    <3>. QED BY <3>2, <3>3
  <2>. QED BY <2>2, <2>3, <2>4 DEF JetonsJustes
<1>. QED BY <1>1, InvariantAuth, PTL

------------------------------------------------------------------------------
(* Mandats: what the tables and the requests hold.                         *)

Compte == [role : Roles, promotion : Promotions, finissant : BOOLEAN,
           actif : BOOLEAN, campus : Promotions, existe : BOOLEAN]
Mandat == [existe : BOOLEAN, annee : Promotions, active : BOOLEAN, archive : BOOLEAN]

\* The requests, by the step they are at.
DMembre == [pc : {"enregistrer", "supprimer", "ajuster"}, g : Mandats, p : Postes, u : Personnes,
            active : BOOLEAN]
DComptage == [pc : {"compter"}, g : Mandats, u : Personnes, role : Roles, promotion : Promotions]
DPromotion == [pc : {"promouvoir"}, u : Personnes, role : Roles]
DEntrants == [pc : {"entrants"}, g : Mandats, annee : Promotions]
DPassation == [pc : {"basculer"}, g : Mandats, annee : Promotions, entrants : SUBSET Personnes]
DMandat == [pc : {"archiver", "effacer"}, g : Mandats]
DCorrection == [pc : {"corriger"}, u : Personnes, c : Corrections, avant : Compte,
                promotion : Promotions, annee : Promotions]

Demande == DMembre \cup DComptage \cup DPromotion \cup DEntrants \cup DPassation \cup DMandat \cup DCorrection

TypeMandats ==
  /\ comptes \in [Personnes -> Compte]
  /\ mandats \in [Mandats -> Mandat]
  /\ postes \in [Postes -> Fonctions \cup {SansPoste}]
  /\ places \subseteq Mandats \X Postes \X Personnes
  /\ demandes \in [Demandes -> Demande \cup {Libre}]
  /\ retouches \subseteq Personnes /\ marques \subseteq Personnes

\* Mandates have a year of their own, one at most is under way; who holds a post
\* holds it of a mandate, and is of its year unless somebody changed one or the other.
MandatsTenus ==
  /\ \A g \in Mandats : /\ mandats[g].existe => mandats[g].annee # 0
                        /\ mandats[g].active => mandats[g].existe /\ ~mandats[g].archive
  /\ \A g, h \in Mandats : mandats[g].active /\ mandats[h].active => g = h
  /\ \A g, h \in Mandats :
       mandats[g].existe /\ mandats[h].existe /\ mandats[g].annee = mandats[h].annee => g = h

MembreDeLAnnee(g, u) ==
  /\ comptes[u].existe /\ mandats[g].existe
  /\ u \notin retouches => comptes[u].promotion = mandats[g].annee

PlacesTenues ==
  \A g \in Mandats, p \in Postes, u \in Personnes :
    <<g, p, u>> \in places => postes[p].existe /\ MembreDeLAnnee(g, u)

ComptesTenus ==
  \A u \in Personnes :
    /\ ~comptes[u].existe => comptes[u].promotion = 0 /\ ~comptes[u].finissant
    /\ u \notin retouches /\ comptes[u].promotion # 0 => comptes[u].role \in {"STUDENT", "ADMIN"}
    /\ u \notin marques =>
         (comptes[u].finissant <=> comptes[u].promotion # 0 /\ comptes[u].promotion = AnneeActive)

\* Holds a post of the mandate under way that gives the role.
Titulaire(u) == \E p \in PostesDe(u) : postes[p].admin
Suivi(u) == u \notin retouches /\ comptes[u].promotion # 0

\* The request that changed somebody's posts has yet to look at their role.
EnAjustement(d, u) ==
  \/ d.pc = "ajuster" /\ d.u = u /\ d.active
  \/ d.pc \in {"compter", "promouvoir"} /\ d.u = u

Bon(u) == Suivi(u) => (comptes[u].role = "ADMIN" <=> Titulaire(u))

RolesSuivis ==
  \A u \in Personnes : Bon(u) \/ \E q \in Demandes : EnAjustement(demandes[q], u)

\* What a request knows, alone, between its statements.
Exacte(d) ==
  /\ d.pc = "enregistrer" => postes[d.p].existe /\ MembreDeLAnnee(d.g, d.u)
                              /\ comptes[d.u].promotion = mandats[d.g].annee
  /\ d.pc \in {"enregistrer", "supprimer", "ajuster"} =>
       d.active = mandats[d.g].active /\ comptes[d.u].existe
  /\ d.pc = "compter" =>
       /\ mandats[d.g].active /\ comptes[d.u].existe
       /\ d.role = comptes[d.u].role /\ d.promotion = comptes[d.u].promotion
  /\ d.pc = "promouvoir" =>
       /\ comptes[d.u].existe
       /\ Suivi(d.u) => d.role = IF Titulaire(d.u) THEN "ADMIN" ELSE "STUDENT"
  /\ d.pc \in {"entrants", "basculer"} =>
       /\ mandats[d.g].existe /\ ~mandats[d.g].archive /\ ~mandats[d.g].active
       /\ d.annee = mandats[d.g].annee
  /\ d.pc = "basculer" =>
       d.entrants = {u \in Personnes : \E p \in Postes : <<d.g, p, u>> \in places /\ postes[p].admin}
  /\ d.pc \in {"archiver", "effacer"} => mandats[d.g].existe /\ ~mandats[d.g].active
  /\ d.pc = "corriger" =>
       /\ comptes[d.u].existe /\ d.avant = comptes[d.u] /\ d.annee = AnneeActive
       /\ DevientEtudiant(d.u, d.c) => d.promotion # 0
       /\ \E e \in Personnes :
            /\ Administre(e)
            /\ e = d.u => d.c.role \in RolesAdministrateurs \cup {""} /\ d.c.actif # "non"

IInvMandats ==
  /\ TypeMandats
  /\ MandatsTenus /\ PlacesTenues /\ ComptesTenus /\ RolesSuivis
  /\ \A q \in Demandes : demandes[q] # Libre => Exacte(demandes[q])
------------------------------------------------------------------------------
(* Mandats: rows, requests and the year under way.                         *)

LEMMA DemandeLue ==
  ASSUME TypeMandats, NEW q \in Demandes
  PROVE  /\ demandes[q].pc \in {"enregistrer", "supprimer", "ajuster"} => demandes[q] \in DMembre
         /\ demandes[q].pc = "compter" => demandes[q] \in DComptage
         /\ demandes[q].pc = "promouvoir" => demandes[q] \in DPromotion
         /\ demandes[q].pc = "entrants" => demandes[q] \in DEntrants
         /\ demandes[q].pc = "basculer" => demandes[q] \in DPassation
         /\ demandes[q].pc \in {"archiver", "effacer"} => demandes[q] \in DMandat
         /\ demandes[q].pc = "corriger" => demandes[q] \in DCorrection
         /\ demandes[q].pc # "libre" => demandes[q] # Libre
<1>1. demandes[q] \in DMembre \/ demandes[q] \in DComptage \/ demandes[q] \in DPromotion
        \/ demandes[q] \in DEntrants \/ demandes[q] \in DPassation \/ demandes[q] \in DMandat
        \/ demandes[q] \in DCorrection \/ demandes[q] = Libre
  BY DEF TypeMandats, Demande
<1>2. Libre.pc = "libre"
  BY DEF Libre
<1>. QED BY <1>1, <1>2 DEF DMembre, DComptage, DPromotion, DEntrants, DPassation, DMandat, DCorrection

LEMMA FonctionLue ==
  ASSUME NEW f \in Fonctions
  PROVE  f.existe = TRUE /\ f.admin \in BOOLEAN
<1>1. PICK h \in FonctionsPossibles : f = [existe |-> TRUE, admin |-> h.admin, acces |-> h.acces, cle |-> h.cle]
  BY DEF Fonctions
<1>2. h.admin \in BOOLEAN
  BY <1>1, MandatsAssumption
<1>. QED BY <1>1, <1>2

LEMMA CorrectionLue ==
  ASSUME NEW c \in Corrections
  PROVE  /\ c.role \in Roles \cup {""} /\ c.promotion \in Promotions
         /\ c.actif \in {"", "oui", "non"} /\ c.finissant \in {"", "oui", "non"}
<1>1. \/ \E r \in RolesAttribuables : c = [Correction EXCEPT !.role = r]
      \/ \E a \in Annees : c = [Correction EXCEPT !.promotion = a]
      \/ \E a \in Annees : c = [Correction EXCEPT !.role = "STUDENT", !.promotion = a]
      \/ \E b \in {"oui", "non"} : c = [Correction EXCEPT !.actif = b]
      \/ \E b \in {"oui", "non"} : c = [Correction EXCEPT !.finissant = b]
  BY DEF Corrections
<1>. QED BY <1>1 DEF Correction, Promotions, Roles, RolesAttribuables

\* The year under way is that of the mandate under way.
LEMMA AnneeLue ==
  ASSUME MandatsTenus
  PROVE  /\ \A g \in Mandats : mandats[g].active => AnneeActive = mandats[g].annee
         /\ (\A g \in Mandats : ~mandats[g].active) => AnneeActive = 0
<1>1. ASSUME NEW g \in Mandats, mandats[g].active PROVE AnneeActive = mandats[g].annee
  <2>1. PICK h : h = CHOOSE k \in Mandats : mandats[k].active
    OBVIOUS
  <2>2. h \in Mandats /\ mandats[h].active
    BY <1>1, <2>1
  <2>3. h = g
    BY <1>1, <2>2 DEF MandatsTenus
  <2>. QED BY <1>1, <2>1, <2>3 DEF AnneeActive
<1>2. (\A g \in Mandats : ~mandats[g].active) => AnneeActive = 0
  BY DEF AnneeActive
<1>. QED BY <1>1, <1>2

LEMMA AnneeLueApres ==
  ASSUME MandatsTenus'
  PROVE  /\ \A g \in Mandats : mandats'[g].active => AnneeActive' = mandats'[g].annee
         /\ (\A g \in Mandats : ~mandats'[g].active) => AnneeActive' = 0
<1>1. ASSUME NEW g \in Mandats, mandats'[g].active PROVE AnneeActive' = mandats'[g].annee
  <2>1. PICK h : h = CHOOSE k \in Mandats : mandats'[k].active
    OBVIOUS
  <2>2. h \in Mandats /\ mandats'[h].active
    BY <1>1, <2>1
  <2>3. h = g
    BY <1>1, <2>2 DEF MandatsTenus
  <2>. QED BY <1>1, <2>1, <2>3 DEF AnneeActive
<1>2. (\A g \in Mandats : ~mandats'[g].active) => AnneeActive' = 0
  BY DEF AnneeActive
<1>. QED BY <1>1, <1>2

LEMMA AnneeGardee ==
  ASSUME MandatsTenus, MandatsTenus',
         \A g \in Mandats : /\ mandats'[g].active <=> mandats[g].active
                            /\ mandats[g].active => mandats'[g].annee = mandats[g].annee
  PROVE  AnneeActive' = AnneeActive
<1>1. CASE \E g \in Mandats : mandats[g].active
  BY <1>1, AnneeLue, AnneeLueApres
<1>2. CASE \A g \in Mandats : ~mandats[g].active
  BY <1>2, AnneeLue, AnneeLueApres
<1>. QED BY <1>1, <1>2

\* A step of the only request there is.
LEMMA MandatsApres ==
  ASSUME NEW q \in Demandes, Demandes = {q}, NEW a \in Demande \cup {Libre},
         TypeMandats, demandes' = [demandes EXCEPT ![q] = a],
         comptes' \in [Personnes -> Compte], mandats' \in [Mandats -> Mandat],
         postes' \in [Postes -> Fonctions \cup {SansPoste}],
         places' \subseteq Mandats \X Postes \X Personnes,
         retouches' \subseteq Personnes, marques' \subseteq Personnes,
         MandatsTenus', PlacesTenues', ComptesTenus',
         \A u \in Personnes : Bon(u)' \/ EnAjustement(a, u),
         a # Libre => Exacte(a)'
  PROVE  IInvMandats'
<1>1. demandes' \in [Demandes -> Demande \cup {Libre}] /\ demandes'[q] = a
  BY DEF TypeMandats
<1>2. TypeMandats'
  BY <1>1 DEF TypeMandats
<1>3. RolesSuivis'
  <2>. SUFFICES ASSUME NEW u \in Personnes
                PROVE  Bon(u)' \/ \E r \in Demandes : EnAjustement(demandes[r], u)'
    BY DEF RolesSuivis
  <2>1. EnAjustement(a, u) => EnAjustement(demandes[q], u)'
    BY <1>1 DEF EnAjustement
  <2>. QED BY <2>1
<1>4. ASSUME NEW r \in Demandes, demandes'[r] # Libre PROVE Exacte(demandes[r])'
  <2>1. demandes'[r] = a /\ Exacte(a)'
    BY <1>1, <1>4
  <2>. QED BY <2>1 DEF Exacte
<1>. QED BY <1>2, <1>3, <1>4 DEF IInvMandats

\* Between two requests, and in those that are not about somebody's role, roles
\* follow posts.
LEMMA RolesAuCalme ==
  ASSUME IInvMandats, NEW q \in Demandes, Demandes = {q},
         demandes[q].pc \notin {"ajuster", "compter", "promouvoir"}
  PROVE  \A u \in Personnes : Bon(u)
BY DEF IInvMandats, RolesSuivis, EnAjustement

\* A request that reads only.
LEMMA LectureTient ==
  ASSUME IInvMandats, NEW q \in Demandes, Demandes = {q}, NEW a \in Demande \cup {Libre},
         demandes' = [demandes EXCEPT ![q] = a],
         UNCHANGED <<comptes, mandats, postes, places, retouches, marques>>,
         \A u \in Personnes : Bon(u) \/ EnAjustement(a, u),
         a # Libre => Exacte(a)
  PROVE  IInvMandats'
<1>1. TypeMandats /\ MandatsTenus /\ PlacesTenues /\ ComptesTenus
  BY DEF IInvMandats
<1>2. MandatsTenus' /\ PlacesTenues'
  BY <1>1 DEF MandatsTenus, PlacesTenues, MembreDeLAnnee
<1>3. AnneeActive' = AnneeActive
  BY <1>1, <1>2, AnneeGardee
<1>4. ComptesTenus'
  BY <1>1, <1>3 DEF ComptesTenus
<1>5. \A u \in Personnes : (Bon(u)' <=> Bon(u)) /\ (Titulaire(u)' <=> Titulaire(u)) /\ (Suivi(u)' <=> Suivi(u))
  BY DEF Bon, Titulaire, Suivi, PostesDe
<1>6. ASSUME a # Libre PROVE Exacte(a)'
  <2>1. CASE a.pc \in {"promouvoir"}
    <3>1. a \in DPromotion
      BY <1>6, <2>1 DEF Demande, DMembre, DComptage, DPromotion, DEntrants, DPassation, DMandat, DCorrection
    <3>2. a.u \in Personnes
      BY <3>1 DEF DPromotion
    <3>. QED BY <1>5, <1>6, <2>1, <3>2 DEF Exacte
  <2>2. CASE a.pc # "promouvoir"
    BY <1>3, <1>6, <2>2 DEF Exacte, MembreDeLAnnee, Administre, DevientEtudiant, RoleFinal
  <2>. QED BY <2>1, <2>2
<1>. QED BY <1>1, <1>2, <1>4, <1>5, <1>6, MandatsApres DEF TypeMandats

LEMMA AnneeTypee ==
  ASSUME TypeMandats, MandatsTenus
  PROVE  AnneeActive \in Promotions
<1>1. CASE \E g \in Mandats : mandats[g].active
  <2>1. PICK g \in Mandats : mandats[g].active
    BY <1>1
  <2>2. mandats[g].annee \in Promotions
    BY DEF TypeMandats, Mandat
  <2>. QED BY <2>1, <2>2, AnneeLue
<1>2. CASE \A g \in Mandats : ~mandats[g].active
  BY <1>2, AnneeLue DEF Promotions
<1>. QED BY <1>1, <1>2

------------------------------------------------------------------------------
(* Requests that have written nothing yet.                                 *)

LEMMA DebutDemandeTient ==
  ASSUME IInvMandats, NEW q \in Demandes, Demandes = {q}, NEW a \in Demande, Demarrer(q, a),
         BureauInchange, ComptesInchanges, Exacte(a)
  PROVE  IInvMandats'
<1>1. demandes[q] = Libre /\ demandes' = [demandes EXCEPT ![q] = a]
  BY DEF Demarrer, Disponible
<1>2. \A u \in Personnes : Bon(u)
  BY <1>1, RolesAuCalme DEF Libre
<1>. QED BY <1>1, <1>2, LectureTient DEF BureauInchange, ComptesInchanges

LEMMA DebutMembreTient ==
  ASSUME IInvMandats, NEW q \in Demandes, Demandes = {q}, NEW d \in Personnes,
         NEW g \in Mandats, NEW p \in Postes, NEW u \in Personnes,
         Affecter(q, d, g, p, u) \/ Retirer(q, d, g, p, u)
  PROVE  IInvMandats'
<1>1. TypeMandats /\ PlacesTenues
  BY DEF IInvMandats
<1>2. PICK b \in BOOLEAN : b = mandats[g].active
  BY <1>1 DEF TypeMandats, Mandat
<1>3. CASE Affecter(q, d, g, p, u)
  <2>1. PICK a : a = [pc |-> "enregistrer", g |-> g, p |-> p, u |-> u, active |-> b]
    OBVIOUS
  <2>2. a \in DMembre /\ a.pc = "enregistrer" /\ a.g = g /\ a.p = p /\ a.u = u /\ a.active = b
    BY <1>2, <2>1 DEF DMembre
  <2>3. Demarrer(q, a) /\ BureauInchange /\ ComptesInchanges
    BY <1>2, <1>3, <2>1 DEF Affecter
  <2>4. Exacte(a)
    BY <1>2, <1>3, <2>2 DEF Affecter, Exacte, MembreDeLAnnee
  <2>. QED BY <2>2, <2>3, <2>4, DebutDemandeTient DEF Demande
<1>4. CASE Retirer(q, d, g, p, u)
  <2>1. PICK a : a = [pc |-> "supprimer", g |-> g, p |-> p, u |-> u, active |-> b]
    OBVIOUS
  <2>2. a \in DMembre /\ a.pc = "supprimer" /\ a.g = g /\ a.p = p /\ a.u = u /\ a.active = b
    BY <1>2, <2>1 DEF DMembre
  <2>3. Demarrer(q, a) /\ BureauInchange /\ ComptesInchanges
    BY <1>2, <1>4, <2>1 DEF Retirer
  <2>4. comptes[u].existe
    BY <1>1, <1>4 DEF Retirer, PlacesTenues, MembreDeLAnnee
  <2>5. Exacte(a)
    BY <1>2, <2>2, <2>4 DEF Exacte
  <2>. QED BY <2>2, <2>3, <2>5, DebutDemandeTient DEF Demande
<1>. QED BY <1>3, <1>4

LEMMA DebutMandatTient ==
  ASSUME IInvMandats, NEW q \in Demandes, Demandes = {q}, NEW d \in Personnes, NEW g \in Mandats,
         Activer(q, d, g) \/ Archiver(q, d, g) \/ SupprimerMandat(q, d, g)
  PROVE  IInvMandats'
<1>1. CASE Activer(q, d, g)
  <2>1. PICK n \in Promotions : n = mandats[g].annee
    BY DEF IInvMandats, TypeMandats, Mandat
  <2>2. PICK a : a = [pc |-> "entrants", g |-> g, annee |-> n]
    OBVIOUS
  <2>3. a \in DEntrants /\ a.pc = "entrants" /\ a.g = g /\ a.annee = n
    BY <2>1, <2>2 DEF DEntrants
  <2>4. Demarrer(q, a) /\ BureauInchange /\ ComptesInchanges
    BY <1>1, <2>1, <2>2 DEF Activer
  <2>5. Exacte(a)
    BY <1>1, <2>1, <2>3 DEF Activer, Exacte
  <2>. QED BY <2>3, <2>4, <2>5, DebutDemandeTient DEF Demande
<1>2. CASE Archiver(q, d, g) \/ SupprimerMandat(q, d, g)
  <2>1. PICK k \in {"archiver", "effacer"} :
          Demarrer(q, [pc |-> k, g |-> g]) /\ BureauInchange /\ ComptesInchanges
          /\ mandats[g].existe /\ ~mandats[g].active
    BY <1>2 DEF Archiver, SupprimerMandat, Archivable
  <2>2. PICK a : a = [pc |-> k, g |-> g]
    OBVIOUS
  <2>3. a \in DMandat /\ a.pc = k /\ a.g = g
    BY <2>1, <2>2 DEF DMandat
  <2>4. Exacte(a)
    BY <2>1, <2>3 DEF Exacte
  <2>. QED BY <2>1, <2>2, <2>3, <2>4, DebutDemandeTient DEF Demande
<1>. QED BY <1>1, <1>2

LEMMA AdministrerTient ==
  ASSUME IInvMandats, NEW q \in Demandes, Demandes = {q}, NEW d \in Personnes, NEW u \in Personnes,
         NEW c \in Corrections, administrer(q, d, u, c)
  PROVE  IInvMandats'
<1>1. TypeMandats /\ MandatsTenus
  BY DEF IInvMandats
<1>2. PICK v \in Compte, n \in Promotions, x \in Promotions :
        v = comptes[u] /\ n = PromotionRetenue(u, c) /\ x = AnneeActive
  <2>1. comptes[u] \in Compte
    BY <1>1 DEF TypeMandats
  <2>2. PromotionRetenue(u, c) \in Promotions
    BY <2>1, CorrectionLue DEF PromotionRetenue, Compte
  <2>. QED BY <1>1, <2>1, <2>2, AnneeTypee
<1>3. PICK a : a = [pc |-> "corriger", u |-> u, c |-> c, avant |-> v, promotion |-> n, annee |-> x]
  OBVIOUS
<1>4. a \in DCorrection /\ a.pc = "corriger" /\ a.u = u /\ a.c = c /\ a.avant = v /\ a.promotion = n
      /\ a.annee = x
  BY <1>2, <1>3 DEF DCorrection
<1>5. Demarrer(q, a) /\ BureauInchange /\ ComptesInchanges
  BY <1>2, <1>3 DEF administrer
<1>6. /\ comptes[u].existe /\ Administre(d) /\ (DevientEtudiant(u, c) => n # 0)
      /\ d = u => c.role \in RolesAdministrateurs \cup {""} /\ c.actif # "non"
  BY <1>2 DEF administrer, AutoriseSurSoi
<1>7. Exacte(a)
  BY <1>2, <1>4, <1>6 DEF Exacte
<1>. QED BY <1>4, <1>5, <1>7, DebutDemandeTient DEF Demande

------------------------------------------------------------------------------
(* The role of whose posts changed is looked at again.                     *)

LEMMA LireRoleTient ==
  ASSUME IInvMandats, NEW q \in Demandes, Demandes = {q}, LireRole(q)
  PROVE  IInvMandats'
<1>1. TypeMandats /\ RolesSuivis /\ demandes[q].pc = "ajuster" /\ BureauInchange /\ ComptesInchanges
  BY DEF IInvMandats, LireRole
<1>2. PICK d \in DMembre : d = demandes[q] /\ d.pc = "ajuster"
  BY <1>1, DemandeLue
<1>3. PICK g \in Mandats, u \in Personnes : g = d.g /\ u = d.u
  BY <1>2 DEF DMembre
<1>4. Exacte(d)
  BY <1>1, <1>2, DemandeLue DEF IInvMandats
<1>5. CASE ~(d.active /\ comptes[u].existe)
  <2>1. demandes' = [demandes EXCEPT ![q] = Libre]
    BY <1>2, <1>3, <1>5 DEF LireRole, Rendre
  <2>2. ~d.active
    BY <1>2, <1>3, <1>4, <1>5 DEF Exacte
  <2>3. \A v \in Personnes : Bon(v)
    BY <1>1, <1>2, <2>2 DEF RolesSuivis, EnAjustement
  <2>. QED BY <1>1, <2>1, <2>3, LectureTient DEF BureauInchange, ComptesInchanges
<1>6. CASE d.active /\ comptes[u].existe
  <2>1. PICK v \in Compte : v = comptes[u]
    BY <1>1 DEF TypeMandats
  <2>2. PICK a : a = [pc |-> "compter", g |-> g, u |-> u, role |-> v.role, promotion |-> v.promotion]
    OBVIOUS
  <2>3. a \in DComptage /\ a.pc = "compter" /\ a.g = g /\ a.u = u /\ a.role = v.role /\ a.promotion = v.promotion
    BY <1>3, <2>1, <2>2 DEF DComptage, Compte
  <2>4. demandes' = [demandes EXCEPT ![q] = a]
    BY <1>2, <1>3, <1>6, <2>1, <2>2 DEF LireRole
  <2>5. \A w \in Personnes : Bon(w) \/ EnAjustement(a, w)
    BY <1>1, <1>2, <1>3, <2>3 DEF RolesSuivis, EnAjustement
  <2>6. mandats[g].active
    BY <1>2, <1>3, <1>4, <1>6 DEF Exacte
  <2>7. Exacte(a)
    BY <1>6, <2>1, <2>3, <2>6 DEF Exacte
  <2>. QED BY <1>1, <2>3, <2>4, <2>5, <2>7, LectureTient DEF Demande, BureauInchange, ComptesInchanges
<1>. QED BY <1>5, <1>6

LEMMA CompterTient ==
  ASSUME IInvMandats, NEW q \in Demandes, Demandes = {q}, CompterPostes(q)
  PROVE  IInvMandats'
<1>1. TypeMandats /\ RolesSuivis /\ ComptesTenus /\ MandatsTenus /\ demandes[q].pc = "compter"
      /\ BureauInchange /\ ComptesInchanges
  BY DEF IInvMandats, CompterPostes
<1>2. PICK d \in DComptage : d = demandes[q] /\ d.pc = "compter"
  BY <1>1, DemandeLue
<1>3. PICK g \in Mandats, u \in Personnes : g = d.g /\ u = d.u
  BY <1>2 DEF DComptage
<1>4. Exacte(d)
  BY <1>1, <1>2, DemandeLue DEF IInvMandats
<1>5. /\ mandats[g].active /\ comptes[u].existe /\ d.role = comptes[u].role
      /\ d.promotion = comptes[u].promotion
  BY <1>2, <1>3, <1>4 DEF Exacte
<1>6. Titulaire(u) <=> {p \in Postes : <<g, p, u>> \in places /\ postes[p].admin} # {}
  <2>1. \A h \in Mandats : mandats[h].active <=> h = g
    BY <1>1, <1>5 DEF MandatsTenus
  <2>2. Titulaire(u) <=> \E p \in Postes : <<g, p, u>> \in places /\ postes[p].admin
    BY <2>1 DEF Titulaire, PostesDe
  <2>. QED BY <2>2
<1>7. Suivi(u) => /\ d.role \in {"STUDENT", "ADMIN"} /\ d.promotion # 0
                  /\ RoleAjuste(d) = IF Titulaire(u) THEN "ADMIN" ELSE "STUDENT"
  <2>. SUFFICES ASSUME Suivi(u)
                PROVE  /\ d.role \in {"STUDENT", "ADMIN"} /\ d.promotion # 0
                       /\ RoleAjuste(d) = IF Titulaire(u) THEN "ADMIN" ELSE "STUDENT"
    OBVIOUS
  <2>1. d.role \in {"STUDENT", "ADMIN"} /\ d.promotion # 0
    BY <1>1, <1>5 DEF Suivi, ComptesTenus
  <2>2. PICK T : T = {p \in Postes : <<g, p, u>> \in places /\ postes[p].admin}
    OBVIOUS
  <2>3. RoleAjuste(d) = IF T # {} /\ d.role = "STUDENT" THEN "ADMIN"
                        ELSE IF T = {} /\ d.role = "ADMIN" /\ d.promotion # 0 THEN "STUDENT"
                        ELSE d.role
    BY <1>3, <2>2 DEF RoleAjuste
  <2>4. Titulaire(u) <=> T # {}
    BY <1>6, <2>2
  <2>. QED BY <2>1, <2>3, <2>4
<1>8. CASE RoleAjuste(d) = d.role
  <2>1. demandes' = [demandes EXCEPT ![q] = Libre]
    BY <1>2, <1>8 DEF CompterPostes, Rendre
  <2>2. \A w \in Personnes : Bon(w)
    <3>. TAKE w \in Personnes
    <3>1. CASE w = u
      BY <1>5, <1>7, <1>8, <3>1 DEF Bon
    <3>2. CASE w # u
      BY <1>1, <1>2, <1>3, <3>2 DEF RolesSuivis, EnAjustement
    <3>. QED BY <3>1, <3>2
  <2>. QED BY <1>1, <2>1, <2>2, LectureTient DEF BureauInchange, ComptesInchanges
<1>9. CASE RoleAjuste(d) # d.role
  <2>1. PICK r : r = RoleAjuste(d)
    OBVIOUS
  <2>2. r \in Roles
    BY <1>2, <2>1 DEF RoleAjuste, DComptage, Roles
  <2>3. PICK a : a = [pc |-> "promouvoir", u |-> u, role |-> r]
    OBVIOUS
  <2>4. a \in DPromotion /\ a.pc = "promouvoir" /\ a.u = u /\ a.role = r
    BY <1>3, <2>2, <2>3 DEF DPromotion
  <2>5. demandes' = [demandes EXCEPT ![q] = a]
    BY <1>2, <1>3, <1>9, <2>1, <2>3 DEF CompterPostes
  <2>6. \A w \in Personnes : Bon(w) \/ EnAjustement(a, w)
    BY <1>1, <1>2, <1>3, <2>4 DEF RolesSuivis, EnAjustement
  <2>7. Exacte(a)
    BY <1>5, <1>7, <2>1, <2>4 DEF Exacte
  <2>. QED BY <1>1, <2>4, <2>5, <2>6, <2>7, LectureTient DEF Demande, BureauInchange, ComptesInchanges
<1>. QED BY <1>8, <1>9

LEMMA LireEntrantsTient ==
  ASSUME IInvMandats, NEW q \in Demandes, Demandes = {q}, LireEntrants(q)
  PROVE  IInvMandats'
<1>1. TypeMandats /\ demandes[q].pc = "entrants" /\ BureauInchange /\ ComptesInchanges
  BY DEF IInvMandats, LireEntrants
<1>2. PICK d \in DEntrants : d = demandes[q] /\ d.pc = "entrants"
  BY <1>1, DemandeLue
<1>3. PICK g \in Mandats, n \in Promotions : g = d.g /\ n = d.annee
  BY <1>2 DEF DEntrants
<1>4. Exacte(d)
  BY <1>1, <1>2, DemandeLue DEF IInvMandats
<1>5. PICK S \in SUBSET Personnes : S = {u \in Personnes : \E p \in Postes : <<g, p, u>> \in places /\ postes[p].admin}
  OBVIOUS
<1>6. PICK a : a = [pc |-> "basculer", g |-> g, annee |-> n, entrants |-> S]
  OBVIOUS
<1>7. a \in DPassation /\ a.pc = "basculer" /\ a.g = g /\ a.annee = n /\ a.entrants = S
  BY <1>3, <1>5, <1>6 DEF DPassation
<1>8. demandes' = [demandes EXCEPT ![q] = a]
  BY <1>2, <1>3, <1>5, <1>6 DEF LireEntrants
<1>9. \A u \in Personnes : Bon(u)
  BY <1>1, RolesAuCalme
<1>10. Exacte(a)
  BY <1>2, <1>3, <1>4, <1>5, <1>7 DEF Exacte
<1>. QED BY <1>1, <1>7, <1>8, <1>9, <1>10, LectureTient DEF Demande, BureauInchange, ComptesInchanges

------------------------------------------------------------------------------
(* Posts and members.                                                      *)

\* A post is written, and those whose role it gave or takes are marked.
LEMMA PosteEcritTient ==
  ASSUME IInvMandats, NEW q \in Demandes, Demandes = {q}, Faire(q),
         postes' \in [Postes -> Fonctions \cup {SansPoste}],
         UNCHANGED <<comptes, mandats, places, marques>>,
         retouches \subseteq retouches', retouches' \subseteq Personnes,
         \A g \in Mandats, p \in Postes, u \in Personnes : <<g, p, u>> \in places => postes'[p].existe,
         \A u \in Personnes \ retouches' : \A p \in PostesDe(u) : postes'[p].admin <=> postes[p].admin
  PROVE  IInvMandats'
<1>1. TypeMandats /\ MandatsTenus /\ PlacesTenues /\ ComptesTenus
  BY DEF IInvMandats
<1>2. demandes[q] = Libre /\ demandes' = [demandes EXCEPT ![q] = Libre]
  BY DEF Faire, Demarrer, Disponible
<1>3. \A u \in Personnes : Bon(u)
  BY <1>2, RolesAuCalme DEF Libre
<1>4. MandatsTenus'
  BY <1>1 DEF MandatsTenus
<1>5. PlacesTenues'
  BY <1>1 DEF PlacesTenues, MembreDeLAnnee
<1>6. AnneeActive' = AnneeActive
  BY <1>1, <1>4, AnneeGardee
<1>7. ComptesTenus'
  BY <1>1, <1>6 DEF ComptesTenus
<1>8. ASSUME NEW u \in Personnes PROVE Bon(u)'
  <2>. SUFFICES ASSUME Suivi(u)' PROVE comptes'[u].role = "ADMIN" <=> Titulaire(u)'
    BY DEF Bon
  <2>1. u \in Personnes \ retouches' /\ Suivi(u)
    BY DEF Suivi
  <2>2. PostesDe(u)' = PostesDe(u)
    BY DEF PostesDe
  <2>3. Titulaire(u)' <=> Titulaire(u)
    BY <2>1, <2>2 DEF Titulaire
  <2>. QED BY <1>3, <2>1, <2>3 DEF Bon
<1>. QED BY <1>1, <1>2, <1>4, <1>5, <1>7, <1>8, MandatsApres DEF TypeMandats

LEMMA PosteTient ==
  ASSUME IInvMandats, NEW q \in Demandes, Demandes = {q}, NEW d \in Personnes, NEW p \in Postes,
         \/ \E f \in Fonctions : CreerPoste(q, d, p, f) \/ MettreAJourPoste(q, d, p, f)
         \/ SupprimerPoste(q, d, p)
  PROVE  IInvMandats'
<1>1. TypeMandats /\ PlacesTenues
  BY DEF IInvMandats
<1>2. \A u \in Personnes : \A r \in PostesDe(u) :
        r \in Postes /\ \E g \in Mandats : mandats[g].active /\ <<g, r, u>> \in places
  BY DEF PostesDe
<1>3. ASSUME NEW f \in Fonctions, CreerPoste(q, d, p, f) PROVE IInvMandats'
  <2>1. /\ Faire(q) /\ UNCHANGED <<comptes, mandats, places, marques, retouches>>
        /\ postes' = [postes EXCEPT ![p] = f] /\ ~postes[p].existe
    BY <1>3 DEF CreerPoste, ComptesInchanges
  <2>2. \A g \in Mandats, r \in Postes, u \in Personnes : <<g, r, u>> \in places => postes[r].existe /\ r # p
    BY <1>1, <2>1 DEF PlacesTenues
  <2>3. \A u \in Personnes : \A r \in PostesDe(u) : postes'[r] = postes[r]
    BY <1>1, <1>2, <2>1, <2>2 DEF TypeMandats
  <2>4. postes' \in [Postes -> Fonctions \cup {SansPoste}]
    BY <1>1, <2>1 DEF TypeMandats
  <2>5. \A g \in Mandats, r \in Postes, u \in Personnes : <<g, r, u>> \in places => postes'[r].existe
    BY <1>1, <2>1, <2>2 DEF TypeMandats
  <2>. QED BY <1>1, <2>1, <2>3, <2>4, <2>5, PosteEcritTient DEF TypeMandats
<1>4. ASSUME NEW f \in Fonctions, MettreAJourPoste(q, d, p, f) PROVE IInvMandats'
  <2>1. /\ Faire(q) /\ UNCHANGED <<comptes, mandats, places, marques>>
        /\ postes' = [postes EXCEPT ![p] = f]
        /\ retouches' = IF f.admin = postes[p].admin THEN retouches
                        ELSE retouches \cup {u \in Personnes : p \in PostesDe(u)}
    BY <1>4 DEF MettreAJourPoste
  <2>2. retouches \subseteq retouches' /\ retouches' \subseteq Personnes
    BY <1>1, <2>1 DEF TypeMandats
  <2>3. postes' \in [Postes -> Fonctions \cup {SansPoste}]
    BY <1>1, <2>1 DEF TypeMandats
  <2>4. \A g \in Mandats, r \in Postes, u \in Personnes : <<g, r, u>> \in places => postes'[r].existe
    BY <1>1, <2>1, FonctionLue DEF TypeMandats, PlacesTenues
  <2>5. \A u \in Personnes \ retouches' : \A r \in PostesDe(u) : postes'[r].admin <=> postes[r].admin
    <3>. SUFFICES ASSUME NEW u \in Personnes \ retouches', NEW r \in PostesDe(u)
                  PROVE  postes'[r].admin <=> postes[r].admin
      OBVIOUS
    <3>1. CASE r = p
      <4>1. f.admin = postes[p].admin
        BY <2>1, <3>1
      <4>2. postes'[p] = f
        BY <1>1, <2>1 DEF TypeMandats
      <4>. QED BY <3>1, <4>1, <4>2
    <3>2. CASE r # p
      BY <1>1, <1>2, <2>1, <3>2 DEF TypeMandats
    <3>. QED BY <3>1, <3>2
  <2>. QED BY <2>1, <2>2, <2>3, <2>4, <2>5, PosteEcritTient
<1>5. ASSUME SupprimerPoste(q, d, p) PROVE IInvMandats'
  <2>1. /\ Faire(q) /\ UNCHANGED <<comptes, mandats, places, marques, retouches>>
        /\ postes' = [postes EXCEPT ![p] = SansPoste] /\ \A m \in places : m[2] # p
    BY <1>5 DEF SupprimerPoste, ComptesInchanges
  <2>2. \A g \in Mandats, r \in Postes, u \in Personnes : <<g, r, u>> \in places => postes[r].existe /\ r # p
    BY <1>1, <2>1 DEF PlacesTenues
  <2>3. \A u \in Personnes : \A r \in PostesDe(u) : postes'[r] = postes[r]
    BY <1>1, <1>2, <2>1, <2>2 DEF TypeMandats
  <2>4. postes' \in [Postes -> Fonctions \cup {SansPoste}]
    BY <1>1, <2>1 DEF TypeMandats
  <2>5. \A g \in Mandats, r \in Postes, u \in Personnes : <<g, r, u>> \in places => postes'[r].existe
    BY <1>1, <2>1, <2>2 DEF TypeMandats
  <2>. QED BY <1>1, <2>1, <2>3, <2>4, <2>5, PosteEcritTient DEF TypeMandats
<1>. QED BY <1>3, <1>4, <1>5

\* A post is given or taken back: the request looks at the role next.
LEMMA MembreTient ==
  ASSUME IInvMandats, NEW q \in Demandes, Demandes = {q}, EnregistrerMembre(q) \/ SupprimerMembre(q)
  PROVE  IInvMandats'
<1>1. /\ TypeMandats /\ MandatsTenus /\ PlacesTenues /\ ComptesTenus
      /\ demandes[q].pc \in {"enregistrer", "supprimer"}
      /\ UNCHANGED <<comptes, mandats, postes, retouches, marques>>
  BY DEF IInvMandats, EnregistrerMembre, SupprimerMembre, ComptesInchanges
<1>2. PICK d \in DMembre : d = demandes[q]
  BY <1>1, DemandeLue
<1>3. PICK g \in Mandats, p \in Postes, u \in Personnes : g = d.g /\ p = d.p /\ u = d.u
  BY <1>2 DEF DMembre
<1>4. Exacte(d)
  BY <1>1, <1>2, DemandeLue DEF IInvMandats
<1>5. \A w \in Personnes : Bon(w)
  BY <1>1, RolesAuCalme
<1>6. d.active = mandats[g].active /\ comptes[u].existe
  BY <1>1, <1>2, <1>3, <1>4 DEF Exacte
<1>7. CASE EnregistrerMembre(q) /\ Rendre(q) /\ UNCHANGED places
  <2>1. demandes' = [demandes EXCEPT ![q] = Libre]
    BY <1>7 DEF Rendre
  <2>. QED BY <1>1, <1>5, <1>7, <2>1, LectureTient
<1>8. CASE \/ d.pc = "enregistrer" /\ places' = places \cup {<<g, p, u>>} /\ Passer(q, "ajuster")
           \/ d.pc = "supprimer" /\ places' = places \ {<<g, p, u>>} /\ Passer(q, "ajuster")
  <2>1. PICK a : a = [pc |-> "ajuster", g |-> g, p |-> p, u |-> u, active |-> d.active]
    OBVIOUS
  <2>2. a \in DMembre /\ a.pc = "ajuster" /\ a.g = g /\ a.p = p /\ a.u = u /\ a.active = d.active
    BY <1>2, <2>1 DEF DMembre
  <2>3. demandes' = [demandes EXCEPT ![q] = a]
    <3>1. [d EXCEPT !.pc = "ajuster"] = a
      BY <1>2, <1>3, <2>1 DEF DMembre
    <3>2. demandes' = [demandes EXCEPT ![q] = [d EXCEPT !.pc = "ajuster"]]
      BY <1>2, <1>8 DEF Passer
    <3>. QED BY <3>1, <3>2
  <2>4. places' \subseteq Mandats \X Postes \X Personnes
    BY <1>1, <1>8 DEF TypeMandats
  <2>5. MandatsTenus'
    BY <1>1 DEF MandatsTenus
  <2>6. PlacesTenues'
    <3>. SUFFICES ASSUME NEW h \in Mandats, NEW r \in Postes, NEW w \in Personnes, <<h, r, w>> \in places'
                  PROVE  postes[r].existe /\ MembreDeLAnnee(h, w)
      BY <1>1 DEF PlacesTenues, MembreDeLAnnee
    <3>1. CASE <<h, r, w>> \in places
      BY <1>1, <3>1 DEF PlacesTenues
    <3>2. CASE <<h, r, w>> \notin places
      <4>1. d.pc = "enregistrer" /\ h = g /\ r = p /\ w = u
        BY <1>8, <3>2
      <4>. QED BY <1>3, <1>4, <4>1 DEF Exacte
    <3>. QED BY <3>1, <3>2
  <2>7. ComptesTenus'
    BY <1>1, <2>5, AnneeGardee DEF ComptesTenus
  <2>8. ASSUME NEW w \in Personnes PROVE Bon(w)' \/ EnAjustement(a, w)
    <3>1. CASE w = u /\ d.active
      BY <2>2, <3>1 DEF EnAjustement
    <3>2. CASE ~(w = u /\ d.active)
      <4>1. \A h \in Mandats, r \in Postes :
              mandats[h].active => (<<h, r, w>> \in places' <=> <<h, r, w>> \in places)
        BY <1>6, <1>8, <3>2
      <4>2. PostesDe(w)' = PostesDe(w)
        BY <1>1, <4>1 DEF PostesDe
      <4>. QED BY <1>1, <1>5, <4>2 DEF Bon, Suivi, Titulaire
    <3>. QED BY <3>1, <3>2
  <2>9. Exacte(a)'
    BY <1>1, <1>6, <2>2 DEF Exacte
  <2>. QED BY <1>1, <2>2, <2>3, <2>4, <2>5, <2>6, <2>7, <2>8, <2>9, MandatsApres DEF TypeMandats, Demande
<1>. QED BY <1>2, <1>3, <1>7, <1>8 DEF EnregistrerMembre, SupprimerMembre

\* The role that the posts held give is written.
LEMMA PromouvoirTient ==
  ASSUME IInvMandats, NEW q \in Demandes, Demandes = {q}, Promouvoir(q)
  PROVE  IInvMandats'
<1>1. /\ TypeMandats /\ MandatsTenus /\ PlacesTenues /\ ComptesTenus /\ RolesSuivis
      /\ demandes[q].pc = "promouvoir" /\ demandes' = [demandes EXCEPT ![q] = Libre]
      /\ UNCHANGED <<mandats, postes, places, retouches, marques>>
  BY DEF IInvMandats, Promouvoir, Rendre, BureauInchange
<1>2. PICK d \in DPromotion : d = demandes[q] /\ d.pc = "promouvoir"
  BY <1>1, DemandeLue
<1>3. PICK u \in Personnes, r \in Roles : u = d.u /\ r = d.role
  BY <1>2 DEF DPromotion
<1>4. Exacte(d)
  BY <1>1, <1>2, DemandeLue DEF IInvMandats
<1>5. /\ comptes[u].existe
      /\ Suivi(u) => r = IF Titulaire(u) THEN "ADMIN" ELSE "STUDENT"
  BY <1>2, <1>3, <1>4 DEF Exacte
<1>6. PICK v : v = [comptes[u] EXCEPT !.role = r]
  OBVIOUS
<1>7. comptes[u] \in Compte
  BY <1>1 DEF TypeMandats
<1>8. /\ v \in Compte /\ v.role = r /\ v.existe = comptes[u].existe
      /\ v.promotion = comptes[u].promotion /\ v.finissant = comptes[u].finissant
  BY <1>6, <1>7 DEF Compte
<1>9. comptes' = [comptes EXCEPT ![u] = v]
  BY <1>2, <1>3, <1>5, <1>6 DEF Promouvoir
<1>10. /\ comptes' \in [Personnes -> Compte] /\ comptes'[u] = v
       /\ \A w \in Personnes : w # u => comptes'[w] = comptes[w]
  BY <1>1, <1>8, <1>9 DEF TypeMandats
<1>11. \A w \in Personnes : /\ comptes'[w].existe = comptes[w].existe
                            /\ comptes'[w].promotion = comptes[w].promotion
                            /\ comptes'[w].finissant = comptes[w].finissant
  BY <1>8, <1>10
<1>12. MandatsTenus'
  BY <1>1 DEF MandatsTenus
<1>13. PlacesTenues'
  BY <1>1, <1>11 DEF PlacesTenues, MembreDeLAnnee
<1>14. ComptesTenus'
  <2>. SUFFICES ASSUME NEW w \in Personnes
         PROVE  /\ ~comptes'[w].existe => comptes'[w].promotion = 0 /\ ~comptes'[w].finissant
                /\ w \notin retouches /\ comptes'[w].promotion # 0 => comptes'[w].role \in {"STUDENT", "ADMIN"}
                /\ w \notin marques =>
                     (comptes'[w].finissant <=> comptes'[w].promotion # 0 /\ comptes'[w].promotion = AnneeActive')
    BY <1>1 DEF ComptesTenus
  <2>1. AnneeActive' = AnneeActive
    BY <1>1, <1>12, AnneeGardee
  <2>2. CASE w = u
    BY <1>1, <1>5, <1>8, <1>10, <1>11, <2>1, <2>2 DEF ComptesTenus, Suivi
  <2>3. CASE w # u
    BY <1>1, <1>10, <2>1, <2>3 DEF ComptesTenus
  <2>. QED BY <2>2, <2>3
<1>15. ASSUME NEW w \in Personnes PROVE Bon(w)'
  <2>1. /\ Suivi(w)' <=> Suivi(w)
        /\ Titulaire(w)' <=> Titulaire(w)
    BY <1>1, <1>11 DEF Suivi, Titulaire, PostesDe
  <2>2. CASE w = u
    BY <1>5, <1>8, <1>10, <2>1, <2>2 DEF Bon
  <2>3. CASE w # u
    <3>1. Bon(w)
      BY <1>1, <1>2, <1>3, <2>3 DEF RolesSuivis, EnAjustement
    <3>. QED BY <1>10, <2>1, <2>3, <3>1 DEF Bon
  <2>. QED BY <2>2, <2>3
<1>. QED BY <1>1, <1>10, <1>12, <1>13, <1>14, <1>15, MandatsApres DEF TypeMandats

------------------------------------------------------------------------------
(* Mandates.                                                               *)

\* A mandate is written, which changes neither who holds a post of the mandate
\* under way nor which one this is.
LEMMA MandatEcritTient ==
  ASSUME IInvMandats, NEW q \in Demandes, Demandes = {q},
         demandes' = [demandes EXCEPT ![q] = Libre], \A u \in Personnes : Bon(u),
         UNCHANGED <<comptes, postes>>,
         mandats' \in [Mandats -> Mandat], places' \subseteq places,
         retouches \subseteq retouches', retouches' \subseteq Personnes,
         marques \subseteq marques', marques' \subseteq Personnes,
         MandatsTenus', PlacesTenues',
         \A h \in Mandats : mandats'[h].active <=> mandats[h].active,
         \A h \in Mandats, p \in Postes, u \in Personnes :
           mandats[h].active => (<<h, p, u>> \in places' <=> <<h, p, u>> \in places),
         marques' = Personnes \/ \A h \in Mandats : mandats[h].active => mandats'[h].annee = mandats[h].annee
  PROVE  IInvMandats'
<1>1. TypeMandats /\ MandatsTenus /\ ComptesTenus
  BY DEF IInvMandats
<1>2. \A u \in Personnes \ marques' : AnneeActive' = AnneeActive
  BY <1>1, AnneeGardee
<1>3. ComptesTenus'
  BY <1>1, <1>2 DEF ComptesTenus
<1>4. ASSUME NEW u \in Personnes PROVE Bon(u)'
  <2>1. PostesDe(u)' = PostesDe(u)
    BY DEF PostesDe
  <2>2. Suivi(u)' => Suivi(u)
    BY DEF Suivi
  <2>. QED BY <2>1, <2>2 DEF Bon, Titulaire
<1>5. places' \subseteq Mandats \X Postes \X Personnes
  BY <1>1 DEF TypeMandats
<1>6. postes' \in [Postes -> Fonctions \cup {SansPoste}] /\ comptes' \in [Personnes -> Compte]
  BY <1>1 DEF TypeMandats
<1>. QED BY <1>1, <1>3, <1>4, <1>5, <1>6, MandatsApres

LEMMA CreerMandatTient ==
  ASSUME IInvMandats, NEW q \in Demandes, Demandes = {q}, NEW d \in Personnes,
         NEW g \in Mandats, NEW n \in Annees, CreerMandat(q, d, g, n)
  PROVE  IInvMandats'
<1>1. /\ TypeMandats /\ MandatsTenus /\ PlacesTenues /\ demandes[q] = Libre
      /\ demandes' = [demandes EXCEPT ![q] = Libre]
      /\ UNCHANGED <<comptes, postes, places, retouches, marques>>
      /\ ~mandats[g].existe /\ AnneeLibre(n)
      /\ mandats' = [mandats EXCEPT ![g] = [existe |-> TRUE, annee |-> n, active |-> FALSE, archive |-> FALSE]]
  BY DEF IInvMandats, CreerMandat, Disponible, Faire, Demarrer, ComptesInchanges
<1>2. n \in Promotions /\ n # 0
  BY MandatsAssumption DEF Promotions
<1>3. PICK m : m = [existe |-> TRUE, annee |-> n, active |-> FALSE, archive |-> FALSE]
  OBVIOUS
<1>4. m \in Mandat /\ m.existe /\ m.annee = n /\ ~m.active /\ ~m.archive
  BY <1>2, <1>3 DEF Mandat
<1>5. /\ mandats' \in [Mandats -> Mandat] /\ mandats'[g] = m
      /\ \A h \in Mandats : h # g => mandats'[h] = mandats[h]
  BY <1>1, <1>3, <1>4 DEF TypeMandats
<1>6. ~mandats[g].active /\ \A p \in Postes, u \in Personnes : <<g, p, u>> \notin places
  BY <1>1 DEF MandatsTenus, PlacesTenues, MembreDeLAnnee
<1>7. MandatsTenus'
  BY <1>1, <1>2, <1>4, <1>5, <1>6 DEF MandatsTenus, AnneeLibre
<1>8. PlacesTenues'
  BY <1>1, <1>5, <1>6 DEF PlacesTenues, MembreDeLAnnee
<1>9. \A u \in Personnes : Bon(u)
  BY <1>1, RolesAuCalme DEF Libre
<1>. QED BY <1>1, <1>4, <1>5, <1>6, <1>7, <1>8, <1>9, MandatEcritTient DEF TypeMandats

LEMMA MettreAJourMandatTient ==
  ASSUME IInvMandats, NEW q \in Demandes, Demandes = {q}, NEW d \in Personnes,
         NEW g \in Mandats, NEW n \in Annees, MettreAJourMandat(q, d, g, n)
  PROVE  IInvMandats'
<1>1. /\ TypeMandats /\ MandatsTenus /\ PlacesTenues /\ demandes[q] = Libre
      /\ demandes' = [demandes EXCEPT ![q] = Libre]
      /\ UNCHANGED <<comptes, postes, places>>
      /\ mandats[g].existe /\ ~mandats[g].archive /\ AnneeLibre(n)
      /\ mandats' = [mandats EXCEPT ![g].annee = n]
      /\ marques' = IF mandats[g].active THEN Personnes ELSE marques
      /\ retouches' = retouches \cup {u \in Personnes : \E p \in Postes : <<g, p, u>> \in places}
  BY DEF IInvMandats, MettreAJourMandat, Disponible, Faire, Demarrer
<1>2. n \in Promotions /\ n # 0
  BY MandatsAssumption DEF Promotions
<1>3. PICK m : m = [mandats[g] EXCEPT !.annee = n]
  OBVIOUS
<1>4. mandats[g] \in Mandat
  BY <1>1 DEF TypeMandats
<1>5. m \in Mandat /\ m.existe /\ m.annee = n /\ m.active = mandats[g].active /\ ~m.archive
  BY <1>1, <1>2, <1>3, <1>4 DEF Mandat
<1>6. mandats' = [mandats EXCEPT ![g] = m]
  BY <1>1, <1>3
<1>7. /\ mandats' \in [Mandats -> Mandat] /\ mandats'[g] = m
      /\ \A h \in Mandats : h # g => mandats'[h] = mandats[h]
  BY <1>1, <1>5, <1>6 DEF TypeMandats
<1>8. MandatsTenus'
  BY <1>1, <1>2, <1>5, <1>7 DEF MandatsTenus, AnneeLibre
<1>9. PlacesTenues'
  <2>. SUFFICES ASSUME NEW h \in Mandats, NEW p \in Postes, NEW u \in Personnes, <<h, p, u>> \in places
                PROVE  postes[p].existe /\ MembreDeLAnnee(h, u)'
    BY <1>1 DEF PlacesTenues
  <2>1. postes[p].existe /\ MembreDeLAnnee(h, u)
    BY <1>1 DEF PlacesTenues
  <2>2. CASE h = g
    <3>1. u \in retouches'
      BY <1>1, <2>2
    <3>. QED BY <1>1, <1>5, <1>7, <2>1, <2>2, <3>1 DEF MembreDeLAnnee
  <2>3. CASE h # g
    BY <1>1, <1>7, <2>1, <2>3 DEF MembreDeLAnnee
  <2>. QED BY <2>2, <2>3
<1>10. retouches \subseteq retouches' /\ retouches' \subseteq Personnes
  BY <1>1 DEF TypeMandats
<1>11. marques \subseteq marques' /\ marques' \subseteq Personnes
  BY <1>1 DEF TypeMandats
<1>12. marques' = Personnes \/ \A h \in Mandats : mandats[h].active => mandats'[h].annee = mandats[h].annee
  BY <1>1, <1>7
<1>13. \A u \in Personnes : Bon(u)
  BY <1>1, RolesAuCalme DEF Libre
<1>. QED BY <1>1, <1>5, <1>7, <1>8, <1>9, <1>10, <1>11, <1>12, <1>13, MandatEcritTient

\* The mandate that is archived or deleted is not under way.
LEMMA FinDeMandatTient ==
  ASSUME IInvMandats, NEW q \in Demandes, Demandes = {q}, FigerMandat(q) \/ EffacerMandat(q)
  PROVE  IInvMandats'
<1>1. /\ TypeMandats /\ MandatsTenus /\ PlacesTenues /\ demandes[q].pc \in {"archiver", "effacer"}
      /\ demandes' = [demandes EXCEPT ![q] = Libre]
      /\ UNCHANGED <<comptes, postes, retouches, marques>>
  BY DEF IInvMandats, FigerMandat, EffacerMandat, Rendre, ComptesInchanges
<1>2. PICK d \in DMandat : d = demandes[q]
  BY <1>1, DemandeLue
<1>3. PICK g \in Mandats : g = d.g
  BY <1>2 DEF DMandat
<1>4. Exacte(d)
  BY <1>1, <1>2, DemandeLue DEF IInvMandats
<1>5. mandats[g].existe /\ ~mandats[g].active
  BY <1>1, <1>2, <1>3, <1>4 DEF Exacte
<1>6. \A u \in Personnes : Bon(u)
  BY <1>1, RolesAuCalme
<1>7. CASE FigerMandat(q)
  <2>1. mandats' = [mandats EXCEPT ![g].archive = mandats[g].existe] /\ places' = places
    BY <1>2, <1>3, <1>7 DEF FigerMandat
  <2>2. PICK m : m = [mandats[g] EXCEPT !.archive = mandats[g].existe]
    OBVIOUS
  <2>3. mandats[g] \in Mandat
    BY <1>1 DEF TypeMandats
  <2>4. m \in Mandat /\ m.existe /\ m.annee = mandats[g].annee /\ ~m.active
    BY <1>5, <2>2, <2>3 DEF Mandat
  <2>5. mandats' = [mandats EXCEPT ![g] = m]
    BY <2>1, <2>2
  <2>6. /\ mandats' \in [Mandats -> Mandat] /\ mandats'[g] = m
        /\ \A h \in Mandats : h # g => mandats'[h] = mandats[h]
    BY <1>1, <2>4, <2>5 DEF TypeMandats
  <2>7. \A h \in Mandats : /\ mandats'[h].existe <=> mandats[h].existe
                           /\ mandats'[h].active <=> mandats[h].active
                           /\ mandats'[h].annee = mandats[h].annee
    BY <1>5, <2>4, <2>6
  <2>8. MandatsTenus'
    BY <1>1, <1>5, <2>6, <2>7 DEF MandatsTenus
  <2>9. PlacesTenues'
    BY <1>1, <2>1, <2>7 DEF PlacesTenues, MembreDeLAnnee
  <2>. QED BY <1>1, <1>6, <2>1, <2>6, <2>7, <2>8, <2>9, MandatEcritTient DEF TypeMandats
<1>8. CASE EffacerMandat(q)
  <2>1. mandats' = [mandats EXCEPT ![g] = SansMandat] /\ places' = {m \in places : m[1] # g}
    BY <1>2, <1>3, <1>8 DEF EffacerMandat
  <2>2. SansMandat \in Mandat /\ ~SansMandat.existe /\ ~SansMandat.active
    BY DEF SansMandat, Mandat, Promotions
  <2>3. /\ mandats' \in [Mandats -> Mandat] /\ mandats'[g] = SansMandat
        /\ \A h \in Mandats : h # g => mandats'[h] = mandats[h]
    BY <1>1, <2>1, <2>2 DEF TypeMandats
  <2>4. \A h \in Mandats : mandats'[h].active <=> mandats[h].active
    BY <1>5, <2>2, <2>3
  <2>5. \A h \in Mandats : mandats[h].active => mandats'[h].annee = mandats[h].annee
    BY <1>5, <2>3
  <2>6. MandatsTenus'
    BY <1>1, <2>2, <2>3 DEF MandatsTenus
  <2>7. \A h \in Mandats, p \in Postes, u \in Personnes :
          <<h, p, u>> \in places' <=> <<h, p, u>> \in places /\ h # g
    BY <2>1
  <2>8. PlacesTenues'
    BY <1>1, <2>3, <2>7 DEF PlacesTenues, MembreDeLAnnee
  <2>9. places' \subseteq places
    BY <2>1
  <2>. QED BY <1>1, <1>5, <1>6, <2>3, <2>4, <2>5, <2>6, <2>7, <2>8, <2>9, MandatEcritTient DEF TypeMandats
<1>. QED BY <1>7, <1>8

\* The change of mandate: whoever of the former office is of another year leaves,
\* and nobody of the former office is of the year of the new one.
LEMMA PassationTient ==
  ASSUME IInvMandats, NEW q \in Demandes, Demandes = {q}, Basculer(q)
  PROVE  IInvMandats'
<1>1. /\ TypeMandats /\ MandatsTenus /\ PlacesTenues /\ ComptesTenus /\ demandes[q].pc = "basculer"
      /\ demandes' = [demandes EXCEPT ![q] = Libre]
      /\ UNCHANGED <<places, postes, retouches>> /\ marques' = {}
  BY DEF IInvMandats, Basculer, Rendre
<1>2. PICK d \in DPassation : d = demandes[q] /\ d.pc = "basculer"
  BY <1>1, DemandeLue
<1>3. PICK g \in Mandats, n \in Promotions, S \in SUBSET Personnes : g = d.g /\ n = d.annee /\ S = d.entrants
  BY <1>2 DEF DPassation
<1>4. Exacte(d)
  BY <1>1, <1>2, DemandeLue DEF IInvMandats
<1>5. /\ mandats[g].existe /\ ~mandats[g].archive /\ ~mandats[g].active /\ n = mandats[g].annee
      /\ S = {u \in Personnes : \E p \in Postes : <<g, p, u>> \in places /\ postes[p].admin}
  BY <1>2, <1>3, <1>4 DEF Exacte
<1>6. n # 0
  BY <1>1, <1>5 DEF MandatsTenus
<1>7. \A u \in Personnes : Bon(u)
  BY <1>1, RolesAuCalme
<1>8. \A h \in Mandats : /\ mandats'[h] \in Mandat
                         /\ mandats'[h].existe = mandats[h].existe
                         /\ mandats'[h].annee = mandats[h].annee
                         /\ mandats'[h].archive = mandats[h].archive
                         /\ mandats'[h].active <=> h = g
  <2>. TAKE h \in Mandats
  <2>1. mandats'[h] = [mandats[h] EXCEPT !.active = (h = g /\ mandats[h].existe)]
    BY <1>2, <1>3 DEF Basculer, ActifApres
  <2>2. mandats[h] \in Mandat
    BY <1>1 DEF TypeMandats
  <2>. QED BY <1>5, <2>1, <2>2 DEF Mandat
<1>9. mandats' \in [Mandats -> Mandat]
  <2>1. mandats' = [h \in Mandats |-> [mandats[h] EXCEPT !.active = ActifApres(h, g)]]
    BY <1>2, <1>3 DEF Basculer
  <2>. QED BY <1>8, <2>1
<1>10. MandatsTenus'
  BY <1>1, <1>5, <1>8 DEF MandatsTenus
<1>11. AnneeActive' = n
  BY <1>5, <1>8, <1>10, AnneeLueApres
<1>12. \A u \in Personnes :
         /\ comptes'[u] \in Compte
         /\ comptes'[u].existe = comptes[u].existe
         /\ comptes'[u].promotion = comptes[u].promotion
         /\ comptes'[u].finissant <=> comptes[u].existe /\ comptes[u].promotion = n
         /\ comptes'[u].role = IF comptes[u].existe THEN RoleApres(u, n, S) ELSE comptes[u].role
  <2>. TAKE u \in Personnes
  <2>1. comptes'[u] = [comptes[u] EXCEPT !.finissant = comptes[u].existe /\ comptes[u].promotion = n,
                          !.role = IF comptes[u].existe THEN RoleApres(u, n, S) ELSE comptes[u].role]
    BY <1>2, <1>3 DEF Basculer, FinissantApres
  <2>2. comptes[u] \in Compte
    BY <1>1 DEF TypeMandats
  <2>3. RoleApres(u, n, S) \in Roles
    BY <2>2 DEF RoleApres, Roles, Compte
  <2>. QED BY <2>1, <2>2, <2>3 DEF Compte
<1>13. comptes' \in [Personnes -> Compte]
  <2>1. comptes' = [u \in Personnes |-> comptes'[u]]
    BY DEF Basculer
  <2>. QED BY <1>12, <2>1
<1>14. PlacesTenues'
  BY <1>1, <1>8, <1>12 DEF PlacesTenues, MembreDeLAnnee
<1>15. \A u \in Personnes : Titulaire(u)' <=> u \in S
  BY <1>1, <1>5, <1>8 DEF Titulaire, PostesDe
<1>16. ASSUME NEW u \in Personnes, u \notin retouches, comptes[u].promotion # 0
       PROVE  comptes'[u].role = IF u \in S THEN "ADMIN" ELSE "STUDENT"
  <2>1. comptes[u].existe /\ comptes[u].role \in {"STUDENT", "ADMIN"}
    BY <1>1, <1>16 DEF ComptesTenus
  <2>2. CASE u \notin S /\ comptes[u].role = "ADMIN" /\ comptes[u].promotion = n
    <3>1. Titulaire(u)
      BY <1>7, <1>16, <2>2 DEF Bon, Suivi
    <3>2. PICK h \in Mandats, p \in Postes : mandats[h].active /\ <<h, p, u>> \in places
      BY <3>1 DEF Titulaire, PostesDe
    <3>3. mandats[h].existe /\ mandats[h].annee = n
      BY <1>1, <1>16, <2>2, <3>2 DEF PlacesTenues, MembreDeLAnnee
    <3>4. h = g
      BY <1>1, <1>5, <3>3 DEF MandatsTenus
    <3>. QED BY <1>5, <3>2, <3>4
  <2>. QED BY <1>12, <1>16, <2>1, <2>2 DEF RoleApres
<1>17. ComptesTenus'
  <2>. SUFFICES ASSUME NEW u \in Personnes
         PROVE  /\ ~comptes'[u].existe => comptes'[u].promotion = 0 /\ ~comptes'[u].finissant
                /\ u \notin retouches /\ comptes'[u].promotion # 0 => comptes'[u].role \in {"STUDENT", "ADMIN"}
                /\ comptes'[u].finissant <=> comptes'[u].promotion # 0 /\ comptes'[u].promotion = n
    BY <1>1, <1>11 DEF ComptesTenus
  <2>1. ~comptes[u].existe => comptes[u].promotion = 0
    BY <1>1 DEF ComptesTenus
  <2>. QED BY <1>6, <1>12, <1>16, <2>1
<1>18. \A u \in Personnes : Bon(u)'
  BY <1>1, <1>12, <1>15, <1>16 DEF Bon, Suivi
<1>. QED BY <1>1, <1>9, <1>10, <1>13, <1>14, <1>17, <1>18, MandatsApres DEF TypeMandats

------------------------------------------------------------------------------
(* Accounts.                                                               *)

\* An account is corrected: whose role or promotion changes is marked, and so is
\* whose finissant does not follow the mandate under way.
LEMMA CompteEcritTient ==
  ASSUME IInvMandats, NEW q \in Demandes, Demandes = {q},
         demandes' = [demandes EXCEPT ![q] = Libre], \A w \in Personnes : Bon(w),
         UNCHANGED <<mandats, postes, places>>,
         NEW u \in Personnes, NEW v \in Compte, comptes' = [comptes EXCEPT ![u] = v],
         comptes[u].existe, v.existe,
         retouches \subseteq retouches', retouches' \subseteq Personnes, marques' \subseteq Personnes,
         \A w \in Personnes : w # u => (w \in marques' <=> w \in marques),
         u \notin retouches' => v.role = comptes[u].role /\ v.promotion = comptes[u].promotion,
         u \notin marques' => (v.finissant <=> v.promotion # 0 /\ v.promotion = AnneeActive)
  PROVE  IInvMandats'
<1>1. TypeMandats /\ MandatsTenus /\ PlacesTenues /\ ComptesTenus
  BY DEF IInvMandats
<1>2. /\ comptes' \in [Personnes -> Compte] /\ comptes'[u] = v
      /\ \A w \in Personnes : w # u => comptes'[w] = comptes[w]
  BY <1>1 DEF TypeMandats
<1>3. MandatsTenus'
  BY <1>1 DEF MandatsTenus
<1>4. AnneeActive' = AnneeActive
  BY <1>1, <1>3, AnneeGardee
<1>5. PlacesTenues'
  <2>. SUFFICES ASSUME NEW h \in Mandats, NEW p \in Postes, NEW w \in Personnes, <<h, p, w>> \in places
                PROVE  postes[p].existe /\ MembreDeLAnnee(h, w)'
    BY DEF PlacesTenues
  <2>1. postes[p].existe /\ MembreDeLAnnee(h, w)
    BY <1>1 DEF PlacesTenues
  <2>2. CASE w = u
    BY <1>2, <2>1, <2>2 DEF MembreDeLAnnee
  <2>3. CASE w # u
    BY <1>2, <2>1, <2>3 DEF MembreDeLAnnee
  <2>. QED BY <2>2, <2>3
<1>6. ComptesTenus'
  <2>. SUFFICES ASSUME NEW w \in Personnes
         PROVE  /\ ~comptes'[w].existe => comptes'[w].promotion = 0 /\ ~comptes'[w].finissant
                /\ w \notin retouches' /\ comptes'[w].promotion # 0 => comptes'[w].role \in {"STUDENT", "ADMIN"}
                /\ w \notin marques' =>
                     (comptes'[w].finissant <=> comptes'[w].promotion # 0 /\ comptes'[w].promotion = AnneeActive)
    BY <1>4 DEF ComptesTenus
  <2>1. CASE w = u
    BY <1>1, <1>2, <2>1 DEF ComptesTenus
  <2>2. CASE w # u
    BY <1>1, <1>2, <2>2 DEF ComptesTenus
  <2>. QED BY <2>1, <2>2
<1>7. ASSUME NEW w \in Personnes PROVE Bon(w)'
  <2>1. Titulaire(w)' <=> Titulaire(w)
    BY DEF Titulaire, PostesDe
  <2>2. CASE w = u
    BY <1>2, <2>1, <2>2 DEF Bon, Suivi
  <2>3. CASE w # u
    BY <1>2, <2>1, <2>3 DEF Bon, Suivi
  <2>. QED BY <2>2, <2>3
<1>. QED BY <1>1, <1>2, <1>3, <1>5, <1>6, <1>7, MandatsApres DEF TypeMandats

LEMMA CorrigerCompteTient ==
  ASSUME IInvMandats, NEW q \in Demandes, Demandes = {q}, CorrigerCompte(q)
  PROVE  IInvMandats'
<1>1. /\ TypeMandats /\ ComptesTenus /\ demandes[q].pc = "corriger"
      /\ demandes' = [demandes EXCEPT ![q] = Libre]
      /\ UNCHANGED <<mandats, postes, places>>
  BY DEF IInvMandats, CorrigerCompte, Rendre, BureauInchange
<1>2. PICK d \in DCorrection : d = demandes[q] /\ d.pc = "corriger"
  BY <1>1, DemandeLue
<1>3. PICK u \in Personnes, c \in Corrections, n \in Promotions, x \in Promotions :
        u = d.u /\ c = d.c /\ n = d.promotion /\ x = d.annee
  BY <1>2 DEF DCorrection
<1>4. Exacte(d)
  BY <1>1, <1>2, DemandeLue DEF IInvMandats
<1>5. /\ comptes[u].existe /\ d.avant = comptes[u] /\ x = AnneeActive
      /\ DevientEtudiant(u, c) => n # 0
  BY <1>2, <1>3, <1>4 DEF Exacte
<1>6. PICK v : v = Corrige(u, d)
  OBVIOUS
<1>7. comptes[u] \in Compte
  BY <1>1 DEF TypeMandats
<1>8. /\ c.role \in Roles \cup {""} /\ c.promotion \in Promotions
      /\ c.actif \in {"", "oui", "non"} /\ c.finissant \in {"", "oui", "non"}
  BY CorrectionLue
<1>9. PICK base \in Compte :
        /\ base = [comptes[u] EXCEPT !.role = IF c.role = "" THEN @ ELSE c.role,
                                     !.actif = IF c.actif = "" THEN @ ELSE c.actif = "oui",
                                     !.finissant = IF c.finissant = "" THEN comptes[u].finissant
                                                   ELSE c.finissant = "oui"]
        /\ base.existe = comptes[u].existe /\ base.promotion = comptes[u].promotion
        /\ c.finissant = "" => base.finissant = comptes[u].finissant
  <2>1. PICK base : base = [comptes[u] EXCEPT !.role = IF c.role = "" THEN @ ELSE c.role,
                                     !.actif = IF c.actif = "" THEN @ ELSE c.actif = "oui",
                                     !.finissant = IF c.finissant = "" THEN comptes[u].finissant
                                                   ELSE c.finissant = "oui"]
    OBVIOUS
  <2>2. /\ base \in Compte /\ base.existe = comptes[u].existe /\ base.promotion = comptes[u].promotion
        /\ c.finissant = "" => base.finissant = comptes[u].finissant
    BY <1>7, <1>8, <2>1 DEF Compte
  <2>. QED BY <2>1, <2>2
<1>10. \/ v = base
       \/ v = [base EXCEPT !.promotion = 0, !.finissant = FALSE]
       \/ /\ DevientEtudiant(u, c)
          /\ v = [base EXCEPT !.promotion = n,
                    !.finissant = IF c.finissant # "" THEN c.finissant = "oui" ELSE n = x]
  BY <1>3, <1>5, <1>6, <1>9 DEF Corrige, DevientEtudiant, RoleFinal
<1>10a. base \in Compte
  BY <1>9
<1>11. /\ v \in Compte /\ v.existe
       /\ c.finissant = "" =>
            \/ v.promotion = comptes[u].promotion /\ v.finissant = comptes[u].finissant
            \/ v.promotion = 0 /\ ~v.finissant
            \/ v.promotion # 0 /\ (v.finissant <=> v.promotion = AnneeActive)
  <2>1. CASE v = base
    BY <1>5, <1>9, <2>1
  <2>2. CASE v = [base EXCEPT !.promotion = 0, !.finissant = FALSE]
    <3>1. v \in Compte /\ v.existe = base.existe /\ v.promotion = 0 /\ v.finissant = FALSE
      BY <1>10a, <2>2 DEF Compte, Promotions
    <3>. QED BY <1>5, <1>9, <3>1
  <2>3. CASE /\ DevientEtudiant(u, c)
             /\ v = [base EXCEPT !.promotion = n,
                       !.finissant = IF c.finissant # "" THEN c.finissant = "oui" ELSE n = x]
    <3>1. PICK b \in BOOLEAN : b = IF c.finissant # "" THEN c.finissant = "oui" ELSE n = x
      OBVIOUS
    <3>2. v = [base EXCEPT !.promotion = n, !.finissant = b]
      BY <2>3, <3>1
    <3>3. v \in Compte /\ v.existe = base.existe /\ v.promotion = n /\ v.finissant = b
      BY <1>10a, <3>1, <3>2 DEF Compte
    <3>. QED BY <1>5, <1>9, <2>3, <3>1, <3>3
  <2>. QED BY <1>10, <2>1, <2>2, <2>3
<1>12. /\ comptes' = [comptes EXCEPT ![u] = v]
       /\ retouches' = IF v.role # comptes[u].role \/ v.promotion # comptes[u].promotion
                       THEN retouches \cup {u} ELSE retouches
       /\ marques' = IF c.finissant = "" THEN marques ELSE marques \cup {u}
  BY <1>2, <1>3, <1>6 DEF CorrigerCompte
<1>13. /\ retouches \subseteq retouches' /\ retouches' \subseteq Personnes /\ marques' \subseteq Personnes
       /\ \A w \in Personnes : w # u => (w \in marques' <=> w \in marques)
       /\ u \notin retouches' => v.role = comptes[u].role /\ v.promotion = comptes[u].promotion
  BY <1>1, <1>12 DEF TypeMandats
<1>14. u \notin marques' => (v.finissant <=> v.promotion # 0 /\ v.promotion = AnneeActive)
  BY <1>1, <1>11, <1>12 DEF ComptesTenus
<1>15. \A w \in Personnes : Bon(w)
  BY <1>1, RolesAuCalme
<1>. QED BY <1>1, <1>5, <1>11, <1>12, <1>13, <1>14, <1>15, CompteEcritTient

LEMMA ChangerAdresseTient ==
  ASSUME IInvMandats, NEW q \in Demandes, Demandes = {q}, NEW u \in Personnes,
         NEW n \in Promotions, ChangerAdresse(q, u, n)
  PROVE  IInvMandats'
<1>1. /\ TypeMandats /\ demandes[q] = Libre /\ demandes' = [demandes EXCEPT ![q] = Libre]
      /\ UNCHANGED <<mandats, postes, places>>
      /\ comptes[u].existe /\ retouches' = retouches \cup {u} /\ marques' = marques \ {u}
  BY DEF IInvMandats, ChangerAdresse, Disponible, Faire, Demarrer, BureauInchange
<1>2. PICK r : r = IF comptes[u].role \in RolesAdministrateurs \cup {"SPONSOR"} THEN comptes[u].role
                   ELSE IF n = 0 THEN "VISITOR" ELSE "STUDENT"
  OBVIOUS
<1>3. PICK f \in BOOLEAN : f = (n # 0 /\ n = AnneeActive) /\ (f <=> n # 0 /\ n = AnneeActive)
  OBVIOUS
<1>4. PICK v : v = [comptes[u] EXCEPT !.campus = n, !.promotion = n, !.finissant = f, !.role = r]
  OBVIOUS
<1>5. comptes[u] \in Compte
  BY <1>1 DEF TypeMandats
<1>6. r \in Roles
  BY <1>2, <1>5 DEF Compte, Roles
<1>7. v \in Compte /\ v.existe /\ v.promotion = n /\ v.finissant = f
  BY <1>1, <1>4, <1>5, <1>6 DEF Compte
<1>8. comptes' = [comptes EXCEPT ![u] = v]
  <2>1. comptes' = [comptes EXCEPT ![u].campus = n, ![u].promotion = n, ![u].finissant = f, ![u].role = r]
    BY <1>2, <1>3 DEF ChangerAdresse
  <2>. QED BY <1>1, <1>4, <2>1 DEF TypeMandats
<1>9. retouches \subseteq retouches' /\ retouches' \subseteq Personnes /\ marques' \subseteq Personnes
      /\ u \in retouches' /\ \A w \in Personnes : w # u => (w \in marques' <=> w \in marques)
  BY <1>1 DEF TypeMandats
<1>10. v.finissant <=> v.promotion # 0 /\ v.promotion = AnneeActive
  BY <1>3, <1>7
<1>11. \A w \in Personnes : Bon(w)
  BY <1>1, RolesAuCalme DEF Libre
<1>. QED BY <1>1, <1>7, <1>8, <1>9, <1>10, <1>11, CompteEcritTient

\* The first administrator has a new account, of no promotion, and nobody was
\* being corrected: nobody could have asked for it.
LEMMA PremierAdministrateurTient ==
  ASSUME IInvMandats, NEW q \in Demandes, Demandes = {q}, NEW u \in Personnes,
         NEW r \in RolesAdministrateurs, CreerPremierAdministrateur(u, r)
  PROVE  IInvMandats'
<1>1. /\ TypeMandats /\ MandatsTenus /\ PlacesTenues /\ ComptesTenus /\ RolesSuivis
      /\ UNCHANGED <<mandats, postes, places, demandes, retouches, marques>>
      /\ ~comptes[u].existe /\ \A w \in Personnes : comptes[w].role \notin RolesAdministrateurs
      /\ comptes' = [comptes EXCEPT ![u] =
           [role |-> r, promotion |-> 0, finissant |-> FALSE, actif |-> TRUE, campus |-> 0, existe |-> TRUE]]
  BY DEF IInvMandats, CreerPremierAdministrateur, BureauInchange
<1>2. PICK v : v = [role |-> r, promotion |-> 0, finissant |-> FALSE, actif |-> TRUE, campus |-> 0, existe |-> TRUE]
  OBVIOUS
<1>3. v \in Compte /\ v.existe /\ v.promotion = 0 /\ v.finissant = FALSE
  BY <1>2 DEF Compte, Promotions, Roles, RolesAdministrateurs
<1>4. /\ comptes' \in [Personnes -> Compte] /\ comptes'[u] = v
      /\ \A w \in Personnes : w # u => comptes'[w] = comptes[w]
      /\ \A w \in Personnes : comptes[w].existe => comptes'[w] = comptes[w]
  BY <1>1, <1>2, <1>3 DEF TypeMandats
<1>5. PICK a \in Demande \cup {Libre} : a = demandes[q] /\ demandes' = [demandes EXCEPT ![q] = a]
  BY <1>1 DEF TypeMandats
<1>6. MandatsTenus'
  BY <1>1 DEF MandatsTenus
<1>7. AnneeActive' = AnneeActive
  BY <1>1, <1>6, AnneeGardee
<1>8. PlacesTenues'
  <2>. SUFFICES ASSUME NEW h \in Mandats, NEW p \in Postes, NEW w \in Personnes, <<h, p, w>> \in places
                PROVE  postes[p].existe /\ MembreDeLAnnee(h, w)'
    BY <1>1 DEF PlacesTenues
  <2>1. postes[p].existe /\ MembreDeLAnnee(h, w)
    BY <1>1 DEF PlacesTenues
  <2>. QED BY <1>1, <1>4, <2>1 DEF MembreDeLAnnee
<1>9. ComptesTenus'
  <2>. SUFFICES ASSUME NEW w \in Personnes
         PROVE  /\ ~comptes'[w].existe => comptes'[w].promotion = 0 /\ ~comptes'[w].finissant
                /\ w \notin retouches /\ comptes'[w].promotion # 0 => comptes'[w].role \in {"STUDENT", "ADMIN"}
                /\ w \notin marques =>
                     (comptes'[w].finissant <=> comptes'[w].promotion # 0 /\ comptes'[w].promotion = AnneeActive)
    BY <1>1, <1>7 DEF ComptesTenus
  <2>1. CASE w = u
    BY <1>3, <1>4, <2>1
  <2>2. CASE w # u
    BY <1>1, <1>4, <2>2 DEF ComptesTenus
  <2>. QED BY <2>1, <2>2
<1>10. \A w \in Personnes : Titulaire(w)' <=> Titulaire(w)
  BY <1>1 DEF Titulaire, PostesDe
<1>11. ASSUME NEW w \in Personnes PROVE Bon(w)' \/ EnAjustement(a, w)
  <2>1. CASE w = u
    BY <1>3, <1>4, <2>1 DEF Bon, Suivi
  <2>2. CASE w # u
    <3>1. Bon(w) \/ EnAjustement(a, w)
      BY <1>1, <1>5 DEF RolesSuivis
    <3>. QED BY <1>1, <1>4, <1>10, <2>2, <3>1 DEF Bon, Suivi
  <2>. QED BY <2>1, <2>2
<1>12. ASSUME a # Libre PROVE Exacte(a)'
  <2>1. Exacte(a)
    BY <1>5, <1>12 DEF IInvMandats
  <2>2. CASE a.pc = "promouvoir"
    <3>1. a.u \in Personnes
      BY <1>1, <1>5, <2>2, DemandeLue DEF DPromotion
    <3>2. comptes[a.u].existe /\ (Suivi(a.u) => a.role = IF Titulaire(a.u) THEN "ADMIN" ELSE "STUDENT")
      BY <2>1, <2>2 DEF Exacte
    <3>3. /\ comptes'[a.u] = comptes[a.u] /\ (Suivi(a.u)' <=> Suivi(a.u))
          /\ Titulaire(a.u)' <=> Titulaire(a.u)
      BY <1>1, <1>4, <1>10, <3>1, <3>2 DEF Suivi
    <3>. QED BY <2>2, <3>2, <3>3 DEF Exacte
  <2>3. CASE a.pc \in {"enregistrer", "supprimer", "ajuster"}
    <3>1. a.u \in Personnes
      BY <1>1, <1>5, <2>3, DemandeLue DEF DMembre
    <3>2. comptes[a.u].existe
      BY <2>1, <2>3 DEF Exacte
    <3>3. comptes'[a.u] = comptes[a.u]
      BY <1>4, <3>1, <3>2
    <3>. QED BY <1>1, <2>1, <2>3, <3>3 DEF Exacte, MembreDeLAnnee
  <2>4. CASE a.pc = "compter"
    <3>1. a.u \in Personnes
      BY <1>1, <1>5, <2>4, DemandeLue DEF DComptage
    <3>2. comptes[a.u].existe
      BY <2>1, <2>4 DEF Exacte
    <3>3. comptes'[a.u] = comptes[a.u]
      BY <1>4, <3>1, <3>2
    <3>. QED BY <1>1, <2>1, <2>4, <3>3 DEF Exacte
  <2>5. CASE a.pc \notin {"promouvoir", "enregistrer", "supprimer", "ajuster", "compter"}
    <3>1. a.pc # "corriger"
      BY <1>1, <2>1 DEF Exacte, Administre
    <3>. QED BY <1>1, <2>1, <2>5, <3>1 DEF Exacte
  <2>. QED BY <2>2, <2>3, <2>4, <2>5
<1>. QED BY <1>1, <1>4, <1>5, <1>6, <1>8, <1>9, <1>11, <1>12, MandatsApres DEF TypeMandats

------------------------------------------------------------------------------
(* Mandats: every step, and what follows.                                  *)

LEMMA InitMandatsTient == InitMandats => IInvMandats
<1>. SUFFICES ASSUME InitMandats PROVE IInvMandats
  OBVIOUS
<1>1. /\ mandats = [g \in Mandats |-> SansMandat] /\ postes = [p \in Postes |-> SansPoste]
      /\ places = {} /\ demandes = [q \in Demandes |-> Libre] /\ retouches = {} /\ marques = {}
  BY DEF InitMandats
<1>2. /\ comptes \in [Personnes -> Compte]
      /\ \A u \in Personnes : /\ ~comptes[u].finissant
                              /\ ~comptes[u].existe => comptes[u].promotion = 0
                              /\ comptes[u].promotion # 0 => comptes[u].role = "STUDENT"
  <2>1. PICK T : T = {SansCompte} \cup
             {[role |-> IF n = 0 THEN "VISITOR" ELSE "STUDENT", promotion |-> n, finissant |-> FALSE,
               actif |-> TRUE, campus |-> n, existe |-> TRUE] : n \in Promotions}
    OBVIOUS
  <2>2. comptes \in [Personnes -> T]
    BY <2>1 DEF InitMandats
  <2>3. ASSUME NEW v \in T
        PROVE  /\ v \in Compte /\ ~v.finissant /\ (~v.existe => v.promotion = 0)
               /\ v.promotion # 0 => v.role = "STUDENT"
    <3>1. CASE v = SansCompte
      BY <3>1 DEF SansCompte, Compte, Roles, Promotions
    <3>2. CASE v # SansCompte
      <4>1. PICK n \in Promotions :
              v = [role |-> IF n = 0 THEN "VISITOR" ELSE "STUDENT", promotion |-> n, finissant |-> FALSE,
                   actif |-> TRUE, campus |-> n, existe |-> TRUE]
        BY <2>1, <3>2
      <4>. QED BY <4>1 DEF Compte, Roles
    <3>. QED BY <3>1, <3>2
  <2>. QED BY <2>2, <2>3
<1>3. SansMandat \in Mandat /\ ~SansMandat.existe /\ ~SansMandat.active
  BY DEF SansMandat, Mandat, Promotions
<1>4. TypeMandats
  BY <1>1, <1>2, <1>3 DEF TypeMandats
<1>5. MandatsTenus /\ PlacesTenues
  BY <1>1, <1>3 DEF MandatsTenus, PlacesTenues
<1>6. AnneeActive = 0
  BY <1>1, <1>3, <1>5, AnneeLue
<1>7. ComptesTenus
  BY <1>2, <1>6 DEF ComptesTenus
<1>8. RolesSuivis
  BY <1>1, <1>2 DEF RolesSuivis, Bon, Suivi, Titulaire, PostesDe
<1>. QED BY <1>1, <1>4, <1>5, <1>7, <1>8 DEF IInvMandats

LEMMA RienMandatsTient ==
  ASSUME IInvMandats, UNCHANGED varsMandats
  PROVE  IInvMandats'
<1>1. TypeMandats' /\ MandatsTenus' /\ PlacesTenues'
  BY DEF IInvMandats, varsMandats, TypeMandats, MandatsTenus, PlacesTenues, MembreDeLAnnee
<1>2. AnneeActive' = AnneeActive
  BY DEF varsMandats, AnneeActive
<1>3. ComptesTenus'
  BY <1>2 DEF IInvMandats, varsMandats, ComptesTenus
<1>4. \A u \in Personnes : (Bon(u)' <=> Bon(u)) /\ (Suivi(u)' <=> Suivi(u)) /\ (Titulaire(u)' <=> Titulaire(u))
  BY DEF varsMandats, Bon, Suivi, Titulaire, PostesDe
<1>5. RolesSuivis'
  BY <1>4 DEF IInvMandats, varsMandats, RolesSuivis
<1>6. ASSUME NEW q \in Demandes, demandes[q] # Libre PROVE Exacte(demandes[q])'
  <2>1. Exacte(demandes[q])
    BY <1>6 DEF IInvMandats
  <2>2. CASE demandes[q].pc = "promouvoir"
    <3>1. demandes[q].u \in Personnes
      BY <2>2, DemandeLue DEF IInvMandats, DPromotion
    <3>. QED BY <1>4, <2>1, <2>2, <3>1 DEF varsMandats, Exacte
  <2>3. CASE demandes[q].pc # "promouvoir"
    BY <1>2, <2>1, <2>3 DEF varsMandats, Exacte, MembreDeLAnnee, Administre, DevientEtudiant, RoleFinal
  <2>. QED BY <2>2, <2>3
<1>. QED BY <1>1, <1>3, <1>5, <1>6 DEF IInvMandats, varsMandats

LEMMA PasMandatsTient ==
  ASSUME IInvMandats, NEW q \in Demandes, Demandes = {q}, [NextMandats]_varsMandats
  PROVE  IInvMandats'
<1>1. CASE Suite(q)
  BY <1>1, MembreTient, LireRoleTient, CompterTient, PromouvoirTient, LireEntrantsTient, PassationTient,
     FinDeMandatTient, CorrigerCompteTient DEF Suite
<1>2. ASSUME NEW d \in Personnes, Bureau(q, d) PROVE IInvMandats'
  BY <1>2, PosteTient, DebutMembreTient DEF Bureau
<1>3. ASSUME NEW d \in Personnes, Generations(q, d) PROVE IInvMandats'
  BY <1>3, CreerMandatTient, MettreAJourMandatTient, DebutMandatTient DEF Generations
<1>4. ASSUME NEW d \in Personnes, NEW u \in Personnes, NEW c \in Corrections, administrer(q, d, u, c)
      PROVE  IInvMandats'
  BY <1>4, AdministrerTient
<1>5. ASSUME NEW u \in Personnes, NEW n \in Promotions, ChangerAdresse(q, u, n) PROVE IInvMandats'
  BY <1>5, ChangerAdresseTient
<1>6. ASSUME NEW u \in Personnes, NEW r \in RolesAdministrateurs, CreerPremierAdministrateur(u, r)
      PROVE  IInvMandats'
  BY <1>6, PremierAdministrateurTient
<1>7. CASE UNCHANGED varsMandats
  BY <1>7, RienMandatsTient
<1>. QED BY <1>1, <1>2, <1>3, <1>4, <1>5, <1>6, <1>7 DEF NextMandats

\* Requests being served one at a time, accounts, posts and mandates agree with
\* each other and with what the request under way read, whatever the order of the
\* requests and however many there are: the inductive invariant of BureauService,
\* of GenerationService and of the corrections of accounts.
THEOREM InvariantMandats ==
  ASSUME NEW q, Demandes = {q}
  PROVE  SpecMandats => []IInvMandats
<1>1. IInvMandats /\ [NextMandats]_varsMandats => IInvMandats'
  BY PasMandatsTient
<1>. QED BY <1>1, InitMandatsTient, PTL DEF SpecMandats

\* One request at a time, a student is ADMIN exactly while holding a post of the
\* mandate under way that gives it, and finissant tells those of its year, but for
\* what was edited by hand (affecter, retirer, activer, ajusterAdministration).
THEOREM MandatsToujoursJustes ==
  ASSUME NEW q, Demandes = {q}
  PROVE  SpecMandats => []MandatsJustes
<1>1. IInvMandats => MandatsJustes
  <2>. SUFFICES ASSUME IInvMandats PROVE MandatsJustes
    OBVIOUS
  <2>1. TitulaireAdministre
    <3>. SUFFICES ASSUME AuRepos, NEW u \in Personnes \ retouches, comptes[u].promotion # 0
                  PROVE  comptes[u].role = "ADMIN" <=> \E p \in PostesDe(u) : postes[p].admin
      BY DEF TitulaireAdministre
    <3>1. demandes[q].pc = "libre"
      BY DEF AuRepos, Libre
    <3>2. Bon(u)
      BY <3>1, RolesAuCalme
    <3>. QED BY <3>2 DEF Bon, Suivi, Titulaire
  <2>2. FinissantCalcule
    BY DEF IInvMandats, ComptesTenus, FinissantCalcule
  <2>. QED BY <2>1, <2>2 DEF MandatsJustes
<1>. QED BY <1>1, InvariantMandats, PTL

\* No request leaves the platform without a mandate under way.
LEMMA MandatGarde ==
  ASSUME IInvMandats, IInvMandats', NEW q \in Demandes, Demandes = {q}, [NextMandats]_varsMandats,
         \E g \in Mandats : EnCours(g)
  PROVE  (\E g \in Mandats : EnCours(g))'
<1>1. TypeMandats /\ MandatsTenus /\ MandatsTenus'
  BY DEF IInvMandats
<1>2. PICK g \in Mandats : mandats[g].active
  BY DEF EnCours
<1>3. SUFFICES \E h \in Mandats : mandats'[h].active
  BY <1>1 DEF MandatsTenus, EnCours
<1>4. ASSUME UNCHANGED mandats PROVE \E h \in Mandats : mandats'[h].active
  BY <1>2, <1>4
<1>5. CASE Basculer(q)
  <2>1. PICK d \in DPassation : d = demandes[q] /\ d.pc = "basculer"
    BY <1>1, <1>5, DemandeLue DEF Basculer
  <2>2. PICK h \in Mandats : h = d.g
    BY <2>1 DEF DPassation
  <2>3. mandats[h].existe
    BY <1>1, <2>1, <2>2, DemandeLue DEF IInvMandats, Exacte
  <2>4. mandats'[h] = [mandats[h] EXCEPT !.active = ActifApres(h, h)]
    BY <1>5, <2>1, <2>2 DEF Basculer
  <2>5. mandats[h] \in Mandat
    BY <1>1 DEF TypeMandats
  <2>6. mandats'[h].active
    BY <2>3, <2>4, <2>5 DEF ActifApres, Mandat
  <2>. QED BY <2>6
<1>6. CASE FigerMandat(q) \/ EffacerMandat(q)
  <2>1. PICK d \in DMandat : d = demandes[q] /\ d.pc \in {"archiver", "effacer"}
    BY <1>1, <1>6, DemandeLue DEF FigerMandat, EffacerMandat
  <2>2. d.g # g
    BY <1>1, <1>2, <2>1, DemandeLue DEF IInvMandats, Exacte
  <2>3. mandats'[g] = mandats[g]
    BY <1>1, <1>6, <2>1, <2>2 DEF FigerMandat, EffacerMandat, TypeMandats
  <2>. QED BY <1>2, <2>3
<1>7. CASE Suite(q)
  BY <1>4, <1>5, <1>6, <1>7
     DEF Suite, EnregistrerMembre, SupprimerMembre, LireRole, CompterPostes, Promouvoir, LireEntrants,
         CorrigerCompte, BureauInchange
<1>8. ASSUME NEW d \in Personnes, Bureau(q, d) PROVE UNCHANGED mandats
  BY <1>8 DEF Bureau, CreerPoste, MettreAJourPoste, SupprimerPoste, Affecter, Retirer, BureauInchange
<1>9. ASSUME NEW d \in Personnes, NEW h \in Mandats, NEW n \in Annees,
             CreerMandat(q, d, h, n) \/ MettreAJourMandat(q, d, h, n)
      PROVE  mandats'[g].active
  <2>1. mandats[g] \in Mandat /\ mandats[g].existe
    BY <1>1, <1>2 DEF TypeMandats, MandatsTenus
  <2>2. CASE CreerMandat(q, d, h, n)
    <3>1. h # g
      BY <2>1, <2>2 DEF CreerMandat
    <3>. QED BY <1>1, <1>2, <2>2, <3>1 DEF CreerMandat, TypeMandats
  <2>3. CASE MettreAJourMandat(q, d, h, n)
    <3>1. mandats' = [mandats EXCEPT ![h].annee = n]
      BY <2>3 DEF MettreAJourMandat
    <3>2. mandats'[g] = mandats[g] \/ mandats'[g] = [mandats[g] EXCEPT !.annee = n]
      BY <1>1, <3>1 DEF TypeMandats
    <3>. QED BY <1>2, <2>1, <3>2 DEF Mandat
  <2>. QED BY <1>9, <2>2, <2>3
<1>10. ASSUME NEW d \in Personnes, Generations(q, d) PROVE \E h \in Mandats : mandats'[h].active
  BY <1>4, <1>9, <1>10 DEF Generations, Activer, Archiver, SupprimerMandat, BureauInchange
<1>11. ASSUME \/ \E d, u \in Personnes, c \in Corrections : administrer(q, d, u, c)
              \/ \E u \in Personnes, n \in Promotions : ChangerAdresse(q, u, n)
              \/ \E u \in Personnes, r \in RolesAdministrateurs : CreerPremierAdministrateur(u, r)
              \/ UNCHANGED varsMandats
       PROVE  UNCHANGED mandats
  BY <1>11 DEF administrer, ChangerAdresse, CreerPremierAdministrateur, BureauInchange, varsMandats
<1>. QED BY <1>4, <1>7, <1>8, <1>10, <1>11 DEF NextMandats

\* Whoever asked for the correction administered, and does not take from
\* themselves what they need to: they still administer when it is written.
LEMMA AdministrateurGarde ==
  ASSUME IInvMandats, NEW q \in Demandes, CorrigerCompte(q)
  PROVE  (\E e \in Personnes : Administre(e))'
<1>1. TypeMandats /\ demandes[q].pc = "corriger"
  BY DEF IInvMandats, CorrigerCompte
<1>2. PICK d \in DCorrection : d = demandes[q] /\ d.pc = "corriger"
  BY <1>1, DemandeLue
<1>3. PICK u \in Personnes, c \in Corrections : u = d.u /\ c = d.c
  BY <1>2 DEF DCorrection
<1>4. PICK e \in Personnes : /\ Administre(e)
                             /\ e = u => c.role \in RolesAdministrateurs \cup {""} /\ c.actif # "non"
  BY <1>1, <1>2, <1>3, DemandeLue DEF IInvMandats, Exacte
<1>5. comptes[e] \in Compte
  BY <1>1 DEF TypeMandats
<1>6. CASE e # u
  <2>1. comptes'[e] = comptes[e]
    BY <1>1, <1>2, <1>3, <1>6 DEF CorrigerCompte, TypeMandats
  <2>. QED BY <1>4, <2>1 DEF Administre
<1>7. CASE e = u
  <2>1. comptes'[e] = Corrige(e, d)
    BY <1>1, <1>2, <1>3, <1>7 DEF CorrigerCompte, TypeMandats
  <2>2. PICK base : base = [comptes[e] EXCEPT !.role = IF c.role = "" THEN @ ELSE c.role,
                                              !.actif = IF c.actif = "" THEN @ ELSE c.actif = "oui",
                                              !.finissant = IF c.finissant = "" THEN comptes[e].finissant
                                                            ELSE c.finissant = "oui"]
    OBVIOUS
  <2>3. c.actif \in {"", "oui"}
    BY <1>4, <1>7, CorrectionLue
  <2>4. base \in [role : {base.role}, promotion : {base.promotion}, finissant : {base.finissant},
                  actif : {base.actif}, campus : {base.campus}, existe : {base.existe}]
        /\ base.role \in RolesAdministrateurs /\ base.actif
    BY <1>4, <1>5, <1>7, <2>2, <2>3 DEF Compte, Administre
  <2>5. \/ comptes'[e] = base
        \/ comptes'[e] = [base EXCEPT !.promotion = 0, !.finissant = FALSE]
        \/ comptes'[e] = [base EXCEPT !.promotion = d.promotion,
                            !.finissant = IF c.finissant # "" THEN c.finissant = "oui" ELSE d.promotion = d.annee]
    BY <1>3, <2>1, <2>2 DEF Corrige
  <2>6. comptes'[e].role = base.role /\ comptes'[e].actif = base.actif
    BY <2>4, <2>5
  <2>. QED BY <2>4, <2>6 DEF Administre
<1>. QED BY <1>6, <1>7

\* One request at a time, a mandate stays under way once there is one, and the
\* correction of an account leaves an active administrator (administrer, activer,
\* archiver, supprimer).
THEOREM PlateformeToujoursTenue ==
  ASSUME NEW seule, Demandes = {seule}
  PROVE  SpecMandats => PlateformeTenue
<1>1. IInvMandats /\ IInvMandats' /\ [NextMandats]_varsMandats
        => /\ [(\E g \in Mandats : EnCours(g)) => (\E g \in Mandats : EnCours(g))']_varsMandats
           /\ [(\E q \in Demandes : CorrigerCompte(q)) /\ (\E u \in Personnes : Administre(u))
                => (\E u \in Personnes : Administre(u))']_varsMandats
  BY MandatGarde, AdministrateurGarde
<1>2. SpecMandats => []IInvMandats
  BY InvariantMandats
<1>. QED BY <1>1, <1>2, PTL DEF SpecMandats, PlateformeTenue, MandatEnCours, CorrectionLaisseUnAdministrateur

------------------------------------------------------------------------------
(* Sondage: for any voters, options, requests of the office and editions.  *)

Scrutin == [statut : StatutsSondage, multiple : BOOLEAN, anonyme : BOOLEAN, campus : BOOLEAN,
            visibilite : Visibilites, echue : BOOLEAN, total : Nat]

Bulletin == [numero : Nat, auteur : Votants \cup {Anonyme}, choix : SUBSET Propositions]

DuBureau == [op : {"retoucher", "activer", "supprimer"}, lu : StatutsSondage]

TypeSondage ==
  /\ sondage \in Scrutin /\ voix \in [Propositions -> Nat]
  /\ urne \subseteq Bulletin /\ retires \subseteq Bulletin
  /\ IsFiniteSet(urne) /\ IsFiniteSet(retires)
  /\ emargement \subseteq inscrits /\ inscrits \subseteq Votants
  /\ isoloirs \in [Votants -> SUBSET Propositions]
  /\ bureaux \in [Bureaux -> {Inoccupe} \cup DuBureau]
  /\ fige \in [total : Nat, votants : SUBSET Votants, clos : BOOLEAN]
  /\ avertis \subseteq Votants /\ invitations \in Nat /\ editions \in Nat /\ ecrase \in BOOLEAN

Exprimes == urne \cup retires

EnIsoloir == {v \in Votants : isoloirs[v] # SansBulletin}

\* Nothing happened before the poll is there, and its ballots go with it.
Vierge ==
  /\ sondage.statut = "ABSENT" =>
       /\ sondage = SansSondage /\ Exprimes = {} /\ emargement = {} /\ EnIsoloir = {}
       /\ voix = [o \in Propositions |-> 0]
       /\ \A b \in Bureaux : bureaux[b] = Inoccupe
       /\ ~fige.clos /\ avertis = {} /\ invitations = 0
  /\ sondage.statut = "SUPPRIME" => urne = {} /\ emargement = {}

\* Ballots are numbered, each is valid, and the counters count them.
Decomptes ==
  /\ \A a, b \in Exprimes : a.numero = b.numero => a = b
  /\ \A b \in Exprimes : b.choix # {} /\ (sondage.multiple \/ Cardinality(b.choix) = 1)
  /\ Existant =>
       /\ \A b \in Exprimes : b.numero \in 1 .. Cardinality(Exprimes)
       /\ sondage.total = Cardinality(Exprimes)
       /\ \A o \in Propositions : voix[o] = Pour(Exprimes, o)

\* One ballot per person, whose or nobody's.
Emarges ==
  IF sondage.anonyme
  THEN /\ Nominatifs = {}
       /\ Cardinality(urne) >= Cardinality(emargement)
       /\ Cardinality(urne) - Cardinality(emargement) <= Cardinality(Votants \ inscrits)
  ELSE /\ \A a, b \in urne : a.auteur = b.auteur => a = b
       /\ {b.auteur : b \in urne} = emargement

\* The ballots being cast passed the checks.
Isoles ==
  /\ \A v \in EnIsoloir : sondage.multiple \/ Cardinality(isoloirs[v]) = 1
  /\ sondage.campus /\ editions = 0 =>
       \A v \in EnIsoloir \cup emargement : Promos[v] # Visiteurs

\* Once closed, only those who were voting still vote.
Cloture ==
  fige.clos /\ ~ecrase =>
    /\ sondage.statut \in {"CLOS", "SUPPRIME"}
    /\ EnIsoloir \subseteq fige.votants
    /\ sondage.total >= fige.total
    /\ sondage.total <= fige.total + Cardinality(fige.votants \ EnIsoloir)

\* Whoever saw hidden counts is not voting and cannot start to.
Influence ==
  editions = 0 /\ ~ecrase /\ avertis # {} =>
    /\ sondage.echue \/ sondage.statut \in {"CLOS", "SUPPRIME"}
    /\ avertis \cap (emargement \cup EnIsoloir) = {}

\* What the requests of the office read, and what the history says of openings.
Ouverture ==
  /\ \A b \in Bureaux : /\ bureaux[b].op = "retoucher" => editions > 0
                        /\ bureaux[b].op = "activer" => bureaux[b].lu = "BROUILLON"
  /\ ~ecrase => /\ \/ invitations = 0
                   \/ invitations = 1 /\ sondage.statut \notin {"ABSENT", "BROUILLON"}
                /\ sondage.statut = "SUPPRIME" => sondage.total = 0

IInvSondage ==
  TypeSondage /\ Vierge /\ Decomptes /\ Emarges /\ Isoles /\ Cloture /\ Influence /\ Ouverture

------------------------------------------------------------------------------

LEMMA DepartSondage == ASSUME InitSondage PROVE IInvSondage
<1>. USE DEF InitSondage
<1>0. IsFiniteSet({}) /\ Cardinality({}) = 0
  BY FS_EmptySet
<1>1. Exprimes = {} /\ EnIsoloir = {}
  BY DEF Exprimes, EnIsoloir
<1>2. SansSondage \in Scrutin
  BY DEF SansSondage, Scrutin, StatutsSondage, Visibilites
<1>3. TypeSondage
  BY <1>0, <1>2 DEF TypeSondage, PasClos, SansBulletin
<1>4. Vierge /\ Isoles /\ Cloture /\ Influence /\ Ouverture
  BY <1>1 DEF Vierge, Isoles, Cloture, Influence, Ouverture, SansSondage, PasClos, Inoccupe
<1>5. Decomptes /\ Emarges
  BY <1>0, <1>1 DEF Decomptes, Emarges, SansSondage, Existant
<1>. QED BY <1>3, <1>4, <1>5 DEF IInvSondage

\* The boxes a ballot leaves are finite.
LEMMA Finis ==
  ASSUME TypeSondage
  PROVE  /\ IsFiniteSet(Exprimes) /\ Exprimes \subseteq Bulletin
         /\ Cardinality(Exprimes) \in Nat
         /\ IsFiniteSet(emargement) /\ Cardinality(emargement) \in Nat
         /\ IsFiniteSet(urne) /\ Cardinality(urne) \in Nat
         /\ IsFiniteSet(Votants \ inscrits) /\ Cardinality(Votants \ inscrits) \in Nat
         /\ \A o : IsFiniteSet({b \in Exprimes : o \in b.choix})
<1>1. IsFiniteSet(Exprimes) /\ Exprimes \subseteq Bulletin
  BY FS_Union DEF TypeSondage, Exprimes
<1>2. IsFiniteSet(emargement) /\ IsFiniteSet(Votants \ inscrits) /\ IsFiniteSet(urne)
  BY SondageAssumption, FS_Subset DEF TypeSondage
<1>3. \A o : IsFiniteSet({b \in Exprimes : o \in b.choix})
  BY <1>1, FS_Subset
<1>. QED BY <1>1, <1>2, <1>3, FS_CardinalityType

\* The ballots, counters and checks stay as they were when neither they nor what
\* they are about is touched.
LEMMA DecomptesRestent ==
  ASSUME Decomptes, UNCHANGED <<urne, retires, voix>>,
         sondage'.multiple = sondage.multiple, sondage'.total = sondage.total,
         sondage'.statut \notin {"ABSENT", "SUPPRIME"} => Existant
  PROVE  Decomptes'
BY DEF Decomptes, Exprimes, Existant, Pour

LEMMA EmargesRestent ==
  ASSUME Emarges, UNCHANGED <<urne, emargement, inscrits>>, sondage'.anonyme = sondage.anonyme
  PROVE  Emarges'
BY DEF Emarges, Nominatifs

\* The office creates the poll.
LEMMA CreationTenue ==
  ASSUME IInvSondage, NEW m \in Modeles, CreerSondage(m)
  PROVE  IInvSondage'
<1>. USE DEF CreerSondage
<1>0. TypeSondage /\ Vierge /\ Decomptes /\ Emarges /\ Isoles /\ Cloture /\ Influence /\ Ouverture
  BY DEF IInvSondage
<1>1. m \in [multiple : BOOLEAN, anonyme : BOOLEAN, campus : BOOLEAN, visibilite : Visibilites]
  BY ModelesAssumption
<1>2. /\ sondage' \in Scrutin /\ sondage'.statut = "BROUILLON" /\ sondage'.total = 0
      /\ Exprimes = {} /\ urne = {} /\ emargement = {} /\ EnIsoloir = {} /\ ~fige.clos /\ avertis = {}
      /\ invitations = 0 /\ voix = [o \in Propositions |-> 0]
      /\ \A b \in Bureaux : bureaux[b] = Inoccupe
  BY <1>0, <1>1 DEF Vierge, Scrutin, StatutsSondage, Exprimes
<1>3. Exprimes' = {} /\ EnIsoloir' = {} /\ Nominatifs' = {}
  BY <1>2 DEF Exprimes, EnIsoloir, Nominatifs
<1>4. TypeSondage'
  BY <1>0, <1>2 DEF TypeSondage
<1>5. Vierge' /\ Isoles' /\ Cloture' /\ Influence' /\ Ouverture'
  BY <1>2, <1>3 DEF Vierge, Isoles, Cloture, Influence, Ouverture, Inoccupe
<1>6. Decomptes' /\ Emarges'
  <2>1. Cardinality({}) = 0
    BY FS_EmptySet
  <2>2. Cardinality(Votants \ inscrits) \in Nat
    BY <1>0, Finis
  <2>3. Decomptes'
    BY <1>2, <1>3, <2>1 DEF Decomptes, Pour
  <2>4. Emarges'
    BY <1>2, <1>3, <2>1, <2>2 DEF Emarges
  <2>. QED BY <2>3, <2>4
<1>. QED BY <1>4, <1>5, <1>6 DEF IInvSondage

\* It reads the poll before it changes it.
LEMMA LectureTenue ==
  ASSUME IInvSondage, NEW b \in Bureaux, NEW op \in {"retoucher", "activer", "supprimer"},
         LireSondage(b, op)
  PROVE  IInvSondage'
<1>. DEFINE d == [op |-> op, lu |-> sondage.statut]
<1>0. TypeSondage /\ Vierge /\ Decomptes /\ Emarges /\ Isoles /\ Cloture /\ Influence /\ Ouverture
  BY DEF IInvSondage
<1>1. /\ bureaux' = [bureaux EXCEPT ![b] = d] /\ Existant /\ Permis(op)
      /\ editions' = editions + (IF op = "retoucher" THEN 1 ELSE 0)
      /\ UNCHANGED <<sondage, voix, urne, emargement, inscrits, isoloirs, retires, fige,
                     avertis, invitations, ecrase>>
  BY DEF LireSondage
<1>2. d \in DuBureau
  BY <1>0 DEF TypeSondage, Scrutin, DuBureau
<1>3. editions' \in Nat /\ (editions' = 0 => editions = 0) /\ (op = "retoucher" => editions' > 0)
      /\ (editions > 0 => editions' > 0)
  BY <1>0, <1>1 DEF TypeSondage
<1>4. TypeSondage'
  BY <1>0, <1>1, <1>2, <1>3 DEF TypeSondage
<1>5. Vierge' /\ Isoles' /\ Cloture' /\ Influence'
  BY <1>0, <1>1, <1>3 DEF Vierge, Existant, Exprimes, EnIsoloir, Isoles, Cloture, Influence
<1>6. Ouverture'
  <2>1. op = "activer" => sondage.statut = "BROUILLON"
    BY <1>1 DEF Permis
  <2>2. \A c \in Bureaux : bureaux'[c] = IF c = b THEN d ELSE bureaux[c]
    BY <1>0, <1>1 DEF TypeSondage
  <2>. QED BY <1>0, <1>1, <1>3, <2>1, <2>2 DEF Ouverture
<1>7. Decomptes'
  BY <1>0, <1>1, DecomptesRestent DEF Existant
<1>8. Emarges'
  BY <1>0, <1>1, EmargesRestent
<1>. QED BY <1>4, <1>5, <1>6, <1>7, <1>8 DEF IInvSondage

\* It edits, opens or deletes it.
LEMMA RetoucheTenue ==
  ASSUME IInvSondage, NEW b \in Bureaux, NEW r \in Retouches, Retoucher(b, r)
  PROVE  IInvSondage'
<1>0. TypeSondage /\ Vierge /\ Decomptes /\ Emarges /\ Isoles /\ Cloture /\ Influence /\ Ouverture
  BY DEF IInvSondage
<1>1. /\ bureaux' = [bureaux EXCEPT ![b] = Inoccupe] /\ bureaux[b].op = "retoucher"
      /\ ecrase' = (ecrase \/ bureaux[b].lu # sondage.statut)
      /\ UNCHANGED <<voix, urne, emargement, inscrits, isoloirs, retires, fige, avertis,
                     invitations, editions>>
  BY DEF Retoucher, Servi, Ecraser
<1>2. r \in [campus : BOOLEAN, visibilite : Visibilites, echue : BOOLEAN]
  BY ModelesAssumption
<1>3. /\ sondage' \in Scrutin /\ sondage'.statut = sondage.statut /\ sondage'.total = sondage.total
      /\ sondage'.multiple = sondage.multiple /\ sondage'.anonyme = sondage.anonyme
      /\ sondage.statut = "ABSENT" => sondage' = sondage
  BY <1>0, <1>2 DEF TypeSondage, Scrutin, Retoucher, Existant
<1>4. editions > 0 /\ (~ecrase' => ~ecrase)
  BY <1>0, <1>1 DEF Ouverture
<1>5. TypeSondage'
  BY <1>0, <1>1, <1>3 DEF TypeSondage
<1>6. \A c \in Bureaux : bureaux'[c] = IF c = b THEN Inoccupe ELSE bureaux[c]
  BY <1>0, <1>1 DEF TypeSondage
<1>7. Vierge' /\ Isoles' /\ Cloture' /\ Influence' /\ Ouverture'
  BY <1>0, <1>1, <1>3, <1>4, <1>6
     DEF Vierge, Exprimes, EnIsoloir, Isoles, Cloture, Influence, Ouverture, Inoccupe
<1>8. Decomptes'
  BY <1>0, <1>1, <1>3, DecomptesRestent DEF Existant
<1>9. Emarges'
  BY <1>0, <1>1, <1>3, EmargesRestent
<1>. QED BY <1>5, <1>7, <1>8, <1>9 DEF IInvSondage

LEMMA ActivationTenue ==
  ASSUME IInvSondage, NEW b \in Bureaux, ActiverSondage(b)
  PROVE  IInvSondage'
<1>0. TypeSondage /\ Vierge /\ Decomptes /\ Emarges /\ Isoles /\ Cloture /\ Influence /\ Ouverture
  BY DEF IInvSondage
<1>1. /\ bureaux' = [bureaux EXCEPT ![b] = Inoccupe] /\ bureaux[b].op = "activer"
      /\ ecrase' = (ecrase \/ bureaux[b].lu # sondage.statut)
      /\ invitations' = invitations + 1
      /\ UNCHANGED <<voix, urne, emargement, inscrits, isoloirs, retires, fige, avertis, editions>>
  BY DEF ActiverSondage, Servi, Ecraser
<1>2. bureaux[b] # Inoccupe /\ bureaux[b].lu = "BROUILLON" /\ sondage.statut # "ABSENT"
  BY <1>0, <1>1 DEF Ouverture, Vierge, Inoccupe
<1>3. /\ sondage' \in Scrutin /\ sondage'.total = sondage.total /\ sondage'.echue = sondage.echue
      /\ sondage'.multiple = sondage.multiple /\ sondage'.anonyme = sondage.anonyme
      /\ sondage'.campus = sondage.campus
      /\ sondage'.statut = IF Existant THEN "ACTIF" ELSE sondage.statut
  BY <1>0 DEF TypeSondage, Scrutin, StatutsSondage, ActiverSondage
<1>4. ~ecrase' => ~ecrase /\ sondage.statut = "BROUILLON" /\ sondage'.statut = "ACTIF"
                   /\ invitations = 0
  BY <1>0, <1>1, <1>2, <1>3 DEF Ouverture, Existant
<1>5. TypeSondage'
  BY <1>0, <1>1, <1>3 DEF TypeSondage
<1>6. \A c \in Bureaux : bureaux'[c] = IF c = b THEN Inoccupe ELSE bureaux[c]
  BY <1>0, <1>1 DEF TypeSondage
<1>7. Vierge'
  BY <1>0, <1>1, <1>2, <1>3 DEF Vierge, Exprimes, EnIsoloir, Existant
<1>8. Isoles' /\ Cloture' /\ Influence'
  BY <1>0, <1>1, <1>3, <1>4 DEF EnIsoloir, Isoles, Cloture, Influence
<1>9. Ouverture'
  BY <1>0, <1>1, <1>3, <1>4, <1>6 DEF Ouverture, Inoccupe
<1>10. Decomptes'
  BY <1>0, <1>1, <1>3, DecomptesRestent DEF Existant
<1>11. Emarges'
  BY <1>0, <1>1, <1>3, EmargesRestent
<1>. QED BY <1>5, <1>7, <1>8, <1>9, <1>10, <1>11 DEF IInvSondage

LEMMA SuppressionTenue ==
  ASSUME IInvSondage, NEW b \in Bureaux, SupprimerSondage(b)
  PROVE  IInvSondage'
<1>0. TypeSondage /\ Vierge /\ Decomptes /\ Emarges /\ Isoles /\ Cloture /\ Influence /\ Ouverture
  BY DEF IInvSondage
<1>1. /\ bureaux' = [bureaux EXCEPT ![b] = Inoccupe]
      /\ ecrase' = (ecrase \/ sondage.total > 0)
      /\ sondage' = [sondage EXCEPT !.statut = "SUPPRIME"]
      /\ voix' = [o \in Propositions |-> 0] /\ urne' = {} /\ emargement' = {}
      /\ UNCHANGED <<inscrits, isoloirs, retires, fige, avertis, invitations, editions>>
  BY DEF SupprimerSondage, Servi
<1>2. /\ sondage' \in Scrutin /\ sondage'.statut = "SUPPRIME" /\ sondage'.total = sondage.total
      /\ sondage'.multiple = sondage.multiple /\ sondage'.echue = sondage.echue
      /\ sondage'.campus = sondage.campus /\ sondage.total \in Nat
  BY <1>0, <1>1 DEF TypeSondage, Scrutin, StatutsSondage
<1>3. IsFiniteSet({}) /\ Cardinality({}) = 0 /\ Cardinality(Votants \ inscrits) \in Nat
  BY <1>0, Finis, FS_EmptySet
<1>4. TypeSondage'
  BY <1>0, <1>1, <1>2, <1>3 DEF TypeSondage
<1>5. \A c \in Bureaux : bureaux'[c] = IF c = b THEN Inoccupe ELSE bureaux[c]
  BY <1>0, <1>1 DEF TypeSondage
<1>6. Vierge' /\ Isoles' /\ Cloture' /\ Influence'
  BY <1>0, <1>1, <1>2 DEF Vierge, Exprimes, EnIsoloir, Isoles, Cloture, Influence
<1>7. Ouverture'
  <2>1. ~ecrase' => ~ecrase /\ sondage.total = 0
    <3>. DEFINE plein == sondage.total > 0
    <3>1. ecrase' = (ecrase \/ plein)
      BY <1>1
    <3>2. ~plein => sondage.total = 0
      BY <1>2
    <3>. HIDE DEF plein
    <3>. QED BY <3>1, <3>2, Zenon
  <2>2. \A c \in Bureaux :
          /\ bureaux'[c].op = "retoucher" => editions' > 0
          /\ bureaux'[c].op = "activer" => bureaux'[c].lu = "BROUILLON"
    BY <1>0, <1>1, <1>5 DEF Ouverture, Inoccupe
  <2>. QED BY <1>0, <1>1, <1>2, <2>1, <2>2 DEF Ouverture
<1>8. Decomptes'
  BY <1>0, <1>1, <1>2 DEF Decomptes, Exprimes, Existant
<1>9. Emarges'
  BY <1>1, <1>3 DEF Emarges, Nominatifs
<1>. QED BY <1>4, <1>6, <1>7, <1>8, <1>9 DEF IInvSondage

\* It is closed, or its deadline passes.
LEMMA FinTenue ==
  ASSUME IInvSondage, CloreSondage \/ Echoir
  PROVE  IInvSondage'
<1>0. TypeSondage /\ Vierge /\ Decomptes /\ Emarges /\ Isoles /\ Cloture /\ Influence /\ Ouverture
  BY DEF IInvSondage
<1>1. /\ UNCHANGED <<voix, urne, emargement, inscrits, isoloirs, bureaux, retires, avertis,
                     invitations, editions, ecrase>>
      /\ Existant
      /\ \/ sondage' = [sondage EXCEPT !.statut = "CLOS"]
         \/ sondage' = [sondage EXCEPT !.echue = TRUE]
  BY DEF CloreSondage, Echoir
<1>2. /\ sondage' \in Scrutin /\ sondage'.total = sondage.total
      /\ sondage'.multiple = sondage.multiple /\ sondage'.anonyme = sondage.anonyme
      /\ sondage'.campus = sondage.campus
      /\ sondage'.statut = sondage.statut \/ sondage'.statut = "CLOS"
      /\ (sondage.echue \/ sondage.statut = "CLOS") => (sondage'.echue \/ sondage'.statut = "CLOS")
      /\ sondage.statut \notin {"ABSENT", "SUPPRIME"} /\ sondage'.statut \notin {"ABSENT", "SUPPRIME"}
      /\ sondage.total \in Nat
  BY <1>0, <1>1 DEF TypeSondage, Scrutin, StatutsSondage, Existant
<1>3. fige' \in [total : Nat, votants : SUBSET Votants, clos : BOOLEAN] /\ Cloture'
  <2>0. EnIsoloir' = EnIsoloir
    BY <1>1 DEF EnIsoloir
  <2>1. CASE fige' = fige
    BY <1>0, <1>1, <1>2, <2>0, <2>1 DEF TypeSondage, Cloture
  <2>2. CASE fige' # fige
    <3>1. fige' = [total |-> sondage.total, clos |-> TRUE, votants |-> EnIsoloir]
      BY <2>2 DEF CloreSondage, Echoir, EnIsoloir
    <3>2. sondage'.statut = "CLOS"
      BY <1>0, <2>2 DEF CloreSondage, Echoir, TypeSondage, Scrutin
    <3>3. EnIsoloir \ EnIsoloir = {} /\ Cardinality({}) = 0 /\ EnIsoloir \subseteq Votants
      BY FS_EmptySet DEF EnIsoloir
    <3>4. Cardinality(fige'.votants \ EnIsoloir') = 0
      BY <2>0, <3>1, <3>3
    <3>. QED BY <1>2, <2>0, <3>1, <3>2, <3>3, <3>4 DEF Cloture
  <2>. QED BY <2>1, <2>2
<1>4. TypeSondage'
  BY <1>0, <1>1, <1>2, <1>3 DEF TypeSondage
<1>5. Vierge' /\ Isoles' /\ Influence' /\ Ouverture'
  BY <1>0, <1>1, <1>2 DEF Vierge, EnIsoloir, Isoles, Influence, Ouverture
<1>6. Decomptes'
  BY <1>0, <1>1, <1>2, DecomptesRestent
<1>7. Emarges'
  BY <1>0, <1>1, <1>2, EmargesRestent
<1>. QED BY <1>3, <1>4, <1>5, <1>6, <1>7 DEF IInvSondage

\* Somebody looks at the counts.
LEMMA ConsultationTenue ==
  ASSUME IInvSondage, NEW v \in Votants, Consulter(v)
  PROVE  IInvSondage'
<1>0. TypeSondage /\ Vierge /\ Decomptes /\ Emarges /\ Isoles /\ Cloture /\ Influence /\ Ouverture
  BY DEF IInvSondage
<1>1. /\ UNCHANGED <<sondage, voix, urne, emargement, inscrits, isoloirs, bureaux, retires, fige,
                     invitations, editions, ecrase>>
      /\ v \notin emargement /\ v \notin EnIsoloir /\ sondage.statut # "ABSENT"
      /\ avertis' = avertis \/ avertis' = avertis \cup {v}
  BY DEF Consulter, EnIsoloir, Existant
<1>2. avertis' # avertis => sondage.echue \/ sondage.statut = "CLOS"
  BY <1>0 DEF Consulter, Visible, TypeSondage, Scrutin, Visibilites
<1>3. TypeSondage' /\ Vierge' /\ Isoles' /\ Cloture' /\ Ouverture'
  BY <1>0, <1>1 DEF TypeSondage, Vierge, EnIsoloir, Exprimes, Isoles, Cloture, Ouverture
<1>4. Influence'
  <2>0. EnIsoloir' = EnIsoloir
    BY <1>1 DEF EnIsoloir
  <2>. QED BY <1>0, <1>1, <1>2, <2>0 DEF Influence
<1>5. Decomptes'
  BY <1>0, <1>1, DecomptesRestent DEF Existant
<1>6. Emarges'
  BY <1>0, <1>1, EmargesRestent
<1>. QED BY <1>3, <1>4, <1>5, <1>6 DEF IInvSondage

\* Somebody goes and votes.
LEMMA IsolementTenu ==
  ASSUME IInvSondage, NEW v \in Votants, NEW choix \in SUBSET Propositions, Isoler(v, choix)
  PROVE  IInvSondage'
<1>0. TypeSondage /\ Vierge /\ Decomptes /\ Emarges /\ Isoles /\ Cloture /\ Influence /\ Ouverture
  BY DEF IInvSondage
<1>1. /\ UNCHANGED <<sondage, voix, urne, emargement, inscrits, bureaux, retires, fige, avertis,
                     invitations, editions, ecrase>>
      /\ isoloirs' = [isoloirs EXCEPT ![v] = choix]
      /\ sondage.statut = "ACTIF" /\ ~sondage.echue
      /\ sondage.campus => Promos[v] # Visiteurs
      /\ choix # {} /\ (sondage.multiple \/ Cardinality(choix) = 1)
  BY DEF Isoler, Ouvert, Eligible, OptionsValides
<1>2. /\ \A w \in Votants : isoloirs'[w] = IF w = v THEN choix ELSE isoloirs[w]
      /\ EnIsoloir' = EnIsoloir \cup {v}
  BY <1>0, <1>1 DEF TypeSondage, EnIsoloir, SansBulletin
<1>3. TypeSondage' /\ Vierge' /\ Cloture' /\ Influence' /\ Ouverture'
  BY <1>0, <1>1 DEF TypeSondage, Vierge, Cloture, Influence, Ouverture
<1>4. Isoles'
  BY <1>0, <1>1, <1>2 DEF Isoles, EnIsoloir
<1>5. Decomptes'
  BY <1>0, <1>1, DecomptesRestent DEF Existant
<1>6. Emarges'
  BY <1>0, <1>1, EmargesRestent
<1>. QED BY <1>3, <1>4, <1>5, <1>6 DEF IInvSondage

\* Those who vote, once one of them has or is gone from the booth.
LEMMA UnDeMoins ==
  ASSUME TypeSondage, Cloture, NEW v \in EnIsoloir, EnIsoloir' = EnIsoloir \ {v}, fige.clos, ~ecrase
  PROVE  /\ Cardinality(fige.votants \ EnIsoloir') = Cardinality(fige.votants \ EnIsoloir) + 1
         /\ Cardinality(fige.votants \ EnIsoloir) \in Nat
<1>1. fige.votants \subseteq Votants /\ v \in fige.votants
  BY DEF TypeSondage, Cloture
<1>2. IsFiniteSet(fige.votants \ EnIsoloir)
  BY <1>1, SondageAssumption, FS_Subset
<1>3. fige.votants \ EnIsoloir' = (fige.votants \ EnIsoloir) \cup {v}
  BY <1>1
<1>. QED BY <1>2, <1>3, FS_AddElement, FS_CardinalityType

\* The transaction of a vote.
LEMMA VoteTenu ==
  ASSUME IInvSondage, NEW v \in Votants, Voter(v)
  PROVE  IInvSondage'
<1>. DEFINE bulletin == [numero |-> Cardinality(urne \cup retires) + 1,
                         auteur |-> IF sondage.anonyme THEN Anonyme ELSE v,
                         choix |-> isoloirs[v]]
<1>0. TypeSondage /\ Vierge /\ Decomptes /\ Emarges /\ Isoles /\ Cloture /\ Influence /\ Ouverture
  BY DEF IInvSondage
<1>1. /\ isoloirs[v] # {} /\ isoloirs' = [isoloirs EXCEPT ![v] = {}]
      /\ UNCHANGED <<inscrits, bureaux, retires, fige, avertis, invitations, editions, ecrase>>
  BY DEF Voter, SansBulletin
<1>2. /\ \A w \in Votants : isoloirs'[w] = IF w = v THEN {} ELSE isoloirs[w]
      /\ EnIsoloir' = EnIsoloir \ {v} /\ v \in EnIsoloir
      /\ isoloirs' \in [Votants -> SUBSET Propositions]
  BY <1>0, <1>1 DEF TypeSondage, EnIsoloir, SansBulletin
<1>3. sondage.statut # "ABSENT"
  BY <1>0, <1>2 DEF Vierge
<1>4. Isoles' \/ emargement' # emargement
  BY <1>0, <1>1, <1>2 DEF Isoles, Voter
<1>5. CASE ~(Existant /\ v \in inscrits \ emargement)
  <2>1. UNCHANGED <<emargement, urne, voix, sondage>>
    BY <1>5 DEF Voter
  <2>2. TypeSondage' /\ Vierge' /\ Isoles' /\ Ouverture'
    BY <1>0, <1>1, <1>2, <1>3, <1>4, <2>1 DEF TypeSondage, Vierge, Ouverture
  <2>3. Influence'
    BY <1>0, <1>1, <1>2, <2>1 DEF Influence
  <2>4. Cloture'
    <3>1. ASSUME fige.clos, ~ecrase
          PROVE  /\ EnIsoloir' \subseteq fige.votants
                 /\ sondage.total <= fige.total + Cardinality(fige.votants \ EnIsoloir')
      <4>1. fige.total \in Nat /\ sondage.total \in Nat
        BY <1>0 DEF TypeSondage, Scrutin
      <4>. QED BY <1>0, <1>2, <3>1, <4>1, UnDeMoins DEF Cloture
    <3>. QED BY <1>0, <1>1, <2>1, <3>1 DEF Cloture
  <2>5. Decomptes'
    BY <1>0, <1>1, <2>1, DecomptesRestent DEF Existant
  <2>6. Emarges'
    BY <1>0, <1>1, <2>1, EmargesRestent
  <2>. QED BY <2>2, <2>3, <2>4, <2>5, <2>6 DEF IInvSondage
<1>6. CASE Existant /\ v \in inscrits \ emargement
  <2>1. /\ emargement' = emargement \cup {v} /\ urne' = urne \cup {bulletin}
        /\ voix' = [o \in Propositions |-> voix[o] + (IF o \in isoloirs[v] THEN 1 ELSE 0)]
        /\ sondage' = [sondage EXCEPT !.total = @ + 1]
    BY <1>6 DEF Voter
  <2>2. /\ sondage' \in Scrutin /\ sondage'.total = sondage.total + 1 /\ sondage.total \in Nat
        /\ sondage'.statut = sondage.statut /\ sondage'.echue = sondage.echue
        /\ sondage'.multiple = sondage.multiple /\ sondage'.anonyme = sondage.anonyme
        /\ sondage'.campus = sondage.campus
    BY <1>0, <2>1 DEF TypeSondage, Scrutin
  <2>3. sondage.statut \notin {"ABSENT", "SUPPRIME"} /\ Existant'
    BY <1>6, <2>2 DEF Existant
  <2>4. bulletin \in Bulletin /\ bulletin.numero = Cardinality(Exprimes) + 1
        /\ bulletin.choix = isoloirs[v] /\ bulletin.auteur = IF sondage.anonyme THEN Anonyme ELSE v
    <3>1. Cardinality(Exprimes) \in Nat
      BY <1>0, Finis
    <3>. QED BY <1>0, <3>1 DEF Bulletin, TypeSondage, Exprimes
  <2>. HIDE DEF bulletin
  <2>5. Exprimes' = Exprimes \cup {bulletin} /\ bulletin \notin Exprimes /\ bulletin \notin urne
    <3>1. \A b \in Exprimes : b.numero <= Cardinality(Exprimes) /\ b.numero \in Nat
      BY <1>0, <1>6, Finis DEF Decomptes
    <3>2. bulletin \notin Exprimes
      BY <1>0, <2>4, <3>1, Finis
    <3>. QED BY <1>1, <2>1, <3>2 DEF Exprimes
  <2>6. /\ Cardinality(Exprimes') = Cardinality(Exprimes) + 1
        /\ Cardinality(urne') = Cardinality(urne) + 1 /\ IsFiniteSet(urne')
        /\ Cardinality(emargement') = Cardinality(emargement) + 1
    BY <1>0, <1>6, <2>1, <2>5, Finis, FS_AddElement
  <2>7. TypeSondage'
    BY <1>0, <1>1, <1>2, <1>6, <2>1, <2>2, <2>4, <2>6 DEF TypeSondage
  <2>8. Vierge' /\ Ouverture'
    BY <1>0, <1>1, <2>2, <2>3 DEF Vierge, Ouverture
  <2>9. Isoles'
    BY <1>0, <1>1, <1>2, <2>1, <2>2 DEF Isoles
  <2>10. Influence'
    BY <1>0, <1>1, <1>2, <2>1, <2>2 DEF Influence
  <2>11. Cloture'
    <3>1. ASSUME fige.clos, ~ecrase
          PROVE  /\ EnIsoloir' \subseteq fige.votants
                 /\ sondage'.total >= fige.total
                 /\ sondage'.total <= fige.total + Cardinality(fige.votants \ EnIsoloir')
      <4>1. fige.total \in Nat
        BY <1>0 DEF TypeSondage
      <4>. QED BY <1>0, <1>2, <2>2, <3>1, <4>1, UnDeMoins DEF Cloture
    <3>. QED BY <1>0, <1>1, <2>2, <3>1 DEF Cloture
  <2>12. Decomptes'
    <3>1. \A a, b \in Exprimes' : a.numero = b.numero => a = b
      BY <1>0, <1>6, <2>4, <2>5, Finis DEF Decomptes
    <3>2. \A b \in Exprimes' : b.choix # {} /\ (sondage'.multiple \/ Cardinality(b.choix) = 1)
      BY <1>0, <1>1, <1>2, <2>2, <2>4, <2>5 DEF Decomptes, Isoles
    <3>3. /\ \A b \in Exprimes' : b.numero \in 1 .. Cardinality(Exprimes')
          /\ sondage'.total = Cardinality(Exprimes')
      BY <1>0, <1>6, <2>2, <2>4, <2>5, <2>6, Finis DEF Decomptes
    <3>4. ASSUME NEW o \in Propositions PROVE voix'[o] = Pour(Exprimes', o)
      <4>. DEFINE A == {b \in Exprimes : o \in b.choix}
      <4>1. IsFiniteSet(A) /\ Cardinality(A) \in Nat /\ bulletin \notin A
        BY <1>0, <2>5, Finis, FS_CardinalityType
      <4>2. voix[o] = Cardinality(A)
        BY <1>0, <1>6, <3>4 DEF Decomptes, Pour
      <4>3. {b \in Exprimes' : o \in b.choix} = IF o \in isoloirs[v] THEN A \cup {bulletin} ELSE A
        BY <2>4, <2>5
      <4>4. Cardinality(A \cup {bulletin}) = Cardinality(A) + 1
        BY <4>1, FS_AddElement
      <4>. HIDE DEF A
      <4>5. CASE o \in isoloirs[v]
        BY <2>1, <3>4, <4>2, <4>3, <4>4, <4>5 DEF Pour
      <4>6. CASE o \notin isoloirs[v]
        <5>1. voix'[o] = voix[o] + 0 /\ voix[o] \in Nat
          BY <1>0, <2>1, <4>6 DEF TypeSondage
        <5>2. Pour(Exprimes', o) = Cardinality(A)
          BY <4>3, <4>6 DEF Pour
        <5>. QED BY <4>2, <5>1, <5>2
      <4>. QED BY <4>5, <4>6
    <3>. QED BY <3>1, <3>2, <3>3, <3>4 DEF Decomptes
  <2>13. Emarges'
    <3>1. CASE sondage.anonyme
      BY <1>0, <1>1, <2>1, <2>2, <2>4, <2>6, <3>1, Finis DEF Emarges, Nominatifs
    <3>2. CASE ~sondage.anonyme
      <4>1. \A b \in urne : b.auteur # v
        BY <1>0, <1>6, <3>2 DEF Emarges
      <4>2. {b.auteur : b \in urne'} = {b.auteur : b \in urne} \cup {v}
        BY <2>1, <2>4, <3>2
      <4>. QED BY <1>0, <2>1, <2>2, <2>4, <3>2, <4>1, <4>2 DEF Emarges
    <3>. QED BY <3>1, <3>2
  <2>. QED BY <2>7, <2>8, <2>9, <2>10, <2>11, <2>12, <2>13 DEF IInvSondage
<1>. QED BY <1>5, <1>6

\* An account goes.
LEMMA DepartDeCompteTenu ==
  ASSUME IInvSondage, NEW v \in Votants, SupprimerCompte(v)
  PROVE  IInvSondage'
<1>0. TypeSondage /\ Vierge /\ Decomptes /\ Emarges /\ Isoles /\ Cloture /\ Influence /\ Ouverture
  BY DEF IInvSondage
<1>1. /\ v \in inscrits /\ inscrits' = inscrits \ {v} /\ emargement' = emargement \ {v}
      /\ urne' = {b \in urne : b.auteur # v}
      /\ retires' = retires \cup {b \in urne : b.auteur = v}
      /\ UNCHANGED <<sondage, voix, isoloirs, bureaux, fige, avertis, invitations, editions, ecrase>>
  BY DEF SupprimerCompte
<1>2. Exprimes' = Exprimes /\ EnIsoloir' = EnIsoloir
  BY <1>1 DEF Exprimes, EnIsoloir
<1>3. IsFiniteSet(urne') /\ IsFiniteSet(retires')
  <2>1. IsFiniteSet(urne') /\ IsFiniteSet({b \in urne : b.auteur = v})
    BY <1>0, <1>1, FS_Subset DEF TypeSondage
  <2>. QED BY <1>0, <1>1, <2>1, FS_Union DEF TypeSondage
<1>4. TypeSondage'
  BY <1>0, <1>1, <1>3 DEF TypeSondage
<1>5. Vierge' /\ Isoles' /\ Cloture' /\ Influence' /\ Ouverture'
  BY <1>0, <1>1, <1>2 DEF Vierge, Isoles, Cloture, Influence, Ouverture
<1>6. Decomptes'
  BY <1>0, <1>1, <1>2 DEF Decomptes, Existant, Pour
<1>7. Emarges'
  <2>1. CASE sondage.anonyme
    <3>1. urne' = urne /\ Nominatifs' = {}
      BY <1>0, <1>1, <2>1, AnonymeAssumption DEF Emarges, Nominatifs
    <3>2. Cardinality(emargement') <= Cardinality(emargement)
          /\ Cardinality(emargement) - 1 <= Cardinality(emargement')
          /\ Cardinality(emargement') \in Nat
      <4>0. IsFiniteSet(emargement) /\ Cardinality(emargement) \in Nat
        BY <1>0, Finis
      <4>1. CASE v \in emargement
        <5>1. /\ IsFiniteSet(emargement') /\ Cardinality(emargement') = Cardinality(emargement) - 1
              /\ Cardinality(emargement') \in Nat
          BY <1>1, <4>0, <4>1, FS_RemoveElement, FS_CardinalityType
        <5>. QED BY <4>0, <5>1
      <4>2. CASE v \notin emargement
        <5>1. emargement' = emargement
          BY <1>1, <4>2
        <5>. QED BY <4>0, <5>1
      <4>. QED BY <4>1, <4>2
    <3>3. Cardinality(Votants \ inscrits') = Cardinality(Votants \ inscrits) + 1
      <4>1. Votants \ inscrits' = (Votants \ inscrits) \cup {v} /\ v \notin Votants \ inscrits
        BY <1>1
      <4>. QED BY <1>0, <4>1, Finis, FS_AddElement
    <3>4. /\ Cardinality(urne) >= Cardinality(emargement)
          /\ Cardinality(urne) - Cardinality(emargement) <= Cardinality(Votants \ inscrits)
          /\ Cardinality(urne) \in Nat /\ Cardinality(emargement) \in Nat
          /\ Cardinality(Votants \ inscrits) \in Nat
      BY <1>0, <2>1, Finis DEF Emarges
    <3>5. /\ Cardinality(urne') >= Cardinality(emargement')
          /\ Cardinality(urne') - Cardinality(emargement') <= Cardinality(Votants \ inscrits')
      BY <3>1, <3>2, <3>3, <3>4
    <3>. QED BY <1>1, <2>1, <3>1, <3>5 DEF Emarges
  <2>2. CASE ~sondage.anonyme
    BY <1>0, <1>1, <2>2 DEF Emarges
  <2>. QED BY <2>1, <2>2
<1>. QED BY <1>4, <1>5, <1>6, <1>7 DEF IInvSondage

------------------------------------------------------------------------------
(* The count by promotion: a partition loses nobody.                       *)

\* The sums of the count are those of Sommes.
LEMMA SommeDeTermes ==
  ASSUME NEW S, IsFiniteSet(S), NEW g
  PROVE  SommeDe(g, S) = Somme(g, S)
<1>. DEFINE E(it) == [s \in SUBSET S |-> IF s = {} THEN 0
                        ELSE g[CHOOSE x \in s : TRUE] + it[s \ {CHOOSE x \in s : TRUE}]]
            c == CHOOSE it : it = E(it)
<1>1. SommeDe(g, S) = c[S]
  BY Zenon DEF SommeDe, MapThenSumSet, MapThenFoldSet
<1>2. \A it : Deroule(it, g, S) <=> it = E(it)
  BY DEF Deroule, Pas, Choix
<1>3. c = E(c)
  <2>1. \E it : it = E(it)
    <3>. HIDE DEF E
    <3>. QED BY <1>2, SommeExiste
  <2>. HIDE DEF E
  <2>. QED BY <2>1, Zenon
<1>. HIDE DEF c, E
<1>. QED BY <1>1, <1>2, <1>3, SommePartielle

\* Ballots shared between classes are as many as those of all the classes.
LEMMA Repartition ==
  ASSUME NEW B, IsFiniteSet(B), NEW K, IsFiniteSet(K), NEW cle, \A b \in B : cle[b] \in K
  PROVE  Somme([k \in K |-> Cardinality({b \in B : cle[b] = k})], K) = Cardinality(B)
<1>. DEFINE De(T, k) == {b \in T : cle[b] = k}
            f(T) == [k \in K |-> Cardinality(De(T, k))]
            Bons == {T \in SUBSET B : Somme(f(T), K) = Cardinality(T)}
<1>1. \A T \in SUBSET B : IsFiniteSet(T) /\ Cardinality(T) \in Nat
  BY FS_Subset, FS_CardinalityType
<1>2. \A T \in SUBSET B : \A k \in K : f(T)[k] \in Nat /\ IsFiniteSet(De(T, k))
  BY <1>1
<1>3. {} \in Bons
  <2>1. \A k \in K : f({})[k] = 0
    BY FS_EmptySet
  <2>. HIDE DEF f
  <2>2. Somme(f({}), K) = 0
    BY <2>1, SommeNulle
  <2>. QED BY <2>2, FS_EmptySet
<1>4. ASSUME NEW T \in SUBSET B, T # {}, \A x \in T : T \ {x} \in Bons
      PROVE  T \in Bons
  <2>1. PICK x \in T : TRUE
    BY <1>4
  <2>. DEFINE U == T \ {x}
              c == cle[x]
  <2>2. U \in SUBSET B /\ c \in K /\ U \in Bons
    BY <1>4
  <2>3. Cardinality(T) = Cardinality(U) + 1
    <3>1. T = U \cup {x} /\ x \notin U
      OBVIOUS
    <3>. QED BY <1>1, <2>2, <3>1, FS_AddElement
  <2>4. \A k \in K \ {c} : f(T)[k] = f(U)[k]
    <3>1. \A k \in K \ {c} : De(T, k) = De(U, k)
      OBVIOUS
    <3>. QED BY <3>1
  <2>5. f(T)[c] = f(U)[c] + 1
    <3>1. De(T, c) = De(U, c) \cup {x} /\ x \notin De(U, c)
      OBVIOUS
    <3>2. IsFiniteSet(De(U, c)) /\ c \in K
      BY <1>2, <2>2
    <3>3. Cardinality(De(T, c)) = Cardinality(De(U, c)) + 1
      <4>. HIDE DEF De, U, c
      <4>. QED BY <3>1, <3>2, FS_AddElement
    <3>. QED BY <3>2, <3>3
  <2>6. Somme(f(T), K) = Somme(f(U), K) - f(U)[c] + f(T)[c]
    <3>1. \A k \in K : f(T)[k] \in Int /\ f(U)[k] \in Int
      BY <1>2, <2>2
    <3>. HIDE DEF f, U, c
    <3>. QED BY <2>2, <2>4, <3>1, SommeChange
  <2>7. Somme(f(U), K) = Cardinality(U) /\ Cardinality(U) \in Nat /\ f(U)[c] \in Nat
    BY <1>1, <1>2, <2>2
  <2>. HIDE DEF f, U, c
  <2>. QED BY <2>3, <2>5, <2>6, <2>7
<1>5. SUBSET B \subseteq Bons
  <2>. HIDE DEF Bons
  <2>. QED BY <1>3, <1>4, RecurrenceFinie
<1>6. B \in Bons
  BY <1>5
<1>. QED BY <1>6

\* A share is at most the whole, rounded to the nearest.
LEMMA PartBornee ==
  ASSUME NEW p \in Nat, NEW n \in Nat, n > 0, p <= n
  PROVE  (2 * 100 * p + n) \div (2 * n) <= 100
<1>. DEFINE a == 2 * 100 * p + n
            q == a \div (2 * n)
<1>1. a \in Nat /\ a <= 201 * n /\ 2 * n \in Nat /\ 2 * n > 0
  OBVIOUS
<1>2. q \in Int /\ (2 * n) * q <= a
  BY <1>1
<1>3. ASSUME q >= 101 PROVE FALSE
  <2>1. (2 * n) * q >= (2 * n) * 101
    BY <1>2, <1>3
  <2>. QED BY <1>1, <1>2, <2>1
<1>. QED BY <1>2, <1>3

\* The count by promotion loses nobody.
LEMMA RepartitionTenue ==
  ASSUME TypeSondage, Decomptes
  PROVE  RepartitionJuste
<1>. DEFINE d == depouiller
<1>1. /\ IsFiniteSet(Nominatifs) /\ Nominatifs \subseteq Exprimes /\ Nominatifs \subseteq urne
      /\ \A b \in Nominatifs : b.choix \in SUBSET Propositions
  BY FS_Subset DEF Nominatifs, TypeSondage, Exprimes, Bulletin
<1>2. IsFiniteSet(Segments)
  <2>. DEFINE f == [b \in Nominatifs |-> Promos[b.auteur]]
  <2>1. f \in Surjection(Nominatifs, Segments)
    BY DEF Segments, Surjection
  <2>. QED BY <1>1, <2>1, FS_Surjection
<1>3. \A s \in Segments : /\ IsFiniteSet(Segment(s)) /\ Cardinality(Segment(s)) \in Nat
                          /\ Segment(s) # {} /\ Segment(s) \subseteq Nominatifs
  <2>1. \A s \in Segments : Segment(s) # {} /\ Segment(s) \subseteq Nominatifs
    BY DEF Segments, Segment
  <2>. QED BY <1>1, <2>1, FS_Subset, FS_CardinalityType
<1>4. \A s \in Segments :
        /\ d[s].votants = Cardinality(Segment(s))
        /\ d[s].votes = [o \in Propositions |-> Pour(Segment(s), o)]
        /\ d[s].parts = [o \in Propositions |->
             (2 * 100 * Pour(Segment(s), o) + Cardinality(Segment(s)))
               \div (2 * Cardinality(Segment(s)))]
  BY DEF depouiller
<1>. HIDE DEF d
<1>. DEFINE promo == [b \in Nominatifs |-> Promos[b.auteur]]
<1>5. \A b \in Nominatifs : promo[b] \in Segments
  BY DEF Segments
<1>6. SommeDe([s \in Segments |-> d[s].votants], Segments) = Cardinality(Nominatifs)
  <2>1. \A s \in Segments : Segment(s) = {b \in Nominatifs : promo[b] = s}
    BY DEF Segment
  <2>2. [s \in Segments |-> d[s].votants]
          = [s \in Segments |-> Cardinality({b \in Nominatifs : promo[b] = s})]
    BY <1>4, <2>1
  <2>. HIDE DEF promo
  <2>. QED BY <1>1, <1>2, <1>5, <2>2, Repartition, SommeDeTermes
<1>7. ASSUME NEW o \in Propositions
      PROVE  SommeDe([s \in Segments |-> d[s].votes[o]], Segments) = Pour(Nominatifs, o)
  <2>. DEFINE N == {b \in Nominatifs : o \in b.choix}
  <2>1. IsFiniteSet(N) /\ \A b \in N : promo[b] \in Segments
    BY <1>1, <1>5, FS_Subset
  <2>2. \A s \in Segments : {b \in Segment(s) : o \in b.choix} = {b \in N : promo[b] = s}
    BY DEF Segment
  <2>3. [s \in Segments |-> d[s].votes[o]] = [s \in Segments |-> Cardinality({b \in N : promo[b] = s})]
    <3>1. \A s \in Segments : d[s].votes[o] = Cardinality({b \in Segment(s) : o \in b.choix})
      BY <1>4, <1>7 DEF Pour
    <3>. QED BY <2>2, <3>1
  <2>4. Pour(Nominatifs, o) = Cardinality(N)
    BY DEF Pour
  <2>. HIDE DEF promo, N
  <2>5. Somme([s \in Segments |-> d[s].votes[o]], Segments) = Cardinality(N)
    BY <1>2, <2>1, <2>3, Repartition
  <2>6. SommeDe([s \in Segments |-> d[s].votes[o]], Segments)
          = Somme([s \in Segments |-> d[s].votes[o]], Segments)
    BY <1>2, SommeDeTermes
  <2>. QED BY <2>4, <2>5, <2>6
<1>8. ASSUME NEW o \in Propositions, NEW s \in Segments PROVE d[s].parts[o] <= 100
  <2>. DEFINE n == Cardinality(Segment(s))
              p == Pour(Segment(s), o)
  <2>1. n \in Nat /\ n > 0
    BY <1>3, FS_EmptySet
  <2>2. p \in Nat /\ p <= n
    BY <1>3, FS_Subset, FS_CardinalityType DEF Pour
  <2>3. d[s].parts[o] = (2 * 100 * p + n) \div (2 * n)
    <3>1. d[s].parts[o] = [x \in Propositions |->
             (2 * 100 * Pour(Segment(s), x) + Cardinality(Segment(s)))
               \div (2 * Cardinality(Segment(s)))][o]
      BY <1>4
    <3>. QED BY <3>1, <1>8
  <2>. HIDE DEF n, p
  <2>. QED BY <2>1, <2>2, <2>3, PartBornee
<1>9. ASSUME ~sondage.multiple, NEW s \in Segments
      PROVE  SommeDe(d[s].votes, Propositions) = d[s].votants
  <2>. DEFINE seul == [b \in Segment(s) |-> CHOOSE o \in Propositions : o \in b.choix]
  <2>1. ASSUME NEW b \in Segment(s)
        PROVE  seul[b] \in Propositions /\ \A o \in Propositions : o \in b.choix <=> seul[b] = o
    <3>1. b.choix \in SUBSET Propositions /\ Cardinality(b.choix) = 1
      BY <1>1, <1>3, <1>9, <2>1 DEF Decomptes
    <3>2. IsFiniteSet(b.choix)
      BY <3>1, SondageAssumption, FS_Subset
    <3>3. PICK o \in b.choix : b.choix = {o}
      BY <3>1, <3>2, FS_Singleton
    <3>. QED BY <2>1, <3>1, <3>3
  <2>2. \A o \in Propositions : {b \in Segment(s) : o \in b.choix} = {b \in Segment(s) : seul[b] = o}
    BY <2>1
  <2>3. d[s].votes = [o \in Propositions |-> Cardinality({b \in Segment(s) : seul[b] = o})]
    BY <1>4, <1>9, <2>2 DEF Pour
  <2>. HIDE DEF seul
  <2>4. Somme(d[s].votes, Propositions) = Cardinality(Segment(s))
    BY <1>3, <1>9, <2>1, <2>3, SondageAssumption, Repartition
  <2>5. SommeDe(d[s].votes, Propositions) = Somme(d[s].votes, Propositions)
    BY SondageAssumption, SommeDeTermes
  <2>. QED BY <1>4, <1>9, <2>4, <2>5
<1>. QED BY <1>6, <1>7, <1>8, <1>9 DEF RepartitionJuste, d

\* For any voters, options, requests of the office and editions: the counters count the
\* ballots, a person votes once and an anonymous ballot says nothing of whose it is,
\* a closing holds, counts are seen by nobody who still votes, an opening
\* invites once, and the count by promotion loses nobody, outside the crossings of
\* two requests of the office the history marks.
THEOREM ScrutinToujoursJuste == SpecSondage => []ScrutinJuste
<1>1. InitSondage => IInvSondage
  BY DepartSondage
<1>2. IInvSondage /\ [NextSondage]_varsSondage => IInvSondage'
  <2>. SUFFICES ASSUME IInvSondage, [NextSondage]_varsSondage PROVE IInvSondage'
    OBVIOUS
  <2>1. CASE UNCHANGED varsSondage
    <3>1. /\ Exprimes' = Exprimes /\ EnIsoloir' = EnIsoloir /\ Nominatifs' = Nominatifs
          /\ UNCHANGED <<sondage, voix, urne, emargement, inscrits, isoloirs, bureaux, retires,
                         fige, avertis, invitations, editions, ecrase>>
      BY <2>1 DEF varsSondage, Exprimes, EnIsoloir, Nominatifs
    <3>. QED BY <3>1 DEF IInvSondage, TypeSondage, Vierge, Decomptes, Emarges, Isoles, Cloture,
                         Influence, Ouverture, Existant, Pour
  <2>. QED BY <2>1, CreationTenue, LectureTenue, RetoucheTenue, ActivationTenue, SuppressionTenue,
              FinTenue, ConsultationTenue, IsolementTenu, VoteTenu, DepartDeCompteTenu
           DEF NextSondage
<1>3. IInvSondage => ScrutinJuste
  <2>. SUFFICES ASSUME IInvSondage PROVE ScrutinJuste
    OBVIOUS
  <2>0. TypeSondage /\ Vierge /\ Decomptes /\ Emarges /\ Isoles /\ Cloture /\ Influence /\ Ouverture
    BY DEF IInvSondage
  <2>1. DecomptesJustes
    BY <2>0 DEF Decomptes, DecomptesJustes, Exprimes
  <2>2. UneVoixParPersonne
    BY <2>0 DEF Emarges, Isoles, UneVoixParPersonne
  <2>3. ClotureTenue
    <3>1. ASSUME fige.clos, ~ecrase
          PROVE  sondage.total <= fige.total + Cardinality(fige.votants)
      <4>1. /\ IsFiniteSet(fige.votants) /\ fige.votants \ EnIsoloir \subseteq fige.votants
            /\ fige.total \in Nat /\ sondage.total \in Nat
        BY <2>0, SondageAssumption, FS_Subset DEF TypeSondage, Scrutin
      <4>2. /\ Cardinality(fige.votants \ EnIsoloir) <= Cardinality(fige.votants)
            /\ Cardinality(fige.votants \ EnIsoloir) \in Nat /\ Cardinality(fige.votants) \in Nat
        BY <4>1, FS_Subset, FS_CardinalityType
      <4>. QED BY <2>0, <3>1, <4>1, <4>2 DEF Cloture
    <3>. QED BY <2>0, <3>1 DEF Cloture, ClotureTenue
  <2>4. VoteSansInfluence
    BY <2>0 DEF Influence, VoteSansInfluence
  <2>5. OuvertUneFois
    BY <2>0 DEF Ouverture, OuvertUneFois
  <2>6. RepartitionJuste
    BY <2>0, RepartitionTenue
  <2>. QED BY <2>1, <2>2, <2>3, <2>4, <2>5, <2>6 DEF ScrutinJuste
<1>. QED BY <1>1, <1>2, <1>3, PTL DEF SpecSondage

------------------------------------------------------------------------------
(* Notifications: any accounts, reminders, passes, requests and failures.  *)

Reglage == [existe : BOOLEAN, email : BOOLEAN, push : BOOLEAN]

DeSaisie == [pc : {"ecrire"}, pour : Destinataires, canal : Canaux, valeur : BOOLEAN, creer : BOOLEAN]

Passage == [pc : {"repos", "marquer", "inscrire", "diffuser"}, dus : SUBSET Rappels,
            verifies : SUBSET Destinataires]

UneDiffusion == [pc : {"attente", "inscrire", "reglages", "arriere", "finie", "echouee"},
                 verifies : BOOLEAN, reste : SUBSET Destinataires, pour : SUBSET Destinataires,
                 coupes : SUBSET Destinataires]

TypeNotifications ==
  /\ gens \in [Destinataires -> Etats] /\ reglages \in [Destinataires -> Reglage]
  /\ saisies \in [Saisies -> {SansSaisie} \cup DeSaisie]
  /\ avis \in [Cles -> {"rien", "non_lu", "lu", "ote", "purge"}]
  /\ emails \subseteq Cles
  /\ echus \in 0 .. NbRappels /\ envoyes \subseteq 1 .. echus
  /\ passages \in [Passages -> Passage]
  /\ diffusion \in UneDiffusion
  /\ voulu \in [Destinataires -> [email : BOOLEAN, push : BOOLEAN]]
  /\ fermes \in [Emetteurs -> SUBSET Destinataires]
  /\ croises \subseteq Rappels /\ perdus \subseteq Rappels

\* Somebody is told of r by pass k.
Cle(r, k) == <<r, k, Rappele[r]>>
Annonce(r, k) == avis[Cle(r, k)] # "rien"
Charge(r, k) == r \in passages[k].dus
EnMain(r, k) == Charge(r, k) /\ passages[k].pc \in {"inscrire", "diffuser"}

\* Those before r are marked too, will be with it, or their account is gone.
DansLOrdre(r, S) == \A q \in 1 .. r : q \in S \/ ~Existe(Rappele[q])

RappelSuivi(r) ==
  /\ \A k \in Passages : Annonce(r, k) => r \in envoyes
  /\ r \notin croises =>
       \A j, k \in Passages : (Annonce(r, j) \/ Charge(r, j)) /\ (Annonce(r, k) \/ Charge(r, k)) => j = k
  /\ r \in envoyes => \/ r \in perdus
                      \/ \E k \in Passages : Annonce(r, k) \/ EnMain(r, k)
  /\ r \in envoyes => DansLOrdre(r, envoyes)

PassageTenu(k) ==
  LET p == passages[k]
  IN  /\ p.pc = "repos" <=> p.dus = {}
      /\ p.dus \subseteq 1 .. echus
      /\ p.pc \in {"inscrire", "diffuser"} => p.dus \subseteq envoyes
      /\ p.pc = "marquer" => \A r \in p.dus : DansLOrdre(r, p.dus \cup envoyes)
      /\ p.pc = "diffuser" => Annonce(Traite(k), k)
      /\ \A q \in p.verifies : gens[q] # "non_verifie"

\* A diffusion has written the notifications it is about to send.
DiffusionTenue ==
  LET d == diffusion
      ecrits == {p \in Destinataires : avis[<<Diffusion, Diffusion, p>>] # "rien"}
  IN  /\ d.reste \subseteq d.pour
      /\ d.pc = "attente" => d.pour = {}
      /\ d.pc = "inscrire" => d.pour \ d.reste \subseteq ecrits
      /\ d.pc \in {"reglages", "arriere"} => d.pour \subseteq ecrits
      /\ d.pc = "arriere" => fermes[Diffusion] \cap d.pour \subseteq d.coupes
      /\ d.verifies => \A p \in d.pour : gens[p] # "non_verifie"

EmailsTenus ==
  \A c \in emails :
    /\ avis[c] # "rien"
    /\ IF c[1] = Diffusion THEN c[3] \in diffusion.pour ELSE gens[c[3]] # "non_verifie"

ReglagesTenus ==
  /\ ReglagesRespectes
  /\ \A p \in Destinataires : ~reglages[p].existe => reglages[p] = SansLigne
  /\ \A e \in Emetteurs : \A p \in fermes[e] : ~voulu[p].email

IInvNotifications ==
  /\ TypeNotifications
  /\ \A r \in Rappels : RappelSuivi(r)
  /\ \A k \in Passages : PassageTenu(k)
  /\ DiffusionTenue /\ EmailsTenus /\ ReglagesTenus

------------------------------------------------------------------------------

LEMMA DepartNotifications == ASSUME InitNotifications PROVE IInvNotifications
<1>. USE DEF InitNotifications
<1>1. TypeNotifications
  BY NotificationsAssumption
     DEF TypeNotifications, Etats, Reglage, SansLigne, SansSaisie, Passage, SansPassage, UneDiffusion,
         SansDiffusion, Ouverts, Canaux, Rappels
<1>2. ASSUME NEW r \in Rappels PROVE RappelSuivi(r)
  <2>1. \A k \in Passages : Cle(r, k) \in Cles
    BY DEF Cle, Cles
  <2>. QED BY <2>1 DEF RappelSuivi, Annonce, Charge, EnMain, SansPassage
<1>3. ASSUME NEW k \in Passages PROVE PassageTenu(k)
  BY DEF PassageTenu, SansPassage
<1>4. DiffusionTenue /\ EmailsTenus
  BY DEF DiffusionTenue, EmailsTenus, SansDiffusion
<1>5. ReglagesTenus
  BY DEF ReglagesTenus, ReglagesRespectes, SansLigne, Ouverts, Canaux
<1>. QED BY <1>1, <1>2, <1>3, <1>4, <1>5 DEF IInvNotifications

\* The keys of the announcements.
LEMMA ClesConnues ==
  /\ \A r \in Rappels, k \in Passages :
       /\ Cle(r, k) \in Cles /\ Cle(r, k)[1] = r /\ Cle(r, k)[2] = k /\ Cle(r, k)[3] = Rappele[r]
       /\ Rappele[r] \in Destinataires
  /\ \A p \in Destinataires : <<Diffusion, Diffusion, p>> \in Cles
  /\ \A c \in Cles : c[3] \in Destinataires /\ c[2] \in Emetteurs
  /\ \A r \in Rappels : r # Diffusion
  /\ \A c \in Cles : c[1] = Diffusion => c = <<Diffusion, Diffusion, c[3]>>
  /\ \A c \in Cles : c[1] # Diffusion => c[1] \in Rappels
BY NotificationsAssumption DEF Cle, Cles, Rappels, Diffusion, Emetteurs

\* What a step that leaves the passes, the diffusion and the emails alone may do.
LEMMA GensTenus ==
  ASSUME IInvNotifications, TypeNotifications', ReglagesTenus',
         UNCHANGED <<emails, envoyes, passages, diffusion, croises, perdus>>,
         \A c \in Cles : avis'[c] = "rien" <=> avis[c] = "rien",
         \A p \in Destinataires : /\ gens[p] # "non_verifie" => gens'[p] # "non_verifie"
                                  /\ ~Existe(p) => ~Existe(p)',
         \A e \in Emetteurs : fermes'[e] \subseteq fermes[e],
         echus <= echus'
  PROVE  IInvNotifications'
<1>1. \A r \in Rappels, k \in Passages : (Annonce(r, k)' <=> Annonce(r, k)) /\ (Charge(r, k)' <=> Charge(r, k))
                                         /\ (EnMain(r, k)' <=> EnMain(r, k))
  BY ClesConnues DEF Annonce, Charge, EnMain, Cle
<1>2. \A r \in Rappels : \A q \in 1 .. r : q \in Rappels /\ (~Existe(Rappele[q]) => ~Existe(Rappele[q])')
  BY NotificationsAssumption DEF Rappels
<1>3. ASSUME NEW r \in Rappels PROVE RappelSuivi(r)'
  <2>1. RappelSuivi(r) BY DEF IInvNotifications
  <2>2. r \in envoyes => DansLOrdre(r, envoyes)'
    BY <1>2, <2>1 DEF DansLOrdre, RappelSuivi
  <2>. QED BY <1>1, <2>1, <2>2 DEF RappelSuivi
<1>4. ASSUME NEW k \in Passages PROVE PassageTenu(k)'
  <2>1. PassageTenu(k) BY DEF IInvNotifications
  <2>2. passages[k].dus \subseteq 1 .. echus' /\ passages[k].dus \subseteq Rappels
    BY <2>1, NotificationsAssumption DEF PassageTenu, IInvNotifications, TypeNotifications, Passage, Rappels
  <2>3. ASSUME NEW r \in passages[k].dus, passages[k].pc = "marquer"
        PROVE  DansLOrdre(r, passages[k].dus \cup envoyes)'
    BY <1>2, <2>1, <2>2, <2>3 DEF DansLOrdre, PassageTenu
  <2>4. passages[k].pc = "diffuser" => Annonce(Traite(k), k)'
    <3>1. SUFFICES ASSUME passages[k].pc = "diffuser" PROVE Annonce(Traite(k), k)'
      OBVIOUS
    <3>2. passages[k].dus # {} BY <2>1, <3>1 DEF PassageTenu
    <3>3. Traite(k) \in passages[k].dus
      BY <2>2, <3>2, PlusPetit DEF Traite, Rappels
    <3>4. Traite(k)' = Traite(k) BY DEF Traite
    <3>. QED BY <1>1, <2>1, <2>2, <3>1, <3>3, <3>4 DEF PassageTenu
  <2>5. \A q \in passages[k].verifies : gens'[q] # "non_verifie"
    BY <2>1 DEF PassageTenu, IInvNotifications, TypeNotifications, Passage
  <2>. QED BY <2>1, <2>2, <2>3, <2>4, <2>5 DEF PassageTenu
<1>5. DiffusionTenue'
  BY ClesConnues DEF DiffusionTenue, IInvNotifications, TypeNotifications, UneDiffusion, Emetteurs
<1>6. EmailsTenus'
  BY ClesConnues DEF EmailsTenus, IInvNotifications, TypeNotifications
<1>. QED BY <1>3, <1>4, <1>5, <1>6 DEF IInvNotifications

\* What GensTenus asks of a step that leaves the settings as well.
LEMMA ReglagesGardes ==
  ASSUME IInvNotifications, UNCHANGED <<reglages, voulu, fermes, forces>>
  PROVE  ReglagesTenus'
BY DEF ReglagesTenus, ReglagesRespectes, IInvNotifications

LEMMA LireReglageTient ==
  ASSUME IInvNotifications, NEW s \in Saisies, NEW p \in Destinataires, NEW canal \in Canaux,
         NEW v \in BOOLEAN, LireReglage(s, p, canal, v)
  PROVE  IInvNotifications'
<1>. USE DEF LireReglage
<1>1. TypeNotifications'
  <2>1. [pc |-> "ecrire", pour |-> p, canal |-> canal, valeur |-> v,
         creer |-> ~reglages[p].existe] \in DeSaisie
    BY DEF DeSaisie, IInvNotifications, TypeNotifications, Reglage
  <2>. QED BY <2>1 DEF IInvNotifications, TypeNotifications
<1>2. ReglagesTenus' BY ReglagesGardes
<1>3. echus <= echus' BY NotificationsAssumption DEF IInvNotifications, TypeNotifications
<1>. QED BY <1>1, <1>2, <1>3, GensTenus DEF Existe, IInvNotifications, TypeNotifications

\* The settings are those last accepted: an update finds the row, an insert none.
LEMMA EcrireReglageTient ==
  ASSUME IInvNotifications, NEW s \in Saisies, EcrireReglage(s)
  PROVE  IInvNotifications'
<1>. DEFINE d == saisies[s]
            ligne == [(IF d.creer THEN SansLigne ELSE reglages[d.pour])
                        EXCEPT !.existe = TRUE, ![d.canal] = d.valeur]
<1>0. UNCHANGED <<gens, avis, emails, echus, envoyes, passages, diffusion, gestes, pannes,
                  forces, croises, perdus>>
  BY DEF EcrireReglage
<1>1. d \in DeSaisie /\ saisies' = [saisies EXCEPT ![s] = SansSaisie]
  BY DEF EcrireReglage, IInvNotifications, TypeNotifications, SansSaisie, DeSaisie
<1>2. TypeNotifications
  BY DEF IInvNotifications
<1>3. echus <= echus' BY <1>0, <1>2, NotificationsAssumption DEF TypeNotifications
<1>4. CASE ~Acceptee(s)
  <2>1. UNCHANGED <<reglages, voulu, fermes>> BY <1>4 DEF EcrireReglage
  <2>2. ReglagesTenus' BY <1>0, <2>1, ReglagesGardes
  <2>3. TypeNotifications' BY <1>0, <1>1, <1>2, <2>1 DEF TypeNotifications
  <2>. QED BY <1>0, <1>2, <1>3, <2>1, <2>2, <2>3, GensTenus DEF Existe, TypeNotifications
<1>5. CASE Acceptee(s)
  <2>1. /\ d.pour \in Destinataires /\ d.canal \in Canaux /\ d.valeur \in BOOLEAN /\ d.creer \in BOOLEAN
        /\ reglages[d.pour].existe # d.creer
    BY <1>1, <1>5 DEF DeSaisie, Acceptee
  <2>2. /\ reglages' = [reglages EXCEPT ![d.pour] = ligne]
        /\ voulu' = [voulu EXCEPT ![d.pour][d.canal] = d.valeur]
        /\ fermes' = IF d.canal = "email" /\ d.valeur
                     THEN [e \in Emetteurs |-> fermes[e] \ {d.pour}] ELSE fermes
    BY <1>5, Zenon DEF EcrireReglage
  <2>3. /\ ReglagesTenus /\ reglages[d.pour] \in Reglage
        /\ voulu[d.pour] \in [email : BOOLEAN, push : BOOLEAN]
    BY <2>1 DEF IInvNotifications, TypeNotifications
  <2>4. d.creer => reglages[d.pour] = SansLigne
    BY <2>1, <2>3 DEF ReglagesTenus
  <2>5. ligne = [reglages[d.pour] EXCEPT !.existe = TRUE, ![d.canal] = d.valeur]
    BY <2>4
  <2>6. ligne \in Reglage /\ ligne.existe
    BY <2>1, <2>3, <2>5 DEF Reglage, Canaux
  <2>7. \A c \in Canaux : ligne[c] = IF c = d.canal THEN d.valeur ELSE voulu[d.pour][c]
    BY <2>1, <2>3, <2>5 DEF Reglage, Canaux, ReglagesTenus, ReglagesRespectes
  <2>8. \A c \in Canaux : voulu'[d.pour][c] = IF c = d.canal THEN d.valeur ELSE voulu[d.pour][c]
    BY <1>2, <2>1, <2>2, <2>3 DEF Canaux, TypeNotifications
  <2>9. voulu' \in [Destinataires -> [email : BOOLEAN, push : BOOLEAN]]
    BY <1>2, <2>1, <2>2, <2>3 DEF Canaux, TypeNotifications
  <2>10. /\ \A p \in Destinataires : p # d.pour => reglages'[p] = reglages[p] /\ voulu'[p] = voulu[p]
         /\ reglages'[d.pour] = ligne
    BY <1>2, <2>1, <2>2 DEF TypeNotifications
  <2>11. \A e \in Emetteurs : /\ fermes'[e] \subseteq fermes[e]
                              /\ d.pour \in fermes'[e] => ~(d.canal = "email" /\ d.valeur)
    BY <2>2
  <2>12. fermes' \in [Emetteurs -> SUBSET Destinataires]
    BY <1>2, <2>2 DEF TypeNotifications
  <2>13. reglages' \in [Destinataires -> Reglage]
    BY <1>2, <2>1, <2>2, <2>6 DEF TypeNotifications
  <2>14. TypeNotifications'
    BY <1>0, <1>1, <1>2, <2>9, <2>12, <2>13 DEF TypeNotifications
  <2>. HIDE DEF ligne
  <2>15. \A e \in Emetteurs : \A p \in fermes'[e] : ~voulu'[p].email
    <3>. SUFFICES ASSUME NEW e \in Emetteurs, NEW p \in fermes'[e] PROVE ~voulu'[p].email
      OBVIOUS
    <3>1. p \in Destinataires /\ ~voulu[p].email
      BY <1>2, <2>3, <2>11 DEF ReglagesTenus, TypeNotifications
    <3>2. CASE p # d.pour BY <2>10, <3>1, <3>2
    <3>3. CASE p = d.pour
      BY <2>1, <2>8, <2>11, <3>1, <3>3 DEF Canaux
    <3>. QED BY <3>2, <3>3
  <2>16. ReglagesTenus'
    <3>1. ASSUME NEW p \in Destinataires PROVE \A c \in Canaux : reglages'[p][c] = voulu'[p][c]
      BY <2>3, <2>7, <2>8, <2>10 DEF ReglagesTenus, ReglagesRespectes
    <3>2. \A p \in Destinataires : ~reglages'[p].existe => reglages'[p] = SansLigne
      BY <2>3, <2>6, <2>10 DEF ReglagesTenus
    <3>. QED BY <1>0, <2>3, <2>15, <3>1, <3>2 DEF ReglagesTenus, ReglagesRespectes
  <2>. QED BY <1>0, <1>3, <2>11, <2>14, <2>16, GensTenus DEF Existe
<1>. QED BY <1>4, <1>5

LEMMA EchoirRappelTient ==
  ASSUME IInvNotifications, EchoirRappel
  PROVE  IInvNotifications'
<1>. USE DEF EchoirRappel
<1>1. /\ TypeNotifications /\ echus <= echus' /\ echus' \in 0 .. NbRappels
      /\ 1 .. echus \subseteq 1 .. echus'
  BY NotificationsAssumption DEF IInvNotifications, TypeNotifications
<1>2. TypeNotifications' BY <1>1 DEF TypeNotifications
<1>3. ReglagesTenus' BY ReglagesGardes
<1>. QED BY <1>1, <1>2, <1>3, GensTenus DEF Existe, TypeNotifications

\* Reading, removing or purging what is on the platform.
LEMMA DeposerTient ==
  ASSUME IInvNotifications, NEW a \in [Cles -> {"rien", "non_lu", "lu", "ote", "purge"}], Deposer(a),
         \A c \in Cles : a[c] = "rien" <=> avis[c] = "rien"
  PROVE  IInvNotifications'
<1>. USE DEF Deposer
<1>1. TypeNotifications /\ echus <= echus'
  BY NotificationsAssumption DEF IInvNotifications, TypeNotifications
<1>2. TypeNotifications' BY <1>1 DEF TypeNotifications
<1>3. ReglagesTenus' BY ReglagesGardes
<1>. QED BY <1>1, <1>2, <1>3, GensTenus DEF Existe, TypeNotifications

LEMMA MarquerLuTient ==
  ASSUME IInvNotifications, NEW c \in Cles, MarquerLu(c) \/ SupprimerAvis(c)
  PROVE  IInvNotifications'
<1>. PICK etat \in {"lu", "ote"} : Present(c) /\ Deposer([avis EXCEPT ![c] = etat])
  BY DEF MarquerLu, SupprimerAvis
<1>. DEFINE a == [avis EXCEPT ![c] = etat]
<1>1. /\ a \in [Cles -> {"rien", "non_lu", "lu", "ote", "purge"}]
      /\ \A b \in Cles : a[b] = "rien" <=> avis[b] = "rien"
  BY DEF Present, IInvNotifications, TypeNotifications
<1>. QED BY <1>1, DeposerTient

LEMMA MarquerToutLuTient ==
  ASSUME IInvNotifications, NEW p \in Destinataires, MarquerToutLu(p)
  PROVE  IInvNotifications'
<1>. DEFINE a == [c \in Cles |-> IF c[3] = p /\ Present(c) THEN "lu" ELSE avis[c]]
<1>1. /\ a \in [Cles -> {"rien", "non_lu", "lu", "ote", "purge"}]
      /\ \A b \in Cles : a[b] = "rien" <=> avis[b] = "rien"
  BY DEF Present, IInvNotifications, TypeNotifications
<1>2. Deposer(a) BY DEF MarquerToutLu
<1>. QED BY <1>1, <1>2, DeposerTient

LEMMA PurgerAnciennesTient ==
  ASSUME IInvNotifications, NEW anciennes \in SUBSET Annonces, PurgerAnciennes(anciennes)
  PROVE  IInvNotifications'
<1>. DEFINE a == [c \in Cles |-> IF c[1] \in anciennes /\ avis[c] = "lu" THEN "purge" ELSE avis[c]]
<1>1. /\ a \in [Cles -> {"rien", "non_lu", "lu", "ote", "purge"}]
      /\ \A b \in Cles : a[b] = "rien" <=> avis[b] = "rien"
  BY DEF IInvNotifications, TypeNotifications
<1>2. Deposer(a) BY DEF PurgerAnciennes
<1>. QED BY <1>1, <1>2, DeposerTient

LEMMA ChangerTient ==
  ASSUME IInvNotifications, NEW p \in Destinataires, Verifier(p) \/ Suspendre(p)
  PROVE  IInvNotifications'
<1>1. PICK etat \in {"verifie", "inactif"} :
        /\ gens[p] # "supprime" /\ Changer(p, etat) /\ UNCHANGED <<avis, reglages, voulu, fermes>>
  BY DEF Verifier, Suspendre
<1>2. TypeNotifications /\ echus <= echus'
  BY <1>1, NotificationsAssumption DEF IInvNotifications, TypeNotifications, Changer
<1>3. TypeNotifications' BY <1>1, <1>2 DEF TypeNotifications, Changer, Etats
<1>4. ReglagesTenus' BY <1>1, ReglagesGardes DEF Changer
<1>. QED BY <1>1, <1>2, <1>3, <1>4, GensTenus DEF Existe, TypeNotifications, Changer

LEMMA SupprimerTient ==
  ASSUME IInvNotifications, NEW p \in Destinataires, Supprimer(p)
  PROVE  IInvNotifications'
<1>. USE DEF Supprimer, Changer
<1>1. TypeNotifications /\ echus <= echus' /\ ReglagesTenus
  BY NotificationsAssumption DEF IInvNotifications, TypeNotifications
<1>2. /\ avis' \in [Cles -> {"rien", "non_lu", "lu", "ote", "purge"}]
      /\ \A b \in Cles : avis'[b] = "rien" <=> avis[b] = "rien"
  BY <1>1 DEF TypeNotifications, Present
<1>3. /\ SansLigne \in Reglage /\ Ouverts \in [email : BOOLEAN, push : BOOLEAN]
      /\ \A c \in Canaux : SansLigne[c] = Ouverts[c]
  BY DEF Reglage, SansLigne, Ouverts, Canaux
<1>4. TypeNotifications'
  BY <1>1, <1>2, <1>3 DEF TypeNotifications, Etats
<1>5. /\ \A q \in Destinataires : q # p => reglages'[q] = reglages[q] /\ voulu'[q] = voulu[q]
      /\ reglages'[p] = SansLigne /\ voulu'[p] = Ouverts
      /\ \A e \in Emetteurs : fermes'[e] = fermes[e] \ {p}
  BY <1>1 DEF TypeNotifications
<1>6. ReglagesTenus'
  BY <1>1, <1>3, <1>5 DEF ReglagesTenus, ReglagesRespectes, TypeNotifications
<1>. QED BY <1>1, <1>2, <1>4, <1>5, <1>6, GensTenus DEF Existe, TypeNotifications

\* What a step of a pass leaves of the rest.
LEMMA ResteGarde ==
  ASSUME IInvNotifications, UNCHANGED <<gens, diffusion>>, fermes'[Diffusion] = fermes[Diffusion],
         \A c \in Cles : avis[c] # "rien" => avis'[c] # "rien"
  PROVE  DiffusionTenue' /\ (UNCHANGED emails => EmailsTenus')
<1>1. DiffusionTenue'
  BY ClesConnues DEF DiffusionTenue, IInvNotifications, TypeNotifications, UneDiffusion
<1>2. UNCHANGED emails => EmailsTenus'
  BY DEF EmailsTenus, IInvNotifications, TypeNotifications
<1>. QED BY <1>1, <1>2

\* The reminder a pass is at.
LEMMA TraiteConnu ==
  ASSUME IInvNotifications, NEW k \in Passages, passages[k].pc \in {"inscrire", "diffuser"}
  PROVE  /\ Traite(k) \in passages[k].dus /\ Traite(k) \in Rappels /\ Traite(k) \in envoyes
         /\ CleDe(k) = Cle(Traite(k), k) /\ EnMain(Traite(k), k)
<1>1. /\ passages[k].dus # {} /\ passages[k].dus \subseteq Rappels
      /\ passages[k].dus \subseteq envoyes
  BY DEF IInvNotifications, PassageTenu, TypeNotifications, Passage
<1>2. Traite(k) \in passages[k].dus
  BY <1>1, PlusPetit DEF Traite, Rappels
<1>. QED BY <1>1, <1>2 DEF CleDe, Cle, EnMain, Charge

\* What a pass reads: reminders that are due, none before an older one.
LEMMA DusLus ==
  ASSUME IInvNotifications
  PROVE  /\ Dus \subseteq 1 .. echus \ envoyes /\ Dus \subseteq Rappels
         /\ \A r \in Dus : DansLOrdre(r, Dus \cup envoyes)
<1>. DEFINE restants == {r \in 1 .. echus \ envoyes : Existe(Rappele[r])}
            avant(q) == {x \in restants : x < q}
<1>1. echus \in Nat /\ NbRappels \in Nat /\ echus <= NbRappels
  BY NotificationsAssumption DEF IInvNotifications, TypeNotifications
<1>2. Dus = {r \in restants : Cardinality(avant(r)) < PAR_PASSAGE}
  BY DEF Dus
<1>3. Dus \subseteq 1 .. echus \ envoyes /\ Dus \subseteq Rappels
  BY <1>1, <1>2 DEF Rappels
<1>4. ASSUME NEW r \in Dus, NEW q \in 1 .. r, q \notin envoyes, Existe(Rappele[q])
      PROVE  q \in Dus
  <2>1. q \in restants /\ r \in 1 .. echus
    BY <1>1, <1>3, <1>4
  <2>2. avant(q) \subseteq avant(r)
    BY <1>1, <2>1
  <2>3. IsFiniteSet(avant(r))
    <3>1. IsFiniteSet(1 .. echus) BY <1>1, FS_Interval
    <3>. QED BY <3>1, FS_Subset
  <2>4. /\ Cardinality(avant(q)) <= Cardinality(avant(r))
        /\ Cardinality(avant(r)) \in Nat /\ Cardinality(avant(q)) \in Nat
    BY <2>2, <2>3, FS_Subset, FS_CardinalityType
  <2>5. Cardinality(avant(r)) < PAR_PASSAGE
    BY <1>2
  <2>6. PAR_PASSAGE \in Nat BY NotificationsAssumption
  <2>. HIDE DEF avant
  <2>7. Cardinality(avant(q)) < PAR_PASSAGE BY <2>4, <2>5, <2>6
  <2>. QED BY <1>2, <2>1, <2>7
<1>5. ASSUME NEW r \in Dus PROVE DansLOrdre(r, Dus \cup envoyes)
  BY <1>4 DEF DansLOrdre
<1>. QED BY <1>3, <1>5

LEMMA LireDusTient ==
  ASSUME IInvNotifications, NEW k \in Passages, LireDus(k)
  PROVE  IInvNotifications'
<1>. DEFINE vus == {p \in Destinataires : gens[p] # "non_verifie"}
            lu == [pc |-> "marquer", dus |-> Dus, verifies |-> vus]
<1>1. /\ passages[k].pc = "repos" /\ Dus # {} /\ passages' = [passages EXCEPT ![k] = lu]
      /\ croises' = croises \cup UNION {passages[j].dus \cap Dus :
                                          j \in {i \in Passages : passages[i].pc = "marquer"}}
      /\ fermes' = [fermes EXCEPT ![k] = Muets]
      /\ UNCHANGED <<gens, reglages, saisies, avis, emails, echus, envoyes, diffusion, gestes,
                     pannes, voulu, forces, perdus>>
  BY DEF LireDus, Commence
<1>2. TypeNotifications /\ Dus \subseteq 1 .. echus \ envoyes /\ Dus \subseteq Rappels
  BY DusLus DEF IInvNotifications
<1>3. lu \in Passage
  BY <1>2 DEF Passage
<1>4. passages' \in [Passages -> Passage] /\ passages'[k] = lu
      /\ \A j \in Passages : j # k => passages'[j] = passages[j]
  BY <1>1, <1>2, <1>3 DEF TypeNotifications
<1>5. TypeNotifications'
  <2>1. croises' \subseteq Rappels BY <1>1, <1>2 DEF TypeNotifications
  <2>2. fermes' \in [Emetteurs -> SUBSET Destinataires]
    BY <1>1, <1>2 DEF TypeNotifications, Muets, Emetteurs
  <2>. QED BY <1>1, <1>2, <1>4, <2>1, <2>2 DEF TypeNotifications
<1>6. \A r \in Rappels, j \in Passages :
        /\ Annonce(r, j)' <=> Annonce(r, j)
        /\ EnMain(r, j)' <=> EnMain(r, j)
        /\ Charge(r, j)' <=> IF j = k THEN r \in Dus ELSE Charge(r, j)
  BY <1>1, <1>4 DEF Annonce, EnMain, Charge, Cle
<1>7. ASSUME NEW r \in Rappels PROVE RappelSuivi(r)'
  <2>1. RappelSuivi(r) BY DEF IInvNotifications
  <2>2. ASSUME r \in envoyes PROVE DansLOrdre(r, envoyes)'
    BY <1>1, <2>1, <2>2 DEF RappelSuivi, DansLOrdre, Existe
  <2>3. ASSUME r \notin croises', r \in Dus, NEW j \in Passages, j # k
        PROVE  ~Annonce(r, j) /\ ~Charge(r, j) /\ ~Annonce(r, k)
    <3>1. ~Annonce(r, j) /\ ~Annonce(r, k) BY <1>2, <2>1, <2>3 DEF RappelSuivi
    <3>2. passages[j].pc = "marquer" => ~Charge(r, j)
      BY <1>1, <2>3 DEF Charge
    <3>3. passages[j].pc # "marquer" => ~Charge(r, j)
      BY <1>2, <2>3 DEF Charge, IInvNotifications, PassageTenu, TypeNotifications, Passage
    <3>. QED BY <3>1, <3>2, <3>3
  <2>4. r \notin croises' /\ r \notin Dus => r \notin croises
    BY <1>1
  <2>5. r \notin croises' => r \notin croises
    BY <1>1
  <2>6. ~Charge(r, k)
    BY <1>1 DEF Charge, IInvNotifications, PassageTenu
  <2>7. r \notin croises' =>
          \A j, l \in Passages :
            (Annonce(r, j)' \/ Charge(r, j)') /\ (Annonce(r, l)' \/ Charge(r, l)') => j = l
    BY <1>6, <2>1, <2>3, <2>5 DEF RappelSuivi
  <2>. QED BY <1>1, <1>6, <2>1, <2>2, <2>7 DEF RappelSuivi
<1>8. ASSUME NEW j \in Passages PROVE PassageTenu(j)'
  <2>1. PassageTenu(j) BY DEF IInvNotifications
  <2>2. CASE j = k
    <3>1. \A r \in Dus : \A q \in 1 .. r : q \in Dus \cup envoyes \/ gens[Rappele[q]] = "supprime"
      BY DusLus DEF DansLOrdre, Existe
    <3>2. \A r \in lu.dus : \A q \in 1 .. r : q \in lu.dus \cup envoyes' \/ gens'[Rappele[q]] = "supprime"
      BY <1>1, <3>1
    <3>3. PassageTenu(k)' <=>
            /\ lu.dus \subseteq 1 .. echus'
            /\ \A r \in lu.dus : DansLOrdre(r, passages[k].dus \cup envoyes)'
            /\ \A q \in lu.verifies : gens'[q] # "non_verifie"
      BY <1>1, <1>4 DEF PassageTenu
    <3>4. \A r \in lu.dus : DansLOrdre(r, passages[k].dus \cup envoyes)'
      BY <1>4, <3>2 DEF DansLOrdre, Existe
    <3>. QED BY <1>1, <1>2, <2>2, <3>3, <3>4
  <2>3. CASE j # k
    <3>1. Traite(j)' = Traite(j) BY <1>4, <2>3 DEF Traite
    <3>2. \A r \in passages[j].dus : DansLOrdre(r, passages[j].dus \cup envoyes)
                                        => DansLOrdre(r, passages[j].dus \cup envoyes)'
      BY <1>1, <1>4, <2>3 DEF DansLOrdre, Existe
    <3>. QED BY <1>1, <1>4, <2>1, <2>3, <3>1, <3>2 DEF PassageTenu, Annonce, Cle
  <2>. QED BY <2>2, <2>3
<1>9. DiffusionTenue' /\ EmailsTenus'
  <2>1. fermes'[Diffusion] = fermes[Diffusion]
    BY <1>1, <1>2, EmetteursAssumption DEF TypeNotifications, Emetteurs
  <2>. QED BY <1>1, <2>1, ResteGarde
<1>10. ReglagesTenus'
  <2>1. \A e \in Emetteurs : fermes'[e] = IF e = k THEN Muets ELSE fermes[e]
    BY <1>1, <1>2 DEF TypeNotifications
  <2>. QED BY <1>1, <2>1 DEF IInvNotifications, ReglagesTenus, ReglagesRespectes, Muets
<1>. QED BY <1>5, <1>7, <1>8, <1>9, <1>10 DEF IInvNotifications

LEMMA MarquerTient ==
  ASSUME IInvNotifications, NEW k \in Passages, Marquer(k)
  PROVE  IInvNotifications'
<1>. DEFINE dus == passages[k].dus
<1>1. /\ passages[k].pc = "marquer" /\ envoyes' = envoyes \cup dus
      /\ passages' = [passages EXCEPT ![k].pc = "inscrire"]
      /\ UNCHANGED <<gens, reglages, saisies, avis, emails, echus, diffusion, gestes, pannes,
                     voulu, fermes, forces, croises, perdus>>
  BY DEF Marquer
<1>2. TypeNotifications /\ PassageTenu(k) /\ dus \subseteq 1 .. echus /\ dus \subseteq Rappels
  BY DEF IInvNotifications, PassageTenu, TypeNotifications, Passage
<1>3. /\ passages' \in [Passages -> Passage]
      /\ passages'[k].pc = "inscrire" /\ passages'[k].dus = dus
      /\ passages'[k].verifies = passages[k].verifies
      /\ \A j \in Passages : j # k => passages'[j] = passages[j]
  BY <1>1, <1>2 DEF TypeNotifications, Passage
<1>4. TypeNotifications' BY <1>1, <1>2, <1>3 DEF TypeNotifications
<1>5. \A r \in Rappels, j \in Passages :
        /\ Annonce(r, j)' <=> Annonce(r, j)
        /\ EnMain(r, j) => EnMain(r, j)'
        /\ Charge(r, j)' <=> Charge(r, j)
  BY <1>1, <1>3 DEF Annonce, EnMain, Charge, Cle
<1>6. ASSUME NEW r \in Rappels PROVE RappelSuivi(r)'
  <2>1. RappelSuivi(r) BY DEF IInvNotifications
  <2>2. r \in dus => EnMain(r, k)' BY <1>3 DEF EnMain, Charge
  <2>3. ASSUME r \in envoyes' PROVE DansLOrdre(r, envoyes)'
    <3>1. CASE r \in dus
      <4>1. DansLOrdre(r, dus \cup envoyes) BY <1>1, <1>2, <3>1 DEF PassageTenu
      <4>. QED BY <1>1, <4>1 DEF DansLOrdre, Existe
    <3>2. CASE r \in envoyes
      <4>1. DansLOrdre(r, envoyes) BY <2>1, <3>2 DEF RappelSuivi
      <4>. QED BY <1>1, <4>1 DEF DansLOrdre, Existe
    <3>. QED BY <1>1, <2>3, <3>1, <3>2
  <2>4. r \in envoyes' => \/ r \in perdus'
                          \/ \E j \in Passages : Annonce(r, j)' \/ EnMain(r, j)'
    BY <1>1, <1>5, <2>1, <2>2 DEF RappelSuivi
  <2>. QED BY <1>1, <1>5, <2>1, <2>3, <2>4 DEF RappelSuivi
<1>7. ASSUME NEW j \in Passages PROVE PassageTenu(j)'
  <2>1. PassageTenu(j) BY DEF IInvNotifications
  <2>2. CASE j = k
    BY <1>1, <1>2, <1>3, <2>2 DEF PassageTenu
  <2>3. CASE j # k
    <3>1. Traite(j)' = Traite(j) BY <1>3, <2>3 DEF Traite
    <3>2. \A r \in Rappels : DansLOrdre(r, passages[j].dus \cup envoyes)
                                => DansLOrdre(r, passages[j].dus \cup envoyes)'
      BY <1>1, <1>3, <2>3 DEF DansLOrdre, Existe
    <3>3. passages[j].dus \subseteq Rappels BY <1>2 DEF TypeNotifications, Passage
    <3>. QED BY <1>1, <1>3, <2>1, <2>3, <3>1, <3>2, <3>3 DEF PassageTenu, Annonce, Cle
  <2>. QED BY <2>2, <2>3
<1>8. DiffusionTenue' /\ EmailsTenus' BY <1>1, ResteGarde
<1>9. ReglagesTenus' BY <1>1, ReglagesGardes
<1>. QED BY <1>4, <1>6, <1>7, <1>8, <1>9 DEF IInvNotifications

LEMMA MarquerEchoueTient ==
  ASSUME IInvNotifications, NEW k \in Passages, MarquerEchoue(k)
  PROVE  IInvNotifications'
<1>1. /\ passages[k].pc = "marquer" /\ passages' = [passages EXCEPT ![k] = SansPassage]
      /\ UNCHANGED <<gens, reglages, saisies, avis, emails, echus, envoyes, diffusion, gestes,
                     voulu, fermes, forces, croises, perdus>>
  BY DEF MarquerEchoue
<1>2. TypeNotifications
  BY DEF IInvNotifications
<1>3. /\ passages' \in [Passages -> Passage] /\ passages'[k] = SansPassage
      /\ \A j \in Passages : j # k => passages'[j] = passages[j]
  BY <1>1, <1>2 DEF TypeNotifications, Passage, SansPassage
<1>4. TypeNotifications' BY <1>1, <1>2, <1>3 DEF TypeNotifications
<1>5. \A r \in Rappels, j \in Passages :
        /\ Annonce(r, j)' <=> Annonce(r, j)
        /\ EnMain(r, j) => EnMain(r, j)'
        /\ Charge(r, j)' => Charge(r, j)
  BY <1>1, <1>3 DEF Annonce, EnMain, Charge, Cle, SansPassage
<1>6. ASSUME NEW r \in Rappels PROVE RappelSuivi(r)'
  <2>1. RappelSuivi(r) BY DEF IInvNotifications
  <2>. QED BY <1>1, <1>5, <2>1 DEF RappelSuivi, DansLOrdre, Existe
<1>7. ASSUME NEW j \in Passages PROVE PassageTenu(j)'
  <2>1. PassageTenu(j) BY DEF IInvNotifications
  <2>2. CASE j = k BY <1>3, <2>2 DEF PassageTenu, SansPassage
  <2>3. CASE j # k
    <3>1. Traite(j)' = Traite(j) BY <1>3, <2>3 DEF Traite
    <3>. QED BY <1>1, <1>3, <2>1, <2>3, <3>1 DEF PassageTenu, Annonce, Cle, DansLOrdre, Existe
  <2>. QED BY <2>2, <2>3
<1>8. DiffusionTenue' /\ EmailsTenus' BY <1>1, ResteGarde
<1>9. ReglagesTenus' BY <1>1, ReglagesGardes
<1>. QED BY <1>4, <1>6, <1>7, <1>8, <1>9 DEF IInvNotifications

\* A pass leaves the reminder it is at for the next one.
LEMMA AvancerFait ==
  ASSUME IInvNotifications, NEW k \in Passages, passages[k].pc \in {"inscrire", "diffuser"},
         Avancer(k), UNCHANGED <<gens, echus, envoyes>>
  PROVE  /\ passages' \in [Passages -> Passage]
         /\ \A j \in Passages : j # k => passages'[j] = passages[j]
         /\ \A r \in Rappels, j \in Passages :
              /\ Charge(r, j)' <=> Charge(r, j) /\ (j # k \/ r # Traite(k))
              /\ EnMain(r, j)' <=> EnMain(r, j) /\ (j # k \/ r # Traite(k))
         /\ PassageTenu(k)'
<1>. DEFINE reste == passages[k].dus \ {Traite(k)}
            suite == IF reste = {} THEN SansPassage
                     ELSE [passages[k] EXCEPT !.pc = "inscrire", !.dus = reste]
<1>1. TypeNotifications /\ PassageTenu(k) BY DEF IInvNotifications
<1>2. passages' = [passages EXCEPT ![k] = suite] BY DEF Avancer
<1>3. passages[k] \in Passage /\ suite \in Passage /\ suite.dus = reste
      /\ suite.verifies \subseteq passages[k].verifies
      /\ (suite.pc = "repos" <=> reste = {})
      /\ (reste # {} => suite.pc = "inscrire")
  BY <1>1 DEF TypeNotifications, Passage, SansPassage
<1>4. /\ passages' \in [Passages -> Passage] /\ passages'[k] = suite
      /\ \A j \in Passages : j # k => passages'[j] = passages[j]
  BY <1>1, <1>2, <1>3 DEF TypeNotifications
<1>. HIDE DEF suite
<1>5. \A r \in Rappels, j \in Passages :
        /\ Charge(r, j)' <=> Charge(r, j) /\ (j # k \/ r # Traite(k))
        /\ EnMain(r, j)' <=> EnMain(r, j) /\ (j # k \/ r # Traite(k))
  BY <1>3, <1>4 DEF Charge, EnMain
<1>6. PassageTenu(k)'
  <2>1. suite.pc \in {"repos", "inscrire"}
    BY <1>3
  <2>. QED BY <1>1, <1>3, <1>4, <2>1 DEF PassageTenu
<1>. QED BY <1>4, <1>5, <1>6

\* The row first, or the reminder is dropped.
LEMMA InscrireAvisTient ==
  ASSUME IInvNotifications, NEW k \in Passages, InscrireAvis(k)
  PROVE  IInvNotifications'
<1>. DEFINE t == Traite(k)
<1>1. /\ passages[k].pc = "inscrire"
      /\ UNCHANGED <<gens, reglages, saisies, emails, echus, envoyes, diffusion, gestes, voulu,
                     fermes, forces, croises>>
      /\ \/ /\ avis' = [avis EXCEPT ![Cle(t, k)] = "non_lu"]
            /\ passages' = [passages EXCEPT ![k].pc = "diffuser"] /\ UNCHANGED perdus
         \/ perdus' = perdus \cup {t} /\ Avancer(k) /\ UNCHANGED avis
  BY TraiteConnu DEF InscrireAvis
<1>2. /\ TypeNotifications /\ PassageTenu(k) /\ t \in passages[k].dus /\ t \in Rappels /\ t \in envoyes
      /\ EnMain(t, k) /\ Cle(t, k) \in Cles
  BY <1>1, TraiteConnu, ClesConnues DEF IInvNotifications
<1>3. ReglagesTenus' BY <1>1, ReglagesGardes
<1>4. CASE avis' = [avis EXCEPT ![Cle(t, k)] = "non_lu"]
           /\ passages' = [passages EXCEPT ![k].pc = "diffuser"] /\ UNCHANGED perdus
  <2>1. /\ passages' \in [Passages -> Passage]
        /\ passages'[k].pc = "diffuser" /\ passages'[k].dus = passages[k].dus
        /\ passages'[k].verifies = passages[k].verifies
        /\ \A j \in Passages : j # k => passages'[j] = passages[j]
    BY <1>2, <1>4 DEF TypeNotifications, Passage
  <2>2. /\ avis' \in [Cles -> {"rien", "non_lu", "lu", "ote", "purge"}]
        /\ \A c \in Cles : avis[c] # "rien" => avis'[c] # "rien"
        /\ \A c \in Cles : c # Cle(t, k) => avis'[c] = avis[c]
        /\ avis'[Cle(t, k)] = "non_lu"
    BY <1>2, <1>4 DEF TypeNotifications
  <2>3. TypeNotifications' BY <1>1, <1>2, <1>4, <2>1, <2>2 DEF TypeNotifications
  <2>4. \A r \in Rappels, j \in Passages :
          /\ Cle(r, j) = Cle(t, k) <=> r = t /\ j = k
          /\ Annonce(r, j)' <=> Annonce(r, j) \/ (r = t /\ j = k)
          /\ EnMain(r, j)' <=> EnMain(r, j)
          /\ Charge(r, j)' <=> Charge(r, j)
    <3>1. \A r \in Rappels, j \in Passages :
            /\ Cle(r, j) = Cle(t, k) <=> r = t /\ j = k
            /\ Cle(r, j) \in Cles
      BY ClesConnues DEF Cle
    <3>2. \A r \in Rappels, j \in Passages : Annonce(r, j)' <=> avis'[Cle(r, j)] # "rien"
      BY DEF Annonce, Cle
    <3>. QED BY <1>1, <2>1, <2>2, <3>1, <3>2 DEF Annonce, EnMain, Charge
  <2>5. Charge(t, k) BY <1>2 DEF EnMain
  <2>6. ASSUME NEW r \in Rappels PROVE RappelSuivi(r)'
    <3>1. RappelSuivi(r) BY DEF IInvNotifications
    <3>. QED BY <1>1, <1>2, <1>4, <2>4, <2>5, <3>1 DEF RappelSuivi, DansLOrdre, Existe
  <2>7. ASSUME NEW j \in Passages PROVE PassageTenu(j)'
    <3>1. PassageTenu(j) /\ passages[j] \in Passage BY <1>2 DEF IInvNotifications, TypeNotifications
    <3>2. Traite(j)' = Traite(j) BY <2>1 DEF Traite
    <3>3. CASE j = k
      <4>1. Annonce(t, k)' BY <2>2, <3>2, <3>3 DEF Annonce, Cle
      <4>. QED BY <1>1, <1>2, <2>1, <3>2, <3>3, <4>1 DEF PassageTenu
    <3>4. CASE j # k
      <4>1. ASSUME passages[j].pc = "diffuser" PROVE Annonce(Traite(j), j)'
        <5>1. avis[Cle(Traite(j), j)] # "rien" /\ Traite(j) \in Rappels
          BY <3>1, <4>1, TraiteConnu DEF PassageTenu, Annonce
        <5>2. avis'[Cle(Traite(j), j)] # "rien" BY <2>2, <5>1, ClesConnues
        <5>. QED BY <3>2, <5>2 DEF Annonce, Cle
      <4>. QED BY <1>1, <2>1, <3>1, <3>2, <3>4, <4>1 DEF PassageTenu, DansLOrdre, Existe
    <3>. QED BY <3>3, <3>4
  <2>8. DiffusionTenue' /\ EmailsTenus' BY <1>1, <2>2, ResteGarde
  <2>. QED BY <1>3, <2>3, <2>6, <2>7, <2>8 DEF IInvNotifications
<1>5. CASE perdus' = perdus \cup {t} /\ Avancer(k) /\ UNCHANGED avis
  <2>1. /\ passages' \in [Passages -> Passage]
        /\ \A j \in Passages : j # k => passages'[j] = passages[j]
        /\ \A r \in Rappels, j \in Passages :
             /\ Charge(r, j)' <=> Charge(r, j) /\ (j # k \/ r # t)
             /\ EnMain(r, j)' <=> EnMain(r, j) /\ (j # k \/ r # t)
        /\ PassageTenu(k)'
    BY <1>1, <1>5, AvancerFait
  <2>2. TypeNotifications' BY <1>1, <1>2, <1>5, <2>1 DEF TypeNotifications
  <2>3. \A r \in Rappels, j \in Passages : Annonce(r, j)' <=> Annonce(r, j)
    BY <1>5 DEF Annonce, Cle
  <2>4. ASSUME NEW r \in Rappels PROVE RappelSuivi(r)'
    <3>1. RappelSuivi(r) BY DEF IInvNotifications
    <3>. QED BY <1>1, <1>2, <1>5, <2>1, <2>3, <3>1 DEF RappelSuivi, DansLOrdre, Existe
  <2>5. ASSUME NEW j \in Passages, j # k PROVE PassageTenu(j)'
    <3>1. PassageTenu(j) BY DEF IInvNotifications
    <3>2. Traite(j)' = Traite(j) BY <2>1, <2>5 DEF Traite
    <3>. QED BY <1>1, <1>5, <2>1, <2>5, <3>1, <3>2 DEF PassageTenu, Annonce, Cle, DansLOrdre, Existe
  <2>6. DiffusionTenue' /\ EmailsTenus' BY <1>1, <1>5, ResteGarde
  <2>. QED BY <1>3, <2>1, <2>2, <2>4, <2>5, <2>6 DEF IInvNotifications
<1>. QED BY <1>1, <1>4, <1>5

\* An email is handed over for what is on the platform, to whoever did not cut it.
LEMMA DiffuserTient ==
  ASSUME IInvNotifications, NEW k \in Passages, DiffuserSurLesCanaux(k)
  PROVE  IInvNotifications'
<1>. DEFINE t == Traite(k)
            p == Rappele[t]
<1>1. /\ passages[k].pc = "diffuser" /\ Avancer(k)
      /\ UNCHANGED <<gens, reglages, saisies, avis, echus, envoyes, diffusion, gestes, voulu,
                     fermes, croises, perdus>>
      /\ \/ UNCHANGED <<emails, forces>>
         \/ Expedier(Cle(t, k), reglages[p].email /\ p \in passages[k].verifies)
  BY TraiteConnu DEF DiffuserSurLesCanaux, CleDe
<1>2. /\ TypeNotifications /\ PassageTenu(k) /\ t \in passages[k].dus /\ t \in Rappels
      /\ EnMain(t, k) /\ Cle(t, k) \in Cles /\ p \in Destinataires
      /\ Cle(t, k)[1] # Diffusion /\ Cle(t, k)[2] = k /\ Cle(t, k)[3] = p
      /\ avis[Cle(t, k)] # "rien"
  <2>1. /\ t \in passages[k].dus /\ t \in Rappels /\ EnMain(t, k) /\ TypeNotifications /\ PassageTenu(k)
    BY <1>1, TraiteConnu DEF IInvNotifications
  <2>2. Annonce(t, k) BY <1>1, <2>1 DEF PassageTenu
  <2>. QED BY <2>1, <2>2, ClesConnues DEF Annonce
<1>3. /\ passages' \in [Passages -> Passage]
      /\ \A j \in Passages : j # k => passages'[j] = passages[j]
      /\ \A r \in Rappels, j \in Passages :
           /\ Charge(r, j)' <=> Charge(r, j) /\ (j # k \/ r # t)
           /\ EnMain(r, j)' <=> EnMain(r, j) /\ (j # k \/ r # t)
      /\ PassageTenu(k)'
  BY <1>1, AvancerFait
<1>4. /\ emails' \subseteq emails \cup {Cle(t, k)}
      /\ Cle(t, k) \in emails' => Cle(t, k) \in emails \/ p \in passages[k].verifies
      /\ UNCHANGED forces
  <2>1. ReglagesTenus /\ k \in Emetteurs BY DEF IInvNotifications, Emetteurs
  <2>2. reglages[p].email => p \notin fermes[k]
    BY <1>2, <2>1 DEF ReglagesTenus, ReglagesRespectes, Canaux
  <2>. QED BY <1>1, <1>2, <2>2 DEF Expedier
<1>5. TypeNotifications' BY <1>1, <1>2, <1>3, <1>4 DEF TypeNotifications
<1>6. \A r \in Rappels, j \in Passages : Annonce(r, j)' <=> Annonce(r, j)
  BY <1>1 DEF Annonce, Cle
<1>7. ASSUME NEW r \in Rappels PROVE RappelSuivi(r)'
  <2>1. RappelSuivi(r) /\ Annonce(t, k) BY <1>2 DEF IInvNotifications, Annonce
  <2>. QED BY <1>1, <1>2, <1>3, <1>6, <2>1 DEF RappelSuivi, DansLOrdre, Existe
<1>8. ASSUME NEW j \in Passages, j # k PROVE PassageTenu(j)'
  <2>1. PassageTenu(j) BY DEF IInvNotifications
  <2>2. Traite(j)' = Traite(j) BY <1>3, <1>8 DEF Traite
  <2>. QED BY <1>1, <1>3, <1>8, <2>1, <2>2 DEF PassageTenu, Annonce, Cle, DansLOrdre, Existe
<1>9. DiffusionTenue' BY <1>1, ResteGarde
<1>10. EmailsTenus'
  <2>1. EmailsTenus BY DEF IInvNotifications
  <2>2. p \in passages[k].verifies => gens[p] # "non_verifie" BY <1>2 DEF PassageTenu
  <2>. QED BY <1>1, <1>2, <1>4, <2>1, <2>2 DEF EmailsTenus
<1>11. ReglagesTenus' BY <1>1, <1>4, ReglagesGardes
<1>. QED BY <1>3, <1>5, <1>7, <1>8, <1>9, <1>10, <1>11 DEF IInvNotifications

\* What a step of the diffusion leaves of the passes.
LEMMA PassesGardes ==
  ASSUME IInvNotifications, UNCHANGED <<gens, echus, envoyes, passages, croises, perdus>>,
         \A c \in Cles : c[1] # Diffusion => avis'[c] = avis[c]
  PROVE  (\A r \in Rappels : RappelSuivi(r)') /\ (\A k \in Passages : PassageTenu(k)')
<1>1. \A r \in Rappels, k \in Passages :
        /\ Annonce(r, k)' <=> Annonce(r, k)
        /\ Charge(r, k)' <=> Charge(r, k)
        /\ EnMain(r, k)' <=> EnMain(r, k)
  BY ClesConnues DEF Annonce, Charge, EnMain, Cle
<1>2. ASSUME NEW r \in Rappels PROVE RappelSuivi(r)'
  <2>1. RappelSuivi(r) BY DEF IInvNotifications
  <2>. QED BY <1>1, <2>1 DEF RappelSuivi, DansLOrdre, Existe
<1>3. ASSUME NEW k \in Passages PROVE PassageTenu(k)'
  <2>1. PassageTenu(k) BY DEF IInvNotifications
  <2>2. Traite(k)' = Traite(k) BY DEF Traite
  <2>3. passages[k].pc = "diffuser" => Annonce(Traite(k), k)'
    <3>1. SUFFICES ASSUME passages[k].pc = "diffuser" PROVE Annonce(Traite(k), k)'
      OBVIOUS
    <3>2. Traite(k) \in Rappels /\ Annonce(Traite(k), k)
      BY <2>1, <3>1, TraiteConnu DEF PassageTenu
    <3>. QED BY <2>2, <3>2, ClesConnues DEF Annonce, Cle
  <2>. QED BY <2>1, <2>3 DEF PassageTenu, DansLOrdre, Existe
<1>. QED BY <1>2, <1>3

LEMMA DebuterTient ==
  ASSUME IInvNotifications, NEW pour \in SUBSET Destinataires, NEW verifies \in BOOLEAN,
         verifies => \A p \in pour : gens[p] = "verifie", Debuter(pour, verifies)
  PROVE  IInvNotifications'
<1>. DEFINE d == [pc |-> IF pour = {} THEN "finie" ELSE "inscrire", verifies |-> verifies,
                  reste |-> pour, pour |-> pour, coupes |-> {}]
<1>1. /\ diffusion.pc = "attente" /\ diffusion' = d /\ fermes' = [fermes EXCEPT ![Diffusion] = Muets]
      /\ UNCHANGED <<gens, reglages, saisies, avis, emails, echus, envoyes, passages, gestes,
                     pannes, voulu, forces, croises, perdus>>
  BY DEF Debuter, Commence
<1>2. TypeNotifications BY DEF IInvNotifications
<1>3. d \in UneDiffusion
  BY DEF UneDiffusion
<1>4. /\ fermes' \in [Emetteurs -> SUBSET Destinataires]
      /\ \A e \in Emetteurs : fermes'[e] = IF e = Diffusion THEN Muets ELSE fermes[e]
  BY <1>1, <1>2 DEF TypeNotifications, Muets, Emetteurs
<1>5. TypeNotifications' BY <1>1, <1>2, <1>3, <1>4 DEF TypeNotifications
<1>6. DiffusionTenue'
  BY <1>1 DEF DiffusionTenue
<1>7. EmailsTenus'
  BY <1>1 DEF EmailsTenus, DiffusionTenue, IInvNotifications
<1>8. ReglagesTenus'
  BY <1>1, <1>4 DEF IInvNotifications, ReglagesTenus, ReglagesRespectes, Muets
<1>. QED BY <1>1, <1>5, <1>6, <1>7, <1>8, PassesGardes DEF IInvNotifications

LEMMA DebutsDiffusionTiennent ==
  ASSUME IInvNotifications,
         \/ \E cible \in SUBSET Destinataires : Cibler(cible) \/ NotifierPlusieurs(cible)
         \/ \E p \in Destinataires : Signaler(p)
  PROVE  IInvNotifications'
<1>1. ASSUME NEW cible \in SUBSET Destinataires, Cibler(cible) PROVE IInvNotifications'
  <2>. DEFINE pour == {p \in cible : gens[p] = "verifie"}
  <2>1. /\ pour \in SUBSET Destinataires /\ Debuter(pour, TRUE)
        /\ \A p \in pour : gens[p] = "verifie"
    BY <1>1 DEF Cibler
  <2>. QED BY <2>1, DebuterTient
<1>2. ASSUME NEW cible \in SUBSET Destinataires, NotifierPlusieurs(cible) PROVE IInvNotifications'
  <2>. DEFINE pour == {p \in cible : Existe(p)}
  <2>1. pour \in SUBSET Destinataires /\ Debuter(pour, FALSE)
    BY <1>2 DEF NotifierPlusieurs
  <2>. QED BY <2>1, DebuterTient
<1>3. ASSUME NEW q \in Destinataires, Signaler(q) PROVE IInvNotifications'
  <2>1. Tresoriers \ {q} \in SUBSET Destinataires BY NotificationsAssumption
  <2>. QED BY <1>2, <1>3, <2>1 DEF Signaler
<1>. QED BY <1>1, <1>2, <1>3

LEMMA InscrireLotTient ==
  ASSUME IInvNotifications, NEW lot \in SUBSET diffusion.reste, InscrireLot(lot)
  PROVE  IInvNotifications'
<1>1. /\ diffusion.pc = "inscrire"
      /\ UNCHANGED <<gens, reglages, saisies, emails, echus, envoyes, passages, gestes, pannes,
                     voulu, fermes, forces, croises, perdus>>
      /\ \/ /\ avis' = [c \in Cles |-> IF c[1] = Diffusion /\ c[3] \in lot THEN "non_lu" ELSE avis[c]]
            /\ diffusion' = [diffusion EXCEPT !.reste = diffusion.reste \ lot,
                               !.pc = IF diffusion.reste \ lot = {} THEN "reglages" ELSE @]
         \/ diffusion' = [diffusion EXCEPT !.pc = "echouee"] /\ UNCHANGED avis
  BY DEF InscrireLot
<1>2. TypeNotifications /\ diffusion \in UneDiffusion /\ DiffusionTenue
  BY DEF IInvNotifications, TypeNotifications
<1>3. /\ diffusion' \in UneDiffusion /\ diffusion'.pour = diffusion.pour
      /\ diffusion'.verifies = diffusion.verifies /\ diffusion'.reste \subseteq diffusion.reste
      /\ diffusion'.pc \in {"inscrire", "reglages", "echouee"}
      /\ diffusion'.pc # "echouee" => diffusion'.reste = diffusion.reste \ lot
      /\ diffusion'.pc = "reglages" => diffusion'.reste = {}
  <2>1. CASE diffusion' = [diffusion EXCEPT !.reste = diffusion.reste \ lot,
                             !.pc = IF diffusion.reste \ lot = {} THEN "reglages" ELSE @]
    BY <1>1, <1>2, <2>1 DEF UneDiffusion
  <2>2. CASE diffusion' = [diffusion EXCEPT !.pc = "echouee"]
    BY <1>1, <1>2, <2>2 DEF UneDiffusion
  <2>. QED BY <1>1, <2>1, <2>2
<1>4. /\ avis' \in [Cles -> {"rien", "non_lu", "lu", "ote", "purge"}]
      /\ \A c \in Cles : c[1] # Diffusion => avis'[c] = avis[c]
      /\ \A c \in Cles : avis[c] # "rien" => avis'[c] # "rien"
      /\ diffusion'.pc # "echouee" => \A p \in lot : avis'[<<Diffusion, Diffusion, p>>] # "rien"
  <2>1. lot \subseteq Destinataires BY <1>2 DEF UneDiffusion
  <2>2. CASE avis' = [c \in Cles |-> IF c[1] = Diffusion /\ c[3] \in lot THEN "non_lu" ELSE avis[c]]
    <3>1. \A p \in lot : avis'[<<Diffusion, Diffusion, p>>] = "non_lu"
      <4>. TAKE p \in lot
      <4>. DEFINE c == <<Diffusion, Diffusion, p>>
      <4>1. c \in Cles /\ c[1] = Diffusion /\ c[3] = p BY <2>1, ClesConnues
      <4>. HIDE DEF c
      <4>2. avis'[c] = "non_lu" BY <2>2, <4>1
      <4>. QED BY <4>2 DEF c
    <3>. QED BY <1>2, <2>2, <3>1 DEF TypeNotifications
  <2>3. CASE diffusion' = [diffusion EXCEPT !.pc = "echouee"] /\ UNCHANGED avis
    BY <1>2, <2>3 DEF TypeNotifications, UneDiffusion
  <2>. QED BY <1>1, <2>2, <2>3
<1>5. TypeNotifications' BY <1>1, <1>2, <1>3, <1>4 DEF TypeNotifications
<1>6. DiffusionTenue'
  <2>1. \A p \in Destinataires : avis[<<Diffusion, Diffusion, p>>] # "rien"
                                    => avis'[<<Diffusion, Diffusion, p>>] # "rien"
    BY <1>4, ClesConnues
  <2>2. diffusion.pour \ diffusion.reste \subseteq
          {p \in Destinataires : avis[<<Diffusion, Diffusion, p>>] # "rien"}
    BY <1>1, <1>2 DEF DiffusionTenue
  <2>. QED BY <1>1, <1>2, <1>3, <1>4, <2>1, <2>2 DEF DiffusionTenue, UneDiffusion
<1>7. EmailsTenus' BY <1>1, <1>3, <1>4 DEF EmailsTenus, IInvNotifications, TypeNotifications
<1>8. ReglagesTenus' BY <1>1, ReglagesGardes
<1>. QED BY <1>1, <1>4, <1>5, <1>6, <1>7, <1>8, PassesGardes DEF IInvNotifications

LEMMA LireReglagesTient ==
  ASSUME IInvNotifications, InscrireEchoue \/ LireReglages
  PROVE  IInvNotifications'
<1>1. UNCHANGED <<gens, reglages, saisies, avis, emails, echus, envoyes, passages, gestes,
                  voulu, fermes, forces, croises, perdus>>
  BY DEF InscrireEchoue, LireReglages
<1>2. TypeNotifications /\ diffusion \in UneDiffusion /\ DiffusionTenue /\ ReglagesTenus
  BY DEF IInvNotifications, TypeNotifications
<1>3. diffusion' \in UneDiffusion /\ diffusion'.pour = diffusion.pour /\ diffusion'.verifies = diffusion.verifies
  BY <1>2 DEF UneDiffusion, InscrireEchoue, LireReglages
<1>4. TypeNotifications' BY <1>1, <1>2, <1>3 DEF TypeNotifications
<1>5. DiffusionTenue'
  <2>1. CASE InscrireEchoue BY <1>1, <1>2, <2>1 DEF InscrireEchoue, DiffusionTenue, UneDiffusion
  <2>2. CASE LireReglages
    <3>1. \A p \in fermes[Diffusion] : p \in Destinataires /\ ~reglages[p].email
      BY <1>2 DEF ReglagesTenus, ReglagesRespectes, TypeNotifications, Emetteurs, Canaux
    <3>2. /\ diffusion.pc = "reglages" /\ diffusion'.pc = "arriere" /\ diffusion'.reste = diffusion.pour
          /\ diffusion'.coupes = {p \in diffusion.pour : ~reglages[p].email}
      BY <1>2, <2>2 DEF LireReglages, UneDiffusion
    <3>. QED BY <1>1, <1>2, <1>3, <3>1, <3>2 DEF DiffusionTenue, UneDiffusion
  <2>. QED BY <2>1, <2>2
<1>6. EmailsTenus' BY <1>1, <1>3 DEF EmailsTenus, IInvNotifications
<1>7. ReglagesTenus' BY <1>1, ReglagesGardes
<1>. QED BY <1>1, <1>4, <1>5, <1>6, <1>7, PassesGardes DEF IInvNotifications

LEMMA ArrierePlanTient ==
  ASSUME IInvNotifications, NEW p \in Destinataires, DiffuserEnArrierePlan(p)
  PROVE  IInvNotifications'
<1>. DEFINE c == <<Diffusion, Diffusion, p>>
<1>1. /\ diffusion.pc = "arriere" /\ p \in diffusion.reste
      /\ diffusion' = [diffusion EXCEPT !.reste = @ \ {p},
                         !.pc = IF diffusion.reste = {p} THEN "finie" ELSE @]
      /\ UNCHANGED <<gens, reglages, saisies, avis, echus, envoyes, passages, gestes, voulu,
                     fermes, croises, perdus>>
      /\ UNCHANGED <<emails, forces>> \/ Expedier(c, p \notin diffusion.coupes)
  BY DEF DiffuserEnArrierePlan
<1>2. TypeNotifications /\ diffusion \in UneDiffusion /\ DiffusionTenue
  BY DEF IInvNotifications, TypeNotifications
<1>3. /\ diffusion' \in UneDiffusion /\ diffusion'.pour = diffusion.pour
      /\ diffusion'.verifies = diffusion.verifies /\ diffusion'.reste \subseteq diffusion.reste
      /\ diffusion'.coupes = diffusion.coupes /\ diffusion'.pc \in {"arriere", "finie"}
  BY <1>1, <1>2 DEF UneDiffusion
<1>4. p \in diffusion.pour /\ avis[c] # "rien" /\ (p \in fermes[Diffusion] => p \in diffusion.coupes)
  BY <1>1, <1>2 DEF DiffusionTenue
<1>5. c \in Cles /\ c[1] = Diffusion /\ c[2] = Diffusion /\ c[3] = p
  BY ClesConnues
<1>6. emails' \subseteq emails \cup {c} /\ UNCHANGED forces
  <2>. HIDE DEF c
  <2>. QED BY <1>1, <1>4, <1>5 DEF Expedier
<1>7. TypeNotifications' BY <1>1, <1>2, <1>3, <1>5, <1>6 DEF TypeNotifications
<1>8. DiffusionTenue' BY <1>1, <1>2, <1>3 DEF DiffusionTenue, UneDiffusion
<1>9. EmailsTenus'
  <2>. HIDE DEF c
  <2>. QED BY <1>1, <1>3, <1>4, <1>5, <1>6 DEF EmailsTenus, IInvNotifications
<1>10. ReglagesTenus' BY <1>1, <1>6, ReglagesGardes
<1>. QED BY <1>1, <1>7, <1>8, <1>9, <1>10, PassesGardes DEF IInvNotifications

\* After a restart, what a pass had marked and not announced is known as dropped.
LEMMA RedemarrerNotificationsTient ==
  ASSUME IInvNotifications, Redemarrer
  PROVE  IInvNotifications'
<1>. DEFINE F(k) == CASE passages[k].pc = "inscrire" -> passages[k].dus
                      [] passages[k].pc = "diffuser" -> passages[k].dus \ {Traite(k)}
                      [] OTHER -> {}
<1>1. /\ passages' = [k \in Passages |-> SansPassage]
      /\ perdus' = perdus \cup UNION {F(k) : k \in Passages}
      /\ saisies' = [s \in Saisies |-> SansSaisie]
      /\ diffusion' = [diffusion EXCEPT !.pc = IF @ = "attente" THEN @ ELSE "finie"]
      /\ UNCHANGED <<gens, reglages, avis, emails, echus, envoyes, gestes, voulu, fermes, forces,
                     croises>>
  BY DEF Redemarrer
<1>2. TypeNotifications /\ diffusion \in UneDiffusion /\ DiffusionTenue
  BY DEF IInvNotifications, TypeNotifications
<1>3. \A k \in Passages :
        /\ F(k) \subseteq passages[k].dus
        /\ passages[k].pc = "inscrire" => F(k) = passages[k].dus
        /\ passages[k].pc = "diffuser" => F(k) = passages[k].dus \ {Traite(k)}
  OBVIOUS
<1>. HIDE DEF F
<1>4. TypeNotifications'
  <2>1. perdus' \subseteq Rappels
    BY <1>1, <1>2, <1>3 DEF TypeNotifications, Passage
  <2>2. diffusion' \in UneDiffusion BY <1>1, <1>2 DEF UneDiffusion
  <2>3. passages' \in [Passages -> Passage] BY <1>1 DEF Passage, SansPassage
  <2>. QED BY <1>1, <1>2, <2>1, <2>2, <2>3 DEF TypeNotifications
<1>5. \A r \in Rappels, k \in Passages : ~Charge(r, k)' /\ ~EnMain(r, k)'
  BY <1>1 DEF Charge, EnMain, SansPassage
<1>6. \A r \in Rappels, k \in Passages : Annonce(r, k)' <=> Annonce(r, k)
  BY <1>1 DEF Annonce, Cle
<1>7. ASSUME NEW r \in Rappels PROVE RappelSuivi(r)'
  <2>1. RappelSuivi(r) BY DEF IInvNotifications
  <2>2. ASSUME NEW k \in Passages, EnMain(r, k) PROVE r \in perdus' \/ Annonce(r, k)
    <3>1. PassageTenu(k) BY DEF IInvNotifications
    <3>2. F(k) \subseteq perdus' BY <1>1
    <3>3. r \in passages[k].dus /\ passages[k].pc \in {"inscrire", "diffuser"}
      BY <2>2 DEF EnMain, Charge
    <3>4. CASE passages[k].pc = "inscrire" BY <1>3, <3>2, <3>3, <3>4
    <3>5. CASE passages[k].pc = "diffuser" /\ r # Traite(k) BY <1>3, <3>2, <3>3, <3>5
    <3>6. CASE passages[k].pc = "diffuser" /\ r = Traite(k) BY <3>1, <3>6 DEF PassageTenu
    <3>. QED BY <3>3, <3>4, <3>5, <3>6
  <2>3. r \in envoyes => r \in perdus' \/ \E k \in Passages : Annonce(r, k)
    BY <1>1, <2>1, <2>2 DEF RappelSuivi
  <2>. QED BY <1>1, <1>5, <1>6, <2>1, <2>3 DEF RappelSuivi, DansLOrdre, Existe
<1>8. ASSUME NEW k \in Passages PROVE PassageTenu(k)'
  BY <1>1 DEF PassageTenu, SansPassage
<1>9. DiffusionTenue'
  BY <1>1, <1>2 DEF DiffusionTenue, UneDiffusion
<1>10. EmailsTenus'
  <2>1. diffusion'.pour = diffusion.pour BY <1>1, <1>2 DEF UneDiffusion
  <2>. QED BY <1>1, <2>1 DEF EmailsTenus, IInvNotifications
<1>11. ReglagesTenus' BY <1>1, ReglagesGardes
<1>. QED BY <1>4, <1>7, <1>8, <1>9, <1>10, <1>11 DEF IInvNotifications

LEMMA PasNotificationsTient ==
  ASSUME IInvNotifications, [NextNotifications]_varsNotifications
  PROVE  IInvNotifications'
<1>1. ASSUME NextNotifications PROVE IInvNotifications'
  BY <1>1, LireReglageTient, EcrireReglageTient, EchoirRappelTient, LireDusTient, MarquerTient,
     MarquerEchoueTient, InscrireAvisTient, DiffuserTient, DebutsDiffusionTiennent,
     InscrireLotTient, LireReglagesTient, ArrierePlanTient, RedemarrerNotificationsTient,
     MarquerLuTient, PurgerAnciennesTient, MarquerToutLuTient, ChangerTient, SupprimerTient, Zenon
     DEF NextNotifications
<1>2. ASSUME UNCHANGED varsNotifications PROVE IInvNotifications'
  <2>. USE <1>2 DEF varsNotifications
  <2>1. TypeNotifications' BY DEF IInvNotifications, TypeNotifications
  <2>2. ReglagesTenus' BY ReglagesGardes
  <2>3. echus <= echus' BY NotificationsAssumption DEF IInvNotifications, TypeNotifications
  <2>. QED BY <2>1, <2>2, <2>3, GensTenus DEF Existe
<1>. QED BY <1>1, <1>2

\* The inductive invariant.
THEOREM InvariantNotifications == SpecNotifications => []IInvNotifications
<1>1. InitNotifications => IInvNotifications BY DepartNotifications
<1>2. IInvNotifications /\ [NextNotifications]_varsNotifications => IInvNotifications'
  BY PasNotificationsTient
<1>. QED BY <1>1, <1>2, PTL DEF SpecNotifications

\* Announcements reach whom they are for, as they asked for, and once.
THEOREM NotificationsToujoursJustes == SpecNotifications => []NotificationsJustes
<1>1. ASSUME IInvNotifications PROVE NotificationsJustes
  <2>1. ASSUME NEW r \in Rappels
        PROVE  LET ecrits == {k \in Passages : avis[<<r, k, Rappele[r]>>] # "rien"}
                   enMain == {k \in Passages : /\ r \in passages[k].dus
                                               /\ passages[k].pc \in {"inscrire", "diffuser"}}
               IN  /\ r \notin croises => Cardinality(ecrits \cup enMain) <= 1
                   /\ r \in envoyes => ecrits \cup enMain # {} \/ r \in perdus
                   /\ r \in envoyes =>
                        \A q \in 1 .. r : q \in envoyes \/ ~Existe(Rappele[q])
    <3>. DEFINE ecrits == {k \in Passages : avis[<<r, k, Rappele[r]>>] # "rien"}
                enMain == {k \in Passages : /\ r \in passages[k].dus
                                            /\ passages[k].pc \in {"inscrire", "diffuser"}}
                tous == ecrits \cup enMain
    <3>1. RappelSuivi(r) BY <1>1 DEF IInvNotifications
    <3>2. \A k \in Passages : k \in tous <=> Annonce(r, k) \/ EnMain(r, k)
      BY DEF Annonce, EnMain, Charge, Cle
    <3>3. ASSUME r \notin croises PROVE Cardinality(tous) <= 1
      <4>1. \A j, k \in tous : j = k
        BY <3>1, <3>2, <3>3 DEF RappelSuivi, EnMain
      <4>. HIDE DEF tous
      <4>2. CASE tous = {} BY <4>2, FS_EmptySet
      <4>3. CASE tous # {}
        <5>1. PICK k : tous = {k} BY <4>1, <4>3
        <5>. QED BY <5>1, FS_Singleton
      <4>. QED BY <4>2, <4>3
    <3>4. r \in envoyes => tous # {} \/ r \in perdus
      BY <3>1, <3>2 DEF RappelSuivi
    <3>5. r \in envoyes => \A q \in 1 .. r : q \in envoyes \/ ~Existe(Rappele[q])
      BY <3>1 DEF RappelSuivi, DansLOrdre
    <3>. QED BY <3>3, <3>4, <3>5
  <2>2. RappelsTenus BY <2>1 DEF RappelsTenus
  <2>3. TraceDAbord
    BY <1>1, ClesConnues DEF TraceDAbord, IInvNotifications, EmailsTenus, DiffusionTenue, TypeNotifications
  <2>4. ReglagesRespectes BY <1>1 DEF IInvNotifications, ReglagesTenus
  <2>. QED BY <2>2, <2>3, <2>4 DEF NotificationsJustes
<1>. QED BY <1>1, InvariantNotifications, PTL

------------------------------------------------------------------------------
(* Cascade: for any number of ways, of messages and of restarts.           *)

PasDesCourriers == {"neuf", "prepare", "essai", "remis", "abandonne", "perdu"}

TypeCascade ==
  /\ courriers \in [Messages -> [pc : PasDesCourriers, voies : SUBSET Voies, par : Nat]]
  /\ misesDeCote \in [Voies -> Nat] /\ plafonds \in [Voies -> Nat] /\ maintenant \in Nat
  /\ recus \in [Messages -> Nat] /\ muets \in [Messages -> Nat]
  /\ refus \in [Messages -> SUBSET Voies] /\ ecartees \in [Messages -> SUBSET Voies]

\* While a message is being sent, each way is left to try, failed it or was aside
\* when it started, one of these only.
VoiesReparties(m) ==
  LET c == courriers[m]
      exclues == refus[m] \cup ecartees[m]
  IN  /\ c.pc \in {"neuf", "prepare"} => exclues = {}
      /\ c.pc = "essai" => /\ c.voies # {} /\ c.voies = Voies \ exclues
                           /\ ecartees[m] # Voies
      /\ refus[m] \cap ecartees[m] = {}

\* It was received once for each silent acceptance, and once more when delivered.
RecuOuMuet(m) == recus[m] = muets[m] + (IF courriers[m].pc = "remis" THEN 1 ELSE 0)

IInvCascade ==
  /\ TypeCascade /\ OrdreDesVoies /\ PauseExacte
  /\ \A m \in Messages : VoiesReparties(m) /\ RecuOuMuet(m)

\* Among ways there is a first one.
LEMMA PremiereVoie ==
  ASSUME NEW S, S \subseteq Voies, S # {}
  PROVE  Min(S) \in S /\ \A v \in S : Min(S) <= v
<1>1. Voies \subseteq Nat
  BY CascadeAssumption DEF Voies
<1>2. \E j \in S : \A k \in S : j <= k
  BY <1>1, PlusPetit
<1>. QED BY <1>2 DEF Min

LEMMA DepartCascade == ASSUME InitCascade PROVE IInvCascade
<1>. USE DEF InitCascade
<1>1. TypeCascade
  BY DEF TypeCascade, PasDesCourriers, Jamais
<1>2. OrdreDesVoies /\ PauseExacte
  BY DEF OrdreDesVoies, PauseExacte, Jamais
<1>3. \A m \in Messages : VoiesReparties(m) /\ RecuOuMuet(m)
  BY DEF VoiesReparties, RecuOuMuet
<1>. QED BY <1>1, <1>2, <1>3 DEF IInvCascade

\* What there is to say of one message, and of one way.
OrdreDe(m) ==
  LET exclues == refus[m] \cup ecartees[m]
  IN  /\ courriers[m].pc = "remis" =>
           /\ courriers[m].par \notin exclues
           /\ 1 .. courriers[m].par - 1 \subseteq exclues
      /\ courriers[m].pc = "abandonne" => exclues = Voies /\ refus[m] # {}
      /\ refus[m] \cap ecartees[m] = {}

CourrierTenu(m) == OrdreDe(m) /\ VoiesReparties(m) /\ RecuOuMuet(m)

\* The invariant, one message at a time.
LEMMA ParCourrier ==
  IInvCascade <=> TypeCascade /\ PauseExacte /\ \A m \in Messages : CourrierTenu(m)
BY DEF IInvCascade, OrdreDesVoies, OrdreDe, CourrierTenu

LEMMA CascadeEntiere ==
  ASSUME TypeCascade', PauseExacte', \A m \in Messages : CourrierTenu(m)'
  PROVE  IInvCascade'
BY DEF IInvCascade, OrdreDesVoies, OrdreDe, CourrierTenu

\* A message nothing is done to stays as it was.
LEMMA CourrierReste ==
  ASSUME NEW m \in Messages, CourrierTenu(m), courriers'[m] = courriers[m], refus'[m] = refus[m],
         ecartees'[m] = ecartees[m], recus'[m] = recus[m], muets'[m] = muets[m]
  PROVE  CourrierTenu(m)'
BY DEF CourrierTenu, OrdreDe, VoiesReparties, RecuOuMuet

\* The call returns, the template is rendered, the ways are chosen.
LEMMA PreparationTenue ==
  ASSUME IInvCascade, NEW m \in Messages, Remettre(m) \/ Choisir(m)
  PROVE  IInvCascade'
<1>0. TypeCascade /\ PauseExacte /\ \A n \in Messages : CourrierTenu(n)
  BY ParCourrier
<1>1. Disponibles \subseteq Voies /\ Disponibles # {}
  BY CascadeAssumption DEF Disponibles, Voies
<1>2. TypeCascade'
  BY <1>0, <1>1 DEF TypeCascade, PasDesCourriers, Remettre, Choisir
<1>3. PauseExacte'
  BY <1>0 DEF PauseExacte, Remettre, Choisir
<1>4. CourrierTenu(m)'
  <2>1. CASE Remettre(m)
    BY <1>0, <2>1 DEF CourrierTenu, OrdreDe, VoiesReparties, RecuOuMuet, Remettre, TypeCascade
  <2>2. CASE Choisir(m)
    BY <1>0, <1>1, <2>2
       DEF CourrierTenu, OrdreDe, VoiesReparties, RecuOuMuet, Choisir, TypeCascade
  <2>. QED BY <2>1, <2>2
<1>5. ASSUME NEW n \in Messages \ {m} PROVE CourrierTenu(n)'
  BY <1>0, <1>5, CourrierReste DEF TypeCascade, Remettre, Choisir
<1>. QED BY <1>2, <1>3, <1>4, <1>5, CascadeEntiere

\* A way is tried: the message leaves by it, or it is one way less.
LEMMA EssaiTenu ==
  ASSUME IInvCascade, NEW m \in Messages, Essayer(m)
  PROVE  IInvCascade'
<1>. DEFINE v == Essayee(m)
            reste == courriers[m].voies \ {v}
            apres == [courriers[m] EXCEPT !.voies = reste,
                                          !.pc = IF reste = {} THEN "abandonne" ELSE @]
<1>0. TypeCascade /\ PauseExacte /\ \A n \in Messages : CourrierTenu(n)
  BY ParCourrier
<1>1. /\ courriers[m].pc = "essai" /\ courriers[m].voies # {} /\ courriers[m].voies \subseteq Voies
      /\ courriers[m].voies = Voies \ (refus[m] \cup ecartees[m])
      /\ ecartees[m] # Voies
      /\ refus[m] \cap ecartees[m] = {} /\ recus[m] = muets[m]
  BY <1>0 DEF CourrierTenu, VoiesReparties, RecuOuMuet, Essayer, TypeCascade
<1>2. v \in courriers[m].voies /\ (\A w \in courriers[m].voies : v <= w)
  BY <1>1, PremiereVoie DEF Essayee
<1>3. v \in Nat /\ Voies \subseteq Nat /\ v \in Voies /\ Voies = 1 .. NbVoies
  BY <1>1, <1>2, CascadeAssumption DEF Voies
<1>4. UNCHANGED <<maintenant, ecartees>>
  BY DEF Essayer
<1>. HIDE DEF v
<1>5. CASE Accepter(m)
  <2>1. /\ courriers' = [courriers EXCEPT ![m] = [pc |-> "remis", voies |-> {}, par |-> v]]
        /\ recus' = [recus EXCEPT ![m] = @ + 1]
        /\ UNCHANGED <<misesDeCote, muets, refus, plafonds>>
    BY <1>5 DEF Accepter, v
  <2>2. TypeCascade'
    BY <1>0, <1>3, <1>4, <2>1 DEF TypeCascade, PasDesCourriers
  <2>3. PauseExacte'
    BY <1>0, <2>1 DEF PauseExacte
  <2>4. courriers'[m] = [pc |-> "remis", voies |-> {}, par |-> v]
    BY <1>0, <2>1 DEF TypeCascade
  <2>5. 1 .. v - 1 \subseteq refus[m] \cup ecartees[m]
    <3>. SUFFICES ASSUME NEW w \in 1 .. v - 1, w \notin refus[m] \cup ecartees[m] PROVE FALSE
      OBVIOUS
    <3>1. w \in Nat /\ w < v /\ w >= 1
      BY <1>3
    <3>2. v <= NbVoies /\ NbVoies \in Nat
      BY <1>3, CascadeAssumption
    <3>3. w \in Voies
      BY <1>3, <3>1, <3>2
    <3>4. v <= w
      BY <1>1, <1>2, <3>3
    <3>. QED BY <1>3, <3>1, <3>4
  <2>6. OrdreDe(m)'
    BY <1>1, <1>2, <1>4, <2>1, <2>4, <2>5 DEF OrdreDe
  <2>7. VoiesReparties(m)' /\ RecuOuMuet(m)'
    BY <1>0, <1>1, <1>4, <2>1, <2>4 DEF VoiesReparties, RecuOuMuet, TypeCascade
  <2>8. ASSUME NEW n \in Messages \ {m} PROVE CourrierTenu(n)'
    BY <1>0, <1>4, <2>1, <2>8, CourrierReste DEF TypeCascade
  <2>. QED BY <2>2, <2>3, <2>6, <2>7, <2>8, CascadeEntiere DEF CourrierTenu
<1>6. ASSUME NEW quota \in BOOLEAN, Echec(m, quota),
             \/ UNCHANGED <<recus, muets>>
             \/ /\ recus' = [recus EXCEPT ![m] = @ + 1]
                /\ muets' = [muets EXCEPT ![m] = @ + 1]
      PROVE  IInvCascade'
  <2>1. /\ courriers' = [courriers EXCEPT ![m] = apres]
        /\ refus' = [refus EXCEPT ![m] = @ \cup {v}]
        /\ MettreDeCote(v, quota)
    BY <1>0, <1>6 DEF Echec, v, TypeCascade
  <2>2. apres \in [pc : PasDesCourriers, voies : SUBSET Voies, par : Nat]
    BY <1>0, <1>1 DEF TypeCascade, PasDesCourriers
  <2>3. apres.voies = reste /\ apres.pc = IF reste = {} THEN "abandonne" ELSE "essai"
    BY <1>0, <1>1 DEF TypeCascade
  <2>. HIDE DEF apres
  <2>4. misesDeCote' \in [Voies -> Nat] /\ plafonds' \in [Voies -> Nat] /\ PauseExacte'
    <3>1. maintenant \in Nat /\ PAUSE \in Nat /\ maintenant + PAUSE \in Nat
      BY <1>0, CascadeAssumption DEF TypeCascade
    <3>2. CASE quota
      BY <1>0, <1>3, <2>1, <3>1, <3>2 DEF MettreDeCote, TypeCascade, PauseExacte
    <3>3. CASE ~quota
      BY <1>0, <2>1, <3>3 DEF MettreDeCote, TypeCascade, PauseExacte
    <3>. QED BY <3>2, <3>3
  <2>5. TypeCascade'
    <3>1. recus' \in [Messages -> Nat] /\ muets' \in [Messages -> Nat]
      BY <1>0, <1>6 DEF TypeCascade
    <3>2. courriers' \in [Messages -> [pc : PasDesCourriers, voies : SUBSET Voies, par : Nat]]
      BY <1>0, <2>1, <2>2 DEF TypeCascade
    <3>3. refus' \in [Messages -> SUBSET Voies]
      BY <1>0, <1>3, <2>1 DEF TypeCascade
    <3>. QED BY <1>0, <1>4, <2>4, <3>1, <3>2, <3>3 DEF TypeCascade
  <2>6. courriers'[m] = apres /\ refus'[m] = refus[m] \cup {v}
    BY <1>0, <2>1 DEF TypeCascade
  <2>7. OrdreDe(m)' /\ VoiesReparties(m)'
    <3>1. ecartees'[m] = ecartees[m] /\ v \notin ecartees[m]
      BY <1>1, <1>2, <1>4
    <3>2. CASE reste = {}
      <4>1. courriers'[m].pc = "abandonne" /\ refus'[m] \cup ecartees'[m] = Voies
        <5>1. refus[m] \subseteq Voies /\ ecartees[m] \subseteq Voies
          BY <1>0 DEF TypeCascade
        <5>2. courriers[m].voies = {v}
          BY <1>2, <3>2
        <5>. QED BY <1>1, <1>3, <2>3, <2>6, <3>1, <3>2, <5>1, <5>2
      <4>. QED BY <1>1, <2>6, <3>1, <4>1 DEF OrdreDe, VoiesReparties
    <3>3. CASE reste # {}
      <4>1. /\ courriers'[m].pc = "essai" /\ courriers'[m].voies = reste
            /\ reste = Voies \ (refus'[m] \cup ecartees'[m])
        BY <1>1, <1>2, <1>3, <2>3, <2>6, <3>1, <3>3
      <4>. QED BY <1>1, <2>6, <3>1, <3>3, <4>1 DEF OrdreDe, VoiesReparties
    <3>. QED BY <3>2, <3>3
  <2>8. RecuOuMuet(m)'
    BY <1>0, <1>1, <1>6, <2>3, <2>6 DEF RecuOuMuet, TypeCascade
  <2>9. ASSUME NEW n \in Messages \ {m} PROVE CourrierTenu(n)'
    BY <1>0, <1>4, <1>6, <2>1, <2>9, CourrierReste DEF TypeCascade
  <2>. QED BY <2>4, <2>5, <2>7, <2>8, <2>9, CascadeEntiere DEF CourrierTenu
<1>7. CASE Taire(m)
  BY <1>6, <1>7 DEF Taire
<1>8. CASE RefuserCourrier(m)
  BY <1>6, <1>8 DEF RefuserCourrier
<1>9. CASE Plafonner(m)
  BY <1>6, <1>9 DEF Plafonner
<1>. QED BY <1>5, <1>7, <1>8, <1>9 DEF Essayer

\* Time passes; a restart loses what was leaving and forgets what was set aside.
LEMMA RelanceTenue ==
  ASSUME IInvCascade, PasserTemps \/ Relancer
  PROVE  IInvCascade'
<1>0. TypeCascade /\ PauseExacte /\ \A n \in Messages : CourrierTenu(n)
  BY ParCourrier
<1>1. CASE PasserTemps
  <2>1. TypeCascade' /\ PauseExacte'
    BY <1>0, <1>1 DEF TypeCascade, PauseExacte, PasserTemps
  <2>2. \A n \in Messages : CourrierTenu(n)'
    BY <1>0, <1>1, CourrierReste DEF PasserTemps
  <2>. QED BY <2>1, <2>2, CascadeEntiere
<1>2. CASE Relancer
  <2>1. TypeCascade' /\ PauseExacte'
    <3>1. courriers' \in [Messages -> [pc : PasDesCourriers, voies : SUBSET Voies, par : Nat]]
      <4>1. \A m \in Messages :
              [courriers[m] EXCEPT !.pc = "perdu", !.voies = {}]
                \in [pc : PasDesCourriers, voies : SUBSET Voies, par : Nat]
        BY <1>0 DEF TypeCascade, PasDesCourriers
      <4>. QED BY <1>0, <1>2, <4>1 DEF TypeCascade, Relancer
    <3>2. misesDeCote' = Jamais /\ Jamais \in [Voies -> Nat] /\ \A w \in Voies : Jamais[w] = 0
      BY <1>2 DEF Relancer, Jamais
    <3>. QED BY <1>0, <1>2, <3>1, <3>2 DEF TypeCascade, PauseExacte, Relancer
  <2>2. \A n \in Messages : CourrierTenu(n)'
    <3>. SUFFICES ASSUME NEW m \in Messages PROVE CourrierTenu(m)'
      OBVIOUS
    <3>1. UNCHANGED <<recus, muets, refus, ecartees>>
      BY <1>2 DEF Relancer
    <3>2. CASE courriers[m].pc \in {"prepare", "essai"}
      <4>1. courriers'[m] = [courriers[m] EXCEPT !.pc = "perdu", !.voies = {}]
        BY <1>2, <3>2 DEF Relancer
      <4>2. courriers'[m].pc = "perdu"
        BY <1>0, <4>1 DEF TypeCascade
      <4>3. courriers[m].pc # "remis"
        BY <3>2
      <4>. QED BY <1>0, <3>1, <4>2, <4>3 DEF CourrierTenu, OrdreDe, VoiesReparties, RecuOuMuet
    <3>3. CASE courriers[m].pc \notin {"prepare", "essai"}
      <4>1. courriers'[m] = courriers[m]
        BY <1>2, <3>3 DEF Relancer
      <4>. QED BY <1>0, <3>1, <4>1, CourrierReste
    <3>. QED BY <3>2, <3>3
  <2>. QED BY <2>1, <2>2, CascadeEntiere
<1>. QED BY <1>1, <1>2

\* For any ways, messages, delays and restarts: a message leaves once by the first
\* way that was neither aside nor failing, is given up only when all failed, is received
\* twice only when a provider took it silently, and a way is aside for PAUSE after
\* its last quota error.
THEOREM CascadeToujoursJuste == SpecCascade => []CascadeJuste
<1>1. InitCascade => IInvCascade
  BY DepartCascade
<1>2. IInvCascade /\ [NextCascade]_varsCascade => IInvCascade'
  <2>. SUFFICES ASSUME IInvCascade, [NextCascade]_varsCascade PROVE IInvCascade'
    OBVIOUS
  <2>1. CASE UNCHANGED varsCascade
    BY <2>1 DEF varsCascade, IInvCascade, TypeCascade, OrdreDesVoies, PauseExacte, VoiesReparties,
                RecuOuMuet
  <2>. QED BY <2>1, PreparationTenue, EssaiTenu, RelanceTenue DEF NextCascade
<1>3. IInvCascade => CascadeJuste
  BY DEF IInvCascade, CascadeJuste, RemiseUnique, RecuOuMuet, TypeCascade
<1>. QED BY <1>1, <1>2, <1>3, PTL DEF SpecCascade

\* What is announced and what leaves, together.
THEOREM EnvoisToujoursJustes == SpecNotifications /\ SpecCascade => []EnvoisJustes
<1>1. NotificationsJustes /\ CascadeJuste => EnvoisJustes
  BY DEF EnvoisJustes
<1>. QED BY <1>1, NotificationsToujoursJustes, CascadeToujoursJuste, PTL

===============================================================================

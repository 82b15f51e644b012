-------------------------------- MODULE Sommes --------------------------------
(***************************************************************************)
(* Sums over finite sets, as the balances of the specifications write them *)
(* (MapThenSumSet of the community modules): what a sum is worth, that the *)
(* order of its terms does not matter, and how it moves when one term      *)
(* does.  The induction is on sets of sets, so that it stays first order.  *)
(***************************************************************************)
EXTENDS FiniteSetsExt, FiniteSetTheorems, WellFoundedInduction, TLAPS

\* A nonempty set of naturals has a least element.
LEMMA PlusPetit ==
  ASSUME NEW S, S \subseteq Nat, S # {}
  PROVE  \E j \in S : \A k \in S : j <= k
<1>. DEFINE R == OpToRel(<, Nat)
<1>1. PICK j \in S : \A k \in S : <<k, j>> \notin R
  BY NatLessThanWellFounded, WFMin, Zenon
<1>2. \A k, l \in Nat : k < l => <<k, l>> \in R
  BY Zenon DEF OpToRel
<1>. HIDE DEF R
<1>3. ASSUME NEW k \in S, k < j PROVE FALSE
  <2>1. k \in Nat /\ j \in Nat
    OBVIOUS
  <2>2. <<k, j>> \in R
    BY <1>2, <1>3, <2>1
  <2>. QED BY <1>1, <2>2
<1>. QED BY <1>3

\* Induction on the subsets of a finite set: a set of subsets that holds the
\* empty one, and every other one as soon as it holds it less one element,
\* holds them all.
LEMMA RecurrenceFinie ==
  ASSUME NEW S, IsFiniteSet(S), NEW B,
         {} \in B,
         \A T \in SUBSET S : T # {} /\ (\A x \in T : T \ {x} \in B) => T \in B
  PROVE  SUBSET S \subseteq B
<1>. SUFFICES ASSUME NEW A \in SUBSET S, A \notin B PROVE FALSE
  OBVIOUS
<1>. DEFINE C == {Cardinality(T) : T \in (SUBSET S) \ B}
<1>1. \A T \in SUBSET S : IsFiniteSet(T) /\ Cardinality(T) \in Nat
  BY FS_Subset, FS_CardinalityType
<1>2. PICK n \in C : \A k \in C : n <= k
  <2>1. C \subseteq Nat /\ C # {}
    BY <1>1
  <2>. HIDE DEF C
  <2>. QED BY <2>1, PlusPetit
<1>3. PICK T \in (SUBSET S) \ B : Cardinality(T) = n
  OBVIOUS
<1>4. T # {}
  OBVIOUS
<1>5. PICK x \in T : T \ {x} \notin B
  BY <1>3, <1>4
<1>6. Cardinality(T \ {x}) = Cardinality(T) - 1
  BY <1>1, FS_RemoveElement
<1>7. T \ {x} \in (SUBSET S) \ B
  BY <1>5
<1>8. Cardinality(T \ {x}) \in C
  BY <1>7
<1>. HIDE DEF C
<1>9. n \in Nat
  BY <1>1, <1>3
<1>. QED BY <1>2, <1>3, <1>6, <1>8, <1>9

------------------------------------------------------------------------------

Choix(s) == CHOOSE x \in s : TRUE

\* One step of the unrolling of a sum over s, given the sums of smaller sets.
Pas(it, g, s) == IF s = {} THEN 0 ELSE g[Choix(s)] + it[s \ {Choix(s)}]

\* The function of the subsets of S the sum over S is computed by.
Deroule(it, g, S) == it = [s \in SUBSET S |-> Pas(it, g, s)]

\* The sum of the g[x], for x in S.
Somme(g, S) == (CHOOSE it : Deroule(it, g, S))[S]

\* A finite sum is defined: the function that computes it exists.
LEMMA SommeExiste ==
  ASSUME NEW S, IsFiniteSet(S), NEW g
  PROVE  \E it : Deroule(it, g, S)
<1>. DEFINE B == {T \in SUBSET S : \E it : Deroule(it, g, T)}
<1>. SUFFICES S \in B
  OBVIOUS
<1>1. {} \in B
  <2>. DEFINE it == [s \in SUBSET {} |-> 0]
  <2>1. \A s \in SUBSET {} : Pas(it, g, s) = 0
    BY DEF Pas
  <2>2. Deroule(it, g, {})
    BY <2>1 DEF Deroule
  <2>. HIDE DEF it
  <2>. QED BY <2>2
<1>2. ASSUME NEW T \in SUBSET S, T # {}, \A x \in T : T \ {x} \in B
      PROVE  T \in B
  <2>. DEFINE Fct(x) == CHOOSE it : Deroule(it, g, T \ {x})
  <2>1. \A x \in T : Deroule(Fct(x), g, T \ {x})
    BY <1>2
  <2>. HIDE DEF Fct
  \* the values on a subset do not depend on the set they are computed in
  <2>2. \A x, y \in T : \A s \in SUBSET ((T \ {x}) \cap (T \ {y})) : Fct(x)[s] = Fct(y)[s]
    <3>. SUFFICES ASSUME NEW x \in T, NEW y \in T
                  PROVE  \A s \in SUBSET ((T \ {x}) \cap (T \ {y})) : Fct(x)[s] = Fct(y)[s]
      OBVIOUS
    <3>. DEFINE I == (T \ {x}) \cap (T \ {y})
                D == {s \in SUBSET I : Fct(x)[s] = Fct(y)[s]}
    <3>1. IsFiniteSet(I)
      BY FS_Subset
    <3>2. \A s \in SUBSET I : /\ Fct(x)[s] = Pas(Fct(x), g, s)
                              /\ Fct(y)[s] = Pas(Fct(y), g, s)
      BY <2>1 DEF Deroule
    <3>3. {} \in D
      BY <3>2 DEF Pas
    <3>4. ASSUME NEW s \in SUBSET I, s # {}, \A z \in s : s \ {z} \in D
          PROVE  s \in D
      <4>1. Choix(s) \in s
        BY <3>4 DEF Choix
      <4>2. s \ {Choix(s)} \in D
        BY <3>4, <4>1
      <4>. QED BY <3>2, <4>2 DEF Pas
    <3>5. SUBSET I \subseteq D
      <4>. HIDE DEF D, I
      <4>. QED BY <3>1, <3>3, <3>4, RecurrenceFinie
    <3>. QED BY <3>5
  <2>. DEFINE it == [s \in SUBSET T |-> IF s = {} THEN 0
                                        ELSE g[Choix(s)] + Fct(Choix(s))[s \ {Choix(s)}]]
  <2>3. \A s \in SUBSET T : s # {} => Choix(s) \in s
    BY DEF Choix
  <2>4. ASSUME NEW s \in SUBSET T, s # {}
        PROVE  Fct(Choix(s))[s \ {Choix(s)}] = it[s \ {Choix(s)}]
    <3>. DEFINE x == Choix(s)
                u == s \ {x}
                y == Choix(u)
    <3>1. x \in T /\ u \in SUBSET (T \ {x})
      BY <2>3, <2>4
    <3>2. Fct(x)[u] = Pas(Fct(x), g, u)
      BY <2>1, <3>1 DEF Deroule
    <3>3. CASE u = {}
      BY <3>1, <3>2, <3>3 DEF Pas
    <3>4. CASE u # {}
      <4>1. y \in u /\ y \in T
        BY <2>3, <3>1, <3>4
      <4>2. u \ {y} \in SUBSET ((T \ {x}) \cap (T \ {y}))
        BY <3>1
      <4>3. Fct(x)[u \ {y}] = Fct(y)[u \ {y}]
        BY <2>2, <3>1, <4>1, <4>2
      <4>4. it[u] = g[y] + Fct(y)[u \ {y}]
        BY <3>1, <3>4
      <4>. QED BY <3>2, <3>4, <4>3, <4>4 DEF Pas
    <3>. QED BY <3>3, <3>4
  <2>5. \A s \in SUBSET T : it[s] = Pas(it, g, s)
    BY <2>4 DEF Pas
  <2>6. Deroule(it, g, T)
    BY <2>5 DEF Deroule
  <2>. HIDE DEF it
  <2>. QED BY <2>6
<1>. HIDE DEF B
<1>. QED BY <1>1, <1>2, RecurrenceFinie

\* What the sum of a finite set unrolls to, and on which terms it depends.
LEMMA SommeUnique ==
  ASSUME NEW S, IsFiniteSet(S), NEW g, NEW h, \A x \in S : g[x] = h[x],
         NEW it, Deroule(it, g, S), NEW jt, Deroule(jt, h, S)
  PROVE  \A s \in SUBSET S : it[s] = jt[s]
<1>. DEFINE D == {s \in SUBSET S : it[s] = jt[s]}
<1>1. \A s \in SUBSET S : it[s] = Pas(it, g, s) /\ jt[s] = Pas(jt, h, s)
  BY DEF Deroule
<1>2. {} \in D
  BY <1>1 DEF Pas
<1>3. ASSUME NEW s \in SUBSET S, s # {}, \A z \in s : s \ {z} \in D
      PROVE  s \in D
  <2>1. Choix(s) \in s
    BY <1>3 DEF Choix
  <2>. QED BY <1>1, <1>3, <2>1 DEF Pas
<1>4. SUBSET S \subseteq D
  <2>. HIDE DEF D
  <2>. QED BY <1>2, <1>3, RecurrenceFinie
<1>. QED BY <1>4

\* The sums of the subsets of S are the values of the function of S.
LEMMA SommePartielle ==
  ASSUME NEW S, IsFiniteSet(S), NEW g, NEW h, \A x \in S : g[x] = h[x],
         NEW it, Deroule(it, g, S), NEW T \in SUBSET S
  PROVE  it[T] = Somme(h, T)
<1>. DEFINE f == [s \in SUBSET T |-> it[s]]
            k == CHOOSE j : Deroule(j, h, T)
<1>1. IsFiniteSet(T)
  BY FS_Subset
<1>2. Deroule(k, h, T)
  BY <1>1, SommeExiste
<1>3. Deroule(f, g, T)
  <2>1. \A s \in SUBSET T : it[s] = Pas(it, g, s) /\ Pas(it, g, s) = Pas(f, g, s)
    BY DEF Deroule, Pas
  <2>. QED BY <2>1 DEF Deroule
<1>4. k[T] = Somme(h, T)
  BY DEF Somme
<1>. HIDE DEF f, k
<1>5. f[T] = k[T]
  BY <1>1, <1>2, <1>3, SommeUnique
<1>. QED BY <1>4, <1>5 DEF f

\* Equal terms make equal sums.
LEMMA SommeEgale ==
  ASSUME NEW S, IsFiniteSet(S), NEW g, NEW h, \A x \in S : g[x] = h[x]
  PROVE  Somme(g, S) = Somme(h, S)
<1>1. PICK it : Deroule(it, g, S)
  BY SommeExiste
<1>. QED BY <1>1, SommePartielle

LEMMA SommeVide ==
  ASSUME NEW g
  PROVE  Somme(g, {}) = 0
<1>1. IsFiniteSet({})
  BY FS_EmptySet
<1>2. PICK it : Deroule(it, g, {})
  BY <1>1, SommeExiste
<1>3. it[{}] = 0
  BY <1>2 DEF Deroule, Pas
<1>4. {} \in SUBSET {} /\ \A x \in {} : g[x] = g[x]
  OBVIOUS
<1>5. it[{}] = Somme(g, {})
  BY <1>1, <1>2, <1>4, SommePartielle
<1>. QED BY <1>3, <1>5

\* A sum is its first term and the sum of the others.
LEMMA SommePas ==
  ASSUME NEW S, IsFiniteSet(S), S # {}, NEW g
  PROVE  /\ Choix(S) \in S
         /\ Somme(g, S) = g[Choix(S)] + Somme(g, S \ {Choix(S)})
<1>1. PICK it : Deroule(it, g, S)
  BY SommeExiste
<1>2. it[S] = g[Choix(S)] + it[S \ {Choix(S)}]
  BY <1>1 DEF Deroule, Pas
<1>3. it[S] = Somme(g, S) /\ it[S \ {Choix(S)}] = Somme(g, S \ {Choix(S)})
  BY <1>1, SommePartielle
<1>. QED BY <1>2, <1>3 DEF Choix

\* The sum of integers is one, and that of naturals a natural.
LEMMA SommeType ==
  ASSUME NEW S, IsFiniteSet(S), NEW g
  PROVE  /\ (\A x \in S : g[x] \in Int) => Somme(g, S) \in Int
         /\ (\A x \in S : g[x] \in Nat) => Somme(g, S) \in Nat
<1>1. ASSUME NEW E, E = Int \/ E = Nat, \A x \in S : g[x] \in E
      PROVE  Somme(g, S) \in E
  <2>. DEFINE D == {s \in SUBSET S : Somme(g, s) \in E}
  <2>1. {} \in D
    BY <1>1, SommeVide
  <2>2. ASSUME NEW s \in SUBSET S, s # {}, \A z \in s : s \ {z} \in D
        PROVE  s \in D
    <3>1. IsFiniteSet(s)
      BY FS_Subset
    <3>2. Choix(s) \in s /\ Somme(g, s) = g[Choix(s)] + Somme(g, s \ {Choix(s)})
      BY <2>2, <3>1, SommePas
    <3>3. g[Choix(s)] \in E /\ Somme(g, s \ {Choix(s)}) \in E
      BY <1>1, <2>2, <3>2
    <3>. QED BY <1>1, <3>2, <3>3
  <2>3. SUBSET S \subseteq D
    <3>. HIDE DEF D
    <3>. QED BY <2>1, <2>2, RecurrenceFinie
  <2>. QED BY <2>3
<1>. QED BY <1>1

\* Any term may be taken out of a sum: the order does not matter.
LEMMA SommeRetire ==
  ASSUME NEW S, IsFiniteSet(S), NEW g, \A y \in S : g[y] \in Int, NEW x \in S
  PROVE  Somme(g, S) = g[x] + Somme(g, S \ {x})
<1>. DEFINE D == {s \in SUBSET S : \A z \in s : Somme(g, s) = g[z] + Somme(g, s \ {z})}
<1>1. {} \in D
  OBVIOUS
<1>2. ASSUME NEW s \in SUBSET S, s # {}, \A z \in s : s \ {z} \in D
      PROVE  s \in D
  <2>1. IsFiniteSet(s) /\ \A z, w \in s : IsFiniteSet(s \ {z}) /\ IsFiniteSet((s \ {z}) \ {w})
    <3>1. \A T \in SUBSET S : IsFiniteSet(T)
      BY FS_Subset
    <3>. QED BY <3>1
  <2>. DEFINE c == Choix(s)
  <2>2. c \in s /\ Somme(g, s) = g[c] + Somme(g, s \ {c})
    BY <1>2, <2>1, SommePas
  <2>. HIDE DEF c
  <2>3. ASSUME NEW z \in s, z # c
        PROVE  Somme(g, s) = g[z] + Somme(g, s \ {z})
    <3>1. Somme(g, s \ {c}) = g[z] + Somme(g, (s \ {c}) \ {z})
      BY <1>2, <2>2, <2>3
    <3>2. Somme(g, s \ {z}) = g[c] + Somme(g, (s \ {z}) \ {c})
      BY <1>2, <2>2, <2>3
    <3>3. (s \ {c}) \ {z} = (s \ {z}) \ {c}
      OBVIOUS
    <3>4. Somme(g, (s \ {z}) \ {c}) \in Int /\ g[c] \in Int /\ g[z] \in Int
      <4>1. \A y \in (s \ {z}) \ {c} : g[y] \in Int
        OBVIOUS
      <4>. QED BY <2>1, <2>2, <4>1, SommeType
    <3>5. Somme(g, s) = g[c] + (g[z] + Somme(g, (s \ {z}) \ {c}))
      BY <2>2, <3>1, <3>3
    <3>. QED BY <3>2, <3>4, <3>5
  <2>. QED BY <2>2, <2>3
<1>3. SUBSET S \subseteq D
  <2>. HIDE DEF D
  <2>. QED BY <1>1, <1>2, RecurrenceFinie
<1>. QED BY <1>3

\* A sum with one more term.
LEMMA SommeAjoute ==
  ASSUME NEW S, IsFiniteSet(S), NEW x, x \notin S, NEW g, g[x] \in Int,
         \A y \in S : g[y] \in Int
  PROVE  Somme(g, S \cup {x}) = g[x] + Somme(g, S)
<1>1. IsFiniteSet(S \cup {x})
  BY FS_AddElement
<1>2. (S \cup {x}) \ {x} = S
  OBVIOUS
<1>. QED BY <1>1, <1>2, SommeRetire

\* When one term changes, the sum moves by the difference.
LEMMA SommeChange ==
  ASSUME NEW S, IsFiniteSet(S), NEW x \in S, NEW g, NEW h,
         \A y \in S : g[y] \in Int /\ h[y] \in Int,
         \A y \in S \ {x} : g[y] = h[y]
  PROVE  Somme(h, S) = Somme(g, S) - g[x] + h[x]
<1>1. IsFiniteSet(S \ {x})
  BY FS_Subset
<1>2. /\ Somme(g, S) = g[x] + Somme(g, S \ {x})
      /\ Somme(h, S) = h[x] + Somme(h, S \ {x})
  BY SommeRetire
<1>3. Somme(g, S \ {x}) = Somme(h, S \ {x})
  BY <1>1, SommeEgale
<1>4. Somme(g, S \ {x}) \in Int
  BY <1>1, SommeType
<1>. QED BY <1>2, <1>3, <1>4

\* A sum of naturals is at least each of its terms.
LEMMA SommeMajore ==
  ASSUME NEW S, IsFiniteSet(S), NEW g, \A y \in S : g[y] \in Nat, NEW x \in S
  PROVE  g[x] <= Somme(g, S)
<1>1. IsFiniteSet(S \ {x})
  BY FS_Subset
<1>2. Somme(g, S \ {x}) \in Nat
  BY <1>1, SommeType
<1>3. Somme(g, S) = g[x] + Somme(g, S \ {x})
  BY SommeRetire
<1>. QED BY <1>2, <1>3

\* A sum over a part of a set is the sum over the set with zeros elsewhere.
LEMMA SommeFiltre ==
  ASSUME NEW S, IsFiniteSet(S), NEW R \in SUBSET S, NEW g, NEW h,
         \A x \in R : g[x] \in Int /\ h[x] = g[x],
         \A x \in S \ R : h[x] = 0
  PROVE  Somme(g, R) = Somme(h, S)
<1>. DEFINE D == {T \in SUBSET S : Somme(g, R \cap T) = Somme(h, T)}
<1>1. {} \in D
  BY SommeVide
<1>2. ASSUME NEW T \in SUBSET S, T # {}, \A x \in T : T \ {x} \in D
      PROVE  T \in D
  <2>1. IsFiniteSet(T) /\ IsFiniteSet(R \cap T)
    <3>1. R \cap T \in SUBSET S
      OBVIOUS
    <3>. QED BY <3>1, FS_Subset
  <2>2. PICK x \in T : TRUE
    BY <1>2
  <2>3. Somme(g, R \cap (T \ {x})) = Somme(h, T \ {x})
    BY <1>2, <2>2
  <2>4. \A y \in T : h[y] \in Int
    OBVIOUS
  <2>5. Somme(h, T) = h[x] + Somme(h, T \ {x})
    BY <2>1, <2>2, <2>4, SommeRetire
  <2>6. CASE x \in R
    <3>1. Somme(g, R \cap T) = g[x] + Somme(g, (R \cap T) \ {x})
      BY <2>1, <2>6, SommeRetire
    <3>2. (R \cap T) \ {x} = R \cap (T \ {x})
      OBVIOUS
    <3>. QED BY <2>3, <2>5, <2>6, <3>1, <3>2
  <2>7. CASE x \notin R
    <3>1. R \cap T = R \cap (T \ {x})
      BY <2>7
    <3>2. Somme(h, T \ {x}) \in Int /\ h[x] = 0
      <4>1. IsFiniteSet(T \ {x}) /\ \A y \in T \ {x} : h[y] \in Int
        BY <2>1, <2>4, FS_Subset
      <4>. QED BY <2>7, <4>1, SommeType
    <3>3. Somme(h, T) = Somme(h, T \ {x})
      BY <2>5, <3>2
    <3>. QED BY <2>3, <3>1, <3>3
  <2>. QED BY <2>6, <2>7
<1>3. SUBSET S \subseteq D
  <2>. HIDE DEF D
  <2>. QED BY <1>1, <1>2, RecurrenceFinie
<1>4. R \cap S = R
  OBVIOUS
<1>. QED BY <1>3, <1>4

LEMMA SommeNulle ==
  ASSUME NEW S, IsFiniteSet(S), NEW g, \A x \in S : g[x] = 0
  PROVE  Somme(g, S) = 0
<1>1. Somme(g, {}) = Somme(g, S)
  BY SommeFiltre
<1>. QED BY <1>1, SommeVide

\* The sum of two sums is that of their terms.
LEMMA SommesJointes ==
  ASSUME NEW S, IsFiniteSet(S), NEW g, NEW h, NEW k,
         \A x \in S : g[x] \in Int /\ h[x] \in Int /\ k[x] = g[x] + h[x]
  PROVE  Somme(k, S) = Somme(g, S) + Somme(h, S)
<1>. DEFINE B == {T \in SUBSET S : Somme(k, T) = Somme(g, T) + Somme(h, T)}
<1>1. {} \in B
  BY SommeVide
<1>2. ASSUME NEW T \in SUBSET S, T # {}, \A x \in T : T \ {x} \in B
      PROVE  T \in B
  <2>1. PICK x \in T : TRUE
    BY <1>2
  <2>2. IsFiniteSet(T) /\ IsFiniteSet(T \ {x})
    BY FS_Subset
  <2>3. /\ Somme(g, T) = g[x] + Somme(g, T \ {x})
        /\ Somme(h, T) = h[x] + Somme(h, T \ {x})
        /\ Somme(k, T) = k[x] + Somme(k, T \ {x})
    <3>1. \A y \in T : g[y] \in Int /\ h[y] \in Int /\ k[y] \in Int
      OBVIOUS
    <3>. QED BY <2>2, <3>1, SommeRetire
  <2>4. Somme(g, T \ {x}) \in Int /\ Somme(h, T \ {x}) \in Int
    BY <2>2, SommeType
  <2>5. Somme(k, T \ {x}) = Somme(g, T \ {x}) + Somme(h, T \ {x})
    BY <1>2
  <2>6. g[x] \in Int /\ h[x] \in Int /\ k[x] = g[x] + h[x]
    OBVIOUS
  <2>. QED BY <2>3, <2>4, <2>5, <2>6
<1>3. SUBSET S \subseteq B
  <2>. HIDE DEF B
  <2>. QED BY <1>1, <1>2, RecurrenceFinie
<1>. QED BY <1>3

------------------------------------------------------------------------------

\* Induction up to n: a set that holds 0, and every number whose predecessor it
\* holds.
LEMMA RecurrenceBornee ==
  ASSUME NEW n \in Nat, NEW B, 0 \in B, \A i \in 1 .. n : i - 1 \in B => i \in B
  PROVE  \A i \in 0 .. n : i \in B
<1>. DEFINE M == {i \in 0 .. n : i \notin B}
<1>. SUFFICES ASSUME M # {} PROVE FALSE
  OBVIOUS
<1>1. PICK i \in M : \A j \in M : i <= j
  <2>1. M \subseteq Nat
    OBVIOUS
  <2>. HIDE DEF M
  <2>. QED BY <2>1, PlusPetit
<1>2. i \in 1 .. n /\ i - 1 \in 0 .. n
  OBVIOUS
<1>. QED BY <1>1, <1>2

\* A sum does not depend on the names of its terms.
LEMMA SommeRenommee ==
  ASSUME NEW S, IsFiniteSet(S), NEW f, NEW g, NEW h,
         \A x, y \in S : f[x] = f[y] => x = y,
         \A x \in S : h[x] \in Int /\ g[f[x]] = h[x]
  PROVE  IsFiniteSet({f[x] : x \in S}) /\ Somme(g, {f[x] : x \in S}) = Somme(h, S)
<1>. DEFINE Im(T) == {f[x] : x \in T}
            B == {T \in SUBSET S : IsFiniteSet(Im(T)) /\ Somme(g, Im(T)) = Somme(h, T)}
<1>1. {} \in B
  <2>1. Im({}) = {} /\ IsFiniteSet({})
    BY FS_EmptySet
  <2>. QED BY <2>1, SommeVide
<1>2. ASSUME NEW T \in SUBSET S, T # {}, \A x \in T : T \ {x} \in B
      PROVE  T \in B
  <2>1. PICK x \in T : TRUE
    BY <1>2
  <2>. DEFINE U == T \ {x}
  <2>2. U \in B
    BY <1>2
  <2>3. f[x] \notin Im(U) /\ Im(T) = Im(U) \cup {f[x]} /\ T = U \cup {x} /\ x \notin U
    OBVIOUS
  <2>4. IsFiniteSet(U) /\ IsFiniteSet(Im(T))
    BY <2>2, <2>3, FS_Subset, FS_AddElement
  <2>5. \A y \in Im(U) : g[y] \in Int
    OBVIOUS
  <2>6. Somme(g, Im(U) \cup {f[x]}) = g[f[x]] + Somme(g, Im(U))
    <3>1. g[f[x]] \in Int /\ IsFiniteSet(Im(U))
      BY <2>2
    <3>. HIDE DEF U, Im, B
    <3>. QED BY <2>3, <2>5, <3>1, SommeAjoute
  <2>7. Somme(h, U \cup {x}) = h[x] + Somme(h, U)
    <3>1. h[x] \in Int /\ \A y \in U : h[y] \in Int
      OBVIOUS
    <3>. HIDE DEF U, Im, B
    <3>. QED BY <2>3, <2>4, <3>1, SommeAjoute
  <2>8. Somme(g, Im(U)) = Somme(h, U) /\ g[f[x]] = h[x]
    BY <2>2
  <2>9. Somme(g, Im(T)) = Somme(h, T)
    <3>. HIDE DEF U, Im, B
    <3>. QED BY <2>3, <2>6, <2>7, <2>8
  <2>. QED BY <2>4, <2>9
<1>3. SUBSET S \subseteq B
  <2>. HIDE DEF B
  <2>. QED BY <1>1, <1>2, RecurrenceFinie
<1>. QED BY <1>3

===============================================================================

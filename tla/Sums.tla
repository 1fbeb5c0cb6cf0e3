--------------------------------- MODULE Sums ---------------------------------
(***************************************************************************)
(* Facts about the sums of amounts that the models take over finite sets   *)
(* of movements, incomes and instalments (MapThenSumSet), for the proofs   *)
(* about them.                                                             *)
(*                                                                         *)
(* The amounts are a function F, so that a lemma is cited with the         *)
(* function that gives each row its amount.  Induction is over the subsets *)
(* of a finite set: what is to hold of all of them is a set of subsets.    *)
(***************************************************************************)
EXTENDS Integers, FiniteSets, FiniteSetsExt, FiniteSetTheorems,
        WellFoundedInduction, TLAPS

Suma(F, S) == MapThenSumSet(LAMBDA x : F[x], S)

-------------------------------------------------------------------------------
(* Induction *)

\* A set of naturals that is not empty has a least one.
LEMMA HayMenor ==
    ASSUME NEW B, B \subseteq Nat, B # {}
    PROVE  \E n \in B : \A m \in B : n <= m
<1>1. PICK n \in B : \A m \in B : ~ (<<m, n>> \in OpToRel(<, Nat))
  BY WFMin, NatLessThanWellFounded
<1>2. \A m \in Nat : m < n => <<m, n>> \in OpToRel(<, Nat)
  BY DEF OpToRel
<1>3. \A m \in B : ~ (m < n)
  BY <1>1, <1>2
<1>4. QED
  BY <1>3

\* A set of subsets of S that has every subset whose subsets of one element
\* less it has, has all of them.
LEMMA PorSubconjuntos ==
    ASSUME NEW S, IsFiniteSet(S), NEW C,
           \A T \in SUBSET S : (\A x \in T : T \ {x} \in C) => T \in C
    PROVE  SUBSET S \subseteq C
<1> DEFINE Faltan == (SUBSET S) \ C
           Tallas == {Cardinality(T) : T \in Faltan}
<1>1. SUFFICES ASSUME Faltan # {} PROVE FALSE
  OBVIOUS
<1>2. \A T \in SUBSET S : IsFiniteSet(T) /\ Cardinality(T) \in Nat
  BY FS_Subset, FS_CardinalityType
<1>3. Tallas \subseteq Nat /\ Tallas # {}
  BY <1>1, <1>2
<1>4. PICK n \in Tallas : \A m \in Tallas : n <= m
  BY <1>3, HayMenor
<1>5. PICK T \in Faltan : n = Cardinality(T)
  BY <1>4
<1>6. ASSUME NEW x \in T PROVE T \ {x} \in C
  <2>1. Cardinality(T \ {x}) = Cardinality(T) - 1
    BY <1>2, FS_RemoveElement
  <2>2. Cardinality(T) - 1 \notin Tallas
    <3>1. n \in Nat /\ n = Cardinality(T)
      BY <1>3, <1>5
    <3>2. ~ (n <= n - 1)
      BY <3>1
    <3> HIDE DEF Tallas
    <3>3. QED
      BY <1>4, <3>1, <3>2
  <2>3. T \ {x} \in SUBSET S
    OBVIOUS
  <2>4. QED
    BY <2>1, <2>2, <2>3
<1>7. QED
  BY <1>5, <1>6

-------------------------------------------------------------------------------
(* The recursion under MapThenSumSet *)

\* The function g adds the amounts of each subset of S.
Suman(F, S, g) ==
    g = [s \in SUBSET S |-> IF s = {} THEN 0
                            ELSE LET x == CHOOSE y \in s : TRUE
                                 IN  F[x] + g[s \ {x}]]

Uno(s) == CHOOSE y \in s : TRUE

\* The sum of a set is its value for the function chosen among those that sum its subsets.
LEMMA SumaEs ==
    ASSUME NEW F, NEW S
    PROVE  Suma(F, S) = (CHOOSE g : Suman(F, S, g))[S]
BY DEF Suma, MapThenSumSet, MapThenFoldSet, Suman

\* Such a function, at a set that is not empty.
LEMMA SumanPaso ==
    ASSUME NEW F, NEW S, NEW g, Suman(F, S, g), NEW s \in SUBSET S
    PROVE  /\ s = {} => g[s] = 0
           /\ s # {} => g[s] = F[Uno(s)] + g[s \ {Uno(s)}]
BY DEF Suman, Uno

\* The element chosen is one.
LEMMA UnoEsta == ASSUME NEW s, s # {} PROVE Uno(s) \in s
BY DEF Uno

\* Two such functions agree where both are defined.
LEMMA SumanIgual ==
    ASSUME NEW F, NEW S, NEW T, NEW g, NEW h, Suman(F, S, g), Suman(F, T, h),
           IsFiniteSet(S \cap T)
    PROVE  \A s \in SUBSET (S \cap T) : g[s] = h[s]
<1> DEFINE U == S \cap T
           C == {s \in SUBSET U : g[s] = h[s]}
<1>1. ASSUME NEW s \in SUBSET U, \A x \in s : s \ {x} \in C
      PROVE  s \in C
  <2>1. CASE s = {}
    BY <2>1, SumanPaso
  <2>2. CASE s # {}
    <3>1. s \ {Uno(s)} \in C
      BY <1>1, <2>2, UnoEsta
    <3>2. g[s] = F[Uno(s)] + g[s \ {Uno(s)}] /\ h[s] = F[Uno(s)] + h[s \ {Uno(s)}]
      BY <2>2, SumanPaso
    <3>3. QED
      BY <3>1, <3>2
  <2>3. QED
    BY <2>1, <2>2
<1>2. SUBSET U \subseteq C
  <2>1. IsFiniteSet(U)
    OBVIOUS
  <2> HIDE DEF C, U
  <2> QED BY <1>1, <2>1, PorSubconjuntos
<1>3. QED
  BY <1>2

\* Such a function for a set gives one for its subsets.
LEMMA SumanMenos ==
    ASSUME NEW F, NEW S, NEW g, Suman(F, S, g), NEW T \in SUBSET S
    PROVE  Suman(F, T, [s \in SUBSET T |-> g[s]])
<1> DEFINE h == [s \in SUBSET T |-> g[s]]
<1>1. ASSUME NEW s \in SUBSET T
      PROVE  g[s] = IF s = {} THEN 0
                    ELSE F[Uno(s)] + h[s \ {Uno(s)}]
  <2>1. s \in SUBSET S
    OBVIOUS
  <2>2. CASE s = {}
    BY <2>1, <2>2, SumanPaso
  <2>3. CASE s # {}
    <3>1. g[s] = F[Uno(s)] + g[s \ {Uno(s)}]
      BY <2>1, <2>3, SumanPaso
    <3>2. s \ {Uno(s)} \in SUBSET T
      OBVIOUS
    <3>3. QED
      BY <2>3, <3>1, <3>2
  <2>4. QED
    BY <2>2, <2>3
<1>2. QED
  BY <1>1 DEF Suman, Uno

Definida(F, S) == \E g : Suman(F, S, g)

\* The function chosen is such a function.
LEMMA Elegida ==
    ASSUME NEW F, NEW S, Definida(F, S)
    PROVE  \E g : Suman(F, S, g) /\ Suma(F, S) = g[S]
BY SumaEs DEF Definida

\* The sum of a set is that of an element and of the rest.
LEMMA SumaRec ==
    ASSUME NEW F, NEW S, IsFiniteSet(S), Definida(F, S)
    PROVE  /\ S = {} => Suma(F, S) = 0
           /\ S # {} => /\ Definida(F, S \ {Uno(S)})
                        /\ Suma(F, S) = F[Uno(S)] + Suma(F, S \ {Uno(S)})
<1>1. PICK g : Suman(F, S, g) /\ Suma(F, S) = g[S]
  BY Elegida
<1>2. CASE S = {}
  BY <1>1, <1>2, SumanPaso
<1>3. CASE S # {}
  <2> DEFINE T == S \ {Uno(S)}
  <2>1. Definida(F, T)
    BY <1>1, SumanMenos DEF Definida
  <2>2. PICK h : Suman(F, T, h) /\ Suma(F, T) = h[T]
    BY <2>1, Elegida
  <2>3. g[T] = h[T]
    <3>1. IsFiniteSet(S \cap T) /\ T \in SUBSET (S \cap T)
      BY FS_RemoveElement, FS_Subset
    <3>2. QED
      BY <3>1, <1>1, <2>2, SumanIgual
  <2>4. g[S] = F[Uno(S)] + g[T]
    BY <1>1, <1>3, SumanPaso
  <2>5. QED
    BY <1>1, <1>3, <2>1, <2>2, <2>3, <2>4
<1>4. QED
  BY <1>2, <1>3

\* A finite set has its sum.
LEMMA SumaDefinida ==
    ASSUME NEW F, NEW S, IsFiniteSet(S)
    PROVE  Definida(F, S)
<1> DEFINE C == {T \in SUBSET S : Definida(F, T)}
<1>1. ASSUME NEW T \in SUBSET S, \A x \in T : T \ {x} \in C
      PROVE  T \in C
  <2> DEFINE g == [s \in SUBSET T |-> IF s = {} THEN 0
                                      ELSE F[Uno(s)] + Suma(F, s \ {Uno(s)})]
  <2>1. ASSUME NEW s \in SUBSET T, s # T PROVE s \in C
    <3>1. PICK x \in T : x \notin s
      BY <2>1
    <3>2. PICK h : Suman(F, T \ {x}, h)
      BY <1>1 DEF Definida
    <3>3. s \in SUBSET (T \ {x})
      BY <3>1
    <3>4. QED
      BY <3>2, <3>3, SumanMenos DEF Definida
  <2>2. ASSUME NEW s \in SUBSET T, s # T PROVE g[s] = Suma(F, s)
    <3>1. IsFiniteSet(s) /\ Definida(F, s)
      BY <2>1, <2>2, FS_Subset
    <3>2. QED
      BY <3>1, SumaRec
  <2>3. ASSUME NEW s \in SUBSET T, s # {}
        PROVE  g[s \ {Uno(s)}] = Suma(F, s \ {Uno(s)})
    <3>1. s \ {Uno(s)} # T /\ s \ {Uno(s)} \in SUBSET T
      BY <2>3, UnoEsta
    <3>2. QED
      BY <3>1, <2>2
  <2>4. g = [s \in SUBSET T |-> IF s = {} THEN 0
                                ELSE F[Uno(s)] + g[s \ {Uno(s)}]]
    BY <2>3
  <2>5. Suman(F, T, g)
    BY <2>4 DEF Suman, Uno
  <2>6. QED
    BY <2>5 DEF Definida
<1>2. SUBSET S \subseteq C
  <2> HIDE DEF C
  <2> QED BY <1>1, PorSubconjuntos
<1>3. QED
  BY <1>2

-------------------------------------------------------------------------------
(* What the sums do *)

\* Nothing adds up to zero.
THEOREM SumaVacia == ASSUME NEW F PROVE Suma(F, {}) = 0
BY FS_EmptySet, SumaDefinida, SumaRec

Enteros(F, S) == \A x \in S : F[x] \in Int

\* The sum of one amount.
LEMMA SumaUno ==
    ASSUME NEW F, NEW S, IsFiniteSet(S), S # {}
    PROVE  Suma(F, S) = F[Uno(S)] + Suma(F, S \ {Uno(S)})
BY SumaDefinida, SumaRec

\* A sum of integers is an integer.
THEOREM SumaEntera ==
    ASSUME NEW F, NEW S, IsFiniteSet(S), Enteros(F, S)
    PROVE  Suma(F, S) \in Int
<1> DEFINE C == {T \in SUBSET S : Suma(F, T) \in Int}
<1>1. ASSUME NEW T \in SUBSET S, \A x \in T : T \ {x} \in C
      PROVE  T \in C
  <2>1. IsFiniteSet(T)
    BY FS_Subset
  <2>2. CASE T = {}
    BY <2>2, SumaVacia
  <2>3. CASE T # {}
    <3>1. Uno(T) \in T /\ Suma(F, T) = F[Uno(T)] + Suma(F, T \ {Uno(T)})
      BY <2>1, <2>3, SumaUno, UnoEsta
    <3>2. QED
      BY <1>1, <3>1 DEF Enteros
  <2>4. QED
    BY <2>2, <2>3
<1>2. SUBSET S \subseteq C
  <2> HIDE DEF C
  <2> QED BY <1>1, PorSubconjuntos
<1>3. QED
  BY <1>2

\* The order does not matter: any amount can be taken apart.
THEOREM SumaMenos ==
    ASSUME NEW F, NEW S, IsFiniteSet(S), Enteros(F, S), NEW x \in S
    PROVE  Suma(F, S) = F[x] + Suma(F, S \ {x})
<1> DEFINE C == {T \in SUBSET S : \A y \in T : Suma(F, T) = F[y] + Suma(F, T \ {y})}
<1>0. \A T \in SUBSET S : IsFiniteSet(T) /\ Enteros(F, T) /\ Suma(F, T) \in Int
  BY FS_Subset, SumaEntera DEF Enteros
<1>1. ASSUME NEW T \in SUBSET S, \A y \in T : T \ {y} \in C
      PROVE  T \in C
  <2>1. SUFFICES ASSUME NEW y \in T
                 PROVE  Suma(F, T) = F[y] + Suma(F, T \ {y})
    OBVIOUS
  <2> DEFINE u == Uno(T)
  <2>2. u \in T /\ Suma(F, T) = F[u] + Suma(F, T \ {u})
    BY <1>0, SumaUno, UnoEsta
  <2>3. CASE y = u
    BY <2>2, <2>3
  <2>4. CASE y # u
    <3>1. y \in T \ {u} /\ u \in T \ {y}
      BY <2>2, <2>4
    <3>2. Suma(F, T \ {u}) = F[y] + Suma(F, (T \ {u}) \ {y})
      BY <1>1, <2>2, <3>1
    <3>3. Suma(F, T \ {y}) = F[u] + Suma(F, (T \ {y}) \ {u})
      BY <1>1, <3>1
    <3> DEFINE r == Suma(F, (T \ {u}) \ {y})
    <3>4. Suma(F, T \ {y}) = F[u] + r
      BY <3>3, (T \ {y}) \ {u} = (T \ {u}) \ {y}
    <3>5. r \in Int /\ F[y] \in Int /\ F[u] \in Int
      BY <1>0, <2>2 DEF Enteros
    <3>6. Suma(F, T) = F[u] + (F[y] + r)
      BY <2>2, <3>2
    <3> HIDE DEF u, r
    <3>7. F[u] + (F[y] + r) = F[y] + (F[u] + r)
      BY <3>5
    <3>8. QED
      BY <3>4, <3>6, <3>7
  <2>5. QED
    BY <2>3, <2>4
<1>2. SUBSET S \subseteq C
  <2> HIDE DEF C
  <2> QED BY <1>1, PorSubconjuntos
<1>3. QED
  BY <1>2

\* One amount more.
THEOREM SumaMas ==
    ASSUME NEW F, NEW S, IsFiniteSet(S), Enteros(F, S), NEW x, x \notin S, F[x] \in Int
    PROVE  Suma(F, S \cup {x}) = F[x] + Suma(F, S)
<1>1. IsFiniteSet(S \cup {x}) /\ Enteros(F, S \cup {x}) /\ (S \cup {x}) \ {x} = S
  BY FS_AddElement DEF Enteros
<1>2. QED
  BY <1>1, SumaMenos

Naturales(F, S) == \A x \in S : F[x] \in Nat

\* A sum of naturals is a natural, and that of a part is no larger.
THEOREM SumaParte ==
    ASSUME NEW F, NEW S, IsFiniteSet(S), Naturales(F, S), NEW P \in SUBSET S
    PROVE  Suma(F, P) \in Nat /\ Suma(F, P) <= Suma(F, S)
<1> DEFINE C == {T \in SUBSET S : \A R \in SUBSET T :
                    /\ Suma(F, T) \in Nat /\ Suma(F, R) \in Nat
                    /\ Suma(F, R) <= Suma(F, T)}
<1>0. \A T \in SUBSET S : IsFiniteSet(T) /\ Enteros(F, T)
  BY FS_Subset DEF Enteros, Naturales
<1>1. ASSUME NEW T \in SUBSET S, \A y \in T : T \ {y} \in C
      PROVE  T \in C
  <2>1. Suma(F, T) \in Nat
    <3>1. CASE T = {}
      BY <3>1, SumaVacia
    <3>2. CASE T # {}
      <4>1. PICK y \in T : TRUE
        BY <3>2
      <4>2. Suma(F, T) = F[y] + Suma(F, T \ {y})
        BY <1>0, SumaMenos
      <4>3. Suma(F, T \ {y}) \in Nat
        BY <1>1
      <4>4. QED
        BY <4>2, <4>3 DEF Naturales
    <3>3. QED
      BY <3>1, <3>2
  <2>2. ASSUME NEW R \in SUBSET T, R # T
        PROVE  Suma(F, R) \in Nat /\ Suma(F, R) <= Suma(F, T)
    <3>1. PICK y \in T : y \notin R
      BY <2>2
    <3>2. Suma(F, T) = F[y] + Suma(F, T \ {y})
      BY <1>0, SumaMenos
    <3>3. Suma(F, R) \in Nat /\ Suma(F, R) <= Suma(F, T \ {y})
      BY <1>1, <3>1, R \in SUBSET (T \ {y})
    <3>4. Suma(F, T \ {y}) \in Nat /\ F[y] \in Nat
      BY <1>1 DEF Naturales
    <3>5. QED
      BY <3>2, <3>3, <3>4
  <2>3. QED
    BY <2>1, <2>2
<1>2. SUBSET S \subseteq C
  <2> HIDE DEF C
  <2> QED BY <1>1, PorSubconjuntos
<1>3. QED
  BY <1>2

\* The sum depends on the amounts of its elements only.
THEOREM SumaIgual ==
    ASSUME NEW F, NEW G, NEW S, IsFiniteSet(S), \A x \in S : F[x] = G[x]
    PROVE  Suma(F, S) = Suma(G, S)
<1> DEFINE C == {T \in SUBSET S : Suma(F, T) = Suma(G, T)}
<1>1. ASSUME NEW T \in SUBSET S, \A x \in T : T \ {x} \in C
      PROVE  T \in C
  <2>1. IsFiniteSet(T)
    BY FS_Subset
  <2>2. CASE T = {}
    BY <2>2, SumaVacia
  <2>3. CASE T # {}
    <3>1. Uno(T) \in T /\ T \ {Uno(T)} \in C
      BY <1>1, <2>3, UnoEsta
    <3>2. /\ Suma(F, T) = F[Uno(T)] + Suma(F, T \ {Uno(T)})
          /\ Suma(G, T) = G[Uno(T)] + Suma(G, T \ {Uno(T)})
      BY <2>1, <2>3, SumaUno
    <3>3. QED
      BY <3>1, <3>2
  <2>4. QED
    BY <2>2, <2>3
<1>2. SUBSET S \subseteq C
  <2> HIDE DEF C
  <2> QED BY <1>1, PorSubconjuntos
<1>3. QED
  BY <1>2

\* Equal amounts.
THEOREM SumaConstante ==
    ASSUME NEW F, NEW S, IsFiniteSet(S), NEW c \in Int, \A x \in S : F[x] = c
    PROVE  Suma(F, S) = c * Cardinality(S)
<1> DEFINE C == {T \in SUBSET S : Suma(F, T) = c * Cardinality(T)}
<1>1. ASSUME NEW T \in SUBSET S, \A x \in T : T \ {x} \in C
      PROVE  T \in C
  <2>1. IsFiniteSet(T) /\ Cardinality(T) \in Nat
    BY FS_Subset, FS_CardinalityType
  <2>2. CASE T = {}
    BY <2>2, SumaVacia, FS_EmptySet
  <2>3. CASE T # {}
    <3> DEFINE u == Uno(T)
               n == Cardinality(T \ {u})
    <3>1. u \in T /\ Suma(F, T) = F[u] + Suma(F, T \ {u})
      BY <2>1, <2>3, SumaUno, UnoEsta
    <3>2. F[u] = c /\ Suma(F, T \ {u}) = c * n
      BY <1>1, <3>1
    <3>3. n = Cardinality(T) - 1
      BY <2>1, <3>1, FS_RemoveElement
    <3> DEFINE k == Cardinality(T)
    <3>4. Suma(F, T) = c + c * (k - 1)
      BY <3>1, <3>2, <3>3
    <3>5. k \in Nat
      BY <2>1
    <3> HIDE DEF k
    <3>6. c + c * (k - 1) = c * k
      BY <3>5
    <3>7. Suma(F, T) = c * k
      BY <3>4, <3>6
    <3>8. QED
      BY <3>7 DEF k
  <2>4. QED
    BY <2>2, <2>3
<1>2. SUBSET S \subseteq C
  <2> HIDE DEF C
  <2> QED BY <1>1, PorSubconjuntos
<1>3. QED
  BY <1>2

\* One amount of the sum changes.
THEOREM SumaCambia ==
    ASSUME NEW F, NEW G, NEW S, IsFiniteSet(S), Enteros(F, S), NEW x \in S,
           G[x] \in Int, \A y \in S \ {x} : G[y] = F[y]
    PROVE  Suma(G, S) = Suma(F, S) - F[x] + G[x]
<1>1. IsFiniteSet(S \ {x}) /\ Enteros(F, S \ {x}) /\ Enteros(G, S)
  BY FS_Subset DEF Enteros
<1>2. Suma(F, S) = F[x] + Suma(F, S \ {x}) /\ Suma(G, S) = G[x] + Suma(G, S \ {x})
  BY <1>1, SumaMenos
<1>3. Suma(F, S \ {x}) = Suma(G, S \ {x})
  BY <1>1, SumaIgual
<1>4. Suma(F, S \ {x}) \in Int /\ F[x] \in Int
  BY <1>1, SumaEntera DEF Enteros
<1>5. QED
  BY <1>2, <1>3, <1>4

\* One amount.
THEOREM SumaDeUno ==
    ASSUME NEW F, NEW x, F[x] \in Int
    PROVE  Suma(F, {x}) = F[x]
<1>1. IsFiniteSet({x}) /\ Enteros(F, {x}) /\ {x} \ {x} = {}
  BY FS_Singleton DEF Enteros
<1>2. Suma(F, {x}) = F[x] + Suma(F, {})
  BY <1>1, SumaMenos
<1>3. QED
  BY <1>2, SumaVacia

\* The sum of two sets that share nothing is the sum of theirs.
THEOREM SumaUnion ==
    ASSUME NEW F, NEW A, NEW B, IsFiniteSet(A), IsFiniteSet(B), A \cap B = {},
           Enteros(F, A), Enteros(F, B)
    PROVE  Suma(F, A \cup B) = Suma(F, A) + Suma(F, B)
<1> DEFINE C == {T \in SUBSET B : Suma(F, A \cup T) = Suma(F, A) + Suma(F, T)}
<1>1. ASSUME NEW T \in SUBSET B, \A y \in T : T \ {y} \in C
      PROVE  T \in C
  <2>1. CASE T = {}
    <3>1. Suma(F, A \cup T) = Suma(F, A)
      <4>1. A \cup T = A
        BY <2>1
      <4>2. QED
        BY <4>1, Zenon
    <3>2. Suma(F, T) = 0 /\ Suma(F, A) \in Int
      BY <2>1, SumaVacia, SumaEntera
    <3>3. Suma(F, A \cup T) = Suma(F, A) + Suma(F, T)
      BY <3>1, <3>2
    <3>4. QED
      BY <3>3
  <2>2. CASE T # {}
    <3>1. PICK y \in T : TRUE
      BY <2>2
    <3>2. IsFiniteSet(T) /\ Enteros(F, T)
      BY FS_Subset DEF Enteros
    <3>3. IsFiniteSet(A \cup T) /\ Enteros(F, A \cup T)
      BY <3>2, FS_Union DEF Enteros
    <3>4. (A \cup T) \ {y} = A \cup (T \ {y})
      OBVIOUS
    <3>5. y \in A \cup T
      OBVIOUS
    <3>6. Suma(F, A \cup T) = F[y] + Suma(F, A \cup (T \ {y}))
      BY <3>3, <3>4, <3>5, SumaMenos
    <3>7. Suma(F, T) = F[y] + Suma(F, T \ {y})
      BY <3>2, SumaMenos
    <3>8. Suma(F, A \cup (T \ {y})) = Suma(F, A) + Suma(F, T \ {y})
      BY <1>1
    <3>9. F[y] \in Int /\ Suma(F, A) \in Int /\ Suma(F, T \ {y}) \in Int
      <4>1. IsFiniteSet(T \ {y}) /\ Enteros(F, T \ {y})
        BY <3>2, FS_Subset DEF Enteros
      <4>2. QED
        BY <3>2, <4>1, SumaEntera DEF Enteros
    <3>10. \A m, n, k \in Int : m + (n + k) = n + (m + k)
      OBVIOUS
    <3>11. Suma(F, A \cup T) = F[y] + (Suma(F, A) + Suma(F, T \ {y}))
      BY <3>6, <3>8
    <3>12. Suma(F, A \cup T) = Suma(F, A) + Suma(F, T)
      BY <3>7, <3>9, <3>10, <3>11
    <3>13. QED
      BY <3>12
  <2>3. QED
    BY <2>1, <2>2
<1>2. SUBSET B \subseteq C
  <2> HIDE DEF C
  <2> QED BY <1>1, PorSubconjuntos
<1>3. QED
  BY <1>2

\* The sum of the differences is the difference of the sums.
THEOREM SumaResta ==
    ASSUME NEW F, NEW G, NEW H, NEW S, IsFiniteSet(S), Enteros(F, S), Enteros(G, S),
           \A x \in S : H[x] = F[x] - G[x]
    PROVE  Suma(H, S) = Suma(F, S) - Suma(G, S)
<1> DEFINE C == {T \in SUBSET S : Suma(H, T) = Suma(F, T) - Suma(G, T)}
<1>1. ASSUME NEW T \in SUBSET S, \A y \in T : T \ {y} \in C
      PROVE  T \in C
  <2>1. CASE T = {}
    BY <2>1, SumaVacia
  <2>2. CASE T # {}
    <3>1. PICK y \in T : TRUE
      BY <2>2
    <3>2. IsFiniteSet(T) /\ Enteros(F, T) /\ Enteros(G, T) /\ Enteros(H, T)
      BY FS_Subset DEF Enteros
    <3>3. /\ Suma(F, T) = F[y] + Suma(F, T \ {y})
          /\ Suma(G, T) = G[y] + Suma(G, T \ {y})
          /\ Suma(H, T) = H[y] + Suma(H, T \ {y})
      BY <3>2, SumaMenos
    <3>4. Suma(F, T \ {y}) \in Int /\ Suma(G, T \ {y}) \in Int
      <4>1. IsFiniteSet(T \ {y}) /\ Enteros(F, T \ {y}) /\ Enteros(G, T \ {y})
        BY <3>2, FS_Subset DEF Enteros
      <4>2. QED
        BY <4>1, SumaEntera
    <3>5. Suma(H, T \ {y}) = Suma(F, T \ {y}) - Suma(G, T \ {y})
      BY <1>1
    <3>6. F[y] \in Int /\ G[y] \in Int /\ H[y] = F[y] - G[y]
      BY DEF Enteros
    <3>7. QED
      BY <3>3, <3>4, <3>5, <3>6
  <2>3. QED
    BY <2>1, <2>2
<1>2. SUBSET S \subseteq C
  <2> HIDE DEF C
  <2> QED BY <1>1, PorSubconjuntos
<1>3. QED
  BY <1>2

\* D parts S among the elements of I.
Reparte(D, I, S) ==
    /\ \A i \in I : D[i] \subseteq S
    /\ \A i, j \in I : i # j => D[i] \cap D[j] = {}
    /\ \A x \in S : \E i \in I : x \in D[i]

\* The sum of a set that is parted is the sum of the sums of its parts.
THEOREM SumaPorPartes ==
    ASSUME NEW F, NEW S, IsFiniteSet(S), Enteros(F, S), NEW I, IsFiniteSet(I),
           NEW D, Reparte(D, I, S), NEW G, \A i \in I : G[i] = Suma(F, D[i])
    PROVE  Suma(G, I) = Suma(F, S)
<1> DEFINE U(T) == UNION {D[i] : i \in T}
           C == {T \in SUBSET I : Suma(G, T) = Suma(F, U(T))}
<1>1. \A T \in SUBSET I : U(T) \subseteq S /\ IsFiniteSet(U(T)) /\ Enteros(F, U(T))
  <2>1. SUFFICES ASSUME NEW T \in SUBSET I
                 PROVE  U(T) \subseteq S /\ IsFiniteSet(U(T)) /\ Enteros(F, U(T))
    OBVIOUS
  <2>2. U(T) \subseteq S
    BY DEF Reparte
  <2>3. QED
    BY <2>2, FS_Subset DEF Enteros
<1>2. \A i \in I : G[i] \in Int /\ IsFiniteSet(D[i]) /\ Enteros(F, D[i])
  <2>1. SUFFICES ASSUME NEW i \in I
                 PROVE  G[i] \in Int /\ IsFiniteSet(D[i]) /\ Enteros(F, D[i])
    OBVIOUS
  <2>2. D[i] \subseteq S
    BY DEF Reparte
  <2>3. IsFiniteSet(D[i]) /\ Enteros(F, D[i])
    BY <2>2, FS_Subset DEF Enteros
  <2>4. QED
    BY <2>3, SumaEntera
<1>3. ASSUME NEW T \in SUBSET I, \A i \in T : T \ {i} \in C
      PROVE  T \in C
  <2>1. CASE T = {}
    <3>1. U(T) = {}
      BY <2>1
    <3>2. Suma(F, U(T)) = 0 /\ Suma(G, T) = 0
      BY <2>1, <3>1, SumaVacia, Zenon
    <3>3. QED
      BY <3>2
  <2>2. CASE T # {}
    <3>1. PICK i \in T : TRUE
      BY <2>2
    <3>2. IsFiniteSet(T) /\ Enteros(G, T)
      BY <1>2, FS_Subset DEF Enteros
    <3>3. Suma(G, T) = G[i] + Suma(G, T \ {i})
      BY <3>2, SumaMenos
    <3>4. Suma(G, T \ {i}) = Suma(F, U(T \ {i}))
      BY <1>3
    <3>5. U(T) = D[i] \cup U(T \ {i})
      OBVIOUS
    <3>6. D[i] \cap U(T \ {i}) = {}
      BY DEF Reparte
    <3>7. Suma(F, D[i] \cup U(T \ {i})) = Suma(F, D[i]) + Suma(F, U(T \ {i}))
      <4>1. T \ {i} \in SUBSET I
        OBVIOUS
      <4>2. IsFiniteSet(U(T \ {i})) /\ Enteros(F, U(T \ {i}))
        BY <1>1, <4>1
      <4> HIDE DEF U
      <4>3. QED
        BY <1>2, <3>6, <4>2, SumaUnion
    <3> HIDE DEF U
    <3>8. Suma(F, U(T)) = Suma(F, D[i]) + Suma(F, U(T \ {i}))
      BY <3>5, <3>7, Zenon
    <3>9. QED
      BY <3>3, <3>4, <3>8
  <2>3. QED
    BY <2>1, <2>2
<1>4. SUBSET I \subseteq C
  <2> HIDE DEF C
  <2> QED BY <1>3, PorSubconjuntos
<1>5. U(I) = S
  BY DEF Reparte
<1>6. Suma(G, I) = Suma(F, U(I))
  BY <1>4
<1>7. QED
  BY <1>5, <1>6, Zenon

\* What one to one gives other names to the amounts adds up to the same.
THEOREM SumaImagen ==
    ASSUME NEW F, NEW S, IsFiniteSet(S), Enteros(F, S), NEW h, NEW G,
           \A x, y \in S : h[x] = h[y] => x = y,
           \A x \in S : G[h[x]] = F[x]
    PROVE  /\ IsFiniteSet({h[x] : x \in S})
           /\ Suma(G, {h[x] : x \in S}) = Suma(F, S)
<1> DEFINE R(T) == {h[x] : x \in T}
           C == {T \in SUBSET S : IsFiniteSet(R(T)) /\ Suma(G, R(T)) = Suma(F, T)}
<1>1. ASSUME NEW T \in SUBSET S, \A x \in T : T \ {x} \in C
      PROVE  T \in C
  <2>1. CASE T = {}
    <3>1. R(T) = {}
      BY <2>1
    <3>2. Suma(G, R(T)) = 0 /\ Suma(F, T) = 0 /\ IsFiniteSet(R(T))
      BY <2>1, <3>1, SumaVacia, FS_EmptySet, Zenon
    <3>3. QED
      BY <3>2
  <2>2. CASE T # {}
    <3>1. PICK x \in T : TRUE
      BY <2>2
    <3>2. IsFiniteSet(T) /\ Enteros(F, T)
      BY FS_Subset DEF Enteros
    <3>3. Suma(F, T) = F[x] + Suma(F, T \ {x})
      BY <3>2, SumaMenos
    <3>4. IsFiniteSet(R(T \ {x})) /\ Suma(G, R(T \ {x})) = Suma(F, T \ {x})
      BY <1>1
    <3>5. R(T) = R(T \ {x}) \cup {h[x]} /\ h[x] \notin R(T \ {x})
      OBVIOUS
    <3>6. Enteros(G, R(T \ {x})) /\ G[h[x]] = F[x] /\ F[x] \in Int
      BY DEF Enteros
    <3> HIDE DEF R
    <3>7. Suma(G, R(T \ {x}) \cup {h[x]}) = G[h[x]] + Suma(G, R(T \ {x}))
      BY <3>4, <3>5, <3>6, SumaMas
    <3>8. IsFiniteSet(R(T \ {x}) \cup {h[x]})
      BY <3>4, FS_AddElement
    <3>9. Suma(G, R(T)) = G[h[x]] + Suma(G, R(T \ {x})) /\ IsFiniteSet(R(T))
      BY <3>5, <3>7, <3>8, Zenon
    <3>10. QED
      BY <3>3, <3>4, <3>6, <3>9
  <2>3. QED
    BY <2>1, <2>2
<1>2. SUBSET S \subseteq C
  <2> HIDE DEF C
  <2> QED BY <1>1, PorSubconjuntos
<1>3. QED
  BY <1>2

===============================================================================

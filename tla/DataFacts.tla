----------------------------- MODULE DataFacts ------------------------------
(***************************************************************************)
(* Induction over the natural numbers and over finite sets, definition by  *)
(* recursion, and sums, with sets and functions in the place of predicates *)
(* and operators, so that a proof can cite the lemmas with its own.        *)
(***************************************************************************)
EXTENDS Words, SequencesExt, SequenceTheorems, FiniteSetTheorems, WellFoundedInduction, TLAPS

\* A set of natural numbers that is not empty has a least element.
LEMMA NatMinimum ==
    ASSUME NEW T, T \subseteq Nat, T # {}
    PROVE  \E n \in T : \A m \in T : n <= m
<1>1. PICK n \in T : \A m \in T : <<m, n>> \notin OpToRel(<, Nat)
  BY WFMin, NatLessThanWellFounded, Zenon
<1>2. \A m \in T : ~ (m < n)
  BY <1>1, Zenon DEF OpToRel
<1> QED
  BY <1>2

\* Induction: S is the set of the numbers a statement is true of.
LEMMA NatInductive ==
    ASSUME NEW S, 0 \in S, \A n \in Nat : n \in S => n + 1 \in S
    PROVE  Nat \subseteq S
<1> SUFFICES ASSUME Nat \ S # {}
             PROVE  FALSE
  OBVIOUS
<1>1. PICK n \in Nat \ S : \A m \in Nat \ S : n <= m
  BY NatMinimum
<1>2. n # 0 /\ n - 1 \in Nat
  BY <1>1
<1>3. n - 1 \in S
  BY <1>1, <1>2
<1> QED
  BY <1>1, <1>2, <1>3

\* Functions that give a value from its index and the value before.
StepsIn(V) == [Nat \X V -> V]

\* What a definition by recursion, with step G, says of f.
Unfolds(f, first, G) ==
    \A n \in Nat : f[n] = IF n = 0 THEN first ELSE G[<<n, f[n - 1]>>]

\* A function defined by recursion exists.
LEMMA NatRecursive ==
    ASSUME NEW V, NEW first \in V, NEW G \in StepsIn(V)
    PROVE  \E f \in [Nat -> V] : Unfolds(f, first, G)
<1> USE DEF StepsIn
<1> DEFINE Starts(n) ==
      {f \in [0..n -> V] : f[0] = first /\ \A i \in 1..n : f[i] = G[<<i, f[i - 1]>>]}
<1>1. \A n \in Nat : Starts(n) # {}
  <2> DEFINE S == {n \in Nat : Starts(n) # {}}
  <2>1. 0 \in S
    <3>1. [i \in 0..0 |-> first] \in Starts(0)
      OBVIOUS
    <3> QED
      BY <3>1
  <2>2. ASSUME NEW n \in Nat, n \in S
        PROVE  n + 1 \in S
    <3>1. PICK f \in Starts(n) : TRUE
      BY <2>2
    <3> DEFINE g == [i \in 0..(n + 1) |-> IF i = n + 1 THEN G[<<n + 1, f[n]>>] ELSE f[i]]
    <3>2. f[n] \in V
      BY <3>1
    <3>3. G[<<n + 1, f[n]>>] \in V
      BY <3>2
    <3>4. g \in [0..(n + 1) -> V]
      BY <3>1, <3>3
    <3>5. g[0] = first
      BY <3>1
    <3>6. ASSUME NEW i \in 1..(n + 1)
          PROVE  g[i] = G[<<i, g[i - 1]>>]
      <4>1. CASE i = n + 1
        BY <4>1
      <4>2. CASE i # n + 1
        <5>1. i \in 1..n /\ i - 1 \in 0..n /\ i \in 0..n
          BY <4>2
        <5>2. g[i] = f[i] /\ g[i - 1] = f[i - 1]
          BY <4>2, <5>1
        <5> QED
          BY <3>1, <5>1, <5>2
      <4> QED
        BY <4>1, <4>2
    <3>7. g \in Starts(n + 1)
      BY <3>4, <3>5, <3>6
    <3> HIDE DEF g, Starts
    <3> QED
      BY <3>7
  <2> HIDE DEF S
  <2>3. Nat \subseteq S
    BY <2>1, <2>2, NatInductive
  <2> QED
    BY <2>3 DEF S
<1>2. ASSUME NEW n \in Nat, NEW m \in Nat, NEW f \in Starts(n), NEW g \in Starts(m)
      PROVE  \A i \in Nat : i <= n /\ i <= m => f[i] = g[i]
  <2> DEFINE S == {i \in Nat : i <= n /\ i <= m => f[i] = g[i]}
  <2>1. 0 \in S
    OBVIOUS
  <2>2. ASSUME NEW i \in Nat, i \in S
        PROVE  i + 1 \in S
    <3> SUFFICES ASSUME i + 1 <= n, i + 1 <= m
                 PROVE  f[i + 1] = g[i + 1]
      OBVIOUS
    <3>1. f[i] = g[i]
      BY <2>2
    <3>2. i + 1 \in 1..n /\ i + 1 \in 1..m /\ i + 1 - 1 = i
      OBVIOUS
    <3>3. f[i + 1] = G[<<i + 1, f[i]>>]
      BY <3>2
    <3>4. g[i + 1] = G[<<i + 1, g[i]>>]
      BY <3>2
    <3> QED
      BY <3>1, <3>3, <3>4
  <2> HIDE DEF S
  <2>3. Nat \subseteq S
    BY <2>1, <2>2, NatInductive
  <2> QED
    BY <2>3 DEF S
<1> DEFINE start == [n \in Nat |-> CHOOSE f \in Starts(n) : TRUE]
           h == [n \in Nat |-> start[n][n]]
<1>3. \A n \in Nat : start[n] \in Starts(n)
  BY <1>1
<1> HIDE DEF start
<1>4. h \in [Nat -> V]
  BY <1>3
<1>5. ASSUME NEW n \in Nat
      PROVE  h[n] = IF n = 0 THEN first ELSE G[<<n, h[n - 1]>>]
  <2>1. CASE n = 0
    BY <1>3, <2>1
  <2>2. CASE n # 0
    <3>1. n - 1 \in Nat /\ n \in 1..n
      BY <2>2
    <3>2. start[n] \in Starts(n) /\ start[n - 1] \in Starts(n - 1)
      BY <1>3, <3>1
    <3>3. start[n][n - 1] = start[n - 1][n - 1]
      <4> HIDE DEF Starts
      <4>1. \A i \in Nat : i <= n /\ i <= n - 1 => start[n][i] = start[n - 1][i]
        BY <1>2, <3>1, <3>2
      <4> QED
        BY <3>1, <4>1
    <3>4. start[n][n] = G[<<n, start[n][n - 1]>>]
      BY <3>1, <3>2
    <3> QED
      BY <2>2, <3>1, <3>3, <3>4
  <2> QED
    BY <2>1, <2>2
<1> HIDE DEF h
<1> QED
  BY <1>4, <1>5 DEF Unfolds

-----------------------------------------------------------------------------
(***************************************************************************)
(* Sums over finite sets.  SumFunctionOnSet(g, S) applies to S a function  *)
(* on the subsets of S that begins every sum with an element of its own    *)
(* choice; the lemmas say that the function exists and that the choice     *)
(* makes no difference.                                                    *)
(***************************************************************************)
Chosen(s) == CHOOSE x \in s : TRUE

SumsUp(it, S, g) ==
    it = [s \in SUBSET S |-> IF s = {} THEN 0 ELSE g[Chosen(s)] + it[s \ {Chosen(s)}]]

\* The choice is one of the elements.
LEMMA AnyIn ==
    ASSUME NEW s, s # {}
    PROVE  Chosen(s) \in s
BY DEF Chosen

\* A set without one of its elements is smaller, by one.
LEMMA Smaller ==
    ASSUME NEW S, IsFiniteSet(S), NEW s \in SUBSET S, NEW x \in s
    PROVE  /\ Cardinality(s) \in Nat \ {0}
           /\ Cardinality(s \ {x}) = Cardinality(s) - 1
<1>1. IsFiniteSet(s)
  BY FS_Subset
<1>2. s # {} /\ Cardinality(s \ {x}) = Cardinality(s) - 1
  BY <1>1, FS_RemoveElement
<1>3. Cardinality(s) \in Nat /\ Cardinality(s) # 0
  BY <1>1, <1>2, FS_CardinalityType, FS_EmptySet
<1> QED
  BY <1>1, <1>2, <1>3

\* The empty set is the only one with no element.
LEMMA NoneLeft ==
    ASSUME NEW S, IsFiniteSet(S), NEW s \in SUBSET S, Cardinality(s) <= 0
    PROVE  s = {}
<1> SUFFICES ASSUME NEW x \in s
             PROVE  FALSE
  OBVIOUS
<1>1. Cardinality(s) \in Nat \ {0}
  BY Smaller
<1> QED
  BY <1>1

\* Induction over the finite subsets of S by their size: P is the set of the
\* subsets a statement is true of.
LEMMA SubsetInductive ==
    ASSUME NEW S, IsFiniteSet(S), NEW P,
           {} \in P,
           \A s \in SUBSET S : s # {} /\ (\A x \in s : s \ {x} \in P) => s \in P
    PROVE  SUBSET S \subseteq P
<1> DEFINE N == {n \in Nat : \A s \in SUBSET S : Cardinality(s) <= n => s \in P}
<1>1. 0 \in N
  <2>1. \A s \in SUBSET S : Cardinality(s) <= 0 => s \in P
    BY NoneLeft
  <2> QED
    BY <2>1
<1>2. ASSUME NEW n \in Nat, n \in N
      PROVE  n + 1 \in N
  <2>1. ASSUME NEW s \in SUBSET S, Cardinality(s) <= n + 1
        PROVE  s \in P
    <3>1. ASSUME NEW x \in s PROVE s \ {x} \in P
      <4>1. Cardinality(s \ {x}) <= n /\ s \ {x} \in SUBSET S
        BY <2>1, Smaller
      <4> QED
        BY <1>2, <4>1
    <3> QED
      BY <3>1
  <2> QED
    BY <2>1
<1> HIDE DEF N
<1>3. Nat \subseteq N
  BY <1>1, <1>2, NatInductive
<1> SUFFICES ASSUME NEW s \in SUBSET S
             PROVE  s \in P
  OBVIOUS
<1>4. Cardinality(s) \in Nat
  BY FS_Subset, FS_CardinalityType
<1>5. Cardinality(s) \in N
  BY <1>3, <1>4
<1> QED
  BY <1>4, <1>5 DEF N

\* The function exists, and has its values where g has.
LEMMA SumExists ==
    ASSUME NEW S, IsFiniteSet(S), NEW I \in {Nat, Int}, NEW g, \A x \in S : g[x] \in I
    PROVE  \E it \in [SUBSET S -> I] : SumsUp(it, S, g)
<1> DEFINE V == [SUBSET S -> I]
           Turn(h) == [s \in SUBSET S |-> IF s = {} THEN 0 ELSE g[Chosen(s)] + h[s \ {Chosen(s)}]]
           zero == [s \in SUBSET S |-> 0]
           G == [x \in Nat \X V |-> Turn(x[2])]
<1>1. ASSUME NEW h \in V
      PROVE  Turn(h) \in V
  <2>1. ASSUME NEW s \in SUBSET S, s # {}
        PROVE  g[Chosen(s)] + h[s \ {Chosen(s)}] \in I
    <3>1. Chosen(s) \in s
      BY <2>1, AnyIn
    <3>2. g[Chosen(s)] \in I /\ h[s \ {Chosen(s)}] \in I
      BY <3>1
    <3>3. \A a, b \in I : a + b \in I
      OBVIOUS
    <3> QED
      BY <3>2, <3>3
  <2> QED
    BY <2>1
<1>2. zero \in V
  OBVIOUS
<1>3. G \in StepsIn(V)
  <2>1. ASSUME NEW x \in Nat \X V PROVE Turn(x[2]) \in V
    <3>1. x[2] \in V OBVIOUS
    <3> HIDE DEF V, Turn
    <3> QED BY <1>1, <3>1
  <2> HIDE DEF V, Turn
  <2> QED BY <2>1 DEF StepsIn
<1>4. \A n \in Nat, h \in V : G[<<n, h>>] = Turn(h)
  <2> HIDE DEF V, Turn
  <2>1. \A x \in Nat \X V : G[x] = Turn(x[2])
    OBVIOUS
  <2> QED
    BY <2>1
<1> HIDE DEF G
<1>5. PICK f \in [Nat -> V] : Unfolds(f, zero, G)
  <2> HIDE DEF V, zero
  <2> QED BY <1>2, <1>3, NatRecursive
<1>6. ASSUME NEW n \in Nat
      PROVE  f[n] \in V /\ f[n + 1] = Turn(f[n])
  <2> HIDE DEF V, Turn, zero
  <2>1. f[n] \in V /\ n + 1 \in Nat /\ n + 1 # 0 /\ n + 1 - 1 = n
    BY <1>5
  <2>2. f[n + 1] = G[<<n + 1, f[n + 1 - 1]>>]
    BY <1>5, <2>1 DEF Unfolds
  <2> QED BY <1>4, <2>1, <2>2
<1> DEFINE N == Cardinality(S)
           P == {s \in SUBSET S : \A n \in Nat : n >= Cardinality(s) => f[n + 1][s] = f[n][s]}
<1>7. {} \in P
  <2>1. ASSUME NEW n \in Nat
        PROVE  f[n + 1][{}] = f[n][{}]
    <3>1. \A m \in Nat : f[m][{}] = 0
      <4> SUFFICES ASSUME NEW m \in Nat
                   PROVE  f[m][{}] = 0
        OBVIOUS
      <4>1. CASE m = 0
        BY <1>5, <4>1 DEF Unfolds
      <4>2. CASE m # 0
        <5>1. m - 1 \in Nat /\ m - 1 + 1 = m
          BY <4>2
        <5>2. f[m] = Turn(f[m - 1])
          <6> HIDE DEF V, Turn
          <6> QED BY <1>6, <5>1
        <5> QED
          BY <5>2
      <4> QED
        BY <4>1, <4>2
    <3>2. n + 1 \in Nat
      OBVIOUS
    <3> QED
      BY <3>1, <3>2
  <2> QED
    BY <2>1
<1>8. ASSUME NEW s \in SUBSET S, s # {}, \A x \in s : s \ {x} \in P
      PROVE  s \in P
  <2>1. Chosen(s) \in s
    BY <1>8, AnyIn
  <2>2. s \ {Chosen(s)} \in P
    BY <1>8, <2>1
  <2>3. \A m \in Nat : f[m + 1][s] = g[Chosen(s)] + f[m][s \ {Chosen(s)}]
    <3> SUFFICES ASSUME NEW m \in Nat
                 PROVE  f[m + 1][s] = g[Chosen(s)] + f[m][s \ {Chosen(s)}]
      OBVIOUS
    <3>1. f[m + 1] = Turn(f[m])
      <4> HIDE DEF V, Turn
      <4> QED BY <1>6
    <3> QED
      BY <1>8, <3>1
  <2>4. ASSUME NEW n \in Nat, n >= Cardinality(s)
        PROVE  f[n + 1][s] = f[n][s]
    <3>1. Cardinality(s) \in Nat \ {0} /\ Cardinality(s \ {Chosen(s)}) = Cardinality(s) - 1
      BY <2>1, Smaller
    <3> DEFINE m == n - 1
    <3>2. m \in Nat /\ m + 1 = n /\ m >= Cardinality(s \ {Chosen(s)})
      BY <2>4, <3>1
    <3> HIDE DEF m, P
    <3>3. f[m + 1][s \ {Chosen(s)}] = f[m][s \ {Chosen(s)}]
      BY <2>2, <3>2 DEF P
    <3>4. f[m + 1][s] = g[Chosen(s)] + f[m][s \ {Chosen(s)}]
      BY <2>3, <3>2
    <3>5. f[n + 1][s] = g[Chosen(s)] + f[n][s \ {Chosen(s)}]
      BY <2>3
    <3> QED
      BY <3>2, <3>3, <3>4, <3>5
  <2> HIDE DEF V
  <2> QED
    BY <2>4
<1>9. SUBSET S \subseteq P
  <2> HIDE DEF P
  <2> QED BY <1>7, <1>8, SubsetInductive
<1>10. N \in Nat /\ N + 1 \in Nat
  BY FS_CardinalityType
<1>11. f[N] \in V /\ f[N + 1] \in V /\ f[N + 1] = Turn(f[N])
  <2> HIDE DEF N, V, Turn
  <2> QED BY <1>6, <1>10
<1>12. \A s \in SUBSET S : f[N + 1][s] = f[N][s]
  <2>1. \A s \in SUBSET S : Cardinality(s) <= N
    BY FS_Subset
  <2> HIDE DEF N, V
  <2> QED
    BY <1>9, <1>10, <2>1
<1> HIDE DEF N, P
<1>13. f[N + 1] = f[N]
  BY <1>11, <1>12
<1>14. SumsUp(f[N], S, g)
  BY <1>11, <1>13 DEF SumsUp
<1> QED
  BY <1>11, <1>14

\* Two such functions agree wherever both are defined.
AgreeOn(f, g, S) == \A x \in S : f[x] = g[x]

LEMMA SumUnique ==
    ASSUME NEW S, IsFiniteSet(S), NEW T, S \subseteq T,
           NEW g, NEW h, AgreeOn(g, h, S),
           NEW it, SumsUp(it, S, g), NEW jt, SumsUp(jt, T, h)
    PROVE  AgreeOn(it, jt, SUBSET S)
<1> DEFINE P == {s \in SUBSET S : it[s] = jt[s]}
<1>1. ASSUME NEW s \in SUBSET S
      PROVE  /\ it[s] = IF s = {} THEN 0 ELSE g[Chosen(s)] + it[s \ {Chosen(s)}]
             /\ jt[s] = IF s = {} THEN 0 ELSE h[Chosen(s)] + jt[s \ {Chosen(s)}]
  <2>1. it[s] = IF s = {} THEN 0 ELSE g[Chosen(s)] + it[s \ {Chosen(s)}]
    BY DEF SumsUp
  <2>2. s \in SUBSET T
    OBVIOUS
  <2>3. jt[s] = IF s = {} THEN 0 ELSE h[Chosen(s)] + jt[s \ {Chosen(s)}]
    BY <2>2 DEF SumsUp
  <2> QED
    BY <2>1, <2>3
<1>2. {} \in P
  BY <1>1
<1>3. ASSUME NEW s \in SUBSET S, s # {}, \A x \in s : s \ {x} \in P
      PROVE  s \in P
  <2>1. Chosen(s) \in s
    BY <1>3, AnyIn
  <2>2. it[s \ {Chosen(s)}] = jt[s \ {Chosen(s)}] /\ g[Chosen(s)] = h[Chosen(s)]
    BY <1>3, <2>1 DEF AgreeOn
  <2> QED
    BY <1>1, <1>3, <2>2
<1> HIDE DEF P
<1>4. SUBSET S \subseteq P
  BY <1>2, <1>3, SubsetInductive
<1> QED
  BY <1>4 DEF P, AgreeOn

\* A sum can be begun with any element.
BeginsAnywhere(it, S, g) ==
    \A s \in SUBSET S : \A x \in s : it[s] = g[x] + it[s \ {x}]

LEMMA SumAny ==
    ASSUME NEW S, IsFiniteSet(S), NEW g, \A x \in S : g[x] \in Int,
           NEW it \in [SUBSET S -> Int], SumsUp(it, S, g)
    PROVE  BeginsAnywhere(it, S, g)
<1> DEFINE P == {s \in SUBSET S : \A x \in s : it[s] = g[x] + it[s \ {x}]}
<1>1. \A s \in SUBSET S : s # {} => it[s] = g[Chosen(s)] + it[s \ {Chosen(s)}]
  BY DEF SumsUp
<1>2. {} \in P
  OBVIOUS
<1>3. ASSUME NEW s \in SUBSET S, s # {}, \A x \in s : s \ {x} \in P
      PROVE  s \in P
  <2>1. ASSUME NEW x \in s
        PROVE  it[s] = g[x] + it[s \ {x}]
    <3> DEFINE c == Chosen(s)
               u == s \ {c}
               w == s \ {x}
               r == (s \ {c}) \ {x}
    <3>1. c \in s
      BY AnyIn
    <3>2. it[s] = g[c] + it[u]
      BY <1>1
    <3>3. CASE x = c
      BY <3>2, <3>3
    <3>4. CASE x # c
      <4>1. x \in u /\ c \in w /\ u \in P /\ w \in P
        BY <1>3, <3>1, <3>4
      <4>2. it[u] = g[x] + it[r]
        BY <4>1
      <4>3. w \ {c} = r
        OBVIOUS
      <4>4. it[w] = g[c] + it[r]
        BY <4>1, <4>3
      <4>5. it[r] \in Int /\ g[x] \in Int /\ g[c] \in Int
        BY <3>1
      <4> HIDE DEF c, u, w, r
      <4>6. \A p, q, z \in Int : p + (q + z) = q + (p + z)
        OBVIOUS
      <4>7. g[c] + (g[x] + it[r]) = g[x] + (g[c] + it[r])
        BY <4>5, <4>6
      <4>8. it[s] = g[x] + it[w]
        BY Zenon, <3>2, <4>2, <4>4, <4>7
      <4> QED
        BY <4>8 DEF w
    <3> QED
      BY <3>3, <3>4
  <2> QED
    BY <2>1
<1> HIDE DEF P
<1>4. SUBSET S \subseteq P
  BY <1>2, <1>3, SubsetInductive
<1> QED
  BY <1>4 DEF P, BeginsAnywhere

\* What SumFunctionOnSet is.
LEMMA SumIsChoice ==
    ASSUME NEW g, NEW S
    PROVE  SumFunctionOnSet(g, S) = (CHOOSE it : SumsUp(it, S, g))[S]
BY Zenon DEF SumFunctionOnSet, FoldFunctionOnSet, MapThenFoldSet, SumsUp, Chosen

\* A sum is a value of a function that SumAny and SumUnique speak of.
LEMMA SumByFunction ==
    ASSUME NEW S, IsFiniteSet(S), NEW I \in {Nat, Int}, NEW g, \A x \in S : g[x] \in I
    PROVE  \E it \in [SUBSET S -> I] : SumsUp(it, S, g) /\ SumFunctionOnSet(g, S) = it[S]
<1>1. PICK jt \in [SUBSET S -> I] : SumsUp(jt, S, g)
  BY SumExists
<1> DEFINE it == CHOOSE z : SumsUp(z, S, g)
<1>2. SumsUp(it, S, g)
  BY <1>1
<1>3. SumFunctionOnSet(g, S) = it[S]
  BY SumIsChoice
<1> HIDE DEF it
<1>4. AgreeOn(it, jt, SUBSET S)
  BY <1>1, <1>2, SumUnique DEF AgreeOn
<1> QED
  BY <1>1, <1>3, <1>4 DEF AgreeOn

\* The sum over no element.
LEMMA SumNone ==
    ASSUME NEW g
    PROVE  SumFunctionOnSet(g, {}) = 0
<1>1. IsFiniteSet({})
  BY FS_EmptySet
<1>2. PICK it \in [SUBSET {} -> Int] : SumsUp(it, {}, g) /\ SumFunctionOnSet(g, {}) = it[{}]
  BY <1>1, SumByFunction
<1> QED
  BY <1>2 DEF SumsUp

\* A sum of numbers is a number.
LEMMA SumType ==
    ASSUME NEW S, IsFiniteSet(S), NEW I \in {Nat, Int}, NEW g, \A x \in S : g[x] \in I
    PROVE  SumFunctionOnSet(g, S) \in I
<1>1. PICK it \in [SUBSET S -> I] : SumFunctionOnSet(g, S) = it[S]
  BY SumByFunction
<1> QED
  BY <1>1

\* A sum with one element more; the functions need only agree on the set.
LEMMA SumMore ==
    ASSUME NEW S, IsFiniteSet(S), NEW x, x \notin S,
           NEW h, \A y \in S \cup {x} : h[y] \in Int,
           NEW g, \A y \in S : g[y] = h[y]
    PROVE  SumFunctionOnSet(h, S \cup {x}) = h[x] + SumFunctionOnSet(g, S)
<1> DEFINE T == S \cup {x}
<1>1. IsFiniteSet(T) /\ S \subseteq T
  BY FS_AddElement
<1>2. PICK jt \in [SUBSET T -> Int] : SumsUp(jt, T, h) /\ SumFunctionOnSet(h, T) = jt[T]
  <2> HIDE DEF T
  <2>1. \A y \in T : h[y] \in Int
    BY DEF T
  <2> QED BY <1>1, <2>1, SumByFunction
<1>3. PICK it \in [SUBSET S -> Int] : SumsUp(it, S, g) /\ SumFunctionOnSet(g, S) = it[S]
  BY SumByFunction
<1>4. it[S] = jt[S]
  <2> HIDE DEF T
  <2>1. SumsUp(it, S, g) /\ SumsUp(jt, T, h) /\ S \subseteq T /\ AgreeOn(g, h, S)
    BY <1>1, <1>2, <1>3 DEF AgreeOn
  <2>2. AgreeOn(it, jt, SUBSET S)
    BY <2>1, SumUnique
  <2> QED
    BY <2>2 DEF AgreeOn
<1>5. T \ {x} = S
  OBVIOUS
<1>6. jt[T] = h[x] + jt[T \ {x}]
  <2>1. x \in T /\ \A y \in T : h[y] \in Int
    OBVIOUS
  <2> HIDE DEF T
  <2>2. IsFiniteSet(T) /\ jt \in [SUBSET T -> Int] /\ SumsUp(jt, T, h)
    BY <1>1, <1>2
  <2>3. BeginsAnywhere(jt, T, h)
    BY <2>1, <2>2, SumAny
  <2> QED BY <2>1, <2>3 DEF BeginsAnywhere
<1> QED
  BY <1>2, <1>3, <1>4, <1>5, <1>6

-----------------------------------------------------------------------------
(***************************************************************************)
(* Words, and integers of variable length: groups of seven bits.           *)
(***************************************************************************)

\* The powers of two are natural numbers.
LEMMA PowerType ==
    ASSUME NEW n \in Nat
    PROVE  2^n \in Nat
<1>1. IsFiniteSet(1..n) /\ Cardinality(1..n) = n
  BY FS_Interval
<1>2. IsFiniteSet(SUBSET (1..n)) /\ Cardinality(SUBSET (1..n)) = 2^n
  BY <1>1, FS_SUBSET
<1> QED
  BY <1>2, FS_CardinalityType

\* The bits of a byte; the highest says whether it is below 128.
LEMMA BitsOfType ==
    ASSUME NEW b \in 0..255
    PROVE  BitsOf[b] \subseteq 0..7 /\ (7 \in BitsOf[b] <=> b >= 128)
<1>1. BitsOf[b] = {i \in 0..7 : (b \div 2^i) % 2 = 1}
  BY DEF BitsOf
<1>2. 7 \in BitsOf[b] <=> (b \div 2^7) % 2 = 1
  BY <1>1
<1>3. 2^7 = 128
  OBVIOUS
<1>4. (b \div 128) % 2 = 1 <=> b >= 128
  OBVIOUS
<1> QED
  BY <1>1, <1>2, <1>3, <1>4

\* What shifts and the extension of the sign make of a word is a word.
LEMMA ShiftType ==
    ASSUME NEW w \in SUBSET WordBits, NEW n \in Nat
    PROVE  /\ Shl(w, n) \subseteq WordBits
           /\ Shr(w, n) \subseteq WordBits
           /\ n <= 32 => Sar(w, n) \subseteq WordBits
           /\ SignExtend(w, n) \subseteq WordBits
<1>1. Shl(w, n) \subseteq WordBits
  BY DEF Shl
<1>2. Shr(w, n) \subseteq WordBits
  BY DEF Shr, WordBits
<1>3. n <= 32 => Sar(w, n) \subseteq WordBits
  BY <1>2 DEF Sar, WordBits
<1>4. SignExtend(w, n) \subseteq WordBits
  BY DEF SignExtend, WordBits
<1> QED
  BY <1>1, <1>2, <1>3, <1>4

\* The lower seven bits of C[0], C[1] and so on, one group after the other.
Group7(C, i) == {7 * i + j : j \in C[i] \cap (0..6)}

Groups(C, n) == (UNION {Group7(C, i) : i \in 0..n}) \cap WordBits

\* The bits of the groups.
LEMMA InGroups ==
    ASSUME NEW C, NEW n, NEW k
    PROVE  k \in Groups(C, n) <=>
             k \in WordBits /\ \E i \in 0..n : \E j \in C[i] \cap (0..6) : k = 7 * i + j
<1>1. k \in Groups(C, n) <=> k \in WordBits /\ \E i \in 0..n : k \in Group7(C, i)
  BY DEF Groups
<1>2. \A i \in 0..n : k \in Group7(C, i) <=> \E j \in C[i] \cap (0..6) : k = 7 * i + j
  BY DEF Group7
<1> QED
  BY <1>1, <1>2

\* w[n] is the word after the chars C[0] to C[n], each of which is shifted
\* into place, with all its bits, when the bits above that place are gone.
Collects(w, C) ==
    \A n \in Nat : w[n] = IF n = 0 THEN C[0]
                          ELSE (w[n - 1] \cap (0..(7 * n - 1))) \cup Shl(C[n], 7 * n)

\* Up to N, the lower bits of w are the groups, and those above are the bits
\* of the last char.
LEMMA WordOfGroups ==
    ASSUME NEW N \in Nat, NEW C, \A i \in 0..N : C[i] \subseteq WordBits,
           NEW w, Collects(w, C), NEW n \in 0..N
    PROVE  /\ w[n] \subseteq WordBits
           /\ w[n] \cap (0..(7 * n + 6)) = Groups(C, n)
           /\ \A k \in WordBits : k >= 7 * n => (k \in w[n] <=> k - 7 * n \in C[n])
<1> DEFINE S == {m \in Nat : m <= N =>
                   /\ w[m] \subseteq WordBits
                   /\ w[m] \cap (0..(7 * m + 6)) = Groups(C, m)
                   /\ \A k \in WordBits : k >= 7 * m => (k \in w[m] <=> k - 7 * m \in C[m])}
<1>1. 0 \in S
  <2>1. w[0] = C[0] /\ C[0] \subseteq WordBits
    <3>1. 0 \in Nat /\ 0 \in 0..N
      OBVIOUS
    <3> HIDE DEF S
    <3> QED
      BY <3>1, Zenon DEF Collects
  <2>2. Groups(C, 0) = C[0] \cap (0..6)
    <3>1. \A j \in 0..6 : 7 * 0 + j = j /\ j \in WordBits
      BY DEF WordBits
    <3>2. ASSUME NEW x
          PROVE  x \in Groups(C, 0) <=> x \in C[0] \cap (0..6)
      <4>1. 0..0 = {0}
        OBVIOUS
      <4>2. x \in Groups(C, 0) <=> x \in WordBits /\ \E j \in C[0] \cap (0..6) : x = 7 * 0 + j
        BY <4>1, InGroups
      <4> QED
        BY <3>1, <4>2
    <3> QED
      BY <3>2
  <2>3. \A k \in WordBits : k - 7 * 0 = k
    BY DEF WordBits
  <2>4. 7 * 0 + 6 = 6
    OBVIOUS
  <2> QED
    BY <2>1, <2>2, <2>3, <2>4
<1>2. ASSUME NEW m \in Nat, m \in S
      PROVE  m + 1 \in S
  <2> SUFFICES ASSUME m + 1 <= N
               PROVE  /\ w[m + 1] \subseteq WordBits
                      /\ w[m + 1] \cap (0..(7 * (m + 1) + 6)) = Groups(C, m + 1)
                      /\ \A k \in WordBits : k >= 7 * (m + 1) =>
                            (k \in w[m + 1] <=> k - 7 * (m + 1) \in C[m + 1])
    OBVIOUS
  <2> DEFINE p == 7 * (m + 1)
  <2>1. /\ w[m] \subseteq WordBits
        /\ w[m] \cap (0..(p - 1)) = Groups(C, m)
    <3>1. m <= N /\ 7 * m + 6 = p - 1
      OBVIOUS
    <3> QED
      BY <1>2, <3>1
  <2>2. w[m + 1] = (w[m] \cap (0..(p - 1))) \cup Shl(C[m + 1], p)
    <3>1. m + 1 \in Nat /\ m + 1 # 0 /\ m + 1 - 1 = m
      OBVIOUS
    <3> HIDE DEF S
    <3> DEFINE q == m + 1
    <3> HIDE DEF q
    <3>2. w[q] = IF q = 0 THEN C[0]
                 ELSE (w[q - 1] \cap (0..(7 * q - 1))) \cup Shl(C[q], 7 * q)
      <4>1. q \in Nat
        BY <3>1 DEF q
      <4> QED
        BY <4>1, Zenon DEF Collects
    <3>3. q # 0 /\ q - 1 = m
      BY <3>1 DEF q
    <3>4. w[q] = (w[m] \cap (0..(7 * q - 1))) \cup Shl(C[q], 7 * q)
      BY Zenon, <3>2, <3>3
    <3> QED
      BY <3>4 DEF q
  <2>3. C[m + 1] \subseteq WordBits /\ p \in Nat
    OBVIOUS
  <2>4. \A k : k \in Shl(C[m + 1], p) <=> k \in WordBits /\ k - p \in C[m + 1]
    <3>1. ASSUME NEW k \in Shl(C[m + 1], p)
          PROVE  k \in WordBits /\ k - p \in C[m + 1]
      <4> HIDE DEF p, S
      <4>1. k \in WordBits /\ \E i \in C[m + 1] : k = i + p
        BY DEF Shl
      <4>2. PICK i \in C[m + 1] : k = i + p
        BY <4>1
      <4>3. i \in Int /\ p \in Int
        BY <2>3 DEF WordBits
      <4>4. k \in Int
        BY <4>1 DEF WordBits
      <4>5. k - p = i
        BY <4>2, <4>3, <4>4
      <4> QED
        BY Zenon, <4>1, <4>2, <4>5
    <3>2. ASSUME NEW k \in WordBits, k - p \in C[m + 1]
          PROVE  k \in Shl(C[m + 1], p)
      <4>1. k \in Int /\ p \in Int
        BY <2>3 DEF WordBits
      <4>2. (k - p) + p = k
        BY <4>1
      <4>3. k \in {i + p : i \in C[m + 1]}
        BY <3>2, <4>2
      <4> QED
        BY <4>3 DEF Shl
    <3> QED
      BY <3>1, <3>2
  <2>5. w[m + 1] \subseteq WordBits
    BY <2>1, <2>2, <2>4
  <2>6. \A k \in WordBits : k >= p => (k \in w[m + 1] <=> k - p \in C[m + 1])
    <3>1. \A k \in WordBits : k >= p => k \notin 0..(p - 1)
      BY <2>3 DEF WordBits
    <3> HIDE DEF p, S
    <3> QED
      BY <2>2, <2>4, <3>1
  <2>7. \A k : k \in Groups(C, m + 1) <=>
                 \/ k \in Groups(C, m)
                 \/ k \in WordBits /\ \E j \in C[m + 1] \cap (0..6) : k = p + j
    <3>1. 0..(m + 1) = 0..m \cup {m + 1}
      OBVIOUS
    <3> HIDE DEF S
    <3> QED
      BY <3>1, InGroups
  <2>8. w[m + 1] \cap (0..(p + 6)) = Groups(C, m + 1)
    <3> HIDE DEF S
    <3>1. ASSUME NEW k \in WordBits
          PROVE  k \in w[m + 1] /\ k \in 0..(p + 6) <=>
                 \/ k \in Groups(C, m)
                 \/ \E j \in C[m + 1] \cap (0..6) : k = p + j
      <4>1. CASE k < p
        <5>1. k \in 0..(p - 1) /\ k \in 0..(p + 6)
          BY <2>3, <4>1 DEF WordBits
        <5>2. \A j \in 0..6 : k # p + j
          BY <2>3, <4>1 DEF WordBits
        <5>3. k - p \notin C[m + 1]
          <6>1. \A i \in C[m + 1] : i >= 0
            BY <2>3 DEF WordBits
          <6>2. ~(k - p >= 0)
            BY <2>3, <4>1 DEF WordBits
          <6> QED
            BY <6>1, <6>2
        <5> HIDE DEF p
        <5> QED
          BY <2>1, <2>2, <2>4, <5>1, <5>2, <5>3
      <4>2. CASE k >= p
        <5>1. k \notin 0..(p - 1) /\ (k \in 0..(p + 6) <=> k - p \in 0..6)
          BY <2>3, <4>2 DEF WordBits
        <5>2. p + (k - p) = k /\ \A j \in 0..6 : k = p + j => k - p = j
          BY <2>3 DEF WordBits
        <5>3. k \notin Groups(C, m)
          BY <2>1, <5>1
        <5>4. k \in w[m + 1] <=> k - p \in C[m + 1]
          BY <2>6, <4>2
        <5> HIDE DEF p
        <5> QED
          BY <5>1, <5>2, <5>3, <5>4
      <4>3. k < p \/ k >= p
        BY <2>3 DEF WordBits
      <4> QED
        BY <4>1, <4>2, <4>3
    <3>2. \A k \in Groups(C, m) : k \in WordBits
      BY InGroups
    <3> HIDE DEF p
    <3> QED
      BY <2>5, <2>7, <3>1, <3>2
  <2> HIDE DEF S
  <2> QED
    BY <2>5, <2>6, <2>8
<1> HIDE DEF S
<1>3. Nat \subseteq S
  BY <1>1, <1>2, NatInductive
<1>4. n \in S /\ n <= N
  BY <1>3
<1> QED
  BY <1>4 DEF S

\* The number that the bits of a word spell.
LEMMA WordSum ==
    ASSUME NEW w \in SUBSET WordBits
    PROVE  SumFunction([i \in w |-> 2^i]) \in Nat
<1> DEFINE g == [i \in w |-> 2^i]
<1>1. IsFiniteSet(w)
  <2>1. IsFiniteSet(WordBits)
    <3>1. 0 \in Int /\ 31 \in Int
      OBVIOUS
    <3> QED
      BY <3>1, FS_Interval, Zenon DEF WordBits
  <2> QED
    BY <2>1, FS_Subset
<1>2. \A i \in w : g[i] \in Nat
  <2>1. \A i \in w : i \in Nat
    BY DEF WordBits
  <2> QED
    BY <2>1, PowerType
<1>3. SumFunction(g) = SumFunctionOnSet(g, w)
  <2>1. DOMAIN g = w
    OBVIOUS
  <2> HIDE DEF g
  <2> QED
    BY <2>1, Zenon DEF SumFunction
<1>4. SumFunction(g) \in Nat
  <2> HIDE DEF g
  <2> QED
    BY <1>1, <1>2, <1>3, SumType
<1> QED
  BY <1>4

\* The words that a loop makes of the chars, given those that it has made.
Taken(C, w) ==
    [n \in Nat |-> IF n = 0 THEN C[0]
                   ELSE (w[n - 1] \cap (0..(7 * n - 1))) \cup Shl(C[n], 7 * n)]

\* There are such words.
LEMMA Collectable ==
    ASSUME NEW C, C[0] \subseteq WordBits
    PROVE  \E w : w = Taken(C, w)
<1> DEFINE V == SUBSET WordBits
           next(n, x) == (x \cap (0..(7 * n - 1))) \cup Shl(C[n], 7 * n)
           G == [x \in Nat \X V |-> next(x[1], x[2])]
           first == C[0]
<1>1. first \in V
  OBVIOUS
<1>2. G \in StepsIn(V)
  <2>1. ASSUME NEW x \in Nat \X V
        PROVE  next(x[1], x[2]) \in V
    <3>1. x[2] \in SUBSET WordBits
      OBVIOUS
    <3>2. Shl(C[x[1]], 7 * x[1]) \subseteq WordBits
      BY DEF Shl
    <3> QED
      BY <3>1, <3>2
  <2> HIDE DEF V, next
  <2> QED
    BY <2>1 DEF StepsIn
<1>3. PICK f \in [Nat -> V] : Unfolds(f, first, G)
  <2> HIDE DEF V, first, G
  <2> QED
    BY <1>1, <1>2, NatRecursive
<1>4. ASSUME NEW i \in Nat
      PROVE  f[i] = Taken(C, f)[i]
  <2>1. Taken(C, f)[i] = IF i = 0 THEN first ELSE next(i, f[i - 1])
    BY DEF Taken
  <2>2. CASE i = 0
    <3> HIDE DEF first, G, V, next
    <3> QED
      BY <1>3, <2>1, <2>2 DEF Unfolds
  <2>3. CASE i # 0
    <3>1. <<i, f[i - 1]>> \in Nat \X V
      BY <2>3
    <3>2. f[i] = G[<<i, f[i - 1]>>]
      <4> HIDE DEF first, G, V, next
      <4> QED
        BY <1>3, <2>3 DEF Unfolds
    <3> HIDE DEF V, first, next
    <3>3. G[<<i, f[i - 1]>>] = next(i, f[i - 1])
      BY <3>1
    <3> QED
      BY <2>1, <2>3, <3>2, <3>3
  <2> QED
    BY <2>2, <2>3
<1>5. f = Taken(C, f)
  <2>1. Taken(C, f) = [i \in Nat |-> Taken(C, f)[i]]
    BY DEF Taken
  <2> HIDE DEF V
  <2> QED
    BY <1>4, <2>1
<1> QED
  BY <1>5

\* They are collected.
LEMMA TakenCollects ==
    ASSUME NEW C, NEW w, w = Taken(C, w)
    PROVE  Collects(w, C)
<1>1. ASSUME NEW n \in Nat
      PROVE  w[n] = IF n = 0 THEN C[0] ELSE (w[n - 1] \cap (0..(7 * n - 1))) \cup Shl(C[n], 7 * n)
  BY DEF Taken
<1> QED
  BY <1>1 DEF Collects

\* C[n] is a byte as a char: nothing above it but copies of its sign.
SignOnly(C, n) == \A k \in C[n] : k >= 8 => 7 \in C[n]

\* The word after n chars has bits above their groups if the last of these
\* chars has its sign; and then, it has the first one of them.
LEMMA WordAsksOn ==
    ASSUME NEW C, NEW w, Collects(w, C), NEW n \in 1..4,
           \A i \in 0..(n - 1) : C[i] \subseteq WordBits, SignOnly(C, n - 1)
    PROVE  /\ (\E k \in w[n - 1] : k >= 7 * n) <=> 7 \in C[n - 1]
           /\ 7 * n \in w[n - 1] <=> 7 \in C[n - 1]
<1> DEFINE m == n - 1
           low == 7 * m
           word == w[m]
           char == C[m]
<1>1. m \in Nat /\ m \in 0..m /\ low \in Nat /\ 7 * n = low + 7 /\ 7 * n \in WordBits
  BY DEF WordBits
<1>2. word \subseteq WordBits /\ \A k \in WordBits : k >= low => (k \in word <=> k - low \in char)
  <2> HIDE DEF m
  <2>1. \A i \in 0..m : C[i] \subseteq WordBits
    BY DEF m
  <2>2. /\ w[m] \subseteq WordBits
        /\ \A k \in WordBits : k >= 7 * m => (k \in w[m] <=> k - 7 * m \in C[m])
    BY <1>1, <2>1, WordOfGroups
  <2> QED
    BY <2>2
<1>3. \A k \in char : k >= 8 => 7 \in char
  BY DEF SignOnly
<1> HIDE DEF word, char, low, m
<1>4. 7 * n \in word <=> 7 \in char
  <2>1. 7 * n - low = 7 /\ 7 * n >= low
    BY <1>1
  <2>2. 7 * n \in word <=> 7 * n - low \in char
    BY <1>1, <1>2, <2>1
  <2> QED
    BY <2>1, <2>2
<1>5. ASSUME NEW k \in word, k >= 7 * n
      PROVE  7 \in char
  <2>1. k \in WordBits /\ k >= low /\ k - low >= 7 /\ k - low \in Int
    BY <1>1, <1>2, <1>5 DEF WordBits
  <2>2. k - low \in char
    BY <1>2, <2>1
  <2>3. k - low = 7 \/ k - low >= 8
    BY <2>1
  <2> QED
    BY <1>3, <2>2, <2>3
<1>6. 7 \in char => \E k \in word : k >= 7 * n
  BY <1>1, <1>4
<1> QED
  BY <1>4, <1>5, <1>6 DEF word, char, m

\* Where the last char has no sign, and after the fifth in any case, the word
\* is the groups: no sign of an earlier char is left in it.
LEMMA WordEnds ==
    ASSUME NEW C, NEW w, Collects(w, C), NEW N \in 0..4,
           \A i \in 0..N : C[i] \subseteq WordBits, SignOnly(C, N), N = 4 \/ 7 \notin C[N]
    PROVE  w[N] = Groups(C, N)
<1>1. /\ w[N] \subseteq WordBits
      /\ w[N] \cap (0..(7 * N + 6)) = Groups(C, N)
      /\ \A k \in WordBits : k >= 7 * N => (k \in w[N] <=> k - 7 * N \in C[N])
  <2>1. N \in Nat /\ N \in 0..N
    OBVIOUS
  <2> QED
    BY <2>1, WordOfGroups
<1>2. ASSUME NEW k \in w[N]
      PROVE  k \in 0..(7 * N + 6)
  <2>1. k \in WordBits
    BY <1>1
  <2>2. CASE N = 4
    BY <2>1, <2>2 DEF WordBits
  <2>3. CASE N # 4
    <3>1. SUFFICES ASSUME k > 7 * N + 6
                   PROVE  FALSE
      BY <2>1 DEF WordBits
    <3>2. k >= 7 * N /\ k - 7 * N \in Int /\ k - 7 * N >= 7
      BY <2>1, <3>1 DEF WordBits
    <3>3. k - 7 * N \in C[N]
      BY <1>1, <2>1, <3>2
    <3>4. k - 7 * N = 7 \/ k - 7 * N >= 8
      BY <3>2
    <3>5. \A i \in C[N] : ~(i >= 8) /\ i # 7
      BY <2>3 DEF SignOnly
    <3> QED
      BY <3>3, <3>4, <3>5
  <2> QED
    BY <2>2, <2>3
<1> DEFINE X == 0..(7 * N + 6)
<1>3. \A k \in w[N] : k \in X
  BY <1>2
<1> HIDE DEF X
<1>4. w[N] \cap X = w[N]
  BY <1>3
<1> QED
  BY <1>1, <1>4 DEF X

-----------------------------------------------------------------------------
(***************************************************************************)
(* The bits of a number, and of numbers put together from groups.          *)
(***************************************************************************)
\* Bit i of a natural number is one.
OneAt(v, i) == (v \div 2^i) % 2 = 1

\* A set with one element more has twice as many subsets.
LEMMA PowerNext ==
    ASSUME NEW n \in Nat
    PROVE  2^(n + 1) = 2 * 2^n /\ 2^n \in Nat \ {0}
<1> DEFINE S == SUBSET (1..n)
           T == SUBSET (1..(n + 1))
           f == [s \in S |-> s \cup {n + 1}]
           U == {s \cup {n + 1} : s \in S}
<1>1. IsFiniteSet(1..n) /\ IsFiniteSet(1..(n + 1)) /\ Cardinality(1..n) = n /\ Cardinality(1..(n + 1)) = n + 1
  <2>1. Cardinality(1..n) = IF 1 > n THEN 0 ELSE n - 1 + 1
    BY FS_Interval
  <2>2. Cardinality(1..(n + 1)) = IF 1 > n + 1 THEN 0 ELSE n + 1 - 1 + 1
    BY FS_Interval
  <2> QED
    BY <2>1, <2>2, FS_Interval
<1>2. IsFiniteSet(S) /\ Cardinality(S) = 2^n /\ IsFiniteSet(T) /\ Cardinality(T) = 2^(n + 1)
  BY <1>1, FS_SUBSET
<1>3. T = S \cup U
  <2>1. ASSUME NEW t \in T
        PROVE  t \in S \cup U
    <3>1. CASE n + 1 \in t
      <4>1. t \ {n + 1} \in S /\ t = (t \ {n + 1}) \cup {n + 1}
        BY <3>1
      <4> QED
        BY <4>1
    <3>2. CASE n + 1 \notin t
      BY <3>2
    <3> QED
      BY <3>1, <3>2
  <2>2. \A x \in 1..n : x \in 1..(n + 1)
    OBVIOUS
  <2>3. n + 1 \in 1..(n + 1)
    OBVIOUS
  <2> QED
    BY <2>1, <2>2, <2>3
<1>4. S \cap U = {}
  <2>1. n + 1 \notin 1..n
    OBVIOUS
  <2> QED
    BY <2>1
<1>5. f \in Bijection(S, U)
  <2>1. n + 1 \notin 1..n
    OBVIOUS
  <2>2. f \in [S -> U] /\ \A u \in U : \E s \in S : f[s] = u
    OBVIOUS
  <2>3. ASSUME NEW s \in S, NEW t \in S, f[s] = f[t]
        PROVE  s = t
    BY <2>1, <2>3
  <2> HIDE DEF f
  <2> QED
    <3>1. f \in Injection(S, U)
      BY <2>2, <2>3 DEF Injection, IsInjective
    <3>2. f \in Surjection(S, U)
      BY <2>2 DEF Surjection
    <3> QED
      BY <3>1, <3>2 DEF Bijection
<1> HIDE DEF S, T, U, f
<1>6. IsFiniteSet(U) /\ Cardinality(U) = 2^n
  BY <1>2, <1>5, FS_Bijection DEF ExistsBijection
<1>7. Cardinality(T) = Cardinality(S) + Cardinality(U) - Cardinality(S \cap U)
  BY <1>2, <1>3, <1>6, FS_Union
<1>8. Cardinality(S \cap U) = 0
  BY <1>4, FS_EmptySet
<1>9. 2^n \in Nat
  BY <1>2, FS_CardinalityType
<1>10. 2^n # 0
  <2>1. {} \in S
    BY DEF S
  <2> QED
    BY <1>2, <2>1, FS_EmptySet
<1> QED
  BY <1>2, <1>6, <1>7, <1>8, <1>9, <1>10

LEMMA PowerWord ==
    ASSUME NEW n \in Nat
    PROVE  2^(n + 7) = 128 * 2^n /\ 2^(n + 8) = 256 * 2^n
<1>1. 2^(n + 1) = 2 * 2^n /\ 2^n \in Nat
  BY PowerNext
<1>2. 2^(n + 2) = 4 * 2^n
  <2>1. n + 1 \in Nat /\ n + 1 + 1 = n + 2
    OBVIOUS
  <2> QED
    BY <1>1, <2>1, PowerNext
<1>3. 2^(n + 3) = 8 * 2^n
  <2>1. n + 2 \in Nat /\ n + 2 + 1 = n + 3
    OBVIOUS
  <2> QED
    BY <1>1, <1>2, <2>1, PowerNext
<1>4. 2^(n + 4) = 16 * 2^n
  <2>1. n + 3 \in Nat /\ n + 3 + 1 = n + 4
    OBVIOUS
  <2> QED
    BY <1>1, <1>3, <2>1, PowerNext
<1>5. 2^(n + 5) = 32 * 2^n
  <2>1. n + 4 \in Nat /\ n + 4 + 1 = n + 5
    OBVIOUS
  <2> QED
    BY <1>1, <1>4, <2>1, PowerNext
<1>6. 2^(n + 6) = 64 * 2^n
  <2>1. n + 5 \in Nat /\ n + 5 + 1 = n + 6
    OBVIOUS
  <2> QED
    BY <1>1, <1>5, <2>1, PowerNext
<1>7. 2^(n + 7) = 128 * 2^n
  <2>1. n + 6 \in Nat /\ n + 6 + 1 = n + 7
    OBVIOUS
  <2> QED
    BY <1>1, <1>6, <2>1, PowerNext
<1>8. 2^(n + 8) = 256 * 2^n
  <2>1. n + 7 \in Nat /\ n + 7 + 1 = n + 8
    OBVIOUS
  <2> QED
    BY <1>1, <1>7, <2>1, PowerNext
<1> QED
  BY <1>7, <1>8

\* Seven bits, or eight, with others over them.
Over7(a, b) == a + 128 * b
Over8(a, b) == a + 256 * b

\* A group of seven bits below the others.
LEMMA BitOfGroup ==
    ASSUME NEW a \in 0..127, NEW b \in Nat, NEW i \in Nat
    PROVE  OneAt(Over7(a, b), i) <=> IF i < 7 THEN OneAt(a, i) ELSE OneAt(b, i - 7)
<1> DEFINE v == Over7(a, b)
<1>0. v = a + 128 * b
  BY DEF Over7
<1> HIDE DEF v
<1>1. ASSUME i < 7
      PROVE  OneAt(v, i) <=> OneAt(a, i)
  <2>1. i \in 0..6
    BY <1>1
  <2>2. CASE i = 0
    <3>1. (a + 128 * b) \div 1 = (a \div 1) + 128 * b
      OBVIOUS
    <3> QED
      BY <1>0, <2>2, <3>1 DEF OneAt
  <2>3. CASE i = 1
    <3>1. (a + 128 * b) \div 2 = (a \div 2) + 64 * b
      OBVIOUS
    <3> QED
      BY <1>0, <2>3, <3>1 DEF OneAt
  <2>4. CASE i = 2
    <3>1. (a + 128 * b) \div 4 = (a \div 4) + 32 * b
      OBVIOUS
    <3> QED
      BY <1>0, <2>4, <3>1 DEF OneAt
  <2>5. CASE i = 3
    <3>1. (a + 128 * b) \div 8 = (a \div 8) + 16 * b
      OBVIOUS
    <3> QED
      BY <1>0, <2>5, <3>1 DEF OneAt
  <2>6. CASE i = 4
    <3>1. (a + 128 * b) \div 16 = (a \div 16) + 8 * b
      OBVIOUS
    <3> QED
      BY <1>0, <2>6, <3>1 DEF OneAt
  <2>7. CASE i = 5
    <3>1. (a + 128 * b) \div 32 = (a \div 32) + 4 * b
      OBVIOUS
    <3> QED
      BY <1>0, <2>7, <3>1 DEF OneAt
  <2>8. CASE i = 6
    <3>1. (a + 128 * b) \div 64 = (a \div 64) + 2 * b
      OBVIOUS
    <3> QED
      BY <1>0, <2>8, <3>1 DEF OneAt
  <2> QED
    BY <2>1, <2>2, <2>3, <2>4, <2>5, <2>6, <2>7, <2>8
<1>2. ASSUME ~(i < 7)
      PROVE  OneAt(v, i) <=> OneAt(b, i - 7)
  <2>1. PICK k \in Nat : i = k + 7 /\ i - 7 = k
    <3>1. i - 7 \in Nat /\ i = (i - 7) + 7
      BY <1>2
    <3> QED
      BY <3>1
  <2>2. 2^k \in Nat \ {0} /\ 2^i = 128 * 2^k
    BY <2>1, PowerNext, PowerWord
  <2>3. (a + 128 * b) \div 128 = b /\ a + 128 * b \in Nat
    OBVIOUS
  <2>4. (a + 128 * b) \div 2^i = b \div 2^k
    <3>1. PICK m \in Nat \ {0} : m = 2^k
      BY <2>2
    <3>2. PICK x \in Nat : x = a + 128 * b /\ x \div 128 = b
      BY <2>3
    <3>3. (x \div 128) \div m = x \div (128 * m)
      <4>1. x \in Nat /\ m \in Nat \ {0}
        OBVIOUS
      <4> QED
        BY ONLY <4>1
    <3> QED
      BY <2>2, <3>1, <3>2, <3>3
  <2> QED
    BY <1>0, <2>1, <2>4 DEF OneAt
<1> QED
  BY <1>1, <1>2 DEF v

\* A byte below the others.
LEMMA BitOfByte ==
    ASSUME NEW a \in 0..255, NEW b \in Nat, NEW i \in Nat
    PROVE  OneAt(Over8(a, b), i) <=> IF i < 8 THEN OneAt(a, i) ELSE OneAt(b, i - 8)
<1> DEFINE v == Over8(a, b)
<1>0. v = a + 256 * b
  BY DEF Over8
<1> HIDE DEF v
<1>1. ASSUME i < 8
      PROVE  OneAt(v, i) <=> OneAt(a, i)
  <2>1. i \in 0..7
    BY <1>1
  <2>2. CASE i = 0
    <3>1. (a + 256 * b) \div 1 = (a \div 1) + 256 * b
      OBVIOUS
    <3> QED
      BY <1>0, <2>2, <3>1 DEF OneAt
  <2>3. CASE i = 1
    <3>1. (a + 256 * b) \div 2 = (a \div 2) + 128 * b
      OBVIOUS
    <3> QED
      BY <1>0, <2>3, <3>1 DEF OneAt
  <2>4. CASE i = 2
    <3>1. (a + 256 * b) \div 4 = (a \div 4) + 64 * b
      OBVIOUS
    <3> QED
      BY <1>0, <2>4, <3>1 DEF OneAt
  <2>5. CASE i = 3
    <3>1. (a + 256 * b) \div 8 = (a \div 8) + 32 * b
      OBVIOUS
    <3> QED
      BY <1>0, <2>5, <3>1 DEF OneAt
  <2>6. CASE i = 4
    <3>1. (a + 256 * b) \div 16 = (a \div 16) + 16 * b
      OBVIOUS
    <3> QED
      BY <1>0, <2>6, <3>1 DEF OneAt
  <2>7. CASE i = 5
    <3>1. (a + 256 * b) \div 32 = (a \div 32) + 8 * b
      OBVIOUS
    <3> QED
      BY <1>0, <2>7, <3>1 DEF OneAt
  <2>8. CASE i = 6
    <3>1. (a + 256 * b) \div 64 = (a \div 64) + 4 * b
      OBVIOUS
    <3> QED
      BY <1>0, <2>8, <3>1 DEF OneAt
  <2>9. CASE i = 7
    BY <1>0, <2>9 DEF OneAt
  <2> QED
    BY <2>1, <2>2, <2>3, <2>4, <2>5, <2>6, <2>7, <2>8, <2>9
<1>2. ASSUME ~(i < 8)
      PROVE  OneAt(v, i) <=> OneAt(b, i - 8)
  <2>1. PICK k \in Nat : i = k + 8 /\ i - 8 = k
    <3>1. i - 8 \in Nat /\ i = (i - 8) + 8
      BY <1>2
    <3> QED
      BY <3>1
  <2>2. 2^k \in Nat \ {0} /\ 2^i = 256 * 2^k
    BY <2>1, PowerNext, PowerWord
  <2>3. (a + 256 * b) \div 256 = b /\ a + 256 * b \in Nat
    OBVIOUS
  <2>4. (a + 256 * b) \div 2^i = b \div 2^k
    <3>1. PICK m \in Nat \ {0} : m = 2^k
      BY <2>2
    <3>2. PICK x \in Nat : x = a + 256 * b /\ x \div 256 = b
      BY <2>3
    <3>3. (x \div 256) \div m = x \div (256 * m)
      <4>1. x \in Nat /\ m \in Nat \ {0}
        OBVIOUS
      <4> QED
        BY ONLY <4>1
    <3> QED
      BY <2>2, <3>1, <3>2, <3>3
  <2> QED
    BY <1>0, <2>1, <2>4 DEF OneAt
<1> QED
  BY <1>1, <1>2 DEF v

LEMMA BitOfNone ==
    ASSUME NEW i \in Nat
    PROVE  ~OneAt(0, i)
<1>1. 2^i \in Nat \ {0}
  BY PowerNext
<1>2. PICK m \in Nat \ {0} : m = 2^i
  BY <1>1
<1>3. 0 \div m = 0
  OBVIOUS
<1> QED
  BY <1>2, <1>3 DEF OneAt

\* The bits of a byte, and of the byte with all bits turned.
LEMMA BitTurned ==
    ASSUME NEW a \in 0..255, NEW i \in 0..7
    PROVE  OneAt(255 - a, i) <=> ~OneAt(a, i)
<1>2. CASE i = 0
  BY <1>2 DEF OneAt
<1>3. CASE i = 1
  BY <1>3 DEF OneAt
<1>4. CASE i = 2
  BY <1>4 DEF OneAt
<1>5. CASE i = 3
  BY <1>5 DEF OneAt
<1>6. CASE i = 4
  BY <1>6 DEF OneAt
<1>7. CASE i = 5
  BY <1>7 DEF OneAt
<1>8. CASE i = 6
  BY <1>8 DEF OneAt
<1>9. CASE i = 7
  BY <1>9 DEF OneAt
<1> QED
  BY <1>2, <1>3, <1>4, <1>5, <1>6, <1>7, <1>8, <1>9

\* A number of three bytes, bit by bit.
LEMMA ThreeBytes ==
    ASSUME NEW a \in 0..255, NEW b \in 0..255, NEW c \in 0..255, NEW k \in Nat
    PROVE  /\ Over8(a, Over8(b, Over8(c, 0))) \in Nat
           /\ OneAt(Over8(a, Over8(b, Over8(c, 0))), k) <=>
                IF k < 8 THEN OneAt(a, k)
                ELSE IF k < 16 THEN OneAt(b, k - 8)
                ELSE k < 24 /\ OneAt(c, k - 16)
<1>0. \A x \in Nat : \A y \in Nat : Over8(x, y) \in Nat
  BY DEF Over8
<1>a. a \in Nat /\ b \in Nat /\ c \in Nat /\ 0 \in Nat
  OBVIOUS
<1>1. PICK v2 \in Nat : v2 = Over8(c, 0)
  BY <1>0, <1>a
<1>2. PICK v1 \in Nat : v1 = Over8(b, v2)
  BY <1>0, <1>a
<1>3. PICK v0 \in Nat : v0 = Over8(a, v1)
  BY <1>0, <1>a
<1>4. OneAt(v0, k) <=> IF k < 8 THEN OneAt(a, k) ELSE OneAt(v1, k - 8)
  BY <1>3, BitOfByte
<1>5. k >= 8 => (OneAt(v1, k - 8) <=> IF k < 16 THEN OneAt(b, k - 8) ELSE OneAt(v2, k - 16))
  <2> SUFFICES ASSUME k >= 8
               PROVE  OneAt(v1, k - 8) <=> IF k < 16 THEN OneAt(b, k - 8) ELSE OneAt(v2, k - 16)
    OBVIOUS
  <2>1. PICK j \in Nat : j = k - 8 /\ (j < 8 <=> k < 16) /\ j - 8 = k - 16
    OBVIOUS
  <2>2. OneAt(v1, j) <=> IF j < 8 THEN OneAt(b, j) ELSE OneAt(v2, j - 8)
    BY <1>2, BitOfByte
  <2> QED
    BY <2>1, <2>2
<1>6. k >= 16 => (OneAt(v2, k - 16) <=> k < 24 /\ OneAt(c, k - 16))
  <2> SUFFICES ASSUME k >= 16
               PROVE  OneAt(v2, k - 16) <=> k < 24 /\ OneAt(c, k - 16)
    OBVIOUS
  <2>1. PICK j \in Nat : j = k - 16 /\ (j < 8 <=> k < 24)
    OBVIOUS
  <2>2. OneAt(v2, j) <=> IF j < 8 THEN OneAt(c, j) ELSE OneAt(0, j - 8)
    BY <1>1, BitOfByte
  <2>3. ~(j < 8) => ~OneAt(0, j - 8)
    <3>1. ~(j < 8) => j - 8 \in Nat
      OBVIOUS
    <3> QED
      BY <3>1, BitOfNone
  <2> QED
    BY <2>1, <2>2, <2>3
<1>7. /\ k < 8 \/ k >= 8
      /\ k < 16 \/ k >= 16
      /\ k < 8 => k < 16
      /\ k < 16 => k < 24
  OBVIOUS
<1>8. v0 = Over8(a, Over8(b, Over8(c, 0)))
  BY <1>1, <1>2, <1>3
<1>9. OneAt(v0, k) <=> IF k < 8 THEN OneAt(a, k)
                     ELSE IF k < 16 THEN OneAt(b, k - 8)
                     ELSE k < 24 /\ OneAt(c, k - 16)
  BY <1>4, <1>5, <1>6, <1>7
<1> QED
  BY <1>8, <1>9

\* A number of four bytes, and its bits.
FourOver(a, b, c, d) == Over8(a, Over8(b, Over8(c, Over8(d, 0))))

FourBits(a, b, c, d, k) ==
    IF k < 8 THEN OneAt(a, k)
    ELSE IF k < 16 THEN OneAt(b, k - 8)
    ELSE IF k < 24 THEN OneAt(c, k - 16)
    ELSE k < 32 /\ OneAt(d, k - 24)

LEMMA FourBytes ==
    ASSUME NEW a \in 0..255, NEW b \in 0..255, NEW c \in 0..255, NEW d \in 0..255, NEW k \in Nat
    PROVE  /\ FourOver(a, b, c, d) \in Nat
           /\ OneAt(FourOver(a, b, c, d), k) <=> FourBits(a, b, c, d, k)
<1>1. PICK v \in Nat : v = Over8(b, Over8(c, Over8(d, 0)))
  BY ThreeBytes
<1>2. PICK u \in Nat : u = Over8(a, v)
  <2>1. \A x \in Nat : \A y \in Nat : Over8(x, y) \in Nat
    BY DEF Over8
  <2>2. a \in Nat
    OBVIOUS
  <2> QED
    BY <2>1, <2>2
<1>3. OneAt(u, k) <=> IF k < 8 THEN OneAt(a, k) ELSE OneAt(v, k - 8)
  BY <1>2, BitOfByte
<1>4. k >= 8 => (OneAt(v, k - 8) <=> IF k < 16 THEN OneAt(b, k - 8)
                                    ELSE IF k < 24 THEN OneAt(c, k - 16)
                                    ELSE k < 32 /\ OneAt(d, k - 24))
  <2> SUFFICES ASSUME k >= 8
               PROVE  OneAt(v, k - 8) <=> IF k < 16 THEN OneAt(b, k - 8)
                                         ELSE IF k < 24 THEN OneAt(c, k - 16)
                                         ELSE k < 32 /\ OneAt(d, k - 24)
    OBVIOUS
  <2>1. PICK j \in Nat : /\ j = k - 8 /\ j - 8 = k - 16 /\ j - 16 = k - 24
                         /\ j < 8 <=> k < 16
                         /\ j < 16 <=> k < 24
                         /\ j < 24 <=> k < 32
    OBVIOUS
  <2>2. OneAt(v, j) <=> IF j < 8 THEN OneAt(b, j)
                       ELSE IF j < 16 THEN OneAt(c, j - 8)
                       ELSE j < 24 /\ OneAt(d, j - 16)
    BY <1>1, ThreeBytes
  <2> QED
    BY <2>1, <2>2
<1>5. k < 8 \/ k >= 8
  OBVIOUS
<1>6. u = Over8(a, Over8(b, Over8(c, Over8(d, 0))))
  BY <1>1, <1>2
<1>7. OneAt(u, k) <=> IF k < 8 THEN OneAt(a, k)
                     ELSE IF k < 16 THEN OneAt(b, k - 8)
                     ELSE IF k < 24 THEN OneAt(c, k - 16)
                     ELSE k < 32 /\ OneAt(d, k - 24)
  BY <1>3, <1>4, <1>5
<1> QED
  BY <1>6, <1>7 DEF FourBits, FourOver

\* The quotient of a quotient.
LEMMA HalfAgain ==
    ASSUME NEW v \in Nat, NEW m \in Nat \ {0}
    PROVE  /\ v \div m \in Nat
           /\ v \div (2 * m) \in Nat
           /\ v \div m = 2 * (v \div (2 * m)) + ((v \div m) % 2)
           /\ (v \div m) % 2 \in {0, 1}
<1>1. v \in Nat /\ m \in Nat \ {0}
  OBVIOUS
<1>2. v \div m \in Nat
  BY ONLY <1>1
<1>3. (v \div m) \div 2 = v \div (2 * m)
  BY ONLY <1>1
<1>4. PICK q \in Nat : q = v \div m
  BY <1>2
<1>5. q = 2 * (q \div 2) + (q % 2) /\ q \div 2 \in Nat /\ q % 2 \in {0, 1}
  <2>1. q \in Nat
    OBVIOUS
  <2>2. q \div 2 \in Nat /\ q = 2 * (q \div 2) + (q % 2)
    BY ONLY <2>1
  <2>3. q % 2 = 0 \/ q % 2 = 1
    BY ONLY <2>1
  <2> QED
    BY <2>2, <2>3
<1> QED
  BY <1>2, <1>3, <1>4, <1>5

\* The numbers below a power of two.
LEMMA NoBitAbove ==
    ASSUME NEW N \in Nat, NEW v \in Nat, v < 2^N
    PROVE  v \div 2^N = 0
<1>1. 2^N \in Nat \ {0}
  BY PowerNext
<1>2. PICK m \in Nat \ {0} : m = 2^N
  BY <1>1
<1>3. v \in Nat /\ m \in Nat \ {0} /\ v < m
  BY <1>2
<1>4. v \div m = 0
  BY ONLY <1>3
<1> QED
  BY <1>2, <1>4

LEMMA NoBitFrom ==
    ASSUME NEW N \in Nat, NEW v \in Nat, v < 2^N, NEW k \in Nat, k >= N
    PROVE  ~OneAt(v, k)
<1> DEFINE P == {n \in Nat : v < 2^(N + n)}
<1>1. 0 \in P
  <2>1. N + 0 = N
    OBVIOUS
  <2> QED
    BY <2>1
<1>2. ASSUME NEW n \in Nat, n \in P
      PROVE  n + 1 \in P
  <2>1. N + n \in Nat /\ N + (n + 1) = (N + n) + 1
    OBVIOUS
  <2>2. PICK m \in Nat : m = 2^(N + n) /\ 2^((N + n) + 1) = 2 * m
    BY <2>1, PowerNext
  <2>3. v < 2 * m
    BY <1>2, <2>2
  <2> QED
    BY <2>1, <2>2, <2>3
<1> HIDE DEF P
<1>3. Nat \subseteq P
  BY <1>1, <1>2, NatInductive
<1>4. k - N \in Nat /\ N + (k - N) = k
  OBVIOUS
<1>5. v < 2^k
  BY <1>3, <1>4 DEF P
<1>6. v \div 2^k = 0
  BY <1>5, NoBitAbove
<1>7. 0 % 2 # 1
  OBVIOUS
<1> QED
  BY <1>6, <1>7, Zenon DEF OneAt

\* A word that has the bits of a number spells it.
LEMMA Spelled ==
    ASSUME NEW N \in Nat, NEW v \in Nat, v < 2^N, NEW w \in SUBSET (0..(N - 1)),
           \A k \in 0..(N - 1) : k \in w <=> OneAt(v, k)
    PROVE  SumFunction([i \in w |-> 2^i]) = v
<1> DEFINE g == [i \in w |-> 2^i]
           below(n) == w \cap (0..(n - 1))
           s(n) == SumFunctionOnSet(g, below(n))
           P == {n \in Nat : n <= N => s(n) \in Nat /\ s(n) + 2^n * (v \div 2^n) = v}
<1>1. IsFiniteSet(w) /\ \A i \in w : g[i] = 2^i /\ g[i] \in Nat
  <2>1. IsFiniteSet(0..(N - 1))
    <3>1. 0 \in Int /\ N - 1 \in Int
      OBVIOUS
    <3> QED
      BY <3>1, FS_Interval
  <2>2. IsFiniteSet(w)
    BY <2>1, FS_Subset
  <2>3. \A i \in w : i \in Nat
    OBVIOUS
  <2> QED
    BY <2>2, <2>3, PowerType
<1> HIDE DEF g
<1>2. 0 \in P
  <2>1. below(0) = {}
    OBVIOUS
  <2>2. s(0) = 0
    BY <2>1, SumNone
  <2>3. 2^0 = 1
    OBVIOUS
  <2>4. v \div 1 = v
    OBVIOUS
  <2> QED
    BY <2>2, <2>3, <2>4
<1>3. ASSUME NEW n \in Nat, n \in P
      PROVE  n + 1 \in P
  <2> SUFFICES ASSUME n + 1 <= N
               PROVE  s(n + 1) \in Nat /\ s(n + 1) + 2^(n + 1) * (v \div 2^(n + 1)) = v
    OBVIOUS
  <2>1. s(n) \in Nat /\ s(n) + 2^n * (v \div 2^n) = v
    BY <1>3
  <2>2. PICK m \in Nat \ {0} : m = 2^n /\ 2^(n + 1) = 2 * m
    BY PowerNext
  <2>3. n \in w <=> (v \div m) % 2 = 1
    <3>1. n \in 0..(N - 1)
      OBVIOUS
    <3> QED
      BY <2>2, <3>1 DEF OneAt
  <2>4. s(n + 1) = IF n \in w THEN m + s(n) ELSE s(n)
    <3>1. CASE n \in w
      <4>1. below(n + 1) = below(n) \cup {n} /\ n \notin below(n)
        BY <3>1
      <4>2. IsFiniteSet(below(n))
        BY <1>1, FS_Subset
      <4>3. \A y \in below(n) \cup {n} : g[y] \in Int
        BY <1>1, <3>1
      <4>4. PICK S : S = below(n)
        OBVIOUS
      <4>5. SumFunctionOnSet(g, S \cup {n}) = g[n] + SumFunctionOnSet(g, S)
        <5>1. IsFiniteSet(S) /\ n \notin S /\ \A y \in S \cup {n} : g[y] \in Int
          BY <4>1, <4>2, <4>3, <4>4
        <5> QED
          BY <5>1, SumMore
      <4>6. g[n] = m
        BY <1>1, <2>2, <3>1
      <4> QED
        BY <3>1, <4>1, <4>4, <4>5, <4>6
    <3>2. CASE n \notin w
      <4>1. below(n + 1) = below(n)
        BY <3>2
      <4> QED
        BY <3>2, <4>1
    <3> QED
      BY <3>1, <3>2
  <2>10. s(n + 1) \in Nat /\ v \div m \in Nat /\ v \div (2 * m) \in Nat
    <3>1. m + s(n) \in Nat
      BY <2>1
    <3> HIDE DEF s
    <3> QED
      BY <2>1, <2>4, <3>1, HalfAgain
  <2>5. PICK a \in Nat, b \in Nat, h \in Nat, q \in Nat : a = s(n) /\ b = s(n + 1) /\ q = v \div m /\ h = v \div (2 * m)
    BY <2>1, <2>10
  <2>6. q = 2 * h + (q % 2) /\ q % 2 \in {0, 1}
    BY <2>5, HalfAgain
  <2>7. a + m * q = v
    BY <2>1, <2>2, <2>5
  <2> HIDE DEF s
  <2>8. CASE q % 2 = 0
    <3>1. q = 2 * h /\ b = a
      BY <2>3, <2>4, <2>5, <2>6, <2>8
    <3>2. m \in Nat /\ h \in Nat
      OBVIOUS
    <3>3. m * (2 * h) = (2 * m) * h
      BY ONLY <3>2
    <3> QED
      BY <2>2, <2>5, <2>7, <3>1, <3>3
  <2>9. CASE q % 2 = 1
    <3>1. q = 2 * h + 1 /\ b = m + a
      BY <2>3, <2>4, <2>5, <2>6, <2>9
    <3>2. m \in Nat /\ h \in Nat
      OBVIOUS
    <3>3. m * (2 * h + 1) = (2 * m) * h + m
      BY ONLY <3>2
    <3>4. PICK z \in Int : z = (2 * m) * h
      OBVIOUS
    <3>5. a + (z + m) = v
      BY <2>7, <3>1, <3>3, <3>4
    <3>6. b + z = v
      BY <3>1, <3>5
    <3> QED
      BY <2>2, <2>5, <3>4, <3>6
  <2> QED
    BY <2>6, <2>8, <2>9
<1> HIDE DEF P
<1>4. N \in P
  <2>1. Nat \subseteq P
    BY <1>2, <1>3, NatInductive
  <2> QED
    BY <2>1
<1>5. s(N) + 2^N * 0 = v
  <2>1. v \div 2^N = 0
    BY NoBitAbove
  <2> QED
    BY <1>4, <2>1 DEF P
<1>6. 2^N * 0 = 0 /\ s(N) \in Nat
  BY <1>4, PowerType DEF P
<1>7. below(N) = w
  OBVIOUS
<1>8. s(N) = v
  <2> HIDE DEF s
  <2> QED
    BY <1>5, <1>6
<1>9. SumFunction(g) = SumFunctionOnSet(g, w)
  <2>1. DOMAIN g = w
    BY DEF g
  <2> QED
    BY <2>1, Zenon DEF SumFunction
<1>10. SumFunction(g) = v
  BY <1>7, <1>8, <1>9
<1> QED
  BY <1>10 DEF g

-----------------------------------------------------------------------------
(***************************************************************************)
(* Sequences of sequences, one behind the other.                           *)
(***************************************************************************)

\* FlattenSeq, unfolded: f[n] is the first n of them.
FlatUpTo(ss, f) ==
    [i \in 1..Len(ss) |-> IF i = 1 THEN ss[i] ELSE f[i - 1] \o ss[i]]

LEMMA FlattenExists ==
    ASSUME NEW S, NEW ss \in Seq(Seq(S)), ss # <<>>
    PROVE  \E f : f = FlatUpTo(ss, f) /\ FlattenSeq(ss) = f[Len(ss)]
<1> DEFINE V == Seq(S)
           G == [p \in Nat \X V |-> IF p[1] \in DOMAIN ss THEN p[2] \o ss[p[1]] ELSE p[2]]
<1>1. Len(ss) \in Nat \ {0} /\ DOMAIN ss = 1..Len(ss)
  BY LenProperties, EmptySeq
<1>2. \A i \in DOMAIN ss : ss[i] \in V
  BY <1>1, ElementOfSeq
<1>3. <<>> \in V
  BY EmptySeq
<1> HIDE DEF V
<1>4. G \in StepsIn(V)
  <2>1. \A v \in V, w \in V : v \o w \in V
    BY ConcatProperties DEF V
  <2> QED
    BY <1>2, <2>1 DEF StepsIn
<1>5. PICK f \in [Nat -> V] : Unfolds(f, <<>>, G)
  BY <1>3, <1>4, NatRecursive
<1>6. f[0] = <<>>
  BY <1>5 DEF Unfolds
<1>7. \A i \in DOMAIN ss : f[i] = f[i - 1] \o ss[i]
  <2> TAKE i \in DOMAIN ss
  <2>1. i \in Nat /\ i # 0 /\ i - 1 \in Nat
    BY <1>1
  <2>2. f[i] = G[<<i, f[i - 1]>>] /\ f[i - 1] \in V
    BY <1>5, <2>1 DEF Unfolds
  <2>3. <<i, f[i - 1]>> \in Nat \X V
    BY <2>1, <2>2
  <2> QED
    BY <2>2, <2>3
<1> DEFINE h == [i \in 1..Len(ss) |-> f[i]]
<1>8. h = FlatUpTo(ss, h)
  <2>1. ASSUME NEW i \in 1..Len(ss)
        PROVE  h[i] = IF i = 1 THEN ss[i] ELSE h[i - 1] \o ss[i]
    <3>1. i \in DOMAIN ss /\ h[i] = f[i]
      BY <1>1
    <3>2. CASE i = 1
      <4>0. i - 1 = 0
        BY <3>2
      <4>1. f[i] = <<>> \o ss[i]
        <5>1. f[i] = f[i - 1] \o ss[i]
          BY <1>7, <3>1, Zenon
        <5> QED
          BY <1>6, <4>0, <5>1
      <4>2. <<>> \o ss[i] = ss[i]
        BY <1>2, <3>1, ConcatEmptySeq DEF V
      <4> QED
        BY <3>1, <3>2, <4>1, <4>2
    <3>3. CASE i # 1
      <4>1. i - 1 \in 1..Len(ss)
        BY <1>1, <3>3
      <4>2. h[i - 1] = f[i - 1]
        BY <4>1
      <4> QED
        BY <1>7, <3>1, <3>3, <4>2
    <3> QED
      BY <3>2, <3>3
  <2> QED
    BY <2>1 DEF FlatUpTo
<1> DEFINE body(g) == [i \in 1..Len(ss) |-> IF i = 1 THEN ss[i] ELSE g[i - 1] \o ss[i]]
           w == CHOOSE g : g = body(g)
<1>9. w = body(w)
  <2>1. h = body(h)
    BY <1>8 DEF FlatUpTo
  <2> HIDE DEF body, h
  <2> QED
    BY <2>1
<1>10. FlattenSeq(ss) = w[Len(ss)]
  <2>1. Len(ss) # 0
    BY <1>1
  <2> QED
    BY <2>1, Zenon DEF FlattenSeq
<1> QED
  BY <1>9, <1>10 DEF FlatUpTo

LEMMA FlattenNone == FlattenSeq(<<>>) = <<>>
BY EmptySeq DEF FlattenSeq

LEMMA FlattenType ==
    ASSUME NEW S, NEW ss \in Seq(Seq(S))
    PROVE  FlattenSeq(ss) \in Seq(S)
<1>1. CASE ss = <<>>
  BY <1>1, FlattenNone, EmptySeq
<1>2. CASE ss # <<>>
  <2>1. PICK f : f = FlatUpTo(ss, f) /\ FlattenSeq(ss) = f[Len(ss)]
    BY <1>2, FlattenExists
  <2>2. \A i \in 1..Len(ss) : f[i] = IF i = 1 THEN ss[i] ELSE f[i - 1] \o ss[i]
    BY <2>1 DEF FlatUpTo
  <2>3. Len(ss) \in Nat \ {0} /\ \A i \in 1..Len(ss) : ss[i] \in Seq(S)
    BY <1>2, EmptySeq, ElementOfSeq
  <2> DEFINE D == {n \in Nat : n + 1 \in 1..Len(ss) => f[n + 1] \in Seq(S)}
  <2>4. 0 \in D
    BY <2>2, <2>3
  <2>5. ASSUME NEW n \in Nat, n \in D
        PROVE  n + 1 \in D
    <3> SUFFICES ASSUME n + 2 \in 1..Len(ss)
                 PROVE  f[n + 2] \in Seq(S)
      OBVIOUS
    <3>1. n + 1 \in 1..Len(ss) /\ n + 2 # 1 /\ (n + 2) - 1 = n + 1
      BY <2>3
    <3>2. f[n + 1] \in Seq(S)
      BY <2>5, <3>1
    <3>3. f[n + 2] = f[n + 1] \o ss[n + 2]
      <4>1. f[n + 2] = IF n + 2 = 1 THEN ss[n + 2] ELSE f[(n + 2) - 1] \o ss[n + 2]
        BY <2>2
      <4> QED
        BY <3>1, <4>1
    <3> QED
      BY <2>3, <3>2, <3>3, ConcatProperties
  <2>6. Len(ss) - 1 \in D
    <3>1. Nat \subseteq D
      <4> HIDE DEF D
      <4> QED
        BY <2>4, <2>5, NatInductive
    <3>2. Len(ss) - 1 \in Nat
      BY <2>3
    <3> HIDE DEF D
    <3> QED
      BY <3>1, <3>2
  <2> QED
    BY <2>1, <2>3, <2>6
<1> QED
  BY <1>1, <1>2

\* One sequence more.
LEMMA FlattenMore ==
    ASSUME NEW S, NEW ss \in Seq(Seq(S)), NEW s \in Seq(S)
    PROVE  FlattenSeq(Append(ss, s)) = FlattenSeq(ss) \o s
<1> DEFINE N == Len(ss)
           tt == Append(ss, s)
<1>1. /\ tt \in Seq(Seq(S)) /\ tt # <<>> /\ Len(tt) = N + 1 /\ N \in Nat
      /\ \A i \in 1..N : tt[i] = ss[i]
      /\ tt[N + 1] = s
  BY AppendProperties, LenProperties
<1> HIDE DEF tt
<1>2. PICK g : g = FlatUpTo(tt, g) /\ FlattenSeq(tt) = g[N + 1]
  BY <1>1, FlattenExists
<1>3. \A i \in 1..(N + 1) : g[i] = IF i = 1 THEN tt[i] ELSE g[i - 1] \o tt[i]
  BY <1>1, <1>2 DEF FlatUpTo
<1>4. CASE ss = <<>>
  <2>1. N = 0
    BY <1>4, EmptySeq
  <2>2. FlattenSeq(tt) = s
    BY <1>1, <1>2, <1>3, <2>1
  <2>3. FlattenSeq(ss) \o s = s
    BY <1>4, FlattenNone, ConcatEmptySeq
  <2> QED
    BY <2>2, <2>3 DEF tt
<1>5. CASE ss # <<>>
  <2>1. PICK f : f = FlatUpTo(ss, f) /\ FlattenSeq(ss) = f[N]
    BY <1>5, FlattenExists
  <2>2. \A i \in 1..N : f[i] = IF i = 1 THEN ss[i] ELSE f[i - 1] \o ss[i]
    BY <2>1 DEF FlatUpTo
  <2>3. N # 0
    BY <1>5, EmptySeq
  <2> HIDE DEF N
  <2> DEFINE D == {n \in Nat : n + 1 \in 1..N => g[n + 1] = f[n + 1]}
  <2>4. 0 \in D
    BY <1>1, <1>3, <2>2
  <2>5. ASSUME NEW n \in Nat, n \in D
        PROVE  n + 1 \in D
    <3> SUFFICES ASSUME n + 2 \in 1..N
                 PROVE  g[n + 2] = f[n + 2]
      OBVIOUS
    <3>1. n + 1 \in 1..N /\ n + 2 # 1 /\ (n + 2) - 1 = n + 1 /\ n + 2 \in 1..(N + 1)
      BY <1>1
    <3>2. g[n + 1] = f[n + 1] /\ tt[n + 2] = ss[n + 2]
      BY <1>1, <2>5, <3>1
    <3>3. f[n + 2] = f[n + 1] \o ss[n + 2]
      <4>1. f[n + 2] = IF n + 2 = 1 THEN ss[n + 2] ELSE f[(n + 2) - 1] \o ss[n + 2]
        BY <2>2
      <4> QED
        BY <3>1, <4>1
    <3>4. g[n + 2] = g[n + 1] \o tt[n + 2]
      <4>1. g[n + 2] = IF n + 2 = 1 THEN tt[n + 2] ELSE g[(n + 2) - 1] \o tt[n + 2]
        BY <1>3, <3>1
      <4> QED
        BY <3>1, <4>1
    <3> QED
      BY <3>2, <3>3, <3>4
  <2>6. N - 1 \in D
    <3>1. Nat \subseteq D
      <4> HIDE DEF D
      <4> QED
        BY <2>4, <2>5, NatInductive
    <3>2. N - 1 \in Nat
      BY <1>1, <2>3
    <3> HIDE DEF D
    <3> QED
      BY <3>1, <3>2
  <2>7. g[N] = f[N]
    BY <1>1, <2>3, <2>6
  <2>8. g[N + 1] = g[N] \o s
    <3>1. g[N + 1] = IF N + 1 = 1 THEN tt[N + 1] ELSE g[(N + 1) - 1] \o tt[N + 1]
      BY <1>1, <1>3
    <3>2. N + 1 # 1 /\ (N + 1) - 1 = N
      BY <1>1, <2>3
    <3> QED
      BY <1>1, <3>1, <3>2
  <2> QED
    BY <1>2, <2>1, <2>7, <2>8 DEF tt
<1> QED
  BY <1>4, <1>5

LEMMA FlattenOne ==
    ASSUME NEW S, NEW s \in Seq(S)
    PROVE  FlattenSeq(<<s>>) = s
<1>1. <<>> \in Seq(Seq(S)) /\ Append(<<>>, s) = <<s>>
  BY EmptySeq
<1>2. FlattenSeq(Append(<<>>, s)) = FlattenSeq(<<>>) \o s
  BY <1>1, FlattenMore
<1> QED
  BY <1>1, <1>2, FlattenNone, ConcatEmptySeq

=============================================================================

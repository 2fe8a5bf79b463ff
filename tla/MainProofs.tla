----------------------------- MODULE MainProofs -----------------------------
(***************************************************************************)
(* Theorems on main after a successful load, for every list of tags, every *)
(* content of them and every ABC file: what is printed is what the file    *)
(* says, all of it, once, and in its order.                                *)
(***************************************************************************)
EXTENDS Main, DataFacts, SequenceTheorems

(***************************************************************************)
(* Lists of lines: each is about something else.                           *)
(***************************************************************************)
Keys(s) == {s[a].of : a \in DOMAIN s}
Once(s) == \A a, b \in DOMAIN s : s[a].of = s[b].of => a = b
Listed(s) == IsSeq(s) /\ Once(s)

LEMMA SeqShape ==
    ASSUME NEW s, IsSeq(s)
    PROVE  /\ Len(s) \in Nat
           /\ DOMAIN s = 1..Len(s)
           /\ s \in [1..Len(s) -> Range(s)]
BY LenProperties DEF IsSeq

\* A function on 1..n is a sequence.
LEMMA FunctionIsSeq ==
    ASSUME NEW n \in Nat, NEW s, s = [i \in 1..n |-> s[i]]
    PROVE  IsSeq(s) /\ Len(s) = n /\ DOMAIN s = 1..n
<1>1. DOMAIN s = 1..n
  OBVIOUS
<1>2. \A i \in 1..n : s[i] \in Range(s)
  BY <1>1 DEF Range
<1>3. s \in [1..n -> Range(s)]
  BY <1>1, <1>2
<1>4. s \in Seq(Range(s))
  BY <1>3, SeqDef
<1>5. Len(s) \in Nat /\ DOMAIN s = 1..Len(s)
  BY <1>4, LenProperties
<1>6. Len(s) = n
  BY <1>1, <1>5
<1> QED
  BY <1>1, <1>4, <1>6 DEF IsSeq

LEMMA OneLine ==
    ASSUME NEW x
    PROVE  Listed(<<x>>) /\ Keys(<<x>>) = {x.of} /\ Range(<<x>>) = {x}
<1>1. <<x>> = [i \in 1..1 |-> <<x>>[i]] /\ <<x>>[1] = x /\ DOMAIN <<x>> = {1}
  OBVIOUS
<1>2. IsSeq(<<x>>)
  BY <1>1, FunctionIsSeq
<1> QED
  BY <1>1, <1>2 DEF Listed, Once, Keys, Range

LEMMA NoLine == Listed(<<>>) /\ Keys(<<>>) = {} /\ Range(<<>>) = {}
<1>1. DOMAIN <<>> = {} /\ <<>> \in Seq({})
  BY EmptySeq
<1>2. Range(<<>>) = {}
  BY <1>1 DEF Range
<1> QED
  BY <1>1, <1>2 DEF Listed, Once, Keys, IsSeq

\* Two lists about different things make one.
LEMMA Joined ==
    ASSUME NEW s, NEW t, Listed(s), Listed(t), Keys(s) \cap Keys(t) = {}
    PROVE  /\ Listed(s \o t)
           /\ Keys(s \o t) = Keys(s) \cup Keys(t)
           /\ Range(s \o t) = Range(s) \cup Range(t)
<1> DEFINE S == Range(s) \cup Range(t)
           u == s \o t
<1>1. /\ Len(s) \in Nat /\ DOMAIN s = 1..Len(s) /\ s \in Seq(S)
      /\ Len(t) \in Nat /\ DOMAIN t = 1..Len(t) /\ t \in Seq(S)
  <2>1. s \in Seq(S) /\ t \in Seq(S)
    BY SeqMonotonic DEF Listed, IsSeq
  <2> QED
    BY <2>1, LenProperties
<1> HIDE DEF S
<1>2. /\ u \in Seq(S)
      /\ Len(u) = Len(s) + Len(t)
      /\ \A i \in 1..(Len(s) + Len(t)) : u[i] = IF i <= Len(s) THEN s[i] ELSE t[i - Len(s)]
  BY <1>1, ConcatProperties
<1> HIDE DEF u
<1>3. DOMAIN u = 1..(Len(s) + Len(t))
  BY <1>2, LenProperties
<1>4. \A a \in DOMAIN s : a \in DOMAIN u /\ u[a] = s[a]
  BY <1>1, <1>2, <1>3
<1>5. \A a \in DOMAIN t : Len(s) + a \in DOMAIN u /\ u[Len(s) + a] = t[a]
  <2> TAKE a \in DOMAIN t
  <2>1. a \in Nat /\ 1 <= a /\ a <= Len(t)
    BY <1>1
  <2>2. Len(s) + a \in 1..(Len(s) + Len(t)) /\ ~(Len(s) + a <= Len(s)) /\ Len(s) + a - Len(s) = a
    BY <1>1, <2>1
  <2> QED
    BY <1>2, <1>3, <2>2
<1>6. \A a \in DOMAIN u : \/ a \in DOMAIN s /\ u[a] = s[a]
                          \/ a - Len(s) \in DOMAIN t /\ u[a] = t[a - Len(s)]
  BY <1>1, <1>2, <1>3
<1>7. Range(u) = Range(s) \cup Range(t)
  BY <1>4, <1>5, <1>6 DEF Range
<1>8. Keys(u) = Keys(s) \cup Keys(t)
  BY <1>4, <1>5, <1>6 DEF Keys
<1>9. IsSeq(u)
  BY <1>2, <1>7 DEF IsSeq, S
<1>10. Once(u)
  <2> SUFFICES ASSUME NEW a \in DOMAIN u, NEW b \in DOMAIN u, u[a].of = u[b].of
               PROVE  a = b
    BY DEF Once
  <2>1. CASE a \in DOMAIN s /\ u[a] = s[a] /\ b \in DOMAIN s /\ u[b] = s[b]
    BY <2>1 DEF Listed, Once
  <2>2. CASE a - Len(s) \in DOMAIN t /\ u[a] = t[a - Len(s)]
             /\ b - Len(s) \in DOMAIN t /\ u[b] = t[b - Len(s)]
    <3>1. a - Len(s) = b - Len(s)
      BY <2>2 DEF Listed, Once
    <3>2. a \in Int /\ b \in Int
      BY <1>1, <1>3
    <3> QED
      BY <1>1, <3>1, <3>2
  <2>3. \A c, d : c \in DOMAIN s /\ d \in DOMAIN t => s[c].of # t[d].of
    BY DEF Keys
  <2> QED
    BY <1>6, <2>1, <2>2, <2>3
<1> QED
  BY <1>7, <1>8, <1>9, <1>10 DEF Listed, u


\* Lists about different things, one behind the other, are one.
LEMMA Flattened ==
    ASSUME NEW ss, IsSeq(ss),
           \A i \in DOMAIN ss : Listed(ss[i]),
           \A i, j \in DOMAIN ss : i # j => Keys(ss[i]) \cap Keys(ss[j]) = {}
    PROVE  /\ Listed(FlattenSeq(ss))
           /\ Keys(FlattenSeq(ss)) = UNION {Keys(ss[i]) : i \in DOMAIN ss}
           /\ Range(FlattenSeq(ss)) = UNION {Range(ss[i]) : i \in DOMAIN ss}
<1>1. Len(ss) \in Nat /\ DOMAIN ss = 1..Len(ss)
  BY SeqShape
<1>2. CASE ss = <<>>
  <2>1. FlattenSeq(ss) = <<>> /\ DOMAIN ss = {}
    BY <1>2, EmptySeq DEF FlattenSeq
  <2> QED
    BY <2>1, NoLine
<1>3. CASE ss # <<>>
  <2>1. PICK f : f = FlatUpTo(ss, f) /\ FlattenSeq(ss) = f[Len(ss)]
    <3> DEFINE S == UNION {Range(ss[i]) : i \in DOMAIN ss}
    <3>1. \A i \in DOMAIN ss : ss[i] \in Seq(S)
      <4> TAKE i \in DOMAIN ss
      <4>1. Range(ss[i]) \subseteq S /\ IsSeq(ss[i])
        BY DEF Listed
      <4> QED
        BY <4>1, SeqMonotonic DEF IsSeq
    <3> HIDE DEF S
    <3>2. ss \in Seq(Seq(S))
      <4>1. ss \in [1..Len(ss) -> Seq(S)]
        BY <1>1, <3>1, SeqShape
      <4> QED
        BY <1>1, <4>1, SeqDef
    <3> QED
      BY <1>3, <3>2, FlattenExists
  <2>2. \A i \in 1..Len(ss) : f[i] = IF i = 1 THEN ss[i] ELSE f[i - 1] \o ss[i]
    BY <2>1 DEF FlatUpTo
  <2> DEFINE Good(n) ==
        /\ Listed(f[n])
        /\ \A k : k \in Keys(f[n]) <=> \E i \in 1..n : k \in Keys(ss[i])
        /\ \A x : x \in Range(f[n]) <=> \E i \in 1..n : x \in Range(ss[i])
      T == {n \in Nat : n \in 1..Len(ss) => Good(n)}
  <2>3. 0 \in T
    OBVIOUS
  <2>4. ASSUME NEW n \in Nat, n \in T
        PROVE  n + 1 \in T
    <3> SUFFICES ASSUME n + 1 \in 1..Len(ss)
                 PROVE  Good(n + 1)
      OBVIOUS
    <3>1. CASE n = 0
      <4>1. f[1] = ss[1] /\ 1..1 = {1} /\ 1 \in DOMAIN ss
        BY <1>1, <2>2, <3>1
      <4> QED
        BY <3>1, <4>1
    <3>2. CASE n # 0
      <4>1. n \in 1..Len(ss) /\ n + 1 # 1 /\ n + 1 - 1 = n /\ 1..(n + 1) = (1..n) \cup {n + 1}
            /\ n + 1 \in DOMAIN ss /\ 1..n \subseteq DOMAIN ss /\ n + 1 \notin 1..n
        BY <1>1, <3>2
      <4>2. Good(n)
        BY <2>4, <4>1
      <4>3. f[n + 1] = f[n] \o ss[n + 1]
        <5>1. f[n + 1] = IF n + 1 = 1 THEN ss[n + 1] ELSE f[n + 1 - 1] \o ss[n + 1]
          BY <2>2
        <5> QED
          BY <4>1, <5>1
      <4>4. Keys(f[n]) \cap Keys(ss[n + 1]) = {}
        BY <4>1, <4>2
      <4>5. /\ Listed(f[n] \o ss[n + 1])
            /\ Keys(f[n] \o ss[n + 1]) = Keys(f[n]) \cup Keys(ss[n + 1])
            /\ Range(f[n] \o ss[n + 1]) = Range(f[n]) \cup Range(ss[n + 1])
        BY <4>1, <4>2, <4>4, Joined
      <4> QED
        BY <4>1, <4>2, <4>3, <4>5
    <3> QED
      BY <3>1, <3>2
  <2> HIDE DEF T
  <2>5. Len(ss) \in T
    BY <1>1, <2>3, <2>4, NatInductive
  <2>6. Len(ss) \in 1..Len(ss)
    BY <1>1, <1>3, EmptySeq DEF IsSeq
  <2>7. Good(Len(ss))
    BY <2>5, <2>6 DEF T
  <2> QED
    BY <1>1, <2>1, <2>7
<1> QED
  BY <1>2, <1>3

-----------------------------------------------------------------------------
(***************************************************************************)
(* Lookups in the pool.                                                    *)
(***************************************************************************)
\* Where one of several calls fails, so does what makes them.
LEMMA TurnEnds ==
    ASSUME NEW calls, NEW e \in InTurn(calls)
    PROVE  e \in Text \/ \E k \in DOMAIN calls : e \in calls[k] /\ e \notin Text
<1> DEFINE fails(k) == calls[k] \ Text
           made == {l \in DOMAIN calls : \A before \in 1..(l - 1) : calls[before] \cap Text # {}}
           all == {x \in Text : \A k \in DOMAIN calls : calls[k] \cap Text # {}}
<1>1. InTurn(calls) = (UNION {fails(k) : k \in made}) \cup all
  BY DEF InTurn
<1>2. all \subseteq Text /\ made \subseteq DOMAIN calls
  OBVIOUS
<1> HIDE DEF made, all
<1>3. e \in all \/ \E k \in made : e \in fails(k)
  BY <1>1
<1> QED
  BY <1>2, <1>3

\* The recursion of Walk, unfolded.
LEMMA WalkExists ==
    ASSUME NEW pool, Len(pool.multinames) \in Nat, NEW leaf
    PROVE  \E ends :
             /\ \A d \in Nat : ends[d + 1] = Round(pool.multinames, leaf, ends[d])
             /\ \A index : Walk(pool, leaf, index) =
                  Entry(ends[Len(pool.multinames)], index) \cup (Entry(ends[StackDepth], index) \cap Crash)
<1> DEFINE names == pool.multinames
           O == {"text", "throw", "crash"} \cup UNION {leaf[i] : i \in DOMAIN names}
           V == [DOMAIN names -> SUBSET O]
           G == [p \in Nat \X V |-> Round(names, leaf, p[2])]
           first == [i \in DOMAIN names |-> Crash]
<1>1. first \in V
  BY DEF Crash
<1>2. \A inner \in V : Round(names, leaf, inner) \in V
  <2> SUFFICES ASSUME NEW inner \in V, NEW i \in DOMAIN names
               PROVE  (IF names[i].kind = TypeName
                       THEN InTurn([k \in DOMAIN NamesOf(names[i]) |-> Entry(inner, NamesOf(names[i])[k])])
                       ELSE leaf[i]) \subseteq O
    BY DEF Round
  <2> DEFINE calls == [k \in DOMAIN NamesOf(names[i]) |-> Entry(inner, NamesOf(names[i])[k])]
  <2>1. \A k \in DOMAIN calls : calls[k] \subseteq O
    BY DEF Entry, Text, Throw
  <2> HIDE DEF calls
  <2>2. InTurn(calls) \subseteq O
    BY <2>1, TurnEnds DEF Text
  <2>3. leaf[i] \subseteq O
    OBVIOUS
  <2> QED
    BY <2>2, <2>3 DEF calls
<1> HIDE DEF V, first
<1>3. G \in StepsIn(V)
  BY <1>2 DEF StepsIn
<1>4. PICK f \in [Nat -> V] : Unfolds(f, first, G)
  BY <1>1, <1>3, NatRecursive
<1>5. \A d \in Nat : d # 0 => f[d] = Round(names, leaf, f[d - 1])
  <2> TAKE d \in Nat
  <2> HAVE d # 0
  <2>1. d - 1 \in Nat /\ f[d - 1] \in V
    BY <1>4
  <2>2. <<d, f[d - 1]>> \in Nat \X V
    BY <2>1
  <2>3. G[<<d, f[d - 1]>>] = Round(names, leaf, f[d - 1])
    BY <2>2
  <2> HIDE DEF G
  <2> QED
    BY <1>4, <2>3 DEF Unfolds
<1> DEFINE body(g) ==
             [depth \in Nat |-> IF depth = 0 THEN [i \in DOMAIN names |-> Crash]
                                ELSE Round(names, leaf, g[depth - 1])]
           w == CHOOSE g : g = body(g)
<1>6. f = body(f)
  <2>1. ASSUME NEW d \in Nat
        PROVE  f[d] = body(f)[d]
    <3>1. CASE d = 0
      <4>1. f[d] = first
        BY <1>4, <3>1 DEF Unfolds
      <4> QED
        BY <3>1, <4>1 DEF first
    <3>2. CASE d # 0
      BY <1>5, <3>2 DEF Round
    <3> QED
      BY <3>1, <3>2
  <2> QED
    BY <2>1
<1>7. w = body(w)
  <2> HIDE DEF body
  <2> QED
    BY <1>6
<1>8. \A d \in Nat : w[d + 1] = Round(names, leaf, w[d])
  <2> TAKE d \in Nat
  <2>1. d + 1 \in Nat /\ d + 1 # 0 /\ d + 1 - 1 = d
    OBVIOUS
  <2>2. \A g : body(g)[d + 1] = Round(names, leaf, g[d])
    BY <2>1 DEF Round
  <2>3. w[d + 1] = body(w)[d + 1]
    BY <1>7
  <2> HIDE DEF w, body
  <2> QED
    BY <2>2, <2>3
<1>9. \A index : Walk(pool, leaf, index) =
        Entry(w[Len(names)], index) \cup (Entry(w[StackDepth], index) \cap Crash)
  BY Zenon DEF Walk
<1> HIDE DEF w
<1> QED
  BY <1>8, <1>9

\* Entries that end well after one more round: they are none, or made of such.
Ripe(names, S, good) ==
    {i \in S : names[i].kind = TypeName => References(names[i]) \subseteq good}

NoCycle(names, S) ==
    LET types == {i \in S : names[i].kind = TypeName}
    IN  /\ \A i \in types : References(names[i]) \subseteq S
        /\ \A T \in SUBSET types : T # {} => \E i \in T : References(names[i]) \cap T = {}

\* In a set of names without a cycle, all are ripe after as many rounds as
\* there are names.
LEMMA AllRipen ==
    ASSUME NEW names, NEW S, IsFiniteSet(S), NoCycle(names, S),
           NEW good \in [Nat -> SUBSET S], good[0] = {},
           \A d \in Nat : good[d + 1] = Ripe(names, S, good[d]),
           NEW n \in Nat, Cardinality(S) <= n
    PROVE  good[n] = S
<1>1. \A d \in Nat : IsFiniteSet(good[d]) /\ Cardinality(good[d]) \in Nat /\ good[d] \subseteq S
  BY FS_Subset, FS_CardinalityType
<1> DEFINE G == {d \in Nat : /\ good[d] \subseteq good[d + 1]
                             /\ good[d] = S \/ Cardinality(good[d]) >= d}
<1>2. ASSUME NEW d \in Nat, good[d] # S
      PROVE  \E i \in S \ good[d] : i \in good[d + 1]
  <2> DEFINE T == S \ good[d]
             types == {i \in S : names[i].kind = TypeName}
  <2>1. T # {}
    BY <1>1, <1>2
  <2>2. CASE T \subseteq types
    <3>1. T \in SUBSET types
      BY <2>2
    <3>2. PICK i \in T : References(names[i]) \cap T = {}
      BY <2>1, <3>1 DEF NoCycle
    <3>3. References(names[i]) \subseteq S
      BY <2>2, <3>2 DEF NoCycle
    <3>4. References(names[i]) \subseteq good[d]
      BY <3>2, <3>3
    <3> QED
      BY <3>2, <3>4 DEF Ripe
  <2>3. CASE ~ (T \subseteq types)
    <3>1. PICK i \in T : i \notin types
      BY <2>3
    <3> QED
      BY <3>1 DEF Ripe
  <2> QED
    BY <2>2, <2>3
<1>3. 0 \in G
  BY <1>1, FS_EmptySet
<1>4. ASSUME NEW d \in Nat, d \in G
      PROVE  d + 1 \in G
  <2>1. good[d + 1] \subseteq good[d + 1 + 1]
    <3>1. good[d] \subseteq good[d + 1]
      BY <1>4
    <3>2. d + 1 \in Nat
      OBVIOUS
    <3>3. good[d + 1] = Ripe(names, S, good[d]) /\ good[d + 1 + 1] = Ripe(names, S, good[d + 1])
      BY <3>2
    <3> QED
      BY <3>1, <3>3 DEF Ripe
  <2>2. CASE good[d] = S
    <3>1. good[d + 1] = S
      <4>1. d + 1 \in Nat /\ good[d] \subseteq good[d + 1]
        BY <1>4
      <4>2. good[d + 1] \subseteq S
        BY <1>1, <4>1
      <4> QED
        BY <2>2, <4>1, <4>2
    <3> QED
      BY <2>1, <3>1
  <2>3. CASE good[d] # S
    <3>1. Cardinality(good[d]) >= d /\ good[d] \subseteq good[d + 1]
      BY <1>4, <2>3
    <3>2. PICK i \in S \ good[d] : i \in good[d + 1]
      BY <1>2, <2>3
    <3>3. /\ IsFiniteSet(good[d] \cup {i})
          /\ Cardinality(good[d] \cup {i}) = Cardinality(good[d]) + 1
      BY <1>1, <3>2, FS_AddElement
    <3>4. good[d] \cup {i} \in SUBSET good[d + 1]
      BY <3>1, <3>2
    <3>5. Cardinality(good[d] \cup {i}) <= Cardinality(good[d + 1])
      BY <1>1, <3>4, FS_Subset
    <3>6. Cardinality(good[d + 1]) >= d + 1
      BY <1>1, <3>1, <3>3, <3>5
    <3> QED
      BY <2>1, <3>6
  <2> QED
    BY <2>2, <2>3
<1> HIDE DEF G
<1>5. n \in G
  BY <1>3, <1>4, NatInductive
<1>6. good[n] = S \/ Cardinality(good[n]) >= n
  BY <1>5 DEF G
<1>7. CASE Cardinality(good[n]) >= n
  <2>1. Cardinality(good[n]) <= Cardinality(S) /\ Cardinality(S) \in Nat
    BY <1>1, FS_Subset, FS_CardinalityType
  <2>2. Cardinality(good[n]) = Cardinality(S)
    BY <1>1, <1>7, <2>1
  <2> QED
    BY <1>1, <2>2, FS_Subset
<1> QED
  BY <1>6, <1>7

\* An entry made of names that end well ends well a round later.
LEMMA NextRound ==
    ASSUME NEW names,
           \A m \in Range(names) : m.kind = TypeName => IsSeq(m.params),
           NEW leaf, NEW inner, NEW i \in DOMAIN names, i # 0,
           names[i].kind # TypeName => leaf[i] \subseteq Text,
           names[i].kind = TypeName => \A u \in References(names[i]) : Entry(inner, u) \subseteq Text
    PROVE  Entry(Round(names, leaf, inner), i) \subseteq Text
<1>1. Entry(Round(names, leaf, inner), i) = Round(names, leaf, inner)[i]
  BY DEF Entry, Round
<1>2. CASE names[i].kind # TypeName
  BY <1>1, <1>2 DEF Round
<1>3. CASE names[i].kind = TypeName
  <2> DEFINE all == NamesOf(names[i])
             calls == [k \in DOMAIN all |-> Entry(inner, all[k])]
  <2>1. Round(names, leaf, inner)[i] = InTurn(calls)
    BY <1>3 DEF Round
  <2>2. \A k \in DOMAIN all : all[k] \in References(names[i]) \cup {0}
    <3> DEFINE m == names[i]
               T == {m.name} \cup Range(m.params)
    <3>1. m.params \in Seq(T) /\ m.name \in T
      <4>1. IsSeq(m.params)
        BY <1>3 DEF Range
      <4> QED
        BY <4>1, SeqMonotonic DEF IsSeq
    <3>2. all \in Seq(T)
      <4> HIDE DEF T, m
      <4>1. Append(m.params, m.name) \in Seq(T)
        BY <3>1, AppendProperties
      <4> QED
        BY <4>1 DEF NamesOf, m
    <3>3. \A k \in DOMAIN all : all[k] \in T
      <4> HIDE DEF all, T
      <4> QED
        BY <3>2, LenProperties, ElementOfSeq
    <3> QED
      BY <3>3 DEF References
  <2>3. \A k \in DOMAIN calls : calls[k] \subseteq Text
    <3> TAKE k \in DOMAIN calls
    <3>1. all[k] \in References(names[i]) \cup {0} /\ calls[k] = Entry(inner, all[k])
      BY <2>2
    <3> HIDE DEF all, calls
    <3> QED
      BY <1>3, <3>1 DEF Entry
  <2> HIDE DEF calls
  <2>4. InTurn(calls) \subseteq Text
    BY <2>3, TurnEnds
  <2> QED
    BY <1>1, <2>1, <2>4
<1> QED
  BY <1>2, <1>3

\* The depths of the names in S, each TypeName deeper than those it is made of.
Nested(names, S, depth, most) ==
    /\ \A i \in S : depth[i] \in 1..most
    /\ \A i \in S : names[i].kind = TypeName =>
         \A u \in References(names[i]) : u \in S /\ depth[u] < depth[i]

\* Names that have a depth form no cycle.
LEMMA NestedNoCycle ==
    ASSUME NEW names, NEW S, NEW depth, NEW most \in Nat, Nested(names, S, depth, most)
    PROVE  NoCycle(names, S)
<1> DEFINE types == {i \in S : names[i].kind = TypeName}
<1>1. \A i \in types : References(names[i]) \subseteq S
  BY DEF Nested
<1>2. ASSUME NEW T \in SUBSET types, T # {}
      PROVE  \E i \in T : References(names[i]) \cap T = {}
  <2> DEFINE depths == {depth[i] : i \in T}
  <2>1. depths \subseteq Nat /\ depths # {}
    BY <1>2 DEF Nested
  <2>2. PICK least \in depths : \A d \in depths : least <= d
    <3> HIDE DEF depths
    <3> QED
      BY <2>1, NatMinimum
  <2>3. PICK i \in T : least = depth[i]
    BY <2>2
  <2>4. ASSUME NEW u \in References(names[i]), u \in T
        PROVE  FALSE
    <3>1. depth[u] < depth[i] /\ depth[u] \in Nat /\ depth[i] \in Nat
      BY <2>3, <2>4 DEF Nested
    <3>2. depth[i] <= depth[u]
      BY <2>2, <2>3, <2>4
    <3> QED
      BY <3>1, <3>2
  <2> QED
    BY <2>4
<1> QED
  BY <1>1, <1>2 DEF NoCycle

\* Where names have a depth the stack has room for, and those that are no
\* TypeName end well, every access does: getMultiname and getMultinameHRF.
LEMMA WalkReturns ==
    ASSUME NEW pool, IsSeq(pool.multinames),
           \A m \in Range(pool.multinames) : m.kind = TypeName => IsSeq(m.params),
           NEW leaf,
           NEW S \in SUBSET DOMAIN pool.multinames,
           NEW depth, Nested(pool.multinames, S, depth, StackDepth),
           \A i \in S : pool.multinames[i].kind # TypeName => leaf[i] \subseteq Text,
           NEW index \in S \cup {0}
    PROVE  Walk(pool, leaf, index) \subseteq Text
<1> DEFINE names == pool.multinames
           V == SUBSET S
           G == [p \in Nat \X V |-> Ripe(names, S, p[2])]
           n == Len(names)
<1>1. n \in Nat /\ DOMAIN names = 1..n
  BY LenProperties DEF IsSeq
<1>2. IsFiniteSet(S) /\ Cardinality(S) <= n
  <2>1. IsFiniteSet(1..n) /\ Cardinality(1..n) = n
    <3>1. Cardinality(1..n) = IF 1 > n THEN 0 ELSE n - 1 + 1
      BY <1>1, FS_Interval
    <3> QED
      BY <1>1, <3>1, FS_Interval
  <2>2. S \in SUBSET (1..n)
    BY <1>1
  <2> QED
    BY <2>1, <2>2, FS_Subset
<1>3. PICK good \in [Nat -> V] : Unfolds(good, {}, G)
  <2>1. {} \in V /\ G \in StepsIn(V)
    BY DEF StepsIn, Ripe
  <2> QED
    BY <2>1, NatRecursive
<1>4. good[0] = {} /\ \A d \in Nat : good[d + 1] = Ripe(names, S, good[d])
  <2>1. good[0] = {}
    BY <1>3 DEF Unfolds
  <2>2. ASSUME NEW d \in Nat
        PROVE  good[d + 1] = Ripe(names, S, good[d])
    <3>1. d + 1 \in Nat /\ d + 1 # 0 /\ d + 1 - 1 = d
      OBVIOUS
    <3>2. <<d + 1, good[d]>> \in Nat \X V
      BY <1>3, <3>1
    <3>3. G[<<d + 1, good[d]>>] = Ripe(names, S, good[d])
      BY <3>2
    <3> HIDE DEF G
    <3> QED
      BY <1>3, <3>1, <3>3 DEF Unfolds
  <2> QED
    BY <2>1, <2>2
<1>5. PICK ends : /\ \A d \in Nat : ends[d + 1] = Round(names, leaf, ends[d])
                  /\ \A i : Walk(pool, leaf, i) =
                       Entry(ends[n], i) \cup (Entry(ends[StackDepth], i) \cap Crash)
  BY <1>1, WalkExists
<1> DEFINE D == {d \in Nat : \A i \in good[d] : Entry(ends[d], i) \subseteq Text}
<1>6. 0 \in D
  BY <1>4
<1>7. ASSUME NEW d \in Nat, d \in D
      PROVE  d + 1 \in D
  <2> SUFFICES ASSUME NEW i \in good[d + 1]
               PROVE  Entry(ends[d + 1], i) \subseteq Text
    OBVIOUS
  <2>1. i \in S /\ i \in DOMAIN names /\ i # 0 /\ (names[i].kind = TypeName => References(names[i]) \subseteq good[d])
    BY <1>1, <1>3, <1>4 DEF Ripe
  <2>2. ends[d + 1] = Round(names, leaf, ends[d])
    BY <1>5
  <2>3. names[i].kind = TypeName => \A u \in References(names[i]) : Entry(ends[d], u) \subseteq Text
    BY <1>7, <2>1
  <2> HIDE DEF D, names
  <2> QED
    BY <2>1, <2>2, <2>3, NextRound DEF names
<1> HIDE DEF D
<1>8. n \in D
  BY <1>1, <1>6, <1>7, NatInductive
<1>11. StackDepth \in Nat
  BY StackDepthAssumption
<1>9. good[n] = S
  <2>1. NoCycle(names, S)
    BY <1>11, NestedNoCycle
  <2> HIDE DEF names, n, V, G
  <2> QED
    BY <1>1, <1>2, <1>3, <1>4, <2>1, AllRipen DEF V
<1> DEFINE E == {d \in Nat : \A i \in S : depth[i] <= d => Entry(ends[d], i) \subseteq Text}
<1>12. 0 \in E
  BY <1>11 DEF Nested
<1>13. ASSUME NEW d \in Nat, d \in E
       PROVE  d + 1 \in E
  <2> SUFFICES ASSUME NEW i \in S, depth[i] <= d + 1
               PROVE  Entry(ends[d + 1], i) \subseteq Text
    OBVIOUS
  <2>1. i \in DOMAIN names /\ i # 0
    BY <1>1
  <2>2. ends[d + 1] = Round(names, leaf, ends[d])
    BY <1>5
  <2>3. ASSUME names[i].kind = TypeName, NEW u \in References(names[i])
        PROVE  Entry(ends[d], u) \subseteq Text
    <3>1. u \in S /\ depth[u] < depth[i]
      BY <2>3 DEF Nested
    <3>2. depth[u] \in Nat /\ depth[i] \in Nat
      BY <1>11, <3>1 DEF Nested
    <3>3. depth[u] <= d
      BY <3>1, <3>2
    <3> QED
      BY <1>13, <3>1, <3>3
  <2> HIDE DEF E, names
  <2> QED
    BY <2>1, <2>2, <2>3, NextRound DEF names
<1> HIDE DEF E
<1>14. StackDepth \in E
  BY <1>11, <1>12, <1>13, NatInductive
<1>10. Entry(ends[n], index) \subseteq Text /\ Entry(ends[StackDepth], index) \subseteq Text
  <2>1. CASE index = 0
    BY <2>1 DEF Entry
  <2>2. CASE index \in S
    <3>1. depth[index] <= StackDepth
      BY <1>11, <2>2 DEF Nested
    <3> QED
      BY <1>8, <1>9, <1>14, <2>2, <3>1 DEF D, E
  <2> QED
    BY <2>1, <2>2
<1> QED
  BY <1>5, <1>10 DEF Text, Crash

LEMMA NameReturns ==
    ASSUME NEW abc, IsAbc(abc), NEW leaf, NEW good,
           \A k \in good : abc.multinames[k].kind # TypeName => leaf[k] \subseteq Text,
           NEW i, NameOk(abc, i, good)
    PROVE  Walk(abc, leaf, i) \subseteq Text
<1> DEFINE names == abc.multinames
           deep(depth) == {k \in DOMAIN names : depth[k] # 0}
<1>1. IsSeq(names) /\ \A m \in Range(names) : m.kind = TypeName => IsSeq(m.params)
  BY DEF IsAbc, IsMultiname
<1>2. CASE i = 0
  <2>1. {} \in SUBSET DOMAIN names /\ Nested(names, {}, <<>>, StackDepth) /\ i \in {} \cup {0}
    BY <1>2 DEF Nested
  <2> HIDE DEF names
  <2> QED
    BY <1>1, <2>1, WalkReturns DEF names
<1>3. CASE i # 0
  <2>1. PICK depth \in [DOMAIN names -> 0..StackDepth] :
          /\ i \in deep(depth)
          /\ \A k \in deep(depth) :
               IF names[k].kind = TypeName
               THEN \A u \in References(names[k]) : u \in deep(depth) /\ depth[u] < depth[k]
               ELSE k \in good
    BY <1>3 DEF NameOk
  <2> DEFINE S == deep(depth)
  <2>2. \A k \in S : depth[k] \in 1..StackDepth
    BY StackDepthAssumption
  <2>3. Nested(names, S, depth, StackDepth)
    BY <2>1, <2>2 DEF Nested
  <2>4. \A k \in S : names[k].kind # TypeName => leaf[k] \subseteq Text
    BY <2>1
  <2>5. S \in SUBSET DOMAIN names /\ i \in S \cup {0}
    BY <2>1
  <2> HIDE DEF names, S
  <2> QED
    BY <1>1, <2>3, <2>4, <2>5, WalkReturns DEF names
<1> QED
  BY <1>2, <1>3

LEMMA StringReturns ==
    ASSUME NEW abc, NEW i, StringOk(abc, i)
    PROVE  GetString(abc, i) \subseteq Text
BY DEF StringOk, GetString

LEMMA NamespaceReturns ==
    ASSUME NEW abc, IsAbc(abc), NEW i \in Nat, NamespaceOk(abc, i)
    PROVE  GetNamespace(abc, i) \subseteq Text
<1>1. Len(abc.namespaces) \in Nat
  BY SeqShape DEF IsAbc
<1>2. ~ (i > Len(abc.namespaces))
  BY <1>1 DEF NamespaceOk
<1> QED
  BY <1>2, StringReturns DEF NamespaceOk, GetNamespace

LEMMA PrintableReturns ==
    ASSUME NEW abc, IsAbc(abc), NEW i, PrintableOk(abc, i)
    PROVE  GetMultinameHRF(abc, i) \subseteq Text
<1> DEFINE leaf == [k \in DOMAIN abc.multinames |-> MultinameEndsHRF(abc, abc.multinames[k])]
           good == {k \in DOMAIN abc.multinames :
                      abc.multinames[k].kind = 7 /\ StringOk(abc, abc.multinames[k].name)}
<1>1. \A k \in good : leaf[k] \subseteq Text
  BY StringReturns DEF MultinameEndsHRF
<1>2. NameOk(abc, i, good)
  BY DEF PrintableOk
<1>3. GetMultinameHRF(abc, i) = Walk(abc, leaf, i)
  BY DEF GetMultinameHRF
<1> HIDE DEF leaf, good
<1> QED
  BY <1>1, <1>2, <1>3, NameReturns

LEMMA TextIs ==
    ASSUME NEW a, a \subseteq Text, NEW b, b \subseteq Text
    PROVE  Then(a, b) \subseteq Text /\ Both(a, b) \subseteq Text
BY DEF Then, Both

LEMMA MultinameReturns ==
    ASSUME NEW abc, IsAbc(abc), NEW i, MultinameOk(abc, i)
    PROVE  GetMultiname(abc, i) \subseteq Text
<1> DEFINE names == abc.multinames
           leaf == [k \in DOMAIN names |-> MultinameEnds(abc, names[k])]
           ok(m) == /\ "name" \in DOMAIN m => StringOk(abc, m.name)
                    /\ "ns" \in DOMAIN m => NamespaceOk(abc, m.ns)
                    /\ "nsset" \in DOMAIN m => m.nsset <= Len(abc.namespaceSets)
           good == {k \in DOMAIN names : ok(names[k])}
<1>1. ASSUME NEW k \in good, names[k].kind # TypeName
      PROVE  leaf[k] \subseteq Text
  <2> DEFINE m == names[k]
  <2>1. IsMultiname(m) /\ k \in DOMAIN names
    BY DEF IsAbc, Range
  <2>2. leaf[k] = MultinameEnds(abc, m)
    BY <2>1
  <2>3. "name" \in DOMAIN m => GetString(abc, m.name) \subseteq Text
    BY StringReturns
  <2>4. "ns" \in DOMAIN m /\ m.ns \in Nat => GetNamespace(abc, m.ns) \subseteq Text
    BY NamespaceReturns
  <2>5. "nsset" \in DOMAIN m /\ m.nsset \in Nat => GetNamespaceSet(abc, m.nsset) \subseteq Text
    <3>1. Len(abc.namespaceSets) \in Nat
      BY SeqShape DEF IsAbc
    <3> QED
      BY <3>1 DEF GetNamespaceSet
  <2>6. m.kind # TypeName
    BY <1>1
  <2> HIDE DEF m, leaf, ok, good
  <2>7. CASE m.kind \in {7, 13}
    <3>1. GetString(abc, m.name) \subseteq Text /\ GetNamespace(abc, m.ns) \subseteq Text
      BY <2>1, <2>3, <2>4, <2>7 DEF IsMultiname
    <3> QED
      BY <2>2, <2>7, <3>1, TextIs DEF MultinameEnds
  <2>8. CASE m.kind \in {15, 16}
    <3>1. GetString(abc, m.name) \subseteq Text
      BY <2>1, <2>3, <2>8 DEF IsMultiname
    <3> QED
      BY <2>2, <2>8, <3>1 DEF MultinameEnds
  <2>9. CASE m.kind \in {17, 18}
    BY <2>2, <2>9 DEF MultinameEnds
  <2>10. CASE m.kind \in {9, 14}
    <3>1. GetString(abc, m.name) \subseteq Text /\ GetNamespaceSet(abc, m.nsset) \subseteq Text
      BY <2>1, <2>3, <2>5, <2>10 DEF IsMultiname
    <3> QED
      BY <2>2, <2>10, <3>1, TextIs DEF MultinameEnds
  <2>11. CASE m.kind \in {27, 28}
    <3>1. GetNamespaceSet(abc, m.nsset) \subseteq Text
      BY <2>1, <2>5, <2>11 DEF IsMultiname
    <3> QED
      BY <2>2, <2>11, <3>1 DEF MultinameEnds
  <2>12. m.kind \in {7, 9} \cup (13..18) \cup (27..29) /\ m.kind # 29
    BY <2>1, <2>6 DEF IsMultiname, TypeName
  <2> QED
    BY <2>7, <2>8, <2>9, <2>10, <2>11, <2>12
<1>2. NameOk(abc, i, good)
  BY DEF MultinameOk
<1>3. GetMultiname(abc, i) = Walk(abc, leaf, i)
  BY DEF GetMultiname
<1> HIDE DEF leaf, good
<1> QED
  BY <1>1, <1>2, <1>3, NameReturns

LEMMA OptionReturns ==
    ASSUME NEW abc, NEW o, OptionOk(abc, o)
    PROVE  GetMethodOptionHRF(abc, o) \subseteq Text
<1>1. CASE o.kind \in {0, 10, 11, 12}
  BY <1>1 DEF GetMethodOptionHRF
<1>2. CASE o.kind = 1
  BY <1>2, StringReturns DEF OptionOk, GetMethodOptionHRF, StringOk
<1>3. CASE o.kind \in {3, 4, 6}
  BY <1>3 DEF OptionOk, GetMethodOptionHRF, Index
<1> QED
  BY <1>1, <1>2, <1>3 DEF OptionOk

-----------------------------------------------------------------------------
(***************************************************************************)
(* The lines of an ABC file.                                               *)
(***************************************************************************)
LEMMA LineIs ==
    ASSUME NEW of, NEW default, NEW ways
    PROVE  /\ Printing(of, default, ways).of = of
           /\ Printing(of, default, ways).default = default
           /\ Plain(of, ways).of = of
           /\ Plain(of, ways).default = 0
BY DEF Printing, Plain

\* A line of a table.
LEMMA TableListed ==
    ASSUME NEW t, IsSeq(t), NEW s, DOMAIN s = DOMAIN t, s = [j \in DOMAIN s |-> s[j]],
           \A a, b \in DOMAIN t : s[a].of = s[b].of => a = b
    PROVE  Listed(s)
<1>1. Len(t) \in Nat /\ DOMAIN t = 1..Len(t)
  BY SeqShape
<1>2. IsSeq(s)
  BY <1>1, FunctionIsSeq
<1> QED
  BY <1>2 DEF Listed, Once

\* What a line of a method, and of an instance, is.
MethodLine(abc, i, r) ==
    LET m == abc.methods[i]
    IN  \/ r = Plain(<<"method", i>>, Unless0(m.name, GetString(abc, m.name)))
        \/ r = Plain(<<"return", i>>, GetMultinameHRF(abc, m.returnType))
        \/ \E j \in DOMAIN m.params : r = ParamLine(abc, m, i, j)

InstanceLine(abc, i, r) ==
    LET n == abc.instances[i]
    IN  \/ r = Plain(<<"name", i>>, Then(NameIsQName(abc, n.name), GetMultiname(abc, n.name)))
        \/ r = Plain(<<"super", i>>, GetMultiname(abc, n.super))
        \/ /\ HasBit(n.flags, 3)
           /\ r = Plain(<<"protected", i>>, GetNamespace(abc, n.protectedNS))
        \/ \E k \in DOMAIN n.interfaces :
             r = Plain(<<"interface", i, k>>, GetMultiname(abc, n.interfaces[k]))
        \/ \E k \in DOMAIN n.traits : r = TraitLine(abc, <<"trait", i, k>>, n.traits[k])

LEMMA MethodListed ==
    ASSUME NEW abc, IsAbc(abc), NEW i \in DOMAIN abc.methods
    PROVE  /\ Listed(MethodLines(abc, i))
           /\ Keys(MethodLines(abc, i)) = OfMethod(abc, i)
           /\ \A r \in Range(MethodLines(abc, i)) : MethodLine(abc, i, r)
<1> DEFINE m == abc.methods[i]
           name == Plain(<<"method", i>>, Unless0(m.name, GetString(abc, m.name)))
           params == [j \in DOMAIN m.params |-> ParamLine(abc, m, i, j)]
           return == Plain(<<"return", i>>, GetMultinameHRF(abc, m.returnType))
<1>1. IsSeq(m.params)
  BY DEF IsAbc, Range
<1>2. MethodLines(abc, i) = <<name>> \o params \o <<return>>
  BY DEF MethodLines
<1>3. name.of = <<"method", i>> /\ return.of = <<"return", i>>
  BY LineIs
<1> HIDE DEF name, return
<1>4. \A j \in DOMAIN m.params : params[j].of = <<"param", i, j>> /\ params[j].default = DefaultOf(m, j)
  <2> TAKE j \in DOMAIN m.params
  <2>1. params[j] = ParamLine(abc, m, i, j)
    OBVIOUS
  <2>2. ParamLine(abc, m, i, j).of = <<"param", i, j>> /\ ParamLine(abc, m, i, j).default = DefaultOf(m, j)
    BY LineIs DEF ParamLine
  <2> QED
    BY <2>1, <2>2
<1>5. /\ DOMAIN params = DOMAIN m.params
      /\ params = [j \in DOMAIN params |-> params[j]]
      /\ \A j \in DOMAIN params : params[j] = ParamLine(abc, m, i, j)
  OBVIOUS
<1> HIDE DEF params
<1>6. \A a, b \in DOMAIN m.params : params[a].of = params[b].of => a = b
  <2>1. \A a, b : <<"param", i, a>> = <<"param", i, b>> => a = b
    OBVIOUS
  <2> QED
    BY <1>4, <2>1
<1>7. Listed(params)
  BY <1>1, <1>4, <1>5, <1>6, TableListed
<1>8. Keys(params) = {<<"param", i, j>> : j \in DOMAIN m.params}
  BY <1>4, <1>5 DEF Keys
<1>9. /\ Listed(<<name>>) /\ Keys(<<name>>) = {<<"method", i>>} /\ Range(<<name>>) = {name}
      /\ Listed(<<return>>) /\ Keys(<<return>>) = {<<"return", i>>} /\ Range(<<return>>) = {return}
  BY <1>3, OneLine
<1>10. \A j : /\ <<"method", i>> # <<"return", i>>
              /\ <<"param", i, j>> # <<"method", i>>
              /\ <<"param", i, j>> # <<"return", i>>
  OBVIOUS
<1> DEFINE front == <<name>> \o params
<1>11. /\ Listed(front)
       /\ Keys(front) = {<<"method", i>>} \cup {<<"param", i, j>> : j \in DOMAIN m.params}
       /\ Range(front) = {name} \cup Range(params)
  <2>1. Keys(<<name>>) \cap Keys(params) = {}
    BY <1>8, <1>9, <1>10
  <2> QED
    BY <1>7, <1>8, <1>9, <2>1, Joined
<1> HIDE DEF front
<1>12. /\ Listed(front \o <<return>>)
       /\ Keys(front \o <<return>>) = Keys(front) \cup Keys(<<return>>)
       /\ Range(front \o <<return>>) = Range(front) \cup {return}
  <2>1. Keys(front) \cap Keys(<<return>>) = {}
    BY <1>9, <1>10, <1>11
  <2> QED
    BY <1>9, <1>11, <2>1, Joined
<1>13. MethodLines(abc, i) = front \o <<return>>
  BY <1>2 DEF front
<1>14. Keys(MethodLines(abc, i)) = OfMethod(abc, i)
  BY <1>9, <1>11, <1>12, <1>13 DEF OfMethod
<1>15. \A r \in Range(params) : \E j \in DOMAIN m.params : r = ParamLine(abc, m, i, j)
  BY <1>5 DEF Range
<1> HIDE DEF m
<1>16. \A r \in Range(MethodLines(abc, i)) : r = name \/ r = return \/ r \in Range(params)
  BY <1>11, <1>12, <1>13
<1>17. \A r \in Range(MethodLines(abc, i)) : MethodLine(abc, i, r)
  BY <1>15, <1>16 DEF MethodLine, m, name, return
<1> QED
  BY <1>12, <1>13, <1>14, <1>17

InstanceParts == {"name", "super", "protected", "interface", "trait"}

\* A line that may be missing.
LEMMA MaybeListed ==
    ASSUME NEW s, NEW x, s = <<x>> \/ s = <<>>
    PROVE  /\ Listed(s)
           /\ s = <<x>> => Keys(s) = {x.of}
           /\ s = <<>> => Keys(s) = {}
BY OneLine, NoLine

LEMMA InstanceListed ==
    ASSUME NEW abc, IsAbc(abc), NEW i \in DOMAIN abc.instances
    PROVE  /\ Listed(InstanceLines(abc, i))
           /\ Keys(InstanceLines(abc, i)) = OfInstance(abc, i)
           /\ \A k \in Keys(InstanceLines(abc, i)) : k[1] \in InstanceParts /\ k[2] = i
           /\ \A r \in Range(InstanceLines(abc, i)) : InstanceLine(abc, i, r)
<1> DEFINE n == abc.instances[i]
           first == Plain(<<"name", i>>, Then(NameIsQName(abc, n.name), GetMultiname(abc, n.name)))
           aSuper == Plain(<<"super", i>>, GetMultiname(abc, n.super))
           aNs == Plain(<<"protected", i>>, GetNamespace(abc, n.protectedNS))
           a == <<first>>
           b == IF n.super # 0 THEN <<aSuper>> ELSE <<>>
           c == IF HasBit(n.flags, 3) THEN <<aNs>> ELSE <<>>
           d == [k \in DOMAIN n.interfaces |->
                   Plain(<<"interface", i, k>>, GetMultiname(abc, n.interfaces[k]))]
           e == [k \in DOMAIN n.traits |-> TraitLine(abc, <<"trait", i, k>>, n.traits[k])]
<1>1. IsSeq(n.interfaces) /\ IsSeq(n.traits)
  BY DEF IsAbc, Range
<1>2. InstanceLines(abc, i) = a \o b \o c \o d \o e
  BY DEF InstanceLines
<1>3. /\ Listed(a) /\ Keys(a) = {<<"name", i>>}
      /\ Listed(b) /\ Keys(b) = IF n.super # 0 THEN {<<"super", i>>} ELSE {}
      /\ Listed(c) /\ Keys(c) = IF HasBit(n.flags, 3) THEN {<<"protected", i>>} ELSE {}
  <2>1. first.of = <<"name", i>> /\ aSuper.of = <<"super", i>> /\ aNs.of = <<"protected", i>>
    BY LineIs
  <2> HIDE DEF first, aSuper, aNs
  <2>2. Listed(a) /\ Keys(a) = {<<"name", i>>}
    BY <2>1, OneLine
  <2>3. Listed(b) /\ Keys(b) = IF n.super # 0 THEN {<<"super", i>>} ELSE {}
    <3>1. \/ n.super # 0 /\ b = <<aSuper>>
          \/ n.super = 0 /\ b = <<>>
      OBVIOUS
    <3> HIDE DEF b, n
    <3> QED
      BY <2>1, <3>1, MaybeListed
  <2>4. Listed(c) /\ Keys(c) = IF HasBit(n.flags, 3) THEN {<<"protected", i>>} ELSE {}
    <3>1. \/ HasBit(n.flags, 3) /\ c = <<aNs>>
          \/ ~HasBit(n.flags, 3) /\ c = <<>>
      OBVIOUS
    <3> HIDE DEF c, n
    <3> QED
      BY <2>1, <3>1, MaybeListed
  <2> QED
    BY <2>2, <2>3, <2>4
<1>4. Listed(d) /\ Keys(d) = {<<"interface", i, k>> : k \in DOMAIN n.interfaces}
  <2>1. \A k \in DOMAIN n.interfaces : d[k].of = <<"interface", i, k>>
    BY LineIs
  <2>2. DOMAIN d = DOMAIN n.interfaces /\ d = [k \in DOMAIN d |-> d[k]]
    OBVIOUS
  <2> HIDE DEF d
  <2>3. \A k, l \in DOMAIN n.interfaces : d[k].of = d[l].of => k = l
    <3>1. \A k, l : <<"interface", i, k>> = <<"interface", i, l>> => k = l
      OBVIOUS
    <3> QED
      BY <2>1, <3>1
  <2>4. Listed(d)
    BY <1>1, <2>1, <2>2, <2>3, TableListed
  <2> QED
    BY <2>1, <2>2, <2>4 DEF Keys
<1>5. Listed(e) /\ Keys(e) = {<<"trait", i, k>> : k \in DOMAIN n.traits}
  <2>1. \A k \in DOMAIN n.traits : e[k].of = <<"trait", i, k>>
    BY LineIs DEF TraitLine
  <2>2. DOMAIN e = DOMAIN n.traits /\ e = [k \in DOMAIN e |-> e[k]]
    OBVIOUS
  <2> HIDE DEF e
  <2>3. \A k, l \in DOMAIN n.traits : e[k].of = e[l].of => k = l
    <3>1. \A k, l : <<"trait", i, k>> = <<"trait", i, l>> => k = l
      OBVIOUS
    <3> QED
      BY <2>1, <3>1
  <2>4. Listed(e)
    BY <1>1, <2>1, <2>2, <2>3, TableListed
  <2> QED
    BY <2>1, <2>2, <2>4 DEF Keys
<1>0. \A r : r \in Range(a) \/ r \in Range(b) \/ r \in Range(c) \/ r \in Range(d) \/ r \in Range(e)
                => InstanceLine(abc, i, r)
  <2> TAKE r
  <2>1. CASE r \in Range(a)
    BY <2>1 DEF InstanceLine, Range
  <2>2. CASE r \in Range(b)
    <3>1. r = aSuper
      BY <2>2 DEF Range
    <3> QED
      BY <3>1 DEF InstanceLine
  <2>3. CASE r \in Range(c)
    <3>1. r = aNs /\ HasBit(n.flags, 3)
      BY <2>3 DEF Range
    <3> QED
      BY <3>1 DEF InstanceLine
  <2>4. CASE r \in Range(d)
    BY <2>4 DEF InstanceLine, Range
  <2>5. CASE r \in Range(e)
    BY <2>5 DEF InstanceLine, Range
  <2> QED
    BY <2>1, <2>2, <2>3, <2>4, <2>5
<1> HIDE DEF a, b, c, d, e
<1>6. /\ \A k \in Keys(a) : k[1] = "name" /\ k[2] = i
      /\ \A k \in Keys(b) : k[1] = "super" /\ k[2] = i
      /\ \A k \in Keys(c) : k[1] = "protected" /\ k[2] = i
      /\ \A k \in Keys(d) : k[1] = "interface" /\ k[2] = i
      /\ \A k \in Keys(e) : k[1] = "trait" /\ k[2] = i
  BY <1>3, <1>4, <1>5
<1> DEFINE ab == a \o b
           abc_ == ab \o c
           abcd == abc_ \o d
<1>7. Listed(ab) /\ Keys(ab) = Keys(a) \cup Keys(b) /\ Range(ab) = Range(a) \cup Range(b)
  BY <1>3, <1>6, Joined
<1> HIDE DEF ab
<1>8. /\ Listed(abc_)
      /\ Keys(abc_) = Keys(a) \cup Keys(b) \cup Keys(c)
      /\ Range(abc_) = Range(a) \cup Range(b) \cup Range(c)
  <2>1. Keys(ab) \cap Keys(c) = {}
    BY <1>6, <1>7
  <2> QED
    BY <1>3, <1>7, <2>1, Joined
<1> HIDE DEF abc_
<1>9. /\ Listed(abcd)
      /\ Keys(abcd) = Keys(a) \cup Keys(b) \cup Keys(c) \cup Keys(d)
      /\ Range(abcd) = Range(a) \cup Range(b) \cup Range(c) \cup Range(d)
  <2>1. Keys(abc_) \cap Keys(d) = {}
    BY <1>6, <1>8
  <2> QED
    BY <1>4, <1>8, <2>1, Joined
<1> HIDE DEF abcd
<1>10. /\ Listed(abcd \o e)
       /\ Keys(abcd \o e) = Keys(a) \cup Keys(b) \cup Keys(c) \cup Keys(d) \cup Keys(e)
       /\ Range(abcd \o e) = Range(a) \cup Range(b) \cup Range(c) \cup Range(d) \cup Range(e)
  <2>1. Keys(abcd) \cap Keys(e) = {}
    BY <1>6, <1>9
  <2> QED
    BY <1>5, <1>9, <2>1, Joined
<1>11. InstanceLines(abc, i) = abcd \o e
  BY <1>2 DEF abcd, abc_, ab
<1>12. OfInstance(abc, i) = Keys(abcd \o e)
  BY <1>3, <1>4, <1>5, <1>10 DEF OfInstance
<1>13. \A r \in Range(InstanceLines(abc, i)) : InstanceLine(abc, i, r)
  BY <1>0, <1>10, <1>11
<1> QED
  BY <1>6, <1>10, <1>11, <1>12, <1>13 DEF InstanceParts

LineKinds == {"method", "param", "return"} \cup InstanceParts

\* A line is about a member, and a parameter's has its default.
LineTrue(abc, of, default) ==
    /\ of[1] \in LineKinds
    /\ of[1] = "param" =>
         \E i \in DOMAIN abc.methods : \E j \in DOMAIN abc.methods[i].params :
           of = <<"param", i, j>> /\ default = DefaultOf(abc.methods[i], j)

\* And it can be printed, if the references in the file are right.
LineRight(abc, r) ==
    /\ LineTrue(abc, r.of, r.default)
    /\ Sound(abc, PrintableOk) => r.ends \subseteq Text

\* A line whose lookups all return is printed.
LEMMA PrintingReturns ==
    ASSUME NEW of, NEW default, NEW ways, \A w \in ways : w \subseteq Text
    PROVE  Printing(of, default, ways).ends \subseteq Text
BY DEF Printing

LEMMA PlainReturns ==
    ASSUME NEW of, NEW ends, ends \subseteq Text
    PROVE  Plain(of, ends).ends \subseteq Text
BY PrintingReturns DEF Plain

LEMMA MethodLineRight ==
    ASSUME NEW abc, IsAbc(abc), NEW i \in DOMAIN abc.methods, NEW r, MethodLine(abc, i, r)
    PROVE  LineRight(abc, r)
<1> DEFINE m == abc.methods[i]
<1>1. m \in Range(abc.methods) /\ IsSeq(m.params) /\ IsSeq(m.options)
  BY DEF IsAbc, Range
<1>2. LineTrue(abc, r.of, r.default)
  <2>1. CASE r.of = <<"method", i>> \/ r.of = <<"return", i>>
    BY <2>1 DEF LineTrue, LineKinds
  <2>2. ASSUME NEW j \in DOMAIN m.params, r = ParamLine(abc, m, i, j)
        PROVE  LineTrue(abc, r.of, r.default)
    <3>1. PICK ways : r = Printing(<<"param", i, j>>, DefaultOf(m, j), ways)
      BY <2>2 DEF ParamLine
    <3>2. r.of = <<"param", i, j>> /\ r.default = DefaultOf(m, j)
      BY <3>1, LineIs
    <3> QED
      BY <3>2 DEF LineTrue, LineKinds
  <2>3. CASE r = Plain(<<"method", i>>, Unless0(m.name, GetString(abc, m.name)))
    <3>1. r.of = <<"method", i>>
      BY <2>3, LineIs
    <3> QED
      BY <2>1, <3>1
  <2>4. CASE r = Plain(<<"return", i>>, GetMultinameHRF(abc, m.returnType))
    <3>1. r.of = <<"return", i>>
      BY <2>4, LineIs
    <3> QED
      BY <2>1, <3>1
  <2> QED
    BY <2>2, <2>3, <2>4 DEF MethodLine
<1>3. ASSUME Sound(abc, PrintableOk)
      PROVE  r.ends \subseteq Text
  <2>1. /\ StringOk(abc, m.name)
        /\ PrintableOk(abc, m.returnType)
        /\ \A p \in Range(m.params) : PrintableOk(abc, p.name) /\ PrintableOk(abc, p.type)
        /\ \A o \in Range(m.options) : OptionOk(abc, o)
    BY <1>1, <1>3 DEF Sound
  <2>2. CASE r = Plain(<<"method", i>>, Unless0(m.name, GetString(abc, m.name)))
    <3>1. Unless0(m.name, GetString(abc, m.name)) \subseteq Text
      BY <2>1, StringReturns DEF Unless0
    <3> QED
      BY <2>2, <3>1, PlainReturns
  <2>3. CASE r = Plain(<<"return", i>>, GetMultinameHRF(abc, m.returnType))
    BY <2>1, <2>3, PlainReturns, PrintableReturns
  <2>4. ASSUME NEW j \in DOMAIN m.params, r = ParamLine(abc, m, i, j)
        PROVE  r.ends \subseteq Text
    <3> DEFINE p == m.params[j]
               d == DefaultOf(m, j)
               a == Unless0(p.name, GetMultinameHRF(abc, p.name))
               b == GetMultinameHRF(abc, p.type)
               c == IF d = 0 THEN Text ELSE GetMethodOptionHRF(abc, m.options[d])
    <3>1. PrintableOk(abc, p.name) /\ PrintableOk(abc, p.type)
      BY <2>1 DEF Range
    <3>2. a \subseteq Text /\ b \subseteq Text
      BY <3>1, PrintableReturns DEF Unless0
    <3>3. d # 0 => d \in DOMAIN m.options
      <4>1. /\ Len(m.params) \in Nat /\ Len(m.options) \in Nat
            /\ j \in 1..Len(m.params) /\ DOMAIN m.options = 1..Len(m.options)
        BY <1>1, SeqShape
      <4>2. LET first == Len(m.params) - Len(m.options)
            IN  d = IF HasBit(m.flags, 3) /\ first >= 0 /\ j > first THEN j - first ELSE 0
        BY DEF DefaultOf
      <4>3. PICK x, y : x = Len(m.params) /\ y = Len(m.options)
        OBVIOUS
      <4> HIDE DEF m, d
      <4>4. d = 0 \/ (d = j - (x - y) /\ x - y >= 0 /\ j > x - y)
        BY <4>2, <4>3
      <4>5. x \in Nat /\ y \in Nat /\ j \in 1..x /\ DOMAIN m.options = 1..y
        BY <4>1, <4>3
      <4>6. ASSUME d # 0
            PROVE  d \in 1..y
        <5>1. d = j - (x - y) /\ x - y >= 0 /\ j > x - y
          BY <4>4, <4>6
        <5> QED
          BY <4>5, <5>1
      <4> QED
        BY <4>5, <4>6
    <3>4. c \subseteq Text
      BY <2>1, <3>3, OptionReturns DEF Range
    <3>5. r = Printing(<<"param", i, j>>, d, {a, b, c})
      BY <2>4 DEF ParamLine
    <3> HIDE DEF a, b, c, d
    <3> QED
      BY <3>2, <3>4, <3>5, PrintingReturns
  <2> QED
    BY <2>2, <2>3, <2>4 DEF MethodLine
<1> QED
  BY <1>2, <1>3 DEF LineRight

LEMMA InstanceLineRight ==
    ASSUME NEW abc, IsAbc(abc), NEW i \in DOMAIN abc.instances, NEW r, InstanceLine(abc, i, r)
    PROVE  LineRight(abc, r)
<1> DEFINE n == abc.instances[i]
<1>1. /\ n \in Range(abc.instances)
      /\ HasBit(n.flags, 3) => n.protectedNS \in Nat
      /\ \A t \in Range(n.traits) : t.kind % 16 \in 0..6
  BY DEF IsAbc, Range
<1>2. LineTrue(abc, r.of, r.default)
  <2>1. r.of[1] \in InstanceParts
    <3>1. \A of, ways : r = Plain(of, ways) => r.of = of
      BY LineIs
    <3>2. PICK of, ways : /\ r = Plain(of, ways)
                          /\ \/ of \in {<<"name", i>>, <<"super", i>>, <<"protected", i>>}
                             \/ \E k : of = <<"interface", i, k>>
                             \/ \E k : of = <<"trait", i, k>>
      BY DEF InstanceLine, TraitLine
    <3> QED
      BY <3>1, <3>2 DEF InstanceParts
  <2> QED
    BY <2>1 DEF LineTrue, LineKinds, InstanceParts
<1>3. ASSUME Sound(abc, PrintableOk)
      PROVE  r.ends \subseteq Text
  <2>1. /\ n.name \in DOMAIN abc.multinames /\ abc.multinames[n.name].kind = 7
        /\ \A x \in {n.name, n.super} \cup Range(n.interfaces) : MultinameOk(abc, x)
        /\ HasBit(n.flags, 3) => NamespaceOk(abc, n.protectedNS)
        /\ \A t \in Range(n.traits) : MultinameOk(abc, t.name)
    BY <1>1, <1>3 DEF Sound
  <2>2. CASE r = Plain(<<"name", i>>, Then(NameIsQName(abc, n.name), GetMultiname(abc, n.name)))
    <3>1. NameIsQName(abc, n.name) \subseteq Text
      <4>1. Len(abc.multinames) \in Nat /\ DOMAIN abc.multinames = 1..Len(abc.multinames)
        BY SeqShape DEF IsAbc
      <4>2. ~ (n.name > Len(abc.multinames)) /\ n.name # 0
        BY <2>1, <4>1
      <4> QED
        BY <2>1, <4>2 DEF NameIsQName
    <3>2. GetMultiname(abc, n.name) \subseteq Text
      BY <2>1, MultinameReturns
    <3> QED
      BY <2>2, <3>1, <3>2, PlainReturns, TextIs
  <2>3. CASE r = Plain(<<"super", i>>, GetMultiname(abc, n.super))
    BY <2>1, <2>3, PlainReturns, MultinameReturns
  <2>4. CASE /\ HasBit(n.flags, 3)
             /\ r = Plain(<<"protected", i>>, GetNamespace(abc, n.protectedNS))
    BY <1>1, <2>1, <2>4, PlainReturns, NamespaceReturns
  <2>5. ASSUME NEW k \in DOMAIN n.interfaces,
               r = Plain(<<"interface", i, k>>, GetMultiname(abc, n.interfaces[k]))
        PROVE  r.ends \subseteq Text
    <3>1. n.interfaces[k] \in Range(n.interfaces)
      BY DEF Range
    <3> QED
      BY <2>1, <2>5, <3>1, PlainReturns, MultinameReturns
  <2>6. ASSUME NEW k \in DOMAIN n.traits, r = TraitLine(abc, <<"trait", i, k>>, n.traits[k])
        PROVE  r.ends \subseteq Text
    <3> DEFINE t == n.traits[k]
               way == IF t.kind % 16 <= 6 THEN Text ELSE Throw
    <3>1. t \in Range(n.traits)
      BY DEF Range
    <3>2. GetMultiname(abc, t.name) \subseteq Text
      BY <2>1, <3>1, MultinameReturns
    <3>3. way \subseteq Text
      BY <1>1, <3>1
    <3>4. Then(GetMultiname(abc, t.name), way) \subseteq Text
      BY <3>2, <3>3, TextIs
    <3> QED
      BY <2>6, <3>4, PlainReturns DEF TraitLine
  <2> QED
    BY <2>2, <2>3, <2>4, <2>5, <2>6 DEF InstanceLine
<1> QED
  BY <1>2, <1>3 DEF LineRight

LEMMA MethodsListed ==
    ASSUME NEW abc, IsAbc(abc),
           NEW ss, ss = [i \in DOMAIN abc.methods |-> MethodLines(abc, i)]
    PROVE  /\ Listed(FlattenSeq(ss))
           /\ \A k : k \in Keys(FlattenSeq(ss)) <=>
                       \E i \in DOMAIN abc.methods : k \in OfMethod(abc, i)
           /\ \A r \in Range(FlattenSeq(ss)) : LineRight(abc, r)
<1>1. IsSeq(abc.methods)
  BY DEF IsAbc
<1>2. DOMAIN ss = DOMAIN abc.methods /\ \A i \in DOMAIN ss : ss[i] = MethodLines(abc, i)
  OBVIOUS
<1>3. IsSeq(ss)
  BY <1>1, <1>2, SeqShape, FunctionIsSeq
<1>4. \A i \in DOMAIN ss : Listed(ss[i]) /\ Keys(ss[i]) = OfMethod(abc, i)
  BY <1>2, MethodListed
<1>5. \A i, k : k \in OfMethod(abc, i) => k[2] = i
  BY DEF OfMethod
<1>6. \A i, j \in DOMAIN ss : i # j => Keys(ss[i]) \cap Keys(ss[j]) = {}
  BY <1>4, <1>5
<1>7. /\ Listed(FlattenSeq(ss))
      /\ Keys(FlattenSeq(ss)) = UNION {Keys(ss[i]) : i \in DOMAIN ss}
      /\ Range(FlattenSeq(ss)) = UNION {Range(ss[i]) : i \in DOMAIN ss}
  BY <1>3, <1>4, <1>6, Flattened
<1>8. ASSUME NEW i \in DOMAIN ss, NEW r \in Range(ss[i])
      PROVE  LineRight(abc, r)
  <2>1. r \in Range(MethodLines(abc, i)) /\ i \in DOMAIN abc.methods
    BY <1>2, <1>8
  <2> QED
    BY <2>1, MethodListed, MethodLineRight
<1> QED
  BY <1>2, <1>4, <1>7, <1>8

LEMMA InstancesListed ==
    ASSUME NEW abc, IsAbc(abc),
           NEW ss, ss = [i \in DOMAIN abc.instances |-> InstanceLines(abc, i)]
    PROVE  /\ Listed(FlattenSeq(ss))
           /\ \A k : k \in Keys(FlattenSeq(ss)) <=>
                       \E i \in DOMAIN abc.instances : k \in OfInstance(abc, i)
           /\ \A k \in Keys(FlattenSeq(ss)) : k[1] \in InstanceParts
           /\ \A r \in Range(FlattenSeq(ss)) : LineRight(abc, r)
<1>1. IsSeq(abc.instances)
  BY DEF IsAbc
<1>2. DOMAIN ss = DOMAIN abc.instances /\ \A i \in DOMAIN ss : ss[i] = InstanceLines(abc, i)
  OBVIOUS
<1>3. IsSeq(ss)
  BY <1>1, <1>2, SeqShape, FunctionIsSeq
<1>4. \A i \in DOMAIN ss :
        /\ Listed(ss[i])
        /\ Keys(ss[i]) = OfInstance(abc, i)
        /\ \A k \in Keys(ss[i]) : k[1] \in InstanceParts /\ k[2] = i
  BY <1>2, InstanceListed
<1>5. \A i, j \in DOMAIN ss : i # j => Keys(ss[i]) \cap Keys(ss[j]) = {}
  BY <1>4
<1>6. /\ Listed(FlattenSeq(ss))
      /\ Keys(FlattenSeq(ss)) = UNION {Keys(ss[i]) : i \in DOMAIN ss}
      /\ Range(FlattenSeq(ss)) = UNION {Range(ss[i]) : i \in DOMAIN ss}
  BY <1>3, <1>4, <1>5, Flattened
<1>7. ASSUME NEW k \in Keys(FlattenSeq(ss))
      PROVE  k[1] \in InstanceParts
  <2>1. PICK i \in DOMAIN ss : k \in Keys(ss[i])
    BY <1>6
  <2> QED
    BY <1>4, <2>1
<1>8. ASSUME NEW i \in DOMAIN ss, NEW r \in Range(ss[i])
      PROVE  LineRight(abc, r)
  <2>1. r \in Range(InstanceLines(abc, i)) /\ i \in DOMAIN abc.instances
    BY <1>2, <1>8
  <2> QED
    BY <2>1, InstanceListed, InstanceLineRight
<1>9. \A k : k \in Keys(FlattenSeq(ss)) <=> \E i \in DOMAIN abc.instances : k \in OfInstance(abc, i)
  <2>1. \A k : k \in Keys(FlattenSeq(ss)) <=> \E i \in DOMAIN ss : k \in Keys(ss[i])
    BY <1>6, Zenon
  <2>2. \A i \in DOMAIN ss : Keys(ss[i]) = OfInstance(abc, i)
    BY <1>4
  <2> QED
    BY ONLY <1>2, <2>1, <2>2, Zenon
<1>10. \A r \in Range(FlattenSeq(ss)) : LineRight(abc, r)
  BY <1>6, <1>8
<1> QED
  BY <1>6, <1>7, <1>9, <1>10

\* The lines of a file are all about something else, there is one for every
\* member that is to be shown, and no other, and each is true.
LEMMA LinesListed ==
    ASSUME NEW abc, IsAbc(abc)
    PROVE  /\ Listed(Lines(abc))
           /\ Keys(Lines(abc)) = Expected(abc)
           /\ \A r \in Range(Lines(abc)) : LineRight(abc, r)
<1> DEFINE ms == [i \in DOMAIN abc.methods |-> MethodLines(abc, i)]
           is == [i \in DOMAIN abc.instances |-> InstanceLines(abc, i)]
           mLines == FlattenSeq(ms)
           iLines == FlattenSeq(is)
<1>1. /\ Listed(mLines)
      /\ \A k : k \in Keys(mLines) <=> \E i \in DOMAIN abc.methods : k \in OfMethod(abc, i)
      /\ \A r \in Range(mLines) : LineRight(abc, r)
  BY MethodsListed, Zenon
<1>2. /\ Listed(iLines)
      /\ \A k : k \in Keys(iLines) <=> \E i \in DOMAIN abc.instances : k \in OfInstance(abc, i)
      /\ \A k \in Keys(iLines) : k[1] \in InstanceParts
      /\ \A r \in Range(iLines) : LineRight(abc, r)
  BY InstancesListed, Zenon
<1>3. Lines(abc) = mLines \o iLines
  BY DEF Lines
<1> HIDE DEF mLines, iLines
<1>4. \A k \in Keys(mLines) : k[1] \in {"method", "param", "return"}
  BY <1>1 DEF OfMethod
<1>5. Keys(mLines) \cap Keys(iLines) = {}
  BY <1>2, <1>4 DEF InstanceParts
<1>6. /\ Listed(mLines \o iLines)
      /\ Keys(mLines \o iLines) = Keys(mLines) \cup Keys(iLines)
      /\ Range(mLines \o iLines) = Range(mLines) \cup Range(iLines)
  BY <1>1, <1>2, <1>5, Joined
<1>7. Keys(mLines) \cup Keys(iLines) = Expected(abc)
  <2>1. \A k : k \in Keys(mLines) <=> k \in UNION {OfMethod(abc, i) : i \in DOMAIN abc.methods}
    BY <1>1, Zenon
  <2>2. \A k : k \in Keys(iLines) <=> k \in UNION {OfInstance(abc, i) : i \in DOMAIN abc.instances}
    BY <1>2, Zenon
  <2> QED
    BY <2>1, <2>2 DEF Expected
<1> QED
  BY <1>1, <1>2, <1>3, <1>6, <1>7

-----------------------------------------------------------------------------
(***************************************************************************)
(* What has been printed.                                                  *)
(***************************************************************************)
Abc(list, t) == Parsed(AbcData(list[t].content))

\* What was printed of a tag.
LinesOf(log, t) == {log[a].of : a \in {b \in DOMAIN log : log[b].tag = t}}

\* Tags up to the last one, in their order, and nothing twice.
InOrder(log, last) ==
    /\ IsSeq(log)
    /\ \A a \in DOMAIN log : log[a].tag \in 1..last
    /\ \A a, b \in DOMAIN log : a < b =>
         /\ log[a].tag <= log[b].tag
         /\ log[a].tag = log[b].tag => log[a].of # log[b].of

\* The attributes, as the fields of the format have them.
AttributesTrue(content, attributes) ==
    LET bits == StreamBits(content[1])
    IN  content # <<>> =>
          /\ attributes = [useDirectBlit |-> bits[2], useGPU |-> bits[3],
                           hasMetadata |-> bits[4], actionScript3 |-> bits[5],
                           useNetwork |-> bits[8]]
          /\ ReservedIsZero(content)

\* What is printed is what the tag says.
EntryTrue(list, s) ==
    LET t == list[s.tag]
    IN  \/ t.type = 69 /\ s.of = <<"attributes">> /\ AttributesTrue(t.content, s.attributes)
        \/ /\ t.type = 82
           /\ Readable(AbcData(t.content))
           /\ LineTrue(Abc(list, s.tag), s.of, s.default)
        \/ t.type \notin {69, 82} /\ s.of = <<"tag", t.type>>

\* All that a tag has to show has been shown.
Complete(list, log, t) ==
    /\ list[t].type = 69 =>
         /\ LinesOf(log, t) \subseteq {<<"attributes">>}
         /\ Len(list[t].content) >= 3 /\ ReservedIsZero(list[t].content) => LinesOf(log, t) # {}
    /\ list[t].type = 82 => LinesOf(log, t) = Expected(Abc(list, t))
    /\ list[t].type \notin {69, 82} => LinesOf(log, t) = {<<"tag", list[t].type>>}

Extended(more, log, e) ==
    /\ InOrder(more, e.tag)
    /\ LinesOf(more, e.tag) = LinesOf(log, e.tag) \cup {e.of}
    /\ \A u : u # e.tag => LinesOf(more, u) = LinesOf(log, u)
    /\ \A a \in DOMAIN more : more[a] = e \/ \E b \in DOMAIN log : more[a] = log[b]

\* One more line, about something else.
LEMMA OneMore ==
    ASSUME NEW log, NEW e, e.tag \in Nat \ {0}, InOrder(log, e.tag),
           e.of \notin LinesOf(log, e.tag),
           NEW more, more = Append(log, e)
    PROVE  Extended(more, log, e)
<1>0. PICK t : t = e.tag
  OBVIOUS
<1> DEFINE S == Range(log) \cup {e}
           n == Len(log)
<1>1. log \in Seq(S) /\ e \in S
  BY SeqMonotonic DEF InOrder, IsSeq
<1> HIDE DEF S
<1>2. n \in Nat /\ DOMAIN log = 1..n
  BY <1>1, LenProperties
<1>3. /\ more \in Seq(S)
      /\ Len(more) = n + 1
      /\ \A i \in 1..n : more[i] = log[i]
      /\ more[n + 1] = e
  BY <1>1, AppendProperties
<1>4. DOMAIN more = 1..(n + 1)
  BY <1>3, LenProperties
<1> HIDE DEF n
<1>5. \A a \in DOMAIN log : a \in DOMAIN more /\ more[a] = log[a] /\ a < n + 1
  <2> TAKE a \in DOMAIN log
  <2>1. a \in 1..n /\ a \in 1..(n + 1) /\ a < n + 1
    BY <1>2
  <2> QED
    BY <1>3, <1>4, <2>1
<1>6. \A a \in DOMAIN more : \/ a \in DOMAIN log /\ more[a] = log[a]
                             \/ a = n + 1 /\ more[a] = e
  <2> TAKE a \in DOMAIN more
  <2>1. a \in 1..n \/ a = n + 1
    BY <1>2, <1>4
  <2>2. CASE a \in 1..n
    <3>1. a \in DOMAIN log
      BY <1>2, <2>2
    <3> QED
      BY <1>5, <3>1
  <2>3. CASE a = n + 1
    BY <1>3, <2>3
  <2> QED
    BY <2>1, <2>2, <2>3
<1>7. n + 1 \in DOMAIN more
  BY <1>2, <1>4
<1>8. IsSeq(more)
  BY <1>3, SeqOfRange DEF IsSeq
<1>9. \A a \in DOMAIN more : more[a].tag \in 1..t
  BY <1>0, <1>6 DEF InOrder
<1>10. ASSUME NEW a \in DOMAIN more, NEW b \in DOMAIN more, a < b
       PROVE  /\ more[a].tag <= more[b].tag
              /\ more[a].tag = more[b].tag => more[a].of # more[b].of
  <2>1. a \in DOMAIN log /\ more[a] = log[a]
    <3>1. a # n + 1
      BY <1>2, <1>4, <1>10
    <3> QED
      BY <1>6, <3>1
  <2>2. CASE b \in DOMAIN log /\ more[b] = log[b]
    BY <1>10, <2>1, <2>2 DEF InOrder
  <2>3. CASE more[b] = e
    <3>1. log[a].tag \in 1..t
      BY <1>0, <2>1 DEF InOrder
    <3>2. log[a].tag = t => log[a].of # e.of
      BY <1>0, <2>1 DEF LinesOf
    <3> QED
      BY <1>0, <2>1, <2>3, <3>1, <3>2
  <2> QED
    BY <1>6, <2>2, <2>3
<1>11. \A x : x \in LinesOf(more, t) <=> x \in LinesOf(log, t) \/ x = e.of
  BY <1>0, <1>3, <1>5, <1>6, <1>7 DEF LinesOf
<1>12. ASSUME NEW u, u # t
       PROVE  LinesOf(more, u) = LinesOf(log, u)
  BY <1>0, <1>5, <1>6, <1>12 DEF LinesOf
<1> QED
  BY <1>0, <1>6, <1>8, <1>9, <1>10, <1>11, <1>12 DEF InOrder, Extended

\* Nothing has been printed of the tags to come.
LEMMA NothingAhead ==
    ASSUME NEW log, NEW last \in Int, InOrder(log, last), NEW t \in Nat, last < t
    PROVE  LinesOf(log, t) = {} /\ InOrder(log, t)
BY DEF LinesOf, InOrder

-----------------------------------------------------------------------------
(***************************************************************************)
(* The contents of tags.                                                   *)
(***************************************************************************)
LEMMA BitType ==
    ASSUME NEW byte \in 0..255, NEW k \in Nat
    PROVE  Bit(byte, k) \in {0, 1}
<1>1. 2^k \in Nat
  BY PowerType
<1>2. \A p \in Nat : (byte \div p) % 2 \in {0, 1}
  OBVIOUS
<1> QED
  BY <1>1, <1>2 DEF Bit

\* The bits of a byte, numbered by the format.
LEMMA BitsAre ==
    ASSUME NEW byte, NEW bits, bits = StreamBits(byte)
    PROVE  /\ bits[1] = Bit(byte, 7) /\ bits[2] = Bit(byte, 6) /\ bits[3] = Bit(byte, 5)
           /\ bits[4] = Bit(byte, 4) /\ bits[5] = Bit(byte, 3) /\ bits[6] = Bit(byte, 2)
           /\ bits[7] = Bit(byte, 1) /\ bits[8] = Bit(byte, 0)
<1>1. \A k \in 1..8 : bits[k] = Bit(byte, 8 - k)
  BY DEF StreamBits
<1>2. 8 - 1 = 7 /\ 8 - 2 = 6 /\ 8 - 3 = 5 /\ 8 - 4 = 4 /\ 8 - 5 = 3 /\ 8 - 6 = 2 /\ 8 - 7 = 1 /\ 8 - 8 = 0
  OBVIOUS
<1> QED
  BY <1>1, <1>2

\* A content of three bytes, and the 0 behind them, is not refused for what is
\* not there.
LEMMA AttributesAccepted ==
    ASSUME NEW content \in Seq(0..255), Len(content) >= 3, ReservedIsZero(content),
           NEW b0 \in ContentByte(content, 0), NEW b1 \in ContentByte(content, 1),
           NEW b2 \in ContentByte(content, 2), NEW b3 \in ContentByte(content, 3)
    PROVE  ~ (Reserved(b0) \/ b1 # 0 \/ b2 # 0 \/ b3 # 0)
<1>1. Len(content) \in Nat /\ DOMAIN content = 1..Len(content)
  BY LenProperties
<1>2. b0 = content[1] /\ b0 \in 0..255
  <2>1. 0 < Len(content) /\ 0 + 1 = 1 /\ 1 \in 1..Len(content)
    BY <1>1
  <2>2. b0 = content[1]
    BY <2>1 DEF ContentByte
  <2> QED
    BY <2>1, <2>2, ElementOfSeq
<1>3. \A i \in 2..4 : i \in DOMAIN content => content[i] = 0
  BY DEF ReservedIsZero
<1>4. b1 = 0 /\ b2 = 0
  <2>1. 1 < Len(content) /\ 1 + 1 = 2 /\ 2 \in DOMAIN content /\ 2 < Len(content) /\ 2 + 1 = 3
        /\ 3 \in DOMAIN content
    BY <1>1
  <2>2. b1 = content[2] /\ b2 = content[3]
    BY <2>1 DEF ContentByte
  <2> QED
    BY <1>3, <2>1, <2>2
<1>5. b3 = 0
  <2>1. CASE 3 < Len(content)
    <3>1. 3 + 1 = 4 /\ 4 \in DOMAIN content
      BY <1>1, <2>1
    <3>2. b3 = content[4]
      BY <2>1, <3>1 DEF ContentByte
    <3> QED
      BY <1>3, <3>1, <3>2
  <2>2. CASE ~(3 < Len(content))
    <3>1. 3 = Len(content)
      BY <1>1, <2>2
    <3> QED
      BY <2>2, <3>1 DEF ContentByte
  <2> QED
    BY <2>1, <2>2
<1>6. Bit(b0, 7) + Bit(b0, 2) + Bit(b0, 1) = 0
  BY <1>2, BitsAre DEF ReservedIsZero
<1>7. Bit(b0, 7) \in {0, 1} /\ Bit(b0, 2) \in {0, 1} /\ Bit(b0, 1) \in {0, 1}
  BY <1>2, BitType
<1>8. ~Reserved(b0)
  BY <1>6, <1>7 DEF Reserved, HasBit
<1> QED
  BY <1>4, <1>5, <1>8

\* SWFTagFileAttributes::set.
LEMMA AttributesRead ==
    ASSUME NEW content \in Seq(0..255),
           NEW b0 \in ContentByte(content, 0), NEW b1 \in ContentByte(content, 1),
           NEW b2 \in ContentByte(content, 2), NEW b3 \in ContentByte(content, 3),
           ~ (Reserved(b0) \/ b1 # 0 \/ b2 # 0 \/ b3 # 0)
    PROVE  AttributesTrue(content, Attributes(b0))
<1> SUFFICES ASSUME content # <<>>
             PROVE  AttributesTrue(content, Attributes(b0))
  BY DEF AttributesTrue
<1>1. Len(content) \in Nat \ {0} /\ DOMAIN content = 1..Len(content)
  BY LenProperties, EmptySeq
<1>2. b0 = content[1] /\ b0 \in 0..255
  <2>1. 0 < Len(content) /\ 0 + 1 = 1 /\ 1 \in 1..Len(content)
    BY <1>1
  <2>2. b0 = content[1]
    BY <2>1 DEF ContentByte
  <2> QED
    BY <2>1, <2>2, ElementOfSeq
<1>3. \A i \in 2..4 : i \in DOMAIN content => content[i] = 0
  BY <1>1 DEF ContentByte
<1>4. Bit(b0, 7) = 0 /\ Bit(b0, 2) = 0 /\ Bit(b0, 1) = 0
  BY <1>2, BitType DEF Reserved, HasBit
<1> DEFINE bits == StreamBits(b0)
<1>5. /\ bits[1] = Bit(b0, 7) /\ bits[2] = Bit(b0, 6) /\ bits[3] = Bit(b0, 5)
      /\ bits[4] = Bit(b0, 4) /\ bits[5] = Bit(b0, 3) /\ bits[6] = Bit(b0, 2)
      /\ bits[7] = Bit(b0, 1) /\ bits[8] = Bit(b0, 0)
  BY BitsAre
<1> HIDE DEF bits
<1>6. Attributes(b0) = [useDirectBlit |-> bits[2], useGPU |-> bits[3],
                        hasMetadata |-> bits[4], actionScript3 |-> bits[5],
                        useNetwork |-> bits[8]]
  BY <1>5 DEF Attributes
<1>7. bits[1] + bits[6] + bits[7] = 0
  BY <1>4, <1>5
<1>8. bits = StreamBits(content[1])
  BY <1>2 DEF bits
<1> QED
  BY <1>3, <1>6, <1>7, <1>8 DEF AttributesTrue, ReservedIsZero

\* find_first_of: what is cut off ends with the first 0 behind the flags.
LEMMA DataFound ==
    ASSUME NEW content \in Seq(0..255)
    PROVE  LET data == AbcData(content)
               head == SubSeq(content, 1, Len(content) - Len(data))
               name == SubSeq(head, 5, Len(head) - 1)
           IN  /\ content = head \o data
               /\ IF head = <<>> THEN \A i \in 5..Len(content) : content[i] # 0
                  ELSE Len(head) > 4 /\ Last(head) = 0 /\ 0 \notin Range(name)
<1> DEFINE n == Len(content)
           zeros == {i \in DOMAIN content : i > 4 /\ content[i] = 0}
           first == IF zeros = {} THEN 0 ELSE Min(zeros)
           data == AbcData(content)
           head == SubSeq(content, 1, n - Len(data))
           name == SubSeq(head, 5, Len(head) - 1)
<1>1. n \in Nat /\ DOMAIN content = 1..n
  BY LenProperties
<1>2. /\ first \in 0..n
      /\ first = 0 => \A i \in 5..n : content[i] # 0
      /\ first # 0 => first > 4 /\ content[first] = 0 /\ \A i \in 5..(first - 1) : content[i] # 0
  <2>1. CASE zeros = {}
    BY <1>1, <2>1
  <2>2. CASE zeros # {}
    <3>1. zeros \subseteq Nat
      BY <1>1
    <3> HIDE DEF zeros
    <3>2. \E x \in zeros : \A y \in zeros : x <= y
      BY <2>2, <3>1, NatMinimum
    <3>3. first \in zeros /\ \A y \in zeros : first <= y
      BY <2>2, <3>2 DEF Min
    <3> HIDE DEF first
    <3>4. first \in 1..n /\ first > 4 /\ content[first] = 0
      BY <1>1, <3>3 DEF zeros
    <3>5. \A i \in 5..(first - 1) : content[i] # 0
      <4> SUFFICES ASSUME NEW i \in 5..(first - 1), content[i] = 0
                   PROVE  FALSE
        OBVIOUS
      <4>1. i \in zeros
        BY <1>1, <3>4 DEF zeros
      <4> QED
        BY <3>3, <3>4, <4>1
    <3> QED
      BY <3>4, <3>5
  <2> QED
    BY <2>1, <2>2
<1>3. data = SubSeq(content, 1 + first, n)
  BY Zenon DEF AbcData
<1> HIDE DEF first, data
<1>4. Len(data) = n - first
  <2>0. first \in Nat /\ first <= n /\ 1..n = DOMAIN content
    BY <1>1, <1>2
  <2>1. ASSUME NEW i \in (1 + first)..n
        PROVE  content[i] \in 0..255
    <3>1. i \in 1..Len(content)
      BY <1>1, <2>0
    <3> QED
      BY <3>1, ElementOfSeq
  <2>2. 1 + first \in Int /\ n \in Int
    BY <1>1, <2>0
  <2>3. Len(data) = IF 1 + first <= n THEN n - (1 + first) + 1 ELSE 0
    BY <1>3, <2>1, <2>2, SubSeqProperties
  <2> HIDE DEF n
  <2> QED
    BY <1>1, <2>0, <2>3
<1>5. n - Len(data) = first
  BY <1>1, <1>2, <1>4
<1>6. head = SubSeq(content, 1, first)
  BY <1>5
<1>7. content = head \o data
  <2>1. /\ 1 \in 1..(Len(content) + 1)
        /\ first \in (1 - 1)..Len(content)
        /\ Len(content) \in first..Len(content)
    BY <1>1, <1>2
  <2>2. SubSeq(content, 1, first) \o SubSeq(content, first + 1, Len(content)) = SubSeq(content, 1, Len(content))
    BY <2>1, ConcatAdjacentSubSeq
  <2>3. SubSeq(content, 1, Len(content)) = content
    BY SubSeqFull
  <2>4. first + 1 = 1 + first
    BY <1>2
  <2> QED
    BY <1>3, <1>6, <2>2, <2>3, <2>4
<1>8. /\ head \in Seq(0..255)
      /\ Len(head) = first
      /\ \A i \in 1..first : head[i] = content[i]
  <2>1. \A i \in 1..first : content[i] \in 0..255
    BY <1>1, <1>2, ElementOfSeq
  <2>2. 1 \in Int /\ first \in Int
    BY <1>1, <1>2
  <2>3. /\ head \in Seq(0..255)
        /\ Len(head) = IF 1 <= first THEN first - 1 + 1 ELSE 0
        /\ \A i \in 1..(first - 1 + 1) : head[i] = content[1 + i - 1]
    BY <1>6, <2>1, <2>2, SubSeqProperties
  <2>4. first - 1 + 1 = first /\ \A i \in 1..first : 1 + i - 1 = i
    BY <1>1, <1>2
  <2>5. Len(head) = first
    BY <1>2, <2>3, <2>4
  <2> QED
    BY <2>3, <2>4, <2>5
<1> HIDE DEF head
<1>9. CASE first = 0
  <2>1. head = <<>>
    BY <1>8, <1>9, EmptySeq
  <2> QED
    BY <1>2, <1>7, <1>9, <2>1 DEF head, data
<1>10. CASE first # 0
  <2>1. head # <<>> /\ Len(head) > 4
    BY <1>1, <1>2, <1>8, <1>10, EmptySeq
  <2>2. Last(head) = 0
    <3>1. first \in 1..first /\ content[first] = 0
      BY <1>1, <1>2, <1>10
    <3>2. head[first] = 0
      BY <1>8, <3>1
    <3> QED
      BY <1>8, <3>2 DEF Last
  <2>3. \A i \in 5..(first - 1) : head[i] \in 0..255 /\ head[i] # 0
    <3> TAKE i \in 5..(first - 1)
    <3>1. i \in 1..first
      BY <1>1, <1>2
    <3>2. head[i] = content[i] /\ content[i] # 0
      BY <1>2, <1>8, <1>10, <3>1
    <3>3. i \in 1..Len(head)
      BY <1>8, <3>1
    <3>4. head[i] \in 0..255
      BY <1>8, <3>3, ElementOfSeq
    <3> QED
      BY <3>2, <3>4
  <2>4. 5 \in Int /\ first - 1 \in Int /\ Len(head) - 1 = first - 1
    BY <1>1, <1>2, <1>8
  <2>0. name = SubSeq(head, 5, first - 1)
    BY <2>4
  <2> HIDE DEF name
  <2>5. /\ name \in Seq(0..255)
        /\ Len(name) = IF 5 <= first - 1 THEN first - 1 - 5 + 1 ELSE 0
        /\ \A i \in 1..(first - 1 - 5 + 1) : name[i] = head[5 + i - 1]
    <3>1. \A i \in 5..(first - 1) : head[i] \in 0..255
      BY <2>3
    <3>2. 5 \in Int /\ first - 1 \in Int
      BY <2>4
    <3> QED
      BY <2>0, <3>1, <3>2, SubSeqProperties
  <2>6. \A i \in DOMAIN name : name[i] # 0
    <3> TAKE i \in DOMAIN name
    <3>1. i \in 1..Len(name)
      BY <2>5, LenProperties
    <3>2. i \in 1..(first - 1 - 5 + 1) /\ 5 + i - 1 \in 5..(first - 1)
      BY <1>1, <1>2, <2>5, <3>1
    <3> QED
      BY <2>3, <2>5, <3>2
  <2>7. 0 \notin Range(name)
    BY <2>6 DEF Range
  <2> QED
    BY <1>7, <2>1, <2>2, <2>7 DEF name, head, data
<1> QED
  BY <1>9, <1>10

-----------------------------------------------------------------------------
(***************************************************************************)
(* The inductive invariant.                                                *)
(***************************************************************************)
TagType == [type : 0..255, content : Seq(0..255)]

Control ==
    /\ tags \in TagLists
    /\ tag \in 1..(Len(tags) + 1)
    /\ pc \in {"tag", "dump", "died", "done"}
    /\ pc \in {"dump", "died"} =>
         tag <= Len(tags) /\ tags[tag].type = 82 /\ given = AbcData(tags[tag].content)
    /\ pc = "dump" => Readable(given)
    /\ pc = "tag" => todo = <<>>
    /\ pc = "died" => IF Readable(given) THEN ~Sound(Parsed(given), PrintableOk) ELSE todo = <<>>
    /\ pc = "done" => tag = Len(tags) + 1

\* Between tags nothing has been printed of the one to come.
Reached == IF pc \in {"dump", "died"} THEN tag ELSE tag - 1

Printed ==
    /\ InOrder(shown, Reached)
    /\ \A a \in DOMAIN shown : EntryTrue(tags, shown[a])
    /\ \A t \in 1..(tag - 1) : Complete(tags, shown, t)

\* What is still to be printed of a file, with what has been, is all of it.
Remaining ==
    pc = "dump" =>
      /\ Listed(todo)
      /\ LinesOf(shown, tag) \cap Keys(todo) = {}
      /\ Expected(Abc(tags, tag)) = LinesOf(shown, tag) \cup Keys(todo)
      /\ \A r \in Range(todo) : LineRight(Abc(tags, tag), r)

MInv == Control /\ Printed /\ Remaining

\* The tags before this one, and those of other numbers, are as they were.
LEMMA CompleteStays ==
    ASSUME NEW list, NEW log, NEW more, NEW t, LinesOf(more, t) = LinesOf(log, t),
           Complete(list, log, t)
    PROVE  Complete(list, more, t)
BY DEF Complete

LEMMA TagIs ==
    ASSUME Control, tag <= Len(tags)
    PROVE  /\ Len(tags) \in Nat
           /\ tag \in Nat \ {0}
           /\ tags[tag] \in TagType
           /\ tags[tag] \in Range(tags)
           /\ tags[tag].content \in Seq(0..255)
<1>1. tags \in Seq(TagType)
  BY TagListsAssumption DEF Control, TagType
<1>2. Len(tags) \in Nat /\ DOMAIN tags = 1..Len(tags)
  BY <1>1, LenProperties
<1>3. tag \in DOMAIN tags
  BY <1>2 DEF Control
<1>4. tags[tag] \in TagType
  BY <1>1, <1>2, <1>3, ElementOfSeq
<1> QED
  BY <1>2, <1>3, <1>4 DEF Range, TagType

LEMMA LemmaInit == Init => MInv
<1> SUFFICES ASSUME Init
             PROVE  MInv
  OBVIOUS
<1>1. Len(tags) \in Nat
  BY TagListsAssumption, LenProperties DEF Init
<1>2. Control
  BY <1>1 DEF Init, Control
<1>3. DOMAIN shown = {} /\ IsSeq(shown)
  BY NoLine DEF Init, Listed
<1>4. Printed
  BY <1>3 DEF Init, Printed, InOrder, Reached
<1> QED
  BY <1>2, <1>4 DEF Init, MInv, Remaining

\* One line of a tag that has but one, and on to the next tag.
LEMMA NextTag ==
    ASSUME MInv, pc = "tag", tag <= Len(tags), UNCHANGED <<tags, pc, todo>>, tag' = tag + 1,
           \/ UNCHANGED shown
           \/ \E e : /\ shown' = Append(shown, e)
                     /\ e.tag = tag
                     /\ EntryTrue(tags, e)
                     /\ Complete(tags, shown', tag),
           UNCHANGED shown => Complete(tags, shown, tag)
    PROVE  MInv'
<1>1. Len(tags) \in Nat /\ tag \in Nat \ {0}
  BY TagIs DEF MInv
<1>2. Control'
  BY <1>1 DEF MInv, Control
<1>3. Reached = tag - 1 /\ Reached' = tag
  BY <1>1 DEF Reached
<1>4. LinesOf(shown, tag) = {} /\ InOrder(shown, tag) /\ tag - 1 \in Int
  BY <1>1, <1>3, NothingAhead DEF MInv, Printed
<1>5. \A t \in 1..(tag' - 1) : t \in 1..(tag - 1) \/ t = tag
  BY <1>1
<1>6. CASE UNCHANGED shown
  <2>1. InOrder(shown, Reached)'
    BY <1>3, <1>4, <1>6
  <2>2. \A t \in 1..(tag' - 1) : Complete(tags, shown, t)
    BY <1>5, <1>6 DEF MInv, Printed
  <2>3. Printed'
    BY <1>6, <2>1, <2>2 DEF MInv, Printed
  <2> QED
    BY <1>2, <2>3 DEF MInv, Remaining
<1>7. ASSUME NEW e, shown' = Append(shown, e), e.tag = tag, EntryTrue(tags, e),
             Complete(tags, shown', tag)
      PROVE  MInv'
  <2>0. PICK more : more = shown'
    OBVIOUS
  <2>2. /\ InOrder(more, tag)
        /\ \A u : u # tag => LinesOf(more, u) = LinesOf(shown, u)
        /\ \A a \in DOMAIN more : more[a] = e \/ \E b \in DOMAIN shown : more[a] = shown[b]
    <3>1. e.of \notin LinesOf(shown, e.tag) /\ e.tag \in Nat \ {0}
      BY <1>1, <1>4, <1>7
    <3>2. InOrder(shown, e.tag) /\ more = Append(shown, e)
      BY <1>4, <1>7, <2>0
    <3>3. Extended(more, shown, e)
      BY <3>1, <3>2, OneMore
    <3> QED
      BY <1>7, <3>3 DEF Extended
  <2>3. \A a \in DOMAIN more : EntryTrue(tags, more[a])
    BY <1>7, <2>2 DEF MInv, Printed
  <2>4. \A t \in 1..(tag' - 1) : Complete(tags, more, t)
    <3> TAKE t \in 1..(tag' - 1)
    <3>1. CASE t = tag
      BY <1>7, <2>0, <3>1
    <3>2. CASE t # tag
      <4>1. t \in 1..(tag - 1)
        BY <1>5, <3>2
      <4>2. Complete(tags, shown, t)
        BY <4>1 DEF MInv, Printed
      <4> QED
        BY <2>2, <3>2, <4>2, CompleteStays
    <3> QED
      BY <3>1, <3>2
  <2>5. Printed'
    BY <1>3, <2>0, <2>2, <2>3, <2>4 DEF Printed
  <2> QED
    BY <1>2, <2>5 DEF MInv, Remaining
<1> QED
  BY <1>6, <1>7

LEMMA LemmaFileAttributes ==
    ASSUME MInv, FileAttributes
    PROVE  MInv'
<1>1. pc = "tag" /\ tag <= Len(tags) /\ tags[tag].type = 69
  BY DEF FileAttributes, Tag
<1>2. UNCHANGED <<tags, pc, todo>> /\ tag' = tag + 1
  BY DEF FileAttributes
<1>3. tags[tag].content \in Seq(0..255) /\ tag \in Nat \ {0}
  BY <1>1, TagIs DEF MInv
<1>4. LinesOf(shown, tag) = {} /\ InOrder(shown, tag)
  <2>1. InOrder(shown, tag - 1) /\ tag - 1 \in Int /\ tag - 1 < tag
    BY <1>1, <1>3 DEF MInv, Printed, Reached
  <2> QED
    BY <1>3, <2>1, NothingAhead
<1>5. PICK b0 \in ContentByte(Content, 0), b1 \in ContentByte(Content, 1),
           b2 \in ContentByte(Content, 2), b3 \in ContentByte(Content, 3) :
             IF Reserved(b0) \/ b1 # 0 \/ b2 # 0 \/ b3 # 0
             THEN UNCHANGED shown
             ELSE Show([tag |-> tag, of |-> <<"attributes">>, attributes |-> Attributes(b0)])
  BY DEF FileAttributes
<1>6. CASE Reserved(b0) \/ b1 # 0 \/ b2 # 0 \/ b3 # 0
  <2>1. ~(Len(tags[tag].content) >= 3 /\ ReservedIsZero(tags[tag].content))
    BY <1>3, <1>6, AttributesAccepted DEF Content
  <2>2. Complete(tags, shown, tag)
    BY <1>1, <1>4, <2>1 DEF Complete
  <2>3. UNCHANGED shown
    BY <1>5, <1>6
  <2> QED
    BY <1>1, <1>2, <2>2, <2>3, NextTag
<1>7. ASSUME ~ (Reserved(b0) \/ b1 # 0 \/ b2 # 0 \/ b3 # 0)
      PROVE  MInv'
  <2>1. Show([tag |-> tag, of |-> <<"attributes">>, attributes |-> Attributes(b0)])
    BY <1>5, <1>7
  <2> DEFINE e == [tag |-> tag, of |-> <<"attributes">>, attributes |-> Attributes(b0)]
  <2>2. e.tag = tag /\ e.of = <<"attributes">> /\ e.attributes = Attributes(b0)
    OBVIOUS
  <2>3. shown' = Append(shown, e)
    BY <2>1 DEF Show
  <2> HIDE DEF e
  <2>4. EntryTrue(tags, e)
    <3>1. AttributesTrue(tags[tag].content, e.attributes)
      BY <1>3, <1>7, <2>2, AttributesRead DEF Content
    <3> QED
      BY <1>1, <2>2, <3>1 DEF EntryTrue
  <2>5. Complete(tags, shown', tag)
    <3>0. PICK more : more = shown'
      OBVIOUS
    <3>1. e.of \notin LinesOf(shown, e.tag) /\ e.tag \in Nat \ {0} /\ InOrder(shown, e.tag)
      BY <1>3, <1>4, <2>2
    <3>2. LinesOf(more, tag) = LinesOf(shown, tag) \cup {e.of}
      BY <2>2, <2>3, <3>0, <3>1, OneMore DEF Extended
    <3> QED
      BY <1>1, <1>4, <2>2, <3>0, <3>2 DEF Complete
  <2>6. UNCHANGED shown => Complete(tags, shown, tag)
    BY <2>5
  <2> QED
    BY <1>1, <1>2, <2>2, <2>3, <2>4, <2>5, <2>6, NextTag
<1> QED
  BY <1>6, <1>7

LEMMA LemmaOtherTag ==
    ASSUME MInv, OtherTag
    PROVE  MInv'
<1>1. pc = "tag" /\ tag <= Len(tags) /\ tags[tag].type \notin {69, 82}
  BY DEF OtherTag
<1>2. UNCHANGED <<tags, pc, todo>> /\ tag' = tag + 1
  BY DEF OtherTag
<1>3. tag \in Nat \ {0}
  BY <1>1, TagIs DEF MInv
<1>4. InOrder(shown, tag - 1) /\ tag - 1 \in Int /\ tag - 1 < tag
  BY <1>1, <1>3 DEF MInv, Printed, Reached
<1>5. LinesOf(shown, tag) = {} /\ InOrder(shown, tag)
  BY <1>3, <1>4, NothingAhead
<1> DEFINE e == [tag |-> tag, of |-> <<"tag", tags[tag].type>>]
<1>6. e.tag = tag /\ e.of = <<"tag", tags[tag].type>>
  OBVIOUS
<1>7. shown' = Append(shown, e)
  BY DEF OtherTag, Show
<1> HIDE DEF e
<1>8. EntryTrue(tags, e)
  BY <1>1, <1>6 DEF EntryTrue
<1>9. PICK more : more = shown'
  OBVIOUS
<1>10. LinesOf(more, tag) = {<<"tag", tags[tag].type>>}
  <2>1. e.of \notin LinesOf(shown, e.tag) /\ e.tag \in Nat \ {0} /\ InOrder(shown, e.tag)
    BY <1>3, <1>5, <1>6
  <2>2. LinesOf(more, tag) = LinesOf(shown, tag) \cup {e.of}
    BY <1>6, <1>7, <1>9, <2>1, OneMore DEF Extended
  <2> QED
    BY <1>5, <1>6, <2>2
<1>11. Complete(tags, shown', tag)
  BY <1>1, <1>9, <1>10 DEF Complete
<1>12. ~ UNCHANGED shown
  BY <1>5, <1>9, <1>10
<1> QED
  BY <1>1, <1>2, <1>6, <1>7, <1>8, <1>11, <1>12, NextTag

LEMMA LemmaReadAbc ==
    ASSUME MInv, ReadAbc
    PROVE  MInv'
<1>1. pc = "tag" /\ tag <= Len(tags) /\ tags[tag].type = 82
  BY DEF ReadAbc, Tag
<1>2. UNCHANGED <<tags, tag, shown>> /\ given' = AbcData(tags[tag].content)
  BY DEF ReadAbc, Content
<1>3. tag \in Nat \ {0} /\ tags[tag] \in Range(tags)
  BY <1>1, TagIs DEF MInv
<1>4. LinesOf(shown, tag) = {} /\ InOrder(shown, tag)
  <2>1. InOrder(shown, tag - 1) /\ tag - 1 \in Int /\ tag - 1 < tag
    BY <1>1, <1>3 DEF MInv, Printed, Reached
  <2> QED
    BY <1>3, <2>1, NothingAhead
<1>5. /\ pc' \in {"dump", "died"}
      /\ pc' = "dump" => Readable(given') /\ todo' = Lines(Parsed(given'))
      /\ pc' = "died" => ~Readable(given') /\ todo' = <<>>
  BY <1>1 DEF ReadAbc, MInv, Control
<1>6. Control'
  BY <1>1, <1>2, <1>5 DEF MInv, Control
<1>7. Printed'
  <2>1. Reached' = tag
    BY <1>2, <1>5 DEF Reached
  <2> QED
    BY <1>2, <1>4, <2>1 DEF MInv, Printed
<1>8. Remaining'
  <2> SUFFICES ASSUME pc' = "dump"
               PROVE  /\ Listed(todo')
                      /\ LinesOf(shown, tag) \cap Keys(todo') = {}
                      /\ Expected(Abc(tags, tag)) = LinesOf(shown, tag) \cup Keys(todo')
                      /\ \A r \in Range(todo') : LineRight(Abc(tags, tag), r)
    BY <1>2 DEF Remaining
  <2>1. IsAbc(Abc(tags, tag))
    BY <1>1, <1>2, <1>3, <1>5, ParsedAssumption DEF MInv, Control, Abc
  <2>2. todo' = Lines(Abc(tags, tag))
    BY <1>2, <1>5 DEF Abc
  <2> QED
    BY <1>4, <2>1, <2>2, LinesListed
<1> QED
  BY <1>6, <1>7, <1>8 DEF MInv

\* Without its first line, a list is about everything else.
LEMMA FirstLine ==
    ASSUME NEW s, Listed(s), s # <<>>
    PROVE  /\ Listed(Tail(s))
           /\ Keys(s) = {Head(s).of} \cup Keys(Tail(s))
           /\ Head(s).of \notin Keys(Tail(s))
           /\ Head(s) \in Range(s)
           /\ Range(Tail(s)) \subseteq Range(s)
<1> DEFINE t == Tail(s)
           n == Len(s)
<1>1. s \in Seq(Range(s)) /\ n \in Nat \ {0} /\ DOMAIN s = 1..n
  BY LenProperties, EmptySeq DEF Listed, IsSeq
<1>2. t \in Seq(Range(s)) /\ Len(t) = n - 1 /\ \A i \in 1..Len(t) : t[i] = s[i + 1]
  BY <1>1, HeadTailProperties
<1>3. Head(s) = s[1]
  OBVIOUS
<1> HIDE DEF t, n
<1>4. DOMAIN t = 1..(n - 1)
  BY <1>2, LenProperties
<1>5. \A i \in DOMAIN t : i + 1 \in DOMAIN s /\ t[i] = s[i + 1] /\ i \in Nat /\ i + 1 # 1
  BY <1>1, <1>2, <1>4
<1>6. \A i \in DOMAIN s : i = 1 \/ (i - 1 \in DOMAIN t /\ t[i - 1] = s[i])
  <2> TAKE i \in DOMAIN s
  <2>1. CASE i # 1
    <3>1. i - 1 \in 1..(n - 1) /\ i - 1 + 1 = i
      BY <1>1, <2>1
    <3> QED
      BY <1>2, <1>4, <3>1
  <2> QED
    BY <2>1
<1>7. 1 \in DOMAIN s
  BY <1>1
<1>8. IsSeq(t)
  BY <1>2, SeqOfRange DEF IsSeq
<1>9. Once(t)
  <2> SUFFICES ASSUME NEW a \in DOMAIN t, NEW b \in DOMAIN t, t[a].of = t[b].of
               PROVE  a = b
    BY DEF Once
  <2>1. a + 1 = b + 1
    BY <1>5 DEF Listed, Once
  <2> QED
    BY <1>5, <2>1
<1>10. Range(t) \subseteq Range(s)
  BY <1>5 DEF Range
<1>11. \A k : k \in Keys(s) <=> k = s[1].of \/ k \in Keys(t)
  BY <1>5, <1>6, <1>7 DEF Keys
<1>12. s[1].of \notin Keys(t)
  BY <1>5, <1>7 DEF Keys, Listed, Once
<1>13. Head(s) \in Range(s)
  BY <1>3, <1>7 DEF Range
<1> QED
  BY <1>3, <1>8, <1>9, <1>10, <1>11, <1>12, <1>13 DEF Listed, t

LEMMA LemmaPrintLine ==
    ASSUME MInv, PrintLine
    PROVE  MInv'
<1> DEFINE line == Head(todo)
           e == [tag |-> tag, of |-> line.of, default |-> line.default]
<1>1. pc = "dump" /\ todo # <<>> /\ todo' = Tail(todo) /\ UNCHANGED <<tags, tag, pc, given>>
      /\ shown' = Append(shown, e)
  BY DEF PrintLine, Show
<1>2. e.tag = tag /\ e.of = line.of /\ e.default = line.default
  OBVIOUS
<1> HIDE DEF e
<1>3. /\ Listed(todo)
      /\ LinesOf(shown, tag) \cap Keys(todo) = {}
      /\ Expected(Abc(tags, tag)) = LinesOf(shown, tag) \cup Keys(todo)
      /\ \A r \in Range(todo) : LineRight(Abc(tags, tag), r)
  BY <1>1 DEF MInv, Remaining
<1>4. /\ Listed(Tail(todo))
      /\ Keys(todo) = {line.of} \cup Keys(Tail(todo))
      /\ line.of \notin Keys(Tail(todo))
      /\ line \in Range(todo)
      /\ Range(Tail(todo)) \subseteq Range(todo)
  BY <1>1, <1>3, FirstLine
<1> HIDE DEF line
<1>5. tag <= Len(tags) /\ tags[tag].type = 82 /\ Readable(AbcData(tags[tag].content))
  BY <1>1 DEF MInv, Control
<1>6. tag \in Nat \ {0}
  BY <1>5, TagIs DEF MInv
<1>7. EntryTrue(tags, e)
  BY <1>2, <1>3, <1>4, <1>5 DEF EntryTrue, LineRight
<1>8. PICK more : more = shown'
  OBVIOUS
<1>9. Reached = tag /\ Reached' = tag
  BY <1>1 DEF Reached
<1>10. /\ InOrder(more, tag)
       /\ LinesOf(more, tag) = LinesOf(shown, tag) \cup {line.of}
       /\ \A u : u # tag => LinesOf(more, u) = LinesOf(shown, u)
       /\ \A a \in DOMAIN more : more[a] = e \/ \E b \in DOMAIN shown : more[a] = shown[b]
  <2>1. InOrder(shown, tag)
    BY <1>9 DEF MInv, Printed
  <2>2. e.of \notin LinesOf(shown, e.tag) /\ e.tag \in Nat \ {0} /\ InOrder(shown, e.tag)
    BY <1>2, <1>3, <1>4, <1>6, <2>1
  <2>3. more = Append(shown, e)
    BY <1>1, <1>8
  <2>4. Extended(more, shown, e)
    BY <2>2, <2>3, OneMore
  <2> QED
    BY <1>2, <2>4 DEF Extended
<1>11. Control'
  BY <1>1 DEF MInv, Control
<1>12. Printed'
  <2>1. \A a \in DOMAIN more : EntryTrue(tags, more[a])
    BY <1>7, <1>10 DEF MInv, Printed
  <2>2. \A t \in 1..(tag - 1) : Complete(tags, more, t)
    <3> TAKE t \in 1..(tag - 1)
    <3>1. t # tag
      BY <1>6
    <3>2. Complete(tags, shown, t)
      BY DEF MInv, Printed
    <3> QED
      BY <1>10, <3>1, <3>2, CompleteStays
  <2> QED
    BY <1>1, <1>8, <1>9, <1>10, <2>1, <2>2 DEF Printed
<1>13. Remaining'
  <2> SUFFICES /\ Listed(todo')
               /\ LinesOf(more, tag) \cap Keys(todo') = {}
               /\ Expected(Abc(tags, tag)) = LinesOf(more, tag) \cup Keys(todo')
               /\ \A r \in Range(todo') : LineRight(Abc(tags, tag), r)
    BY <1>1, <1>8 DEF Remaining
  <2> QED
    BY <1>1, <1>3, <1>4, <1>10
<1> QED
  BY <1>11, <1>12, <1>13 DEF MInv

LEMMA LemmaLeaveAbc ==
    ASSUME MInv, LeaveAbc
    PROVE  MInv'
<1>1. pc = "dump" /\ todo = <<>> /\ pc' = "tag" /\ tag' = tag + 1 /\ UNCHANGED <<tags, given, todo, shown>>
  BY DEF LeaveAbc
<1>2. tag <= Len(tags) /\ tags[tag].type = 82
  BY <1>1 DEF MInv, Control
<1>3. Len(tags) \in Nat /\ tag \in Nat \ {0}
  BY <1>2, TagIs DEF MInv
<1>4. Control'
  BY <1>1, <1>2, <1>3 DEF MInv, Control
<1>5. Complete(tags, shown, tag)
  <2>1. Keys(todo) = {}
    BY <1>1, NoLine
  <2>2. LinesOf(shown, tag) = Expected(Abc(tags, tag))
    BY <1>1, <2>1 DEF MInv, Remaining
  <2> QED
    BY <1>2, <2>2 DEF Complete
<1>6. Printed'
  <2>1. Reached = tag /\ Reached' = tag
    BY <1>1, <1>3 DEF Reached
  <2>2. \A t \in 1..(tag' - 1) : t \in 1..(tag - 1) \/ t = tag
    BY <1>1, <1>3
  <2>3. \A t \in 1..(tag' - 1) : Complete(tags, shown, t)
    BY <1>5, <2>2 DEF MInv, Printed
  <2> QED
    BY <1>1, <2>1, <2>3 DEF MInv, Printed
<1> QED
  BY <1>1, <1>4, <1>6 DEF MInv, Remaining

LEMMA LemmaNext == MInv /\ [Next]_vars => MInv'
<1> SUFFICES ASSUME MInv, [Next]_vars
             PROVE  MInv'
  OBVIOUS
<1>1. CASE Die
  <2>1. pc = "dump" /\ pc' = "died" /\ UNCHANGED <<tags, tag, given, todo, shown>>
    BY <1>1 DEF Die
  <2>2. Reached' = Reached
    BY <2>1 DEF Reached
  <2>3. /\ tags[tag].type = 82 /\ given = AbcData(tags[tag].content)
        /\ Readable(given)
        /\ Parsed(given) = Abc(tags, tag)
    BY <2>1 DEF MInv, Control, Abc
  <2>4. ~Sound(Parsed(given), PrintableOk)
    <3>1. Listed(todo) /\ \A r \in Range(todo) : LineRight(Abc(tags, tag), r)
      BY <2>1 DEF MInv, Remaining
    <3>2. todo # <<>> /\ ~(Head(todo).ends \subseteq Text)
      BY <1>1 DEF Die
    <3>3. LineRight(Abc(tags, tag), Head(todo))
      BY <3>1, <3>2, FirstLine
    <3> QED
      BY <2>3, <3>2, <3>3 DEF LineRight
  <2>5. Control'
    BY <2>1, <2>3, <2>4 DEF MInv, Control
  <2> QED
    BY <2>1, <2>2, <2>5 DEF MInv, Printed, Remaining
<1>2. CASE Finish
  <2>1. pc = "tag" /\ pc' = "done" /\ tag > Len(tags) /\ UNCHANGED <<tags, tag, given, todo, shown>>
    BY <1>2 DEF Finish
  <2>2. Reached' = Reached
    BY <2>1 DEF Reached
  <2>3. Len(tags) \in Nat
    BY TagListsAssumption, LenProperties DEF MInv, Control
  <2>4. Control'
    BY <2>1, <2>3 DEF MInv, Control
  <2> QED
    BY <2>1, <2>2, <2>4 DEF MInv, Printed, Remaining
<1>3. CASE UNCHANGED vars
  <2>1. UNCHANGED <<tags, tag, pc, given, todo, shown>>
    BY <1>3 DEF vars
  <2>2. Reached' = Reached
    BY <2>1 DEF Reached
  <2> QED
    BY <2>1, <2>2 DEF MInv, Control, Printed, Remaining
<1> QED
  BY <1>1, <1>2, <1>3, LemmaFileAttributes, LemmaOtherTag, LemmaReadAbc, LemmaPrintLine, LemmaLeaveAbc
     DEF Next, Ended

\* What main has printed at any time is true, complete up to the tag it is at,
\* and in order.
THEOREM Invariance == Spec => []MInv
<1> QED
  BY LemmaInit, LemmaNext, PTL DEF Spec

-----------------------------------------------------------------------------
(***************************************************************************)
(* The properties that the runs check.                                     *)
(***************************************************************************)
LEMMA ShownIs ==
    ASSUME MInv, NEW s \in Range(shown)
    PROVE  EntryTrue(tags, s) /\ s.tag \in 1..Len(tags) /\ tags[s.tag] \in Range(tags)
<1>1. PICK a \in DOMAIN shown : shown[a] = s
  BY DEF Range
<1>2. tags \in Seq(TagType)
  BY TagListsAssumption DEF MInv, Control, TagType
<1>3. Len(tags) \in Nat /\ DOMAIN tags = 1..Len(tags)
  BY <1>2, LenProperties
<1>4. EntryTrue(tags, s) /\ s.tag \in 1..Reached
  BY <1>1 DEF MInv, Printed, InOrder
<1>5. Reached \in Int /\ Reached <= Len(tags)
  BY <1>3 DEF MInv, Control, Reached
<1>6. s.tag \in 1..Len(tags)
  BY <1>3, <1>4, <1>5
<1> QED
  BY <1>3, <1>4, <1>6 DEF Range

\* Attributes are shown as the format's fields have them, and not at all if a
\* reserved field is not 0: SWFTagFileAttributes::set.
THEOREM AttributesShown == Spec => []AttributesExact
<1>1. MInv => AttributesExact
  <2> SUFFICES ASSUME MInv, NEW s \in Range(shown), s.of = <<"attributes">>
               PROVE  AttributesTrue(tags[s.tag].content, s.attributes)
    BY DEF AttributesExact, AttributesTrue
  <2>1. EntryTrue(tags, s)
    BY ShownIs
  <2>2. s.of[1] = "attributes"
    OBVIOUS
  <2>3. "attributes" \notin LineKinds
    BY DEF LineKinds, InstanceParts
  <2>4. \A x : <<"tag", x>>[1] = "tag"
    OBVIOUS
  <2> QED
    BY <2>1, <2>2, <2>3, <2>4 DEF EntryTrue, LineTrue
<1> QED
  BY <1>1, Invariance, PTL

\* The reader gets what is behind the name of the tag: find_first_of in main.
THEOREM AbcFound == Spec => []FindsAbc
<1>1. MInv => FindsAbc
  <2> SUFFICES ASSUME MInv, pc \in {"dump", "died"}
               PROVE  FindsAbc
    BY DEF FindsAbc
  <2>1. tag <= Len(tags) /\ given = AbcData(tags[tag].content)
    BY DEF MInv, Control
  <2>2. tags[tag].content \in Seq(0..255)
    BY <2>1, TagIs DEF MInv
  <2> QED
    BY <2>1, <2>2, DataFound DEF FindsAbc, Content
<1> QED
  BY <1>1, Invariance, PTL

\* A parameter is shown with the default that is as far from the end.
LEMMA DefaultIs ==
    ASSUME NEW m, IsSeq(m.params), IsSeq(m.options), Len(m.options) <= Len(m.params),
           NEW j \in DOMAIN m.params
    PROVE  LET d == DefaultOf(m, j)
               same == {e \in DOMAIN m.options : Len(m.options) - e = Len(m.params) - j}
           IN  IF HasBit(m.flags, 3) THEN {d} \ {0} = same ELSE d = 0
<1> DEFINE n == Len(m.params)
           p == Len(m.options)
           d == DefaultOf(m, j)
           same == {e \in DOMAIN m.options : p - e = n - j}
<1>1. n \in Nat /\ DOMAIN m.params = 1..n /\ p \in Nat /\ DOMAIN m.options = 1..p
  BY SeqShape
<1>2. d = IF HasBit(m.flags, 3) /\ n - p >= 0 /\ j > n - p THEN j - (n - p) ELSE 0
  BY DEF DefaultOf
<1>3. p <= n
  OBVIOUS
<1> HIDE DEF n, p, d
<1>4. \A e : e \in same <=> e \in 1..p /\ p - e = n - j
  BY <1>1
<1> HIDE DEF same
<1>5. ASSUME HasBit(m.flags, 3)
      PROVE  \A e : e \in {d} \ {0} <=> e \in same
  <2> TAKE e
  <2>1. j \in 1..n
    BY <1>1
  <2>2. CASE j > n - p
    <3>1. d = j - (n - p) /\ d \in 1..p /\ p - d = n - j
      BY <1>1, <1>2, <1>3, <1>5, <2>1, <2>2
    <3>2. e \in 1..p /\ p - e = n - j => e = d
      BY <1>1, <2>1, <3>1
    <3> QED
      BY <1>4, <3>1, <3>2
  <2>3. CASE ~ (j > n - p)
    <3>1. d = 0
      BY <1>2, <2>3
    <3>2. ~ (e \in 1..p /\ p - e = n - j)
      BY <1>1, <2>1, <2>3
    <3> QED
      BY <1>4, <3>1, <3>2
  <2> QED
    BY <2>2, <2>3
<1>6. HasBit(m.flags, 3) => {d} \ {0} = same
  BY <1>5
<1>7. ~ HasBit(m.flags, 3) => d = 0
  BY <1>2
<1> QED
  BY <1>6, <1>7 DEF d, same, n, p

\* Defaults are those of the last parameters: the loop over the methods.
THEOREM DefaultsAreRight == Spec => []DefaultsBelong
<1>1. MInv => DefaultsBelong
  <2> SUFFICES ASSUME MInv, NEW s \in Range(shown), s.of[1] = "param",
                      NEW m, m = AbcOf(s.tag).methods[s.of[2]], Len(m.options) <= Len(m.params)
               PROVE  LET same == {d \in DOMAIN m.options :
                                     Len(m.options) - d = Len(m.params) - s.of[3]}
                      IN  IF HasBit(m.flags, 3) THEN {s.default} \ {0} = same ELSE s.default = 0
    BY DEF DefaultsBelong
  <2>1. EntryTrue(tags, s) /\ tags[s.tag] \in Range(tags)
    BY ShownIs
  <2>2. \A x : <<"tag", x>>[1] = "tag"
    OBVIOUS
  <2>3. <<"attributes">>[1] = "attributes"
    OBVIOUS
  <2>4. /\ tags[s.tag].type = 82
        /\ Readable(AbcData(tags[s.tag].content))
        /\ LineTrue(Abc(tags, s.tag), s.of, s.default)
    BY <2>1, <2>2, <2>3 DEF EntryTrue
  <2> DEFINE abc == Abc(tags, s.tag)
  <2>5. PICK i \in DOMAIN abc.methods : \E j \in DOMAIN abc.methods[i].params :
               s.of = <<"param", i, j>> /\ s.default = DefaultOf(abc.methods[i], j)
    BY <2>4 DEF LineTrue
  <2>6. PICK j \in DOMAIN abc.methods[i].params :
               s.of = <<"param", i, j>> /\ s.default = DefaultOf(abc.methods[i], j)
    BY <2>5
  <2>7. IsAbc(abc)
    BY <2>1, <2>4, ParsedAssumption DEF MInv, Control, Abc
  <2>8. abc = AbcOf(s.tag)
    BY DEF Abc, AbcOf
  <2> HIDE DEF abc
  <2>9. s.of[2] = i /\ s.of[3] = j
    BY <2>6
  <2>10. m = abc.methods[i] /\ m \in Range(abc.methods)
    BY <2>8, <2>9 DEF Range
  <2>11. IsSeq(m.params) /\ IsSeq(m.options)
    BY <2>7, <2>10 DEF IsAbc
  <2>12. j \in DOMAIN m.params /\ s.default = DefaultOf(m, j)
    BY <2>6, <2>10
  <2> QED
    BY <2>9, <2>11, <2>12, DefaultIs
<1> QED
  BY <1>1, Invariance, PTL

\* The process ends in the middle only for a file that cannot be read or has a
\* reference to what is not there, not to be printed, or made of more nested
\* names than the stack has room for: the lookups of main, and its own untested
\* index.
THEOREM DiesOnlyForCause == Spec => []DiesForCause
<1>1. MInv => DiesForCause
  BY DEF MInv, Control, DiesForCause
<1> QED
  BY <1>1, Invariance, PTL

\* At the end every tag has been shown, attributes if nothing reserved is set
\* in them, a file with every member and nothing else, each once and in order:
\* the loop of main over the tags (see AllShown).
THEOREM EverythingIsShown == Spec => []AllShown
<1>1. MInv => AllShown
  <2> SUFFICES ASSUME MInv, pc = "done"
               PROVE  AllShown
    BY DEF AllShown
  <2>1. Len(tags) \in Nat /\ DOMAIN tags = 1..Len(tags)
    BY TagListsAssumption, LenProperties DEF MInv, Control
  <2>2. tag = Len(tags) + 1 /\ InOrder(shown, Reached)
    BY DEF MInv, Control, Printed
  <2>3. \A t \in DOMAIN tags : Complete(tags, shown, t)
    BY <2>1, <2>2 DEF MInv, Printed
  <2>4. \A t : {s.of : s \in {r \in Range(shown) : r.tag = t}} = LinesOf(shown, t)
    BY DEF LinesOf, Range
  <2>5. \A a, b \in DOMAIN shown : a < b =>
             /\ shown[a].tag <= shown[b].tag
             /\ <<shown[a].tag, shown[a].of>> # <<shown[b].tag, shown[b].of>>
    BY <2>2 DEF InOrder
  <2>6. ASSUME NEW t \in DOMAIN tags
        PROVE  ShownOf(t, {s.of : s \in {r \in Range(shown) : r.tag = t}})
    <3>1. Complete(tags, shown, t)
      BY <2>3
    <3>2. AbcOf(t) = Abc(tags, t)
      BY DEF Abc, AbcOf
    <3>3. ShownOf(t, LinesOf(shown, t))
      BY <3>1, <3>2 DEF Complete, ShownOf
    <3> QED
      BY <2>4, <3>3
  <2> QED
    BY <2>5, <2>6 DEF AllShown
<1> QED
  BY <1>1, Invariance, PTL

=============================================================================

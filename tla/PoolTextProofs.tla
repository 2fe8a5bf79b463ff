--------------------------- MODULE PoolTextProofs ---------------------------
(***************************************************************************)
(* Theorems on the accessors of the constant pool as they run, for every   *)
(* pool, every call and every limit of the stack.                          *)
(***************************************************************************)
EXTENDS PoolText, DataFacts, SequenceTheorems

LEMMA SeqShape ==
    ASSUME NEW s, IsSeq(s)
    PROVE  Len(s) \in Nat /\ DOMAIN s = 1..Len(s) /\ (s # <<>> => Len(s) # 0)
BY LenProperties, EmptySeq DEF IsSeq

LEMMA ItsRange ==
    ASSUME NEW S, NEW s \in Seq(S)
    PROVE  IsSeq(s)
BY SeqOfRange DEF IsSeq

LEMMA NoCall == IsSeq(<<>>) /\ Range(<<>>) = {}
<1>1. <<>> \in Seq({})
  BY EmptySeq
<1>2. Range(<<>>) \in SUBSET {}
  BY <1>1, RangeOfSeq
<1> QED
  BY <1>1, <1>2, ItsRange

\* What is left of a list behind its first p members.
Behind(todo, all, p) ==
    Len(todo) = Len(all) - p /\ \A j \in 1..Len(todo) : todo[j] = all[p + j]

\* RemoveAt takes one away and leaves the others; of a list, the first.
LEMMA Removed ==
    ASSUME NEW s, IsSeq(s), NEW k \in DOMAIN s
    PROVE  /\ IsSeq(RemoveAt(s, k)) /\ Range(RemoveAt(s, k)) \subseteq Range(s)
           /\ \A d \in Range(s) : d = s[k] \/ d \in Range(RemoveAt(s, k))
           /\ k = 1 => Behind(RemoveAt(s, k), s, 1)
<1> DEFINE n == Len(s)
           S == Range(s)
           a == SubSeq(s, 1, k - 1)
           b == SubSeq(s, k + 1, n)
           t == a \o b
<1>1. n \in Nat /\ DOMAIN s = 1..n /\ k \in 1..n
  BY SeqShape
<1>2. \A i \in 1..n : s[i] \in S
  BY <1>1 DEF Range
<1>3. a \in Seq(S) /\ Len(a) = k - 1 /\ \A i \in 1..(k - 1) : a[i] = s[i]
  <2>1. 1 \in Int /\ k - 1 \in Int /\ \A i \in 1..(k - 1) : s[i] \in S
    BY <1>1, <1>2
  <2> HIDE DEF n, S
  <2>2. /\ SubSeq(s, 1, k - 1) \in Seq(S)
        /\ Len(SubSeq(s, 1, k - 1)) = IF 1 <= k - 1 THEN k - 1 - 1 + 1 ELSE 0
        /\ \A i \in 1..(k - 1 - 1 + 1) : SubSeq(s, 1, k - 1)[i] = s[1 + i - 1]
    BY <2>1, SubSeqProperties
  <2>3. k - 1 - 1 + 1 = k - 1 /\ \A i \in 1..(k - 1) : 1 + i - 1 = i
    BY <1>1
  <2> QED
    BY <1>1, <2>2, <2>3
<1>4. b \in Seq(S) /\ Len(b) = n - k /\ \A i \in 1..(n - k) : b[i] = s[k + i]
  <2>1. k + 1 \in Int /\ n \in Int /\ \A i \in (k + 1)..n : s[i] \in S
    BY <1>1, <1>2
  <2> HIDE DEF n, S
  <2>2. /\ SubSeq(s, k + 1, n) \in Seq(S)
        /\ Len(SubSeq(s, k + 1, n)) = IF k + 1 <= n THEN n - (k + 1) + 1 ELSE 0
        /\ \A i \in 1..(n - (k + 1) + 1) : SubSeq(s, k + 1, n)[i] = s[k + 1 + i - 1]
    BY <2>1, SubSeqProperties
  <2>3. n - (k + 1) + 1 = n - k /\ \A i \in 1..(n - k) : k + 1 + i - 1 = k + i
    BY <1>1
  <2> QED
    BY <1>1, <2>2, <2>3
<1> HIDE DEF a, b, S, n
<1>5. /\ t \in Seq(S)
      /\ Len(t) = n - 1
      /\ \A i \in 1..(n - 1) : t[i] = IF i < k THEN s[i] ELSE s[i + 1]
  <2>1. /\ t \in Seq(S)
        /\ Len(t) = Len(a) + Len(b)
        /\ \A i \in 1..(Len(a) + Len(b)) : t[i] = IF i <= Len(a) THEN a[i] ELSE b[i - Len(a)]
    BY <1>3, <1>4, ConcatProperties
  <2>2. Len(a) + Len(b) = n - 1
    BY <1>1, <1>3, <1>4
  <2> HIDE DEF t
  <2>3. ASSUME NEW i \in 1..(n - 1)
        PROVE  t[i] = IF i < k THEN s[i] ELSE s[i + 1]
    <3>1. CASE i < k
      <4>1. i \in 1..(k - 1) /\ i <= Len(a)
        BY <1>1, <1>3, <3>1
      <4> QED
        BY <1>3, <2>1, <2>2, <3>1, <4>1
    <3>2. CASE ~(i < k)
      <4>1. ~(i <= Len(a)) /\ i - Len(a) \in 1..(n - k) /\ k + (i - Len(a)) = i + 1
        BY <1>1, <1>3, <3>2
      <4> QED
        BY <1>4, <2>1, <2>2, <3>2, <4>1
    <3> QED
      BY <3>1, <3>2
  <2> QED
    BY <2>1, <2>2, <2>3
<1>6. RemoveAt(s, k) = t
  BY DEF RemoveAt, a, b, n
<1> HIDE DEF t
<1>7. DOMAIN t = 1..(n - 1)
  BY <1>5, LenProperties
<1>8. ASSUME NEW i \in 1..n, i # k
      PROVE  s[i] \in Range(t)
  <2>1. CASE i < k
    <3>1. i \in 1..(n - 1) /\ t[i] = s[i]
      BY <1>1, <1>5, <2>1
    <3> QED
      BY <1>7, <3>1 DEF Range
  <2>2. CASE i > k
    <3>1. i - 1 \in 1..(n - 1) /\ t[i - 1] = s[i]
      <4>1. i - 1 \in 1..(n - 1) /\ ~(i - 1 < k) /\ i - 1 + 1 = i
        BY <1>1, <2>2
      <4> QED
        BY <1>5, <4>1
    <3> QED
      BY <1>7, <3>1 DEF Range
  <2> QED
    BY <1>1, <1>8, <2>1, <2>2
<1>9. \A d \in Range(s) : d = s[k] \/ d \in Range(t)
  BY <1>1, <1>8 DEF Range
<1>10. k = 1 => Behind(t, s, 1)
  <2>1. k = 1 => \A i \in 1..(n - 1) : t[i] = s[1 + i]
    BY <1>1, <1>5
  <2> QED
    BY <1>5, <2>1 DEF Behind, n
<1>11. IsSeq(t) /\ Range(t) \subseteq Range(s)
  BY <1>5, ItsRange, RangeOfSeq DEF S
<1> QED
  BY <1>6, <1>9, <1>10, <1>11

\* What Append, EXCEPT and Front do to a list that is not empty.
LEMMA Pushed ==
    ASSUME NEW s, IsSeq(s), NEW e
    PROVE  LET t == Append(s, e)
           IN  /\ IsSeq(t) /\ t # <<>>
               /\ DOMAIN t = 1..(Len(s) + 1)
               /\ \A i \in 1..Len(s) : t[i] = s[i]
               /\ t[Len(s) + 1] = e
<1> DEFINE t == Append(s, e)
           S == Range(s) \cup {e}
<1>1. s \in Seq(S) /\ e \in S
  BY SeqMonotonic DEF IsSeq
<1> HIDE DEF S
<1>2. t \in Seq(S) /\ Len(t) = Len(s) + 1 /\ (\A i \in 1..Len(s) : t[i] = s[i]) /\ t[Len(s) + 1] = e
  BY <1>1, AppendProperties
<1> HIDE DEF t
<1>3. IsSeq(t) /\ DOMAIN t = 1..(Len(s) + 1) /\ Len(s) \in Nat
  BY <1>2, ItsRange, SeqShape
<1>4. t # <<>>
  BY <1>2, <1>3, EmptySeq
<1> QED
  BY <1>2, <1>3, <1>4 DEF t

LEMMA Replaced ==
    ASSUME NEW s, IsSeq(s), s # <<>>, NEW g
    PROVE  LET t == [s EXCEPT ![Len(s)] = g]
           IN  /\ IsSeq(t) /\ t # <<>>
               /\ DOMAIN t = 1..Len(s) /\ Len(t) = Len(s)
               /\ \A i \in 1..Len(s) : t[i] = IF i = Len(s) THEN g ELSE s[i]
<1> DEFINE n == Len(s)
           S == Range(s) \cup {g}
           t == [s EXCEPT ![n] = g]
<1>1. n \in Nat \ {0} /\ DOMAIN s = 1..n
  BY SeqShape
<1>2. s \in Seq(S) /\ g \in S /\ n \in 1..Len(s)
  BY <1>1, SeqMonotonic DEF IsSeq
<1> HIDE DEF S
<1>3. t \in Seq(S) /\ Len(t) = Len(s) /\ \A i \in 1..Len(s) : t[i] = IF i = n THEN g ELSE s[i]
  BY <1>2, ExceptSeq
<1> HIDE DEF t
<1>4. IsSeq(t) /\ DOMAIN t = 1..Len(s)
  BY <1>3, ItsRange, SeqShape
<1>5. t # <<>>
  BY <1>1, <1>4, NoCall
<1> QED
  BY <1>3, <1>4, <1>5 DEF t

LEMMA Popped ==
    ASSUME NEW s, IsSeq(s), s # <<>>
    PROVE  /\ IsSeq(Front(s))
           /\ DOMAIN Front(s) = 1..(Len(s) - 1)
           /\ \A i \in 1..(Len(s) - 1) : Front(s)[i] = s[i]
           /\ Len(s) \in Nat \ {0}
<1> DEFINE n == Len(s)
           t == SubSeq(s, 1, n - 1)
           S == Range(s)
<1>1. s \in Seq(S) /\ n \in Nat \ {0} /\ DOMAIN s = 1..n
  BY SeqShape DEF IsSeq
<1>2. t \in Seq(S) /\ Len(t) = n - 1 /\ \A i \in 1..(n - 1) : t[i] = s[i]
  <2>1. 1 \in Int /\ n - 1 \in Int /\ \A i \in 1..(n - 1) : s[i] \in S
    BY <1>1 DEF Range
  <2> HIDE DEF n, S
  <2>2. /\ SubSeq(s, 1, n - 1) \in Seq(S)
        /\ Len(SubSeq(s, 1, n - 1)) = IF 1 <= n - 1 THEN n - 1 - 1 + 1 ELSE 0
        /\ \A i \in 1..(n - 1 - 1 + 1) : SubSeq(s, 1, n - 1)[i] = s[1 + i - 1]
    BY <2>1, SubSeqProperties
  <2>3. n - 1 - 1 + 1 = n - 1 /\ \A i \in 1..(n - 1) : 1 + i - 1 = i
    BY <1>1
  <2> QED
    BY <1>1, <2>2, <2>3
<1> HIDE DEF n, t, S
<1>3. IsSeq(t) /\ DOMAIN t = 1..(n - 1)
  BY <1>2, ItsRange, SeqShape
<1>4. Front(s) = t
  BY DEF Front, t, n
<1> HIDE DEF t
<1> QED
  BY <1>1, <1>2, <1>3, <1>4 DEF n

-----------------------------------------------------------------------------
(***************************************************************************)
(* What a call can call.                                                   *)
(***************************************************************************)
\* How many calls deep a call is that is about no name.
Rank(c) == IF c.fn \in {"getNamespace", "getMethodOptionHRF"} THEN 1 ELSE 0

\* What a call of c may be.
Below(c, d) ==
    /\ Known(d) => InOrder(c) /\ d.of \in Names(c.of)
    /\ ~Known(c) => Rank(c) = 1 /\ Rank(d) = 0

LEMMA OneCall ==
    ASSUME NEW c
    PROVE  IsSeq(<<c>>) /\ Range(<<c>>) = {c}
<1>1. <<c>> \in Seq({c})
  OBVIOUS
<1>2. DOMAIN <<c>> = {1} /\ <<c>>[1] = c
  OBVIOUS
<1>3. Range(<<c>>) = {<<c>>[i] : i \in DOMAIN <<c>>}
  BY DEF Range
<1>4. PICK s : s = <<c>>
  OBVIOUS
<1>5. Range(s) = {c}
  BY <1>2, <1>3, <1>4
<1> QED
  BY <1>1, <1>4, <1>5, ItsRange

LEMMA TwoCalls ==
    ASSUME NEW c, NEW d
    PROVE  IsSeq(<<c>> \o <<d>>) /\ Range(<<c>> \o <<d>>) = {c, d}
<1>1. <<c>> \in Seq({c, d}) /\ <<d>> \in Seq({c, d})
  OBVIOUS
<1>2. <<c>> \o <<d>> \in Seq({c, d})
  BY <1>1, ConcatProperties
<1>3. Range(<<c>> \o <<d>>) = Range(<<c>>) \cup Range(<<d>>)
  BY <1>1, RangeConcatenation
<1> QED
  BY <1>2, <1>3, OneCall, ItsRange

\* A TypeName calls the same accessor, on the names it is made of.
LEMMA TypeCalls ==
    ASSUME pool \in Pools, NEW c, InOrder(c)
    PROVE  /\ IsSeq(TypeNameCalls(c))
           /\ \A d \in Range(TypeNameCalls(c)) : d.of \in Names(c.of)
<1> DEFINE m == Multiname(c)
           S == {Call(c.fn, i) : i \in Names(c.of)}
           a == [k \in DOMAIN m.params |-> Call(c.fn, m.params[k])]
           b == <<Call(c.fn, m.name)>>
<1>1. IsSeq(m.params)
  BY PoolsAssumption DEF InOrder, Known, Multiname, Range
<1>2. Names(c.of) = {m.name} \cup Range(m.params)
  BY DEF Names, Multiname
<1>3. Len(m.params) \in Nat /\ DOMAIN m.params = 1..Len(m.params)
  BY <1>1, SeqShape
<1>4. \A k \in DOMAIN m.params : Call(c.fn, m.params[k]) \in S
  BY <1>2 DEF Range
<1>5. Call(c.fn, m.name) \in S
  BY <1>2
<1> HIDE DEF S, m
<1>6. a \in Seq(S)
  <2>1. a \in [1..Len(m.params) -> S]
    BY <1>3, <1>4
  <2> QED
    BY <1>3, <2>1, SeqDef
<1>7. b \in Seq(S)
  BY <1>5
<1>8. a \o b \in Seq(S)
  BY <1>6, <1>7, ConcatProperties
<1>9. TypeNameCalls(c) = a \o b
  BY DEF TypeNameCalls, m
<1> HIDE DEF a, b
<1>10. Range(a \o b) \subseteq S /\ IsSeq(a \o b)
  BY <1>8, ItsRange, RangeOfSeq
<1>11. \A d \in S : d.of \in Names(c.of)
  BY DEF S, Call
<1> QED
  BY <1>9, <1>10, <1>11

\* Any other multiname calls no accessor of multinames.
LEMMA NameCallsAre ==
    ASSUME NEW m
    PROVE  /\ IsSeq(NameCalls(m))
           /\ \A d \in Range(NameCalls(m)) : d.fn \notin Recursive
<1> DEFINE s == Call("getString", m.name)
           n == Call("getNamespace", m.ns)
           t == Call("getNamespaceSet", m.nsset)
<1>1. s.fn \notin Recursive /\ n.fn \notin Recursive /\ t.fn \notin Recursive
  BY DEF Call, Recursive
<1> HIDE DEF s, n, t
<1>2. \/ NameCalls(m) = <<s>> \o <<n>>
      \/ NameCalls(m) = <<s>>
      \/ NameCalls(m) = <<s>> \o <<t>>
      \/ NameCalls(m) = <<t>>
      \/ NameCalls(m) = <<>>
  BY DEF NameCalls, s, n, t
<1>3. \A x \in {s, n, t} : x.fn \notin Recursive
  BY <1>1
<1>4. \/ NameCalls(m) = <<>> 
      \/ \E x \in {s, n, t} : NameCalls(m) = <<x>>
      \/ \E x, y \in {s, n, t} : NameCalls(m) = <<x>> \o <<y>>
  BY <1>2
<1>5. CASE NameCalls(m) = <<>>
  BY <1>5, NoCall
<1>6. ASSUME NEW x \in {s, n, t}, NameCalls(m) = <<x>>
      PROVE  IsSeq(NameCalls(m)) /\ \A d \in Range(NameCalls(m)) : d.fn \notin Recursive
  BY <1>3, <1>6, OneCall
<1>7. ASSUME NEW x \in {s, n, t}, NEW y \in {s, n, t}, NameCalls(m) = <<x>> \o <<y>>
      PROVE  IsSeq(NameCalls(m)) /\ \A d \in Range(NameCalls(m)) : d.fn \notin Recursive
  <2>1. IsSeq(<<x>> \o <<y>>) /\ Range(<<x>> \o <<y>>) = {x, y}
    BY TwoCalls
  <2> QED
    BY <1>3, <1>7, <2>1
<1> QED
  BY <1>4, <1>5, <1>6, <1>7

LEMMA CallsAre ==
    ASSUME pool \in Pools, NEW c
    PROVE  IsSeq(Calls(c)) /\ \A d \in Range(Calls(c)) : Below(c, d)
<1>1. CASE InOrder(c)
  <2>1. Calls(c) = TypeNameCalls(c)
    BY <1>1 DEF Calls, InOrder, Known, Recursive
  <2> QED
    BY <1>1, <2>1, TypeCalls DEF Below, InOrder
<1>2. CASE Known(c) /\ ~InOrder(c)
  <2>1. \A d : d.fn \notin Recursive => Below(c, d)
    BY <1>2 DEF Below, Known
  <2>2. \/ Calls(c) = NameCalls(Multiname(c))
        \/ Calls(c) = <<Call("getString", Multiname(c).name)>>
    BY <1>2 DEF Calls, InOrder, Known, Recursive
  <2>3. Call("getString", Multiname(c).name).fn \notin Recursive
    BY DEF Call, Recursive
  <2> QED
    BY <2>1, <2>2, <2>3, NameCallsAre, OneCall
<1>3. CASE ~Known(c)
  <2>1. \/ Calls(c) = <<>>
        \/ Rank(c) = 1 /\ \E x : Calls(c) = <<Call("getString", x)>>
    BY <1>3 DEF Calls, Rank
  <2>2. ASSUME NEW x, Rank(c) = 1, Calls(c) = <<Call("getString", x)>>
        PROVE  IsSeq(Calls(c)) /\ \A d \in Range(Calls(c)) : Below(c, d)
    <3> DEFINE d == Call("getString", x)
    <3>1. ~Known(d) /\ Rank(d) = 0
      BY DEF Call, Known, Recursive, Rank
    <3>2. Below(c, d)
      BY <2>2, <3>1 DEF Below
    <3> HIDE DEF d
    <3> QED
      BY <2>2, <3>2, OneCall DEF d
  <2> QED
    BY <2>1, <2>2, NoCall
<1> QED
  BY <1>1, <1>2, <1>3

-----------------------------------------------------------------------------
(***************************************************************************)
(* The stack is a path: every call was made by the one before it.          *)
(***************************************************************************)
Framed(frame) ==
    /\ DOMAIN frame = {"call", "todo"}
    /\ IsSeq(frame.todo)
    /\ \A d \in Range(frame.todo) : Below(frame.call, d)

\* Two frames of the stack: the names are all outside of the rest, and each
\* names the next.
Linked(s, i, j) ==
    LET c == s[i].call
        d == s[j].call
    IN  /\ Known(d) => InOrder(c)
        /\ Known(d) /\ j = i + 1 => d.of \in Names(c.of)
        /\ ~Known(c) => Rank(d) + (j - i) <= Rank(c)

Path(s) ==
    /\ IsSeq(s)
    /\ \A i \in DOMAIN s : Framed(s[i])
    /\ \A i, j \in DOMAIN s : i < j => Linked(s, i, j)

PInv == pool \in Pools /\ Path(stack)


LEMMA EmptyPath == Path(<<>>)
<1>1. IsSeq(<<>>) /\ DOMAIN <<>> = {}
  BY NoCall
<1> QED
  BY <1>1 DEF Path

\* One more call, by the innermost of the calls or the first of all.
LEMMA Longer ==
    ASSUME pool \in Pools, NEW s, Path(s), NEW c,
           s # <<>> => Below(s[Len(s)].call, c)
    PROVE  Path(Entered(s, c))
<1> DEFINE e == [call |-> c, todo |-> Calls(c)]
           n == Len(s)
           t == Append(s, e)
<1>1. IsSeq(s) /\ n \in Nat /\ DOMAIN s = 1..n
  BY SeqShape DEF Path
<1>2. e.call = c /\ Framed(e)
  BY CallsAre DEF Framed
<1> HIDE DEF e
<1>3. IsSeq(t) /\ DOMAIN t = 1..(n + 1) /\ (\A i \in 1..n : t[i] = s[i]) /\ t[n + 1] = e
  BY <1>1, Pushed
<1> HIDE DEF t
<1>4. \A i \in DOMAIN t : Framed(t[i])
  <2> TAKE i \in DOMAIN t
  <2>1. CASE i \in 1..n
    BY <1>1, <1>3, <2>1 DEF Path
  <2>2. CASE i = n + 1
    BY <1>2, <1>3, <2>2
  <2> QED
    BY <1>1, <1>3, <2>1, <2>2
<1>5. ASSUME NEW i \in DOMAIN t, NEW j \in DOMAIN t, i < j
      PROVE  Linked(t, i, j)
  <2>1. i \in 1..n /\ t[i] = s[i]
    BY <1>1, <1>3, <1>5
  <2>2. CASE j \in 1..n
    <3>1. Linked(s, i, j) /\ t[j] = s[j]
      BY <1>1, <1>3, <1>5, <2>1, <2>2 DEF Path
    <3> QED
      BY <2>1, <3>1 DEF Linked
  <2>3. CASE j = n + 1
    <3>1. t[j].call = c
      BY <1>2, <1>3, <2>3
    <3>2. Below(s[n].call, c) /\ n \in 1..n
      <4>1. s # <<>>
        BY <1>1, <2>1, NoCall
      <4> QED
        BY <1>1, <2>1, <4>1
    <3>3. CASE i = n
      BY <2>1, <2>3, <3>1, <3>2, <3>3, <1>1 DEF Linked, Below, Rank
    <3>4. CASE i # n
      <4>1. i < n
        BY <1>1, <2>1, <3>4
      <4>2. Linked(s, i, n)
        BY <1>1, <2>1, <3>2, <4>1 DEF Path
      <4>3. Known(c) => InOrder(s[i].call)
        BY <3>2, <4>2 DEF Linked, Below, InOrder
      <4>4. Known(s[i].call)
        <5> SUFFICES ASSUME ~Known(s[i].call)
                     PROVE  FALSE
          OBVIOUS
        <5>1. ~Known(s[n].call) /\ Rank(s[n].call) + (n - i) <= Rank(s[i].call)
          BY <4>2 DEF Linked, InOrder
        <5>2. Rank(s[n].call) = 1
          BY <3>2, <5>1 DEF Below
        <5>3. Rank(s[i].call) <= 1
          BY DEF Rank
        <5>4. n - i >= 1
          BY <1>1, <2>1, <4>1
        <5> QED
          BY <1>1, <2>1, <5>1, <5>2, <5>3, <5>4 DEF Rank
      <4>5. j # i + 1
        BY <1>1, <2>1, <2>3, <3>4
      <4> QED
        BY <2>1, <3>1, <4>3, <4>4, <4>5 DEF Linked
    <3> QED
      BY <3>3, <3>4
  <2> QED
    BY <1>1, <1>3, <1>5, <2>2, <2>3
<1>6. Path(t)
  BY <1>3, <1>4, <1>5 DEF Path
<1> QED
  BY <1>6 DEF t, e, Entered

\* The innermost call makes one of those that it still has to make.
LEMMA Narrower ==
    ASSUME NEW s, Path(s), s # <<>>, NEW k \in DOMAIN s[Len(s)].todo,
           NEW t, t = [s EXCEPT ![Len(s)].todo = RemoveAt(@, k)]
    PROVE  Path(t) /\ t # <<>> /\ t[Len(t)].call = s[Len(s)].call
<1> DEFINE n == Len(s)
           f == s[n]
           g == [f EXCEPT !.todo = RemoveAt(f.todo, k)]
<1>1. IsSeq(s) /\ n \in Nat \ {0} /\ DOMAIN s = 1..n
  BY SeqShape DEF Path
<1>2. Framed(f)
  BY <1>1 DEF Path
<1>3. t = [s EXCEPT ![n] = g]
  OBVIOUS
<1>4. g.call = f.call /\ Framed(g)
  <2>1. IsSeq(RemoveAt(f.todo, k)) /\ Range(RemoveAt(f.todo, k)) \subseteq Range(f.todo)
    BY <1>2, Removed DEF Framed
  <2> HIDE DEF f
  <2>2. DOMAIN f = {"call", "todo"}
    BY <1>2 DEF Framed
  <2>3. DOMAIN g = {"call", "todo"} /\ g.call = f.call /\ g.todo = RemoveAt(f.todo, k)
    BY <2>2
  <2> HIDE DEF g
  <2> QED
    BY <1>2, <2>1, <2>3 DEF Framed
<1> HIDE DEF g
<1>5. /\ IsSeq(t) /\ t # <<>>
      /\ DOMAIN t = 1..n /\ Len(t) = n
      /\ \A i \in 1..n : t[i] = IF i = n THEN g ELSE s[i]
  BY <1>1, <1>3, Replaced
<1> HIDE DEF n
<1>6. \A i \in 1..n : t[i].call = s[i].call /\ Framed(t[i])
  BY <1>1, <1>4, <1>5 DEF Path, f
<1>7. \A i, j \in DOMAIN t : i < j => Linked(t, i, j)
  BY <1>1, <1>5, <1>6 DEF Path, Linked
<1>8. t[n].call = s[n].call
  BY <1>1, <1>6
<1> QED
  BY <1>5, <1>6, <1>7, <1>8 DEF Path, n

\* The innermost call returns.
LEMMA Shorter ==
    ASSUME NEW s, Path(s), s # <<>>
    PROVE  Path(Front(s))
<1> DEFINE n == Len(s)
           t == Front(s)
<1>1. IsSeq(s) /\ n \in Nat \ {0} /\ DOMAIN s = 1..n
  BY SeqShape DEF Path
<1>2. IsSeq(t) /\ DOMAIN t = 1..(n - 1) /\ \A i \in 1..(n - 1) : t[i] = s[i]
  BY <1>1, Popped
<1> HIDE DEF n, t
<1>3. \A i \in DOMAIN t : i \in DOMAIN s /\ t[i] = s[i]
  BY <1>1, <1>2
<1>4. Path(t)
  BY <1>2, <1>3 DEF Path, Linked
<1> QED
  BY <1>4 DEF t

LEMMA PathStays ==
    ASSUME NEW s, UNCHANGED pool
    PROVE  Path(s)' <=> Path(s')
BY DEF Path, Framed, Linked, Below, InOrder, Known, Multiname, Names, Rank

LEMMA LemmaEnter ==
    ASSUME PInv, UNCHANGED pool, NEW c, NEW below, Path(below),
           below # <<>> => Below(below[Len(below)].call, c),
           Enter(c, below)
    PROVE  PInv'
<1>1. stack' = Entered(below, c) \/ stack' = <<>>
  BY DEF Enter
<1>2. Path(stack')
  BY <1>1, Longer, EmptyPath DEF PInv
<1>3. Path(stack)'
  BY <1>2, PathStays
<1> QED
  BY <1>3 DEF PInv

LEMMA LemmaNext == PInv /\ [Next]_vars => PInv'
<1> SUFFICES ASSUME PInv, [Next]_vars
             PROVE  PInv'
  OBVIOUS
<1>1. UNCHANGED pool
  BY DEF Next, vars, Ask, Descend, Return, Ended
<1>2. CASE Ask
  <2>1. Enter(query, <<>>)
    BY <1>2 DEF Ask
  <2> QED
    BY <1>1, <2>1, EmptyPath, LemmaEnter
<1>3. CASE Descend
  <2>1. stack # <<>>
    BY <1>3 DEF Descend
  <2>2. PICK k \in DOMAIN Top.todo :
               Enter(Top.todo[k], [stack EXCEPT ![Len(stack)].todo = RemoveAt(@, k)])
    BY <1>3 DEF Descend
  <2> DEFINE below == [stack EXCEPT ![Len(stack)].todo = RemoveAt(@, k)]
             n == Len(stack)
  <2>3. Top = stack[n] /\ n \in DOMAIN stack
    BY <2>1, SeqShape DEF Top, Last, PInv, Path
  <2>4. Framed(stack[n]) /\ k \in DOMAIN stack[n].todo
    BY <2>2, <2>3 DEF PInv, Path
  <2>5. Below(stack[n].call, Top.todo[k])
    BY <2>3, <2>4 DEF Framed, Range
  <2>6. Path(below) /\ below # <<>> /\ below[Len(below)].call = stack[n].call
    BY <2>1, <2>4, Narrower DEF PInv
  <2> HIDE DEF below, n
  <2> QED
    BY <1>1, <2>2, <2>5, <2>6, LemmaEnter DEF below
<1>4. CASE Return
  <2>1. stack # <<>> /\ stack' = Front(stack)
    BY <1>4 DEF Return
  <2>2. Path(stack')
    BY <2>1, Shorter DEF PInv
  <2> QED
    BY <1>1, <2>2, PathStays DEF PInv
<1>5. CASE UNCHANGED vars
  <2>1. stack' = stack
    BY <1>5 DEF vars
  <2> QED
    BY <1>1, <2>1, PathStays DEF PInv
<1> QED
  BY <1>2, <1>3, <1>4, <1>5 DEF Next, Ended

\* The stack of an access is a path through the pool, in which every name is
\* one that the entry before it is made of.
THEOREM Invariance == Spec => []PInv
<1>1. Init => PInv
  BY EmptyPath DEF Init, PInv
<1> QED
  BY <1>1, LemmaNext, PTL DEF Spec

-----------------------------------------------------------------------------
(***************************************************************************)
(* Without a cycle, no entry is on the stack twice.                        *)
(***************************************************************************)
LEMMA OnceOnTheStack ==
    ASSUME PInv, Acyclic, NEW i \in DOMAIN stack, NEW j \in DOMAIN stack, i < j,
           Known(stack[i].call), Known(stack[j].call)
    PROVE  stack[i].call.of # stack[j].call.of
<1> SUFFICES ASSUME stack[i].call.of = stack[j].call.of
             PROVE  FALSE
  OBVIOUS
<1> DEFINE entry(l) == stack[l].call.of
           S == {entry(l) : l \in i..(j - 1)}
<1>1. Len(stack) \in Nat /\ DOMAIN stack = 1..Len(stack)
  BY SeqShape DEF PInv, Path
<1>2. \A l \in i..(j - 1) : l \in DOMAIN stack /\ l < j /\ l + 1 \in DOMAIN stack
  BY <1>1
<1>3. \A l \in i..(j - 1) : InOrder(stack[l].call)
  BY <1>2 DEF PInv, Path, Linked
<1>4. \A l \in i..(j - 1) : entry(l + 1) \in S
  <2> TAKE l \in i..(j - 1)
  <2>1. l + 1 \in i..(j - 1) \/ l + 1 = j
    BY <1>1
  <2>2. i \in i..(j - 1)
    BY <1>1
  <2> QED
    BY <2>1, <2>2
<1>5. \A l \in i..(j - 1) : entry(l + 1) \in Names(entry(l))
  <2> TAKE l \in i..(j - 1)
  <2>1. Known(stack[l + 1].call)
    <3>1. l + 1 \in i..(j - 1) \/ l + 1 = j
      BY <1>1
    <3> QED
      BY <1>3, <3>1 DEF InOrder
  <2>2. Linked(stack, l, l + 1)
    <3>1. l < l + 1
      BY <1>1
    <3> QED
      BY <1>2, <3>1 DEF PInv, Path
  <2> QED
    BY <2>1, <2>2 DEF Linked
<1>6. S \in (SUBSET TypeNames) \ {{}}
  <2>1. \A l \in i..(j - 1) : entry(l) \in TypeNames
    BY <1>3 DEF InOrder, Known, Multiname, TypeNames
  <2>2. i \in i..(j - 1)
    BY <1>1
  <2> QED
    BY <2>1, <2>2
<1>7. PICK e \in S : Names(e) \cap S = {}
  <2> HIDE DEF S
  <2> QED
    BY <1>6 DEF Acyclic
<1>8. PICK l \in i..(j - 1) : e = entry(l)
  BY <1>7
<1> QED
  BY <1>4, <1>5, <1>7, <1>8

\* At the end of a stack there are at most two calls that are about no name.
LEMMA DeepNames ==
    ASSUME NEW s, Path(s), NEW N \in Nat, Len(s) > N + 2, NEW i \in 1..(N + 1)
    PROVE  i \in DOMAIN s /\ Known(s[i].call)
<1> DEFINE n == Len(s)
<1>1. n \in Nat /\ DOMAIN s = 1..n
  BY SeqShape DEF Path
<1> HIDE DEF n
<1>3. n > N + 2
  BY DEF n
<1>4. i \in DOMAIN s /\ n \in DOMAIN s /\ i < n /\ n - i >= 2 /\ n - i \in Int
  BY <1>1, <1>3
<1>5. SUFFICES ASSUME ~Known(s[i].call)
               PROVE  FALSE
  BY <1>4
<1>6. Rank(s[n].call) + (n - i) <= Rank(s[i].call)
  BY <1>4, <1>5 DEF Path, Linked
<1>7. Rank(s[n].call) \in {0, 1} /\ Rank(s[i].call) \in {0, 1}
  BY DEF Rank
<1> QED
  BY <1>4, <1>6, <1>7

\* Without a cycle, the stack holds every entry at most once, and at its end
\* two more calls (getMultiname, getMultinameHRF): it never ends in a pool of up
\* to StackDepth names.
THEOREM StackSuffices == Spec => []DepthBounded
<1>1. PInv => DepthBounded
  <2> SUFFICES ASSUME PInv, Acyclic, ~(Len(stack) <= Len(pool.multinames) + 2)
               PROVE  FALSE
    BY DEF DepthBounded
  <2> DEFINE n == Len(stack)
             N == Len(pool.multinames)
  <2>1. n \in Nat /\ DOMAIN stack = 1..n
    BY SeqShape DEF PInv, Path
  <2>2. N \in Nat /\ DOMAIN pool.multinames = 1..N
    BY PoolsAssumption, SeqShape DEF PInv
  <2>3. n > N + 2
    BY <2>1, <2>2
  <2>4. \A i \in 1..(N + 1) : i \in DOMAIN stack /\ Known(stack[i].call)
    BY <2>2, <2>3, DeepNames DEF PInv
  <2> HIDE DEF n, N
  <2>5. \A i \in 1..(N + 1) : Known(stack[i].call)
    BY <2>4
  <2> DEFINE f == [i \in 1..(N + 1) |-> stack[i].call.of]
  <2>6. f \in [1..(N + 1) -> 1..N]
    BY <2>2, <2>5 DEF Known
  <2>7. /\ IsFiniteSet(1..N) /\ Cardinality(1..N) = N
        /\ IsFiniteSet(1..(N + 1)) /\ Cardinality(1..(N + 1)) = N + 1
    <3>1. Cardinality(1..N) = IF 1 > N THEN 0 ELSE N - 1 + 1
      BY <2>2, FS_Interval
    <3>2. Cardinality(1..(N + 1)) = IF 1 > N + 1 THEN 0 ELSE N + 1 - 1 + 1
      BY <2>2, FS_Interval
    <3>3. IsFiniteSet(1..N) /\ IsFiniteSet(1..(N + 1))
      BY <2>2, FS_Interval
    <3> QED
      BY <2>2, <3>1, <3>2, <3>3
  <2> HIDE DEF f
  <2>8. PICK x \in 1..(N + 1), y \in 1..(N + 1) : x # y /\ f[x] = f[y]
    <3>1. Cardinality(1..N) < Cardinality(1..(N + 1))
      BY <2>2, <2>7
    <3> QED
      BY <2>6, <2>7, <3>1, FS_PigeonHole
  <2>9. x < y \/ y < x
    BY <2>2, <2>8
  <2>10. stack[x].call.of = stack[y].call.of
    BY <2>8 DEF f
  <2> QED
    BY <2>4, <2>5, <2>9, <2>10, OnceOnTheStack
<1> QED
  BY <1>1, Invariance, PTL

LEMMA IntervalSize ==
    ASSUME NEW N \in Nat
    PROVE  IsFiniteSet(1..N) /\ Cardinality(1..N) = N
<1>1. Cardinality(1..N) = IF 1 > N THEN 0 ELSE N - 1 + 1
  BY FS_Interval
<1> QED
  BY <1>1, FS_Interval

\* Sets that grow within 1..N, and stand still once they have stood still,
\* stand still after N steps.
LEMMA StandsStill ==
    ASSUME NEW N \in Nat, NEW X,
           \A d \in Nat : X[d] \subseteq 1..N /\ X[d] \subseteq X[d + 1],
           \A d \in Nat : X[d] = X[d + 1] => X[d + 1] = X[d + 1 + 1]
    PROVE  X[N] = X[N + 1]
<1> DEFINE D == {d \in Nat : X[d] = X[d + 1] \/ Cardinality(X[d]) >= d}
<1>1. IsFiniteSet(1..N) /\ Cardinality(1..N) = N
  BY IntervalSize
<1>2. \A d \in Nat : IsFiniteSet(X[d]) /\ Cardinality(X[d]) \in Nat
  BY <1>1, FS_Subset, FS_CardinalityType
<1>3. 0 \in D
  BY <1>2
<1>4. ASSUME NEW d \in Nat, d \in D
      PROVE  d + 1 \in D
  <2>1. CASE X[d] = X[d + 1]
    BY <2>1
  <2>2. CASE X[d] # X[d + 1]
    <3>1. X[d] \in SUBSET X[d + 1] /\ IsFiniteSet(X[d + 1])
      BY <1>2
    <3>2. Cardinality(X[d]) <= Cardinality(X[d + 1]) /\ Cardinality(X[d]) # Cardinality(X[d + 1])
      BY <2>2, <3>1, FS_Subset
    <3>3. Cardinality(X[d]) >= d /\ Cardinality(X[d]) \in Nat /\ Cardinality(X[d + 1]) \in Nat
      BY <1>2, <1>4, <2>2
    <3>4. Cardinality(X[d + 1]) >= d + 1
      BY <3>2, <3>3
    <3> QED
      BY <3>4
  <2> QED
    BY <2>1, <2>2
<1>5. N \in D
  <2> HIDE DEF D
  <2> QED
    BY <1>3, <1>4, NatInductive
<1>6. CASE Cardinality(X[N]) >= N
  <2>1. X[N] \in SUBSET (1..N) /\ Cardinality(X[N]) <= N
    BY <1>1, FS_Subset
  <2>2. Cardinality(X[N]) = Cardinality(1..N)
    BY <1>1, <1>2, <1>6, <2>1
  <2>3. X[N] = 1..N
    BY <1>1, <2>1, <2>2, FS_Subset
  <2>4. X[N] \subseteq X[N + 1] /\ X[N + 1] \subseteq 1..N
    <3>1. N + 1 \in Nat
      OBVIOUS
    <3> QED
      BY <3>1
  <2> QED
    BY <2>3, <2>4
<1> QED
  BY <1>5, <1>6

-----------------------------------------------------------------------------
Outcomes == {"text", "throw", "crash"}

\* What is known better in b than in a: a call that returns is settled, one
\* that throws goes on doing so, and a crash may turn out to be none.
Sharper(a, b) ==
    /\ "text" \in a => b = a
    /\ "throw" \in a => "throw" \in b
    /\ "crash" \in b => "crash" \in a
    /\ "text" \in b /\ "text" \notin a => "crash" \in a

LEMMA SharperStill ==
    ASSUME NEW a, NEW b, NEW c, Sharper(a, b), Sharper(b, c)
    PROVE  Sharper(a, c)
BY DEF Sharper

LEMMA TurnIs ==
    ASSUME NEW calls, NEW e
    PROVE  e \in InTurn(calls) <=>
             IF e = "text" THEN \A k \in DOMAIN calls : "text" \in calls[k]
             ELSE \E k \in DOMAIN calls :
                    e \in calls[k] /\ \A before \in 1..(k - 1) : "text" \in calls[before]
<1> DEFINE returns(k) == calls[k] \cap Text # {}
           fails(k) == calls[k] \ Text
           made == {l \in DOMAIN calls : \A before \in 1..(l - 1) : returns(before)}
           all == {x \in Text : \A k \in DOMAIN calls : returns(k)}
<1>1. InTurn(calls) = (UNION {fails(k) : k \in made}) \cup all
  BY DEF InTurn
<1>2. \A k : returns(k) <=> "text" \in calls[k]
  BY DEF Text
<1>3. e \in all <=> e = "text" /\ \A k \in DOMAIN calls : "text" \in calls[k]
  BY <1>2 DEF Text
<1>4. \A k : e \in fails(k) <=> e \in calls[k] /\ e # "text"
  BY DEF Text
<1>5. \A k : k \in made <=> k \in DOMAIN calls /\ \A before \in 1..(k - 1) : "text" \in calls[before]
  BY <1>2
<1> HIDE DEF made, all, fails, returns
<1>6. e \in InTurn(calls) <=> e \in all \/ \E k \in made : e \in fails(k)
  BY <1>1
<1> QED
  BY <1>3, <1>4, <1>5, <1>6

\* The first of the calls that is not known to return.
LEMMA FirstOpen ==
    ASSUME NEW n \in Nat, NEW calls, NEW k \in 1..n, "text" \notin calls[k]
    PROVE  \E b \in 1..k : "text" \notin calls[b] /\ \A before \in 1..(b - 1) : "text" \in calls[before]
<1> DEFINE T == {b \in 1..k : "text" \notin calls[b]}
<1>1. T \subseteq Nat /\ T # {}
  BY SMT
<1>2. PICK b \in T : \A m \in T : b <= m
  BY <1>1, NatMinimum
<1>3. \A before \in 1..(b - 1) : before \in 1..k /\ ~(b <= before)
  BY <1>2
<1> QED
  BY <1>2, <1>3

LEMMA TurnSharper ==
    ASSUME NEW n \in Nat, NEW a, NEW b, DOMAIN a = 1..n, DOMAIN b = 1..n,
           a = [k \in 1..n |-> a[k]], b = [k \in 1..n |-> b[k]],
           \A k \in 1..n : Sharper(a[k], b[k])
    PROVE  Sharper(InTurn(a), InTurn(b))
<1>1. \A k \in 1..n : \A before \in 1..(k - 1) : before \in 1..n
  OBVIOUS
<1>2. ASSUME "text" \in InTurn(a)
      PROVE  InTurn(b) = InTurn(a)
  <2>1. \A k \in 1..n : a[k] = b[k]
    BY <1>2, TurnIs DEF Sharper
  <2>2. a = b
    BY <2>1
  <2> QED
    BY <2>2
<1>3. ASSUME "throw" \in InTurn(a)
      PROVE  "throw" \in InTurn(b)
  <2>1. PICK k \in 1..n : "throw" \in a[k] /\ \A before \in 1..(k - 1) : "text" \in a[before]
    BY <1>3, TurnIs
  <2>2. "throw" \in b[k] /\ \A before \in 1..(k - 1) : "text" \in b[before]
    BY <1>1, <2>1 DEF Sharper
  <2> QED
    BY <2>2, TurnIs
<1>4. ASSUME NEW k \in 1..n, "text" \notin a[k], \A before \in 1..k : "text" \in b[before] \/ "crash" \in b[before]
      PROVE  "crash" \in InTurn(a)
  <2>1. PICK c \in 1..k : "text" \notin a[c] /\ \A before \in 1..(c - 1) : "text" \in a[before]
    BY <1>4, FirstOpen
  <2>2. "text" \in b[c] \/ "crash" \in b[c]
    BY <1>4, <2>1
  <2>4. c \in 1..n
    BY <2>1
  <2>3. "crash" \in a[c]
    BY <2>1, <2>2, <2>4 DEF Sharper
  <2> QED
    BY <2>1, <2>3, <2>4, TurnIs
<1>5. ASSUME "crash" \in InTurn(b)
      PROVE  "crash" \in InTurn(a)
  <2>1. PICK k \in 1..n : "crash" \in b[k] /\ \A before \in 1..(k - 1) : "text" \in b[before]
    BY <1>5, TurnIs
  <2>2. CASE \A before \in 1..(k - 1) : "text" \in a[before]
    <3>1. "crash" \in a[k]
      BY <2>1 DEF Sharper
    <3> QED
      BY <2>2, <3>1, TurnIs
  <2>3. ASSUME NEW c \in 1..(k - 1), "text" \notin a[c]
        PROVE  "crash" \in InTurn(a)
    <3>1. c \in 1..n /\ \A before \in 1..c : before \in 1..(k - 1)
      BY <2>3
    <3> QED
      BY <1>4, <2>1, <2>3, <3>1
  <2> QED
    BY <2>2, <2>3
<1>6. ASSUME "text" \in InTurn(b), "text" \notin InTurn(a)
      PROVE  "crash" \in InTurn(a)
  <2>1. PICK k \in 1..n : "text" \notin a[k]
    BY <1>6, TurnIs
  <2>2. \A c \in 1..n : "text" \in b[c]
    BY <1>6, TurnIs
  <2>3. \A before \in 1..k : before \in 1..n
    OBVIOUS
  <2> QED
    BY <1>4, <2>1, <2>2, <2>3
<1> QED
  BY <1>2, <1>3, <1>5, <1>6 DEF Sharper

-----------------------------------------------------------------------------
(***************************************************************************)
(* The rounds of Walk.                                                     *)
(***************************************************************************)
IsNames(names) ==
    /\ IsSeq(names)
    /\ \A i \in DOMAIN names : names[i].kind = TypeName => IsSeq(names[i].params)

AreRounds(names, leaf, ends) ==
    /\ ends[0] = [i \in DOMAIN names |-> Crash]
    /\ \A d \in Nat : ends[d + 1] = Round(names, leaf, ends[d])

\* How the names of a TypeName end.
NamedEnds(m, inner) == [k \in DOMAIN NamesOf(m) |-> Entry(inner, NamesOf(m)[k])]

LEMMA NamesShape ==
    ASSUME NEW m, IsSeq(m.params)
    PROVE  Len(NamesOf(m)) = Len(m.params) + 1 /\ DOMAIN NamesOf(m) = 1..Len(NamesOf(m)) /\ Len(m.params) \in Nat
<1> DEFINE S == Range(m.params) \cup {m.name}
<1>1. m.params \in Seq(S) /\ m.name \in S
  BY SeqMonotonic DEF IsSeq
<1> HIDE DEF S
<1>2. Append(m.params, m.name) \in Seq(S) /\ Len(Append(m.params, m.name)) = Len(m.params) + 1
  BY <1>1, AppendProperties
<1> QED
  BY <1>1, <1>2, LenProperties DEF NamesOf

LEMMA RoundOf ==
    ASSUME NEW names, NEW leaf, NEW ends, AreRounds(names, leaf, ends), NEW d \in Nat
    PROVE  /\ DOMAIN ends[d] = DOMAIN names
           /\ \A i \in DOMAIN names :
                ends[d + 1][i] = IF names[i].kind = TypeName THEN InTurn(NamedEnds(names[i], ends[d]))
                                 ELSE leaf[i]
<1>1. ends[d + 1] = Round(names, leaf, ends[d])
  BY DEF AreRounds
<1>2. DOMAIN ends[d] = DOMAIN names
  <2>1. CASE d = 0
    BY <2>1 DEF AreRounds
  <2>2. CASE d # 0
    <3>1. d - 1 \in Nat /\ d - 1 + 1 = d
      BY <2>2
    <3>2. ends[d - 1 + 1] = Round(names, leaf, ends[d - 1])
      BY <3>1 DEF AreRounds
    <3> QED
      BY <3>1, <3>2 DEF Round
  <2> QED
    BY <2>1, <2>2
<1> QED
  BY <1>1, <1>2 DEF Round, NamedEnds

\* From round to round, more is known.
LEMMA RoundsSharper ==
    ASSUME NEW names, IsNames(names), NEW leaf, NEW ends, AreRounds(names, leaf, ends),
           NEW d \in Nat, NEW i \in DOMAIN names
    PROVE  Sharper(ends[d][i], ends[d + 1][i])
<1> DEFINE D == {e \in Nat : \A j \in DOMAIN names : Sharper(ends[e][j], ends[e + 1][j])}
<1>1. 0 \in D
  BY DEF AreRounds, Sharper, Crash
<1>2. ASSUME NEW e \in Nat, e \in D
      PROVE  e + 1 \in D
  <2> SUFFICES ASSUME NEW j \in DOMAIN names
               PROVE  Sharper(ends[e + 1][j], ends[e + 1 + 1][j])
    OBVIOUS
  <2> DEFINE a == NamedEnds(names[j], ends[e])
             b == NamedEnds(names[j], ends[e + 1])
             n == Len(NamesOf(names[j]))
  <2>1. /\ ends[e + 1][j] = IF names[j].kind = TypeName THEN InTurn(a) ELSE leaf[j]
        /\ ends[e + 1 + 1][j] = IF names[j].kind = TypeName THEN InTurn(b) ELSE leaf[j]
        /\ DOMAIN ends[e] = DOMAIN names /\ DOMAIN ends[e + 1] = DOMAIN names
    <3>1. e + 1 \in Nat
      OBVIOUS
    <3> QED
      BY <3>1, RoundOf
  <2>2. \A x : Sharper(Entry(ends[e], x), Entry(ends[e + 1], x))
    BY <1>2, <2>1 DEF Entry, Sharper
  <2>3. CASE names[j].kind = TypeName
    <3>1. n \in Nat /\ DOMAIN NamesOf(names[j]) = 1..n
      BY <2>3, NamesShape DEF IsNames
    <3>2. DOMAIN a = 1..n /\ DOMAIN b = 1..n /\ a = [k \in 1..n |-> a[k]] /\ b = [k \in 1..n |-> b[k]]
      BY <3>1 DEF NamedEnds
    <3>3. \A k \in 1..n : Sharper(a[k], b[k])
      BY <2>2, <3>1 DEF NamedEnds
    <3> HIDE DEF a, b, n
    <3> QED
      BY <2>1, <2>3, <3>1, <3>2, <3>3, TurnSharper
  <2>4. CASE names[j].kind # TypeName
    BY <2>1, <2>4 DEF Sharper
  <2> QED
    BY <2>3, <2>4
<1>3. d \in D
  <2> HIDE DEF D
  <2> QED
    BY <1>1, <1>2, NatInductive
<1> QED
  BY <1>3

LEMMA LaterSharper ==
    ASSUME NEW names, IsNames(names), NEW leaf, NEW ends, AreRounds(names, leaf, ends),
           NEW d \in Nat, NEW e \in Nat, d <= e, NEW i \in DOMAIN names
    PROVE  Sharper(ends[d][i], ends[e][i])
<1> DEFINE D == {n \in Nat : d <= n => Sharper(ends[d][i], ends[n][i])}
<1>1. 0 \in D
  BY DEF Sharper
<1>2. ASSUME NEW n \in Nat, n \in D
      PROVE  n + 1 \in D
  <2>1. Sharper(ends[n][i], ends[n + 1][i])
    BY RoundsSharper
  <2>2. d <= n + 1 => d <= n \/ d = n + 1
    OBVIOUS
  <2>3. Sharper(ends[n + 1][i], ends[n + 1][i])
    BY DEF Sharper
  <2> QED
    BY <1>2, <2>1, <2>2, <2>3, SharperStill
<1>3. e \in D
  <2> HIDE DEF D
  <2> QED
    BY <1>1, <1>2, NatInductive
<1> QED
  BY <1>3

\* Between two rounds nothing new is known of the outcomes E.
NoNews(E, a, b) == \A e \in E : e \in b => e \in a

LEMMA TurnNews ==
    ASSUME NEW E, "text" \in E, NEW n \in Nat, NEW a, NEW b, DOMAIN a = 1..n, DOMAIN b = 1..n,
           \A k \in 1..n : NoNews(E, a[k], b[k])
    PROVE  NoNews(E, InTurn(a), InTurn(b))
<1> SUFFICES ASSUME NEW e \in E, e \in InTurn(b)
             PROVE  e \in InTurn(a)
  BY DEF NoNews
<1>1. CASE e = "text"
  BY <1>1, TurnIs DEF NoNews
<1>2. CASE e # "text"
  <2>1. PICK k \in 1..n : e \in b[k] /\ \A before \in 1..(k - 1) : "text" \in b[before]
    BY <1>2, TurnIs
  <2>2. \A before \in 1..(k - 1) : before \in 1..n
    OBVIOUS
  <2>3. e \in a[k] /\ \A before \in 1..(k - 1) : "text" \in a[before]
    BY <2>1, <2>2 DEF NoNews
  <2> QED
    BY <1>2, <2>3, TurnIs
<1> QED
  BY <1>1, <1>2

LEMMA RoundNews ==
    ASSUME NEW names, IsNames(names), NEW leaf, NEW ends, AreRounds(names, leaf, ends),
           NEW E, "text" \in E, NEW d \in Nat,
           \A i \in DOMAIN names : NoNews(E, ends[d][i], ends[d + 1][i])
    PROVE  \A i \in DOMAIN names : NoNews(E, ends[d + 1][i], ends[d + 1 + 1][i])
<1> TAKE j \in DOMAIN names
<1> DEFINE a == NamedEnds(names[j], ends[d])
           b == NamedEnds(names[j], ends[d + 1])
           n == Len(NamesOf(names[j]))
<1>1. /\ ends[d + 1][j] = IF names[j].kind = TypeName THEN InTurn(a) ELSE leaf[j]
      /\ ends[d + 1 + 1][j] = IF names[j].kind = TypeName THEN InTurn(b) ELSE leaf[j]
      /\ DOMAIN ends[d] = DOMAIN names /\ DOMAIN ends[d + 1] = DOMAIN names
  <2>1. AreRounds(names, leaf, ends) /\ d \in Nat /\ d + 1 \in Nat
    OBVIOUS
  <2>2. ASSUME NEW p \in Nat
        PROVE  /\ DOMAIN ends[p] = DOMAIN names
               /\ \A i \in DOMAIN names :
                    ends[p + 1][i] = IF names[i].kind = TypeName THEN InTurn(NamedEnds(names[i], ends[p])) ELSE leaf[i]
    BY ONLY <2>1, RoundOf
  <2> QED
    BY ONLY <2>1, <2>2, j \in DOMAIN names
<1>2. \A x : NoNews(E, Entry(ends[d], x), Entry(ends[d + 1], x))
  BY <1>1 DEF Entry, NoNews
<1>3. CASE names[j].kind = TypeName
  <2>1. n \in Nat /\ DOMAIN NamesOf(names[j]) = 1..n
    BY <1>3, NamesShape DEF IsNames
  <2>2. DOMAIN a = 1..n /\ DOMAIN b = 1..n
    BY <2>1 DEF NamedEnds
  <2>3. \A k \in 1..n : NoNews(E, a[k], b[k])
    BY <1>2, <2>1 DEF NamedEnds
  <2> HIDE DEF a, b, n
  <2> QED
    BY <1>1, <1>3, <2>1, <2>2, <2>3, TurnNews
<1>4. CASE names[j].kind # TypeName
  BY <1>1, <1>4 DEF NoNews
<1> QED
  BY <1>3, <1>4

\* Once no more names are known to return, none ever will be.
LEMMA ReturnsStand ==
    ASSUME NEW names, IsNames(names), NEW leaf, NEW ends, AreRounds(names, leaf, ends),
           NEW d \in Nat, NEW e \in Nat,
           \A i \in DOMAIN names : NoNews({"text"}, ends[d][i], ends[d + 1][i]),
           NEW i \in DOMAIN names, "text" \in ends[e][i]
    PROVE  "text" \in ends[d][i]
<1> DEFINE same(n) == \A j \in DOMAIN names : NoNews({"text"}, ends[n][j], ends[n + 1][j])
           D == {n \in Nat : n >= d => same(n) /\ \A j \in DOMAIN names : NoNews({"text"}, ends[d][j], ends[n][j])}
<1>1. 0 \in D
  BY DEF NoNews
<1>2. ASSUME NEW n \in Nat, n \in D
      PROVE  n + 1 \in D
  <2>1. CASE n >= d
    <3>1. same(n + 1)
      BY <1>2, <2>1, RoundNews
    <3>2. \A j \in DOMAIN names : NoNews({"text"}, ends[d][j], ends[n + 1][j])
      BY <1>2, <2>1 DEF NoNews
    <3> HIDE DEF same
    <3> QED
      BY <3>1, <3>2
  <2>2. CASE n + 1 = d
    <3>1. same(n + 1)
      BY <2>2
    <3>2. \A j \in DOMAIN names : NoNews({"text"}, ends[d][j], ends[n + 1][j])
      BY <2>2 DEF NoNews
    <3> HIDE DEF same
    <3> QED
      BY <3>1, <3>2
  <2>3. CASE n + 1 < d
    <3> HIDE DEF same
    <3> QED
      BY <2>3
  <2> QED
    BY <2>1, <2>2, <2>3
<1>3. e \in D
  <2> HIDE DEF D
  <2> QED
    BY <1>1, <1>2, NatInductive
<1>4. CASE e >= d
  BY <1>3, <1>4 DEF NoNews
<1>5. CASE e < d
  BY <1>5, LaterSharper DEF Sharper
<1> QED
  BY <1>4, <1>5

\* One round more than there are names brings nothing new.
LEMMA RoundsSuffice ==
    ASSUME NEW names, IsNames(names), NEW leaf, NEW ends, AreRounds(names, leaf, ends),
           NEW i \in DOMAIN names
    PROVE  NoNews(Outcomes, ends[Len(names)][i], ends[Len(names) + 1][i])
<1> DEFINE N == Len(names)
           E == {"text", "throw"}
           same(d) == \A j \in DOMAIN names : NoNews(E, ends[d][j], ends[d + 1][j])
           returns(d) == {j \in DOMAIN names : "text" \in ends[d][j]}
           all == UNION {returns(d) : d \in Nat}
           X == [d \in Nat |-> returns(d) \cup {j \in DOMAIN names : j \notin all /\ "throw" \in ends[d][j]}]
<1>1. N \in Nat /\ DOMAIN names = 1..N
  BY SeqShape DEF IsNames
<1>2. \A d \in Nat : \A j : j \in X[d] <=> j \in DOMAIN names /\ ("text" \in ends[d][j] \/ (j \notin all /\ "throw" \in ends[d][j]))
  <2> HIDE DEF all
  <2> QED
    OBVIOUS
<1>3. \A d \in Nat : \A j \in DOMAIN names : "text" \in ends[d][j] => j \in all
  OBVIOUS
<1>4. \A j \in all : j \in DOMAIN names /\ \E d \in Nat : "text" \in ends[d][j]
  OBVIOUS
<1> HIDE DEF all, X
<1>5. ASSUME NEW d \in Nat
      PROVE  X[d] \subseteq 1..N /\ X[d] \subseteq X[d + 1]
  <2>1. d + 1 \in Nat
    OBVIOUS
  <2>2. \A j \in DOMAIN names : Sharper(ends[d][j], ends[d + 1][j])
    BY RoundsSharper
  <2>3. \A j \in X[d] : j \in X[d + 1]
    BY <1>2, <2>1, <2>2 DEF Sharper
  <2> QED
    BY <1>1, <1>2, <2>3
<1>6. ASSUME NEW d \in Nat, X[d] = X[d + 1]
      PROVE  same(d)
  <2> SUFFICES ASSUME NEW j \in DOMAIN names, NEW e \in E, e \in ends[d + 1][j]
               PROVE  e \in ends[d][j]
    BY DEF NoNews
  <2>1. d + 1 \in Nat
    OBVIOUS
  <2>2. \A l \in DOMAIN names : "text" \in ends[d + 1][l] => "text" \in ends[d][l]
    BY <1>2, <1>3, <1>6, <2>1
  <2>3. j \in all => "text" \in ends[d][j]
    BY <1>4, <2>2, ReturnsStand DEF NoNews
  <2>4. CASE j \in all
    BY <2>3, <2>4, RoundsSharper DEF Sharper
  <2>5. CASE j \notin all
    BY <1>2, <1>3, <1>6, <2>1, <2>5
  <2> QED
    BY <2>4, <2>5
<1>7. ASSUME NEW d \in Nat, X[d] = X[d + 1]
      PROVE  X[d + 1] = X[d + 1 + 1]
  <2>1. d + 1 \in Nat /\ d + 1 + 1 \in Nat
    OBVIOUS
  <2>2. same(d + 1)
    <3>1. same(d)
      BY <1>6, <1>7
    <3> QED
      BY <3>1, RoundNews
  <2>3. \A j \in X[d + 1 + 1] : j \in X[d + 1]
    BY <1>2, <2>1, <2>2 DEF NoNews
  <2> QED
    BY <1>5, <2>1, <2>3
<1>8. X[N] = X[N + 1]
  <2> HIDE DEF N, same
  <2> QED
    BY <1>1, <1>5, <1>7, StandsStill
<1>9. same(N)
  BY <1>1, <1>6, <1>8
<1>10. Sharper(ends[N][i], ends[N + 1][i])
  BY <1>1, RoundsSharper
<1> QED
  BY <1>9, <1>10 DEF NoNews, Outcomes, Sharper

\* The recursion of Walk, unfolded.
LEMMA WalkExists ==
    ASSUME NEW tables, Len(tables.multinames) \in Nat, NEW leaf
    PROVE  \E ends :
             /\ AreRounds(tables.multinames, leaf, ends)
             /\ \A index : Walk(tables, leaf, index) =
                  Entry(ends[Len(tables.multinames)], index) \cup (Entry(ends[StackDepth], index) \cap Crash)
<1> DEFINE names == tables.multinames
           O == {"text", "throw", "crash"} \cup UNION {leaf[i] : i \in DOMAIN names}
           V == [DOMAIN names -> SUBSET O]
           G == [p \in Nat \X V |-> Round(names, leaf, p[2])]
           first == [i \in DOMAIN names |-> Crash]
<1>1. first \in V
  BY DEF Crash
<1>2. \A inner \in V : Round(names, leaf, inner) \in V
  <2> SUFFICES ASSUME NEW inner \in V, NEW i \in DOMAIN names
               PROVE  (IF names[i].kind = TypeName
                       THEN InTurn([k \in DOMAIN NamesOf(names[i]) |-> Entry(inner, NamesOf(names[i])[k])])
                       ELSE leaf[i]) \subseteq O
    BY DEF Round
  <2> DEFINE calls == [k \in DOMAIN NamesOf(names[i]) |-> Entry(inner, NamesOf(names[i])[k])]
  <2>1. \A k \in DOMAIN calls : calls[k] \subseteq O
    BY DEF Entry, Text, Throw
  <2> HIDE DEF calls
  <2>2. InTurn(calls) \subseteq O
    <3> SUFFICES ASSUME NEW e \in InTurn(calls), e # "text"
                 PROVE  e \in O
      OBVIOUS
    <3>1. PICK k \in DOMAIN calls : e \in calls[k]
      BY TurnIs
    <3> QED
      BY <2>1, <3>1
  <2>3. leaf[i] \subseteq O
    OBVIOUS
  <2> QED
    BY <2>2, <2>3 DEF calls
<1> HIDE DEF V, first
<1>3. G \in StepsIn(V)
  BY <1>2 DEF StepsIn
<1>4. PICK f \in [Nat -> V] : Unfolds(f, first, G)
  BY <1>1, <1>3, NatRecursive
<1>5. \A d \in Nat : d # 0 => f[d] = Round(names, leaf, f[d - 1])
  <2> TAKE d \in Nat
  <2> HAVE d # 0
  <2>1. d - 1 \in Nat /\ f[d - 1] \in V
    BY <1>4
  <2>2. <<d, f[d - 1]>> \in Nat \X V
    BY <2>1
  <2>3. G[<<d, f[d - 1]>>] = Round(names, leaf, f[d - 1])
    BY <2>2
  <2> HIDE DEF G
  <2> QED
    BY <1>4, <2>3 DEF Unfolds
<1> DEFINE body(g) ==
             [depth \in Nat |-> IF depth = 0 THEN [i \in DOMAIN names |-> Crash]
                                ELSE Round(names, leaf, g[depth - 1])]
           w == CHOOSE g : g = body(g)
<1>6. f = body(f)
  <2>1. ASSUME NEW d \in Nat
        PROVE  f[d] = body(f)[d]
    <3>1. CASE d = 0
      <4>1. f[d] = first
        BY <1>4, <3>1 DEF Unfolds
      <4> QED
        BY <3>1, <4>1 DEF first
    <3>2. CASE d # 0
      BY <1>5, <3>2 DEF Round
    <3> QED
      BY <3>1, <3>2
  <2> QED
    BY <2>1
<1>7. w = body(w)
  <2> HIDE DEF body
  <2> QED
    BY <1>6
<1>8. \A d \in Nat : w[d + 1] = Round(names, leaf, w[d])
  <2> TAKE d \in Nat
  <2>1. d + 1 \in Nat /\ d + 1 # 0 /\ d + 1 - 1 = d
    OBVIOUS
  <2>2. \A g : body(g)[d + 1] = Round(names, leaf, g[d])
    BY <2>1 DEF Round
  <2>3. w[d + 1] = body(w)[d + 1]
    BY <1>7
  <2> HIDE DEF w, body
  <2> QED
    BY <2>2, <2>3
<1>10. w[0] = [i \in DOMAIN names |-> Crash]
  <2>1. w[0] = body(w)[0]
    BY <1>7
  <2>2. body(w)[0] = [i \in DOMAIN names |-> Crash]
    OBVIOUS
  <2> HIDE DEF w, body
  <2> QED
    BY <2>1, <2>2
<1>9. \A index : Walk(tables, leaf, index) =
        Entry(w[Len(names)], index) \cup (Entry(w[StackDepth], index) \cap Crash)
  BY Zenon DEF Walk
<1> HIDE DEF w
<1> QED
  BY <1>8, <1>9, <1>10 DEF AreRounds

-----------------------------------------------------------------------------
(***************************************************************************)
(* How a call ends, by the calls it makes.                                 *)
(***************************************************************************)
IsCall(c) == c.fn \in Accessors /\ (c.fn = "getNamespace" => c.of \in Nat)

\* How the entries end that are no TypeName.
Leaf(fn) ==
    [i \in DOMAIN pool.multinames |->
       IF fn = "getMultiname" THEN MultinameEnds(pool, pool.multinames[i])
                              ELSE MultinameEndsHRF(pool, pool.multinames[i])]

LEMMA NamesAre ==
    ASSUME pool \in Pools
    PROVE  /\ IsNames(pool.multinames)
           /\ Len(pool.multinames) \in Nat
           /\ DOMAIN pool.multinames = 1..Len(pool.multinames)
<1>1. \A i \in DOMAIN pool.multinames : pool.multinames[i] \in Range(pool.multinames)
  BY DEF Range
<1>2. IsSeq(pool.multinames)
  BY PoolsAssumption
<1> QED
  BY <1>1, <1>2, PoolsAssumption, SeqShape DEF IsNames

\* How an entry ends after all rounds, and may end after those of the stack.
Settled(ends, i) == Entry(ends[Len(pool.multinames)], i) \cup (Entry(ends[StackDepth], i) \cap Crash)

LEMMA EndsInRounds ==
    ASSUME pool \in Pools, NEW fn \in Recursive
    PROVE  \E ends :
             /\ AreRounds(pool.multinames, Leaf(fn), ends)
             /\ \A c : c.fn = fn => Ends(c) = Settled(ends, c.of)
<1>1. PICK ends :
             /\ AreRounds(pool.multinames, Leaf(fn), ends)
             /\ \A i : Walk(pool, Leaf(fn), i) = Settled(ends, i)
  BY NamesAre, WalkExists DEF Settled
<1>2. CASE fn = "getMultiname"
  <2>1. Leaf(fn) = [i \in DOMAIN pool.multinames |-> MultinameEnds(pool, pool.multinames[i])]
    BY <1>2 DEF Leaf
  <2>2. ASSUME NEW c, c.fn = fn
        PROVE  Ends(c) = Walk(pool, Leaf(fn), c.of)
    <3>1. Ends(c) = GetMultiname(pool, c.of)
      BY <1>2, <2>2 DEF Ends
    <3> QED
      BY <2>1, <3>1 DEF GetMultiname
  <2> QED
    BY <1>1, <2>2
<1>3. CASE fn = "getMultinameHRF"
  <2>1. Leaf(fn) = [i \in DOMAIN pool.multinames |-> MultinameEndsHRF(pool, pool.multinames[i])]
    BY <1>3 DEF Leaf
  <2>2. ASSUME NEW c, c.fn = fn
        PROVE  Ends(c) = Walk(pool, Leaf(fn), c.of)
    <3>1. Ends(c) = GetMultinameHRF(pool, c.of)
      BY <1>3, <2>2 DEF Ends
    <3> QED
      BY <2>1, <3>1 DEF GetMultinameHRF
  <2> QED
    BY <1>1, <2>2
<1> QED
  BY <1>2, <1>3 DEF Recursive

\* The calls of a TypeName, one by one.
LEMMA TypeNameCallsAre ==
    ASSUME pool \in Pools, NEW c, InOrder(c)
    PROVE  LET all == NamesOf(Multiname(c))
               calls == Calls(c)
           IN  /\ DOMAIN calls = 1..Len(all) /\ Len(calls) = Len(all) /\ Len(all) \in Nat
               /\ DOMAIN all = 1..Len(all)
               /\ \A k \in 1..Len(all) : calls[k] = Call(c.fn, all[k])
<1> DEFINE m == Multiname(c)
           S == {Call(c.fn, i) : i \in Range(m.params) \cup {m.name}}
           T == Range(m.params) \cup {m.name}
           a == [k \in DOMAIN m.params |-> Call(c.fn, m.params[k])]
           b == <<Call(c.fn, m.name)>>
           n == Len(m.params)
<1>1. IsSeq(m.params)
  BY PoolsAssumption DEF InOrder, Known, Multiname, Range
<1>2. n \in Nat /\ DOMAIN m.params = 1..n
  BY <1>1, SeqShape
<1>3. Calls(c) = a \o b
  BY DEF Calls, InOrder, Known, Recursive, TypeNameCalls
<1>4. m.params \in Seq(T) /\ m.name \in T
  BY <1>1, SeqMonotonic DEF IsSeq
<1>5. \A k \in DOMAIN m.params : m.params[k] \in T
  BY DEF Range
<1>6. a \in Seq(S) /\ Len(a) = n
  <2>1. \A k \in DOMAIN m.params : Call(c.fn, m.params[k]) \in S
    BY <1>5
  <2> HIDE DEF S, T, m, n
  <2>2. a \in [1..n -> S]
    BY <1>2, <2>1
  <2> QED
    BY <1>2, <2>2, SeqDef, LenProperties
<1>7. b \in Seq(S) /\ Len(b) = 1 /\ b[1] = Call(c.fn, m.name)
  OBVIOUS
<1> HIDE DEF S, T
<1>8. /\ a \o b \in Seq(S)
      /\ Len(a \o b) = n + 1
      /\ \A k \in 1..(n + 1) : (a \o b)[k] = IF k <= n THEN a[k] ELSE b[k - n]
  <2> HIDE DEF a, b, n
  <2>1. /\ a \o b \in Seq(S)
        /\ Len(a \o b) = Len(a) + Len(b)
        /\ \A k \in 1..(Len(a) + Len(b)) : (a \o b)[k] = IF k <= Len(a) THEN a[k] ELSE b[k - Len(a)]
    BY <1>6, <1>7, ConcatProperties
  <2> QED
    BY <1>6, <1>7, <2>1
<1>9. /\ Len(NamesOf(m)) = n + 1
      /\ DOMAIN NamesOf(m) = 1..(n + 1)
      /\ \A k \in 1..n : NamesOf(m)[k] = m.params[k]
      /\ NamesOf(m)[n + 1] = m.name
  <2> HIDE DEF m
  <2>1. /\ Append(m.params, m.name) \in Seq(T)
        /\ Len(Append(m.params, m.name)) = n + 1
        /\ \A k \in 1..n : Append(m.params, m.name)[k] = m.params[k]
        /\ Append(m.params, m.name)[n + 1] = m.name
    BY <1>4, AppendProperties
  <2> QED
    BY <2>1, LenProperties DEF NamesOf
<1>10. ASSUME NEW k \in 1..(n + 1)
       PROVE  (a \o b)[k] = Call(c.fn, NamesOf(m)[k])
  <2>1. CASE k <= n
    <3>1. (a \o b)[k] = a[k] /\ k \in 1..n
      BY <1>2, <1>8, <2>1
    <3>2. a[k] = Call(c.fn, m.params[k])
      BY <1>2, <3>1
    <3> HIDE DEF a, b, m, n
    <3> QED
      BY <1>9, <3>1, <3>2
  <2>2. CASE k = n + 1
    <3>1. (a \o b)[k] = b[1]
      <4>1. k - n = 1 /\ ~(k <= n)
        BY <1>2, <2>2
      <4> HIDE DEF a, b, n
      <4> QED
        BY <1>8, <4>1
    <3> HIDE DEF a, b, m, n
    <3> QED
      BY <1>7, <1>9, <2>2, <3>1
  <2> QED
    BY <1>2, <2>1, <2>2
<1>11. DOMAIN (a \o b) = 1..(n + 1)
  <2> HIDE DEF a, b, n
  <2> QED
    BY <1>2, <1>8, LenProperties
<1> HIDE DEF a, b, n
<1> QED
  BY <1>2, <1>3, <1>8, <1>9, <1>10, <1>11 DEF m

\* A TypeName ends as its calls make it, one after the other.
LEMMA TypeRound ==
    ASSUME NEW names, NEW leaf, NEW ends, AreRounds(names, leaf, ends), NEW d \in Nat,
           NEW i \in DOMAIN names, names[i].kind = TypeName
    PROVE  ends[d + 1][i] = InTurn(NamedEnds(names[i], ends[d]))
BY RoundOf

\* A name made after names that can return: if after some rounds it may still
\* crash, so may the TypeName after one more.
LEMMA CrashClimbs ==
    ASSUME NEW names, IsNames(names), NEW leaf, NEW ends, AreRounds(names, leaf, ends),
           NEW N, N = Len(names),
           NEW i \in DOMAIN names, names[i].kind = TypeName,
           NEW k \in 1..Len(NamesOf(names[i])), NEW d \in Nat,
           \A before \in 1..(k - 1) : "text" \in Entry(ends[N], NamesOf(names[i])[before]),
           "crash" \in Entry(ends[d], NamesOf(names[i])[k])
    PROVE  "crash" \in ends[d + 1][i]
<1> DEFINE all == NamesOf(names[i])
           a == NamedEnds(names[i], ends[d])
<1>1. N \in Nat /\ DOMAIN names = 1..N
  BY SeqShape DEF IsNames
<1>2. DOMAIN all = 1..Len(all) /\ Len(all) \in Nat
  BY NamesShape DEF IsNames
<1>3. DOMAIN a = DOMAIN all /\ \A l \in DOMAIN all : a[l] = Entry(ends[d], all[l])
  BY DEF NamedEnds
<1>4. ends[d + 1][i] = InTurn(a)
  <2>1. AreRounds(names, leaf, ends) /\ d \in Nat /\ i \in DOMAIN names /\ names[i].kind = TypeName
    OBVIOUS
  <2> HIDE DEF a, all
  <2>2. ends[d + 1][i] = InTurn(NamedEnds(names[i], ends[d]))
    BY ONLY <2>1, TypeRound
  <2> QED
    BY <2>2 DEF a
<1> HIDE DEF a
<1>5. SUFFICES \E l \in DOMAIN a : "crash" \in a[l] /\ \A before \in 1..(l - 1) : "text" \in a[before]
  BY <1>4, TurnIs
<1>6. CASE \A before \in 1..(k - 1) : "text" \in a[before]
  BY <1>2, <1>3, <1>6
<1>7. CASE \E before \in 1..(k - 1) : "text" \notin a[before]
  <2>1. PICK p \in 1..(k - 1) : "text" \notin a[p]
    BY <1>7
  <2>2. k - 1 \in Nat /\ \A before \in 1..(k - 1) : before \in 1..Len(all)
    BY <1>2
  <2>3. PICK b \in 1..p : "text" \notin a[b] /\ \A before \in 1..(b - 1) : "text" \in a[before]
    BY <2>1, <2>2, FirstOpen
  <2>4. b \in 1..(k - 1) /\ b \in 1..Len(all)
    BY <2>1, <2>2, <2>3
  <2> DEFINE j == all[b]
  <2>5. "text" \in Entry(ends[N], j) /\ "text" \notin Entry(ends[d], j)
    BY <1>2, <1>3, <2>3, <2>4
  <2>6. DOMAIN ends[d] = DOMAIN names /\ DOMAIN ends[N] = DOMAIN names
    <3>1. AreRounds(names, leaf, ends) /\ d \in Nat /\ N \in Nat
      BY <1>1
    <3> QED
      BY ONLY <3>1, RoundOf
  <2> HIDE DEF j
  <2>7. j # 0 /\ j \in DOMAIN names
    BY <2>5, <2>6 DEF Entry, Text, Throw
  <2>8. "text" \in ends[N][j] /\ "text" \notin ends[d][j] /\ Entry(ends[d], j) = ends[d][j]
    BY <2>5, <2>6, <2>7 DEF Entry
  <2>9. "crash" \in ends[d][j]
    <3>1. CASE d <= N
      BY <1>1, <2>7, <2>8, <3>1, LaterSharper DEF Sharper
    <3>2. CASE N <= d
      BY <1>1, <2>7, <2>8, <3>2, LaterSharper DEF Sharper
    <3> QED
      BY <1>1, <3>1, <3>2
  <2> QED
    BY <1>2, <1>3, <2>3, <2>4, <2>8, <2>9 DEF j
<1> QED
  BY <1>6, <1>7

LEMMA TypeEnds ==
    ASSUME pool \in Pools, NEW c, InOrder(c), NEW e \in Outcomes,
           IF e = "text" THEN \A k \in DOMAIN Calls(c) : "text" \in Ends(Calls(c)[k])
           ELSE \E k \in DOMAIN Calls(c) :
                  e \in Ends(Calls(c)[k]) /\ \A before \in 1..(k - 1) : "text" \in Ends(Calls(c)[before])
    PROVE  e \in Ends(c)
<1> DEFINE names == pool.multinames
           N == Len(names)
           i == c.of
           all == NamesOf(names[i])
           n == Len(all)
           calls == Calls(c)
<1>1. c.fn \in Recursive /\ i \in DOMAIN names /\ names[i].kind = TypeName /\ Multiname(c) = names[i]
  BY DEF InOrder, Known, Multiname
<1>2. PICK ends :
             /\ AreRounds(names, Leaf(c.fn), ends)
             /\ \A d : d.fn = c.fn => Ends(d) = Settled(ends, d.of)
  BY <1>1, EndsInRounds
<1>3. IsNames(names) /\ N \in Nat /\ DOMAIN names = 1..N
  BY NamesAre
<1>4. /\ DOMAIN calls = 1..n /\ n \in Nat /\ DOMAIN all = 1..n
      /\ \A k \in 1..n : calls[k] = Call(c.fn, all[k])
  BY <1>1, TypeNameCallsAre
<1> DEFINE a == NamedEnds(names[i], ends[N])
<1>5. DOMAIN a = 1..n /\ \A k \in 1..n : a[k] = Entry(ends[N], all[k])
  BY <1>4 DEF NamedEnds
<1>6. \A k \in 1..n :
        /\ Ends(calls[k]) = a[k] \cup (Entry(ends[StackDepth], all[k]) \cap Crash)
        /\ \A x \in Ends(calls[k]) : x # "crash" => x \in a[k]
  <2> HIDE DEF a, calls, all, n
  <2>1. \A k \in 1..n : Ends(calls[k]) = Settled(ends, all[k])
    BY <1>2, <1>4 DEF Call
  <2>2. \A k \in 1..n : Settled(ends, all[k]) = a[k] \cup (Entry(ends[StackDepth], all[k]) \cap Crash)
    BY <1>5 DEF Settled
  <2> HIDE DEF N
  <2> QED
    BY <2>1, <2>2 DEF Crash
<1>7. \A k \in 1..n : \A before \in 1..(k - 1) : before \in 1..n
  BY <1>4
<1>12. ASSUME NEW k \in 1..n, "crash" \in Entry(ends[StackDepth], all[k]),
               \A before \in 1..(k - 1) : "text" \in Ends(calls[before])
       PROVE  "crash" \in Ends(c)
  <2>1. \A before \in 1..(k - 1) : "text" \in Entry(ends[N], all[before])
    <3> HIDE DEF a, calls, all, n, N
    <3> QED
      BY <1>5, <1>6, <1>7, <1>12
  <2>2. StackDepth - 1 \in Nat /\ StackDepth - 1 + 1 = StackDepth /\ StackDepth \in Nat
    BY StackDepthAssumption
  <2>3. DOMAIN ends[StackDepth] = DOMAIN names /\ DOMAIN ends[StackDepth - 1] = DOMAIN names
    BY <1>2, <2>2, RoundOf
  <2>4. "crash" \in Entry(ends[StackDepth - 1], all[k])
    <3>1. all[k] # 0 /\ all[k] \in DOMAIN names /\ "crash" \in ends[StackDepth][all[k]]
      BY <1>12, <2>3 DEF Entry, Text, Throw
    <3>2. Sharper(ends[StackDepth - 1][all[k]], ends[StackDepth][all[k]])
      <4> HIDE DEF all, n, N, names
      <4> QED
        BY <1>2, <1>3, <2>2, <3>1, RoundsSharper
    <3> QED
      BY <2>3, <3>1, <3>2 DEF Entry, Sharper
  <2>5. "crash" \in ends[StackDepth - 1 + 1][i]
    <3> DEFINE D == StackDepth - 1
               leaf == Leaf(c.fn)
    <3> HIDE DEF names, N, leaf, D, calls, a
    <3>1. AreRounds(names, leaf, ends) /\ IsNames(names) /\ N = Len(names) /\ D \in Nat
      BY <1>2, <1>3, <2>2 DEF leaf, N, D
    <3>2. i \in DOMAIN names /\ names[i].kind = TypeName /\ k \in 1..Len(NamesOf(names[i]))
      BY <1>1
    <3>3. "crash" \in Entry(ends[D], NamesOf(names[i])[k])
      BY <2>4 DEF D
    <3>4. \A before \in 1..(k - 1) : "text" \in Entry(ends[N], NamesOf(names[i])[before])
      BY <2>1
    <3>5. "crash" \in ends[D + 1][i]
      BY ONLY <3>1, <3>2, <3>3, <3>4, CrashClimbs
    <3> QED
      BY <3>5 DEF D
  <2>6. i # 0
    BY <1>1, <1>3
  <2>7. "crash" \in Entry(ends[StackDepth], i)
    BY <1>1, <2>2, <2>3, <2>5, <2>6 DEF Entry
  <2>8. Ends(c) = Settled(ends, i)
    BY <1>2
  <2> QED
    BY <2>7, <2>8 DEF Settled, Crash
<1>13. SUFFICES ASSUME ~(/\ e = "crash"
                         /\ \E k \in 1..n : /\ "crash" \in Entry(ends[StackDepth], all[k])
                                           /\ \A before \in 1..(k - 1) : "text" \in Ends(calls[before]))
                PROVE  e \in Ends(c)
  BY <1>12
<1>8. e \in InTurn(a)
  <2>1. CASE e = "text"
    <3>1. \A k \in 1..n : "text" \in Ends(calls[k])
      BY <1>4, <2>1
    <3> HIDE DEF a, calls, n
    <3>2. \A k \in DOMAIN a : "text" \in a[k]
      BY <1>5, <1>6, <3>1
    <3> QED
      BY <2>1, <3>2, TurnIs
  <2>2. CASE e # "text"
    <3>1. PICK k \in 1..n : e \in Ends(calls[k]) /\ \A before \in 1..(k - 1) : "text" \in Ends(calls[before])
      BY <1>4, <2>2
    <3> HIDE DEF a, calls, n, all
    <3>2. e \in a[k]
      BY <1>6, <1>13, <3>1 DEF Crash
    <3>3. \A before \in 1..(k - 1) : "text" \in a[before]
      BY <1>6, <1>7, <3>1
    <3> QED
      BY <1>5, <2>2, <3>2, <3>3, TurnIs
  <2> QED
    BY <2>1, <2>2
<1>9. ends[N + 1][i] = InTurn(a) /\ DOMAIN ends[N] = DOMAIN names
  <2>1. /\ DOMAIN ends[N] = DOMAIN names
        /\ \A j \in DOMAIN names :
             ends[N + 1][j] = IF names[j].kind = TypeName THEN InTurn(NamedEnds(names[j], ends[N]))
                              ELSE Leaf(c.fn)[j]
    <3> DEFINE leaf == Leaf(c.fn)
    <3>1. AreRounds(names, leaf, ends) /\ N \in Nat
      BY <1>2, <1>3
    <3> HIDE DEF leaf, names, N
    <3>2. /\ DOMAIN ends[N] = DOMAIN names
          /\ \A j \in DOMAIN names :
               ends[N + 1][j] = IF names[j].kind = TypeName THEN InTurn(NamedEnds(names[j], ends[N]))
                                ELSE leaf[j]
      BY <3>1, RoundOf
    <3> QED
      BY <3>2 DEF leaf
  <2> QED
    BY <1>1, <2>1
<1>10. e \in ends[N][i]
  <2>1. NoNews(Outcomes, ends[N][i], ends[N + 1][i])
    BY <1>1, <1>2, <1>3, RoundsSuffice
  <2> HIDE DEF a
  <2> QED
    BY <1>8, <1>9, <2>1 DEF NoNews
<1>11. ends[N][i] \subseteq Ends(c)
  <2>1. i # 0 /\ i \in DOMAIN ends[N]
    BY <1>1, <1>3, <1>9
  <2>2. Ends(c) = Settled(ends, i)
    BY <1>2
  <2> HIDE DEF a
  <2> QED
    BY <2>1, <2>2 DEF Entry, Settled
<1> QED
  BY <1>10, <1>11

\* Any other call that gets so far makes none, one or two calls.
OneOf(c) ==
    \/ Calls(c) = <<>> /\ "text" \in Ends(c)
    \/ \E d : Calls(c) = <<d>> /\ Ends(c) = Ends(d)
    \/ \E d, e : Calls(c) = <<d>> \o <<e>> /\ Ends(c) = Both(Ends(d), Ends(e))

\* A name that is no TypeName, or none at all.
LEMMA NameEnds ==
    ASSUME pool \in Pools, NEW c, c.fn \in Recursive, ~InOrder(c)
    PROVE  Ends(c) = IF Known(c)
                     THEN IF c.fn = "getMultiname" THEN MultinameEnds(pool, Multiname(c))
                                                   ELSE MultinameEndsHRF(pool, Multiname(c))
                     ELSE IF c.of = 0 THEN Text ELSE Throw
<1> DEFINE names == pool.multinames
           N == Len(names)
           leaf == Leaf(c.fn)
<1>1. PICK ends : AreRounds(names, leaf, ends) /\ \A d : d.fn = c.fn => Ends(d) = Settled(ends, d.of)
  BY EndsInRounds
<1>2. N \in Nat /\ DOMAIN names = 1..N
  BY NamesAre
<1>3. \A d \in Nat : DOMAIN ends[d] = DOMAIN names
  <2> HIDE DEF leaf, names, N
  <2> QED
    BY <1>1, RoundOf
<1>4. Ends(c) = Entry(ends[N], c.of) \cup (Entry(ends[StackDepth], c.of) \cap Crash)
  BY <1>1 DEF Settled
<1>7. StackDepth \in Nat \ {0}
  BY StackDepthAssumption
<1>5. CASE ~Known(c)
  <2>1. c.of \notin DOMAIN names
    BY <1>5 DEF Known
  <2>2. \A d \in Nat : Entry(ends[d], c.of) = IF c.of = 0 THEN Text ELSE Throw
    BY <1>3, <2>1 DEF Entry
  <2>3. N \in Nat /\ StackDepth \in Nat
    BY <1>2, <1>7
  <2>4. Entry(ends[StackDepth], c.of) \cap Crash = {}
    BY <2>2, <2>3 DEF Text, Throw, Crash
  <2> QED
    BY <1>4, <1>5, <2>2, <2>3, <2>4
<1>6. CASE Known(c)
  <2>1. c.of \in 1..N /\ c.of # 0 /\ c.of \in DOMAIN names /\ names[c.of].kind # TypeName
    BY <1>2, <1>6 DEF Known, InOrder, Multiname
  <2>2. ASSUME NEW d \in Nat \ {0}
        PROVE  Entry(ends[d], c.of) = leaf[c.of]
    <3>1. PICK p \in Nat : d = p + 1
      <4>1. d - 1 \in Nat /\ d = d - 1 + 1
        OBVIOUS
      <4> QED
        BY <4>1
    <3> HIDE DEF leaf, names, N
    <3>2. \A i \in DOMAIN names :
            ends[p + 1][i] = IF names[i].kind = TypeName THEN InTurn(NamedEnds(names[i], ends[p])) ELSE leaf[i]
      BY <1>1, RoundOf
    <3>3. ends[d][c.of] = leaf[c.of]
      BY <2>1, <3>1, <3>2
    <3> QED
      BY <1>3, <2>1, <3>3 DEF Entry
  <2>3. N \in Nat \ {0}
    BY <1>2, <2>1
  <2>4. Ends(c) = leaf[c.of]
    <3> HIDE DEF leaf, names, N
    <3> QED
      BY <1>4, <1>7, <2>2, <2>3
  <2> QED
    BY <1>2, <1>6, <2>1, <2>4 DEF Leaf, Multiname
<1> QED
  BY <1>5, <1>6

LEMMA StringEnds ==
    ASSUME NEW i
    PROVE  /\ Ends(Call("getString", i)) = GetString(pool, i)
           /\ Ends(Call("getNamespaceSet", i)) = GetNamespaceSet(pool, i)
           /\ Ends(Call("getNamespace", i)) = GetNamespace(pool, i)
BY DEF Ends, Call

LEMMA OtherCalls ==
    ASSUME pool \in Pools, NEW c, IsCall(c), ~InOrder(c), "text" \in Own(c)
    PROVE  OneOf(c)
<1> USE DEF OneOf
<1>1. CASE c.fn \in Recursive
  <2>1. CASE ~Known(c)
    <3>1. Calls(c) = <<>>
      BY <1>1, <2>1 DEF Calls, Recursive
    <3>2. c.of = 0
      BY <1>1, <2>1 DEF Own, Throw, Recursive
    <3>3. Ends(c) = Text
      BY <1>1, <2>1, <3>2, NameEnds
    <3> QED
      BY <3>1, <3>3 DEF Text
  <2>2. CASE Known(c) /\ c.fn = "getMultinameHRF"
    <3> DEFINE d == Call("getString", Multiname(c).name)
    <3>1. Multiname(c).kind = 7
      <4>1. c.of # 0
        BY <2>2, NamesAre DEF Known
      <4>2. Multiname(c).kind \in Implemented(c.fn)
        BY <1>1, <4>1 DEF Own, Throw, Recursive
      <4> QED
        BY <2>2, <4>2 DEF Implemented, InOrder
    <3>2. Calls(c) = <<d>>
      BY <1>1, <2>2, <3>1 DEF Calls, TypeName
    <3>3. Ends(c) = Ends(d)
      <4>1. Ends(c) = MultinameEndsHRF(pool, Multiname(c))
        BY <1>1, <2>2, NameEnds
      <4> QED
        BY <3>1, <4>1, StringEnds DEF MultinameEndsHRF
    <3> HIDE DEF d
    <3> QED
      BY <3>2, <3>3
  <2>3. CASE Known(c) /\ c.fn = "getMultiname"
    <3> DEFINE m == Multiname(c)
               s == Call("getString", m.name)
               n == Call("getNamespace", m.ns)
               t == Call("getNamespaceSet", m.nsset)
    <3>1. m.kind \in {7, 9} \cup (13..18) \cup (27..28)
      <4>1. c.of # 0
        BY <2>3, NamesAre DEF Known
      <4>2. Multiname(c).kind \in Implemented(c.fn)
        BY <1>1, <4>1 DEF Own, Throw, Recursive
      <4>3. m.kind # 29
        BY <2>3 DEF InOrder, TypeName
      <4> QED
        BY <2>3, <4>2, <4>3 DEF Implemented
    <3>2. Calls(c) = NameCalls(m)
      BY <1>1, <2>3, <3>1 DEF Calls, TypeName
    <3>3. Ends(c) = MultinameEnds(pool, m)
      BY <1>1, <2>3, NameEnds
    <3>4. /\ Ends(s) = GetString(pool, m.name)
          /\ Ends(n) = GetNamespace(pool, m.ns)
          /\ Ends(t) = GetNamespaceSet(pool, m.nsset)
      BY StringEnds
    <3>5. CASE m.kind \in {7, 13}
      <4>1. NameCalls(m) = <<s>> \o <<n>>
        BY <3>5 DEF NameCalls
      <4>2. MultinameEnds(pool, m) = Both(Ends(s), Ends(n))
        BY <3>4, <3>5 DEF MultinameEnds
      <4> HIDE DEF s, n
      <4> QED
        BY <3>2, <3>3, <4>1, <4>2
    <3>6. CASE m.kind \in {15, 16}
      <4>1. NameCalls(m) = <<s>>
        BY <3>6 DEF NameCalls
      <4>2. MultinameEnds(pool, m) = Ends(s)
        BY <3>4, <3>6 DEF MultinameEnds
      <4> HIDE DEF s
      <4> QED
        BY <3>2, <3>3, <4>1, <4>2
    <3>7. CASE m.kind \in {17, 18}
      <4>1. NameCalls(m) = <<>>
        BY <3>7 DEF NameCalls
      <4>2. MultinameEnds(pool, m) = Text
        BY <3>7 DEF MultinameEnds
      <4> QED
        BY <3>2, <3>3, <4>1, <4>2 DEF Text
    <3>8. CASE m.kind \in {9, 14}
      <4>1. NameCalls(m) = <<s>> \o <<t>>
        BY <3>8 DEF NameCalls
      <4>2. MultinameEnds(pool, m) = Both(Ends(s), Ends(t))
        BY <3>4, <3>8 DEF MultinameEnds
      <4> HIDE DEF s, t
      <4> QED
        BY <3>2, <3>3, <4>1, <4>2
    <3>9. CASE m.kind \in {27, 28}
      <4>1. NameCalls(m) = <<t>>
        BY <3>9 DEF NameCalls
      <4>2. MultinameEnds(pool, m) = Ends(t)
        BY <3>4, <3>9 DEF MultinameEnds
      <4> HIDE DEF t
      <4> QED
        BY <3>2, <3>3, <4>1, <4>2
    <3>10. m.kind \in {7, 13} \/ m.kind \in {15, 16} \/ m.kind \in {17, 18} \/ m.kind \in {9, 14} \/ m.kind \in {27, 28}
      BY <3>1
    <3> HIDE DEF m
    <3> QED
      BY <3>5, <3>6, <3>7, <3>8, <3>9, <3>10
  <2> QED
    BY <1>1, <2>1, <2>2, <2>3 DEF Recursive
<1>2. CASE c.fn = "getNamespace"
  <2> DEFINE n == pool.namespaces[c.of]
             d == Call("getString", n.name)
  <2>1. ~Known(c) /\ c.of \in Nat
    BY <1>2 DEF Known, Recursive, IsCall
  <2>2. Len(pool.namespaces) \in Nat /\ DOMAIN pool.namespaces = 1..Len(pool.namespaces)
    BY PoolsAssumption, SeqShape
  <2>3. Ends(c) = GetNamespace(pool, c.of)
    BY <1>2 DEF Ends
  <2>4. CASE c.of = 0
    <3>1. Calls(c) = <<>>
      BY <1>2, <2>1, <2>2, <2>4 DEF Calls
    <3>2. Ends(c) = Text
      BY <2>2, <2>3, <2>4 DEF GetNamespace
    <3> QED
      BY <3>1, <3>2 DEF Text
  <2>5. CASE c.of # 0
    <3>1. c.of \in DOMAIN pool.namespaces /\ n.kind \in NamespaceKinds
      BY <1>2, <2>5 DEF Own, Throw, Recursive
    <3>2. Calls(c) = <<d>>
      BY <1>2, <2>1, <3>1 DEF Calls
    <3>3. Ends(c) = Ends(d)
      <4>1. ~(c.of > Len(pool.namespaces))
        BY <2>2, <3>1
      <4> QED
        BY <2>3, <2>5, <3>1, <4>1, StringEnds DEF GetNamespace
    <3> HIDE DEF d
    <3> QED
      BY <3>2, <3>3
  <2> QED
    BY <2>4, <2>5
<1>3. CASE c.fn \in {"getNamespaceSet", "getString"}
  <2>1. ~Known(c) /\ Calls(c) = <<>>
    BY <1>3 DEF Known, Recursive, Calls
  <2>2. Own(c) = Ends(c)
    BY <1>3 DEF Own, Ends, Recursive
  <2> QED
    BY <2>1, <2>2
<1>4. CASE c.fn = "getMethodOptionHRF"
  <2> DEFINE d == Call("getString", c.of.val)
  <2>1. ~Known(c)
    BY <1>4 DEF Known, Recursive
  <2>2. Ends(c) = GetMethodOptionHRF(pool, c.of)
    BY <1>4 DEF Ends
  <2>3. CASE c.of.kind = 1
    <3>1. Calls(c) = <<d>>
      BY <1>4, <2>1, <2>3 DEF Calls
    <3>2. Ends(c) = Ends(d)
      BY <2>2, <2>3, StringEnds DEF GetMethodOptionHRF
    <3> HIDE DEF d
    <3> QED
      BY <3>1, <3>2
  <2>4. CASE c.of.kind # 1
    <3>1. Calls(c) = <<>>
      BY <1>4, <2>1, <2>4 DEF Calls
    <3>2. Own(c) = Ends(c)
      BY <1>4, <2>2, <2>4 DEF Own, Recursive
    <3> QED
      BY <3>1, <3>2
  <2> QED
    BY <2>3, <2>4
<1> QED
  BY <1>1, <1>2, <1>3, <1>4 DEF IsCall, Accessors, Recursive

\* A call that fails by a test of its own ends so.
LEMMA OwnFailure ==
    ASSUME pool \in Pools, NEW c, IsCall(c), NEW e \in Own(c), e # "text"
    PROVE  e \in Ends(c)
<1>1. CASE c.fn \in Recursive
  <2>1. Own(c) = Throw /\ e = "throw"
    BY <1>1 DEF Own, Text, Throw, Recursive
  <2>2. c.of # 0 /\ ~(Known(c) /\ Multiname(c).kind \in Implemented(c.fn))
    BY <1>1, <2>1 DEF Own, Text, Throw, Recursive
  <2>3. ~InOrder(c)
    BY <1>1, <2>2 DEF InOrder, Implemented, TypeName
  <2>4. CASE ~Known(c)
    BY <1>1, <2>1, <2>2, <2>3, <2>4, NameEnds DEF Throw
  <2>5. CASE Known(c) /\ c.fn = "getMultiname"
    <3>1. MultinameEnds(pool, Multiname(c)) = Throw
      BY <2>2, <2>5 DEF MultinameEnds, Implemented
    <3> QED
      BY <1>1, <2>1, <2>3, <2>5, <3>1, NameEnds DEF Throw
  <2>6. CASE Known(c) /\ c.fn = "getMultinameHRF"
    <3>1. MultinameEndsHRF(pool, Multiname(c)) = Throw
      BY <2>2, <2>6 DEF MultinameEndsHRF, Implemented
    <3> QED
      BY <1>1, <2>1, <2>3, <2>6, <3>1, NameEnds DEF Throw
  <2> QED
    BY <1>1, <2>4, <2>5, <2>6 DEF Recursive
<1>2. CASE c.fn = "getNamespace"
  <2>1. Len(pool.namespaces) \in Nat /\ DOMAIN pool.namespaces = 1..Len(pool.namespaces) /\ c.of \in Nat
    BY <1>2, PoolsAssumption, SeqShape DEF IsCall
  <2>2. e = "throw" /\ c.of # 0 /\ ~(c.of \in DOMAIN pool.namespaces /\ pool.namespaces[c.of].kind \in NamespaceKinds)
    BY <1>2 DEF Own, Text, Throw, Recursive
  <2>3. GetNamespace(pool, c.of) = Throw
    BY <2>1, <2>2 DEF GetNamespace
  <2> QED
    BY <1>2, <2>2, <2>3 DEF Ends, Throw
<1>3. CASE c.fn \in {"getNamespaceSet", "getString"}
  BY <1>3 DEF Own, Ends, Recursive
<1>4. CASE c.fn = "getMethodOptionHRF"
  BY <1>4 DEF Own, Ends, Recursive, Text
<1> QED
  BY <1>1, <1>2, <1>3, <1>4 DEF IsCall, Accessors, Recursive

\* What a call calls is a call again.
LEMMA CallsAreCalls ==
    ASSUME pool \in Pools, NEW c, IsCall(c), NEW d \in Range(Calls(c))
    PROVE  IsCall(d)
<1>1. CASE InOrder(c)
  <2>1. PICK k \in DOMAIN Calls(c) : d = Calls(c)[k]
    BY DEF Range
  <2>2. d.fn = c.fn
    <3> DEFINE all == NamesOf(Multiname(c))
    <3>1. DOMAIN Calls(c) = 1..Len(all) /\ \A l \in 1..Len(all) : Calls(c)[l] = Call(c.fn, all[l])
      BY <1>1, TypeNameCallsAre
    <3> HIDE DEF all
    <3> QED
      BY <2>1, <3>1 DEF Call
  <2> QED
    BY <1>1, <2>2 DEF IsCall, InOrder, Known, Accessors, Recursive
<1>2. CASE ~InOrder(c)
  <2> DEFINE m == Multiname(c)
             s == Call("getString", m.name)
             n == Call("getNamespace", m.ns)
             t == Call("getNamespaceSet", m.nsset)
  <2>1. \A x : IsCall(Call("getString", x)) /\ IsCall(Call("getNamespaceSet", x))
    BY DEF IsCall, Call, Accessors
  <2>2. Known(c) /\ m.kind \in {7, 13} => IsCall(n)
    <3>1. Known(c) => m \in Range(pool.multinames)
      BY DEF Known, Multiname, Range
    <3>2. Known(c) /\ m.kind \in {7, 13} => m.ns \in Nat
      BY <3>1, PoolsAssumption
    <3> QED
      BY <3>2 DEF IsCall, Call, Accessors
  <2>3. IsCall(s) /\ IsCall(t)
    BY <2>1
  <2>4. \/ Calls(c) = <<s>> \o <<n>> /\ IsCall(n)
        \/ Calls(c) = <<s>> \o <<t>>
        \/ Calls(c) = <<t>>
        \/ Calls(c) = <<>>
        \/ \E x : Calls(c) = <<Call("getString", x)>>
    <3>1. CASE Known(c) /\ c.fn = "getMultiname"
      <4>1. Calls(c) = NameCalls(m)
        BY <1>2, <3>1 DEF Calls, InOrder
      <4> HIDE DEF m
      <4> QED
        BY <2>2, <3>1, <4>1 DEF NameCalls
    <3>2. CASE Known(c) /\ c.fn # "getMultiname"
      BY <1>2, <3>2 DEF Calls, InOrder
    <3>3. CASE ~Known(c)
      BY <3>3 DEF Calls
    <3> QED
      BY <3>1, <3>2, <3>3
  <2> HIDE DEF s, t, n
  <2>5. CASE Calls(c) = <<s>> \o <<n>> /\ IsCall(n)
    <3>1. Range(Calls(c)) = {s, n}
      BY <2>5, TwoCalls
    <3> QED
      BY <2>3, <2>5, <3>1
  <2>6. CASE Calls(c) = <<s>> \o <<t>>
    <3>1. Range(Calls(c)) = {s, t}
      BY <2>6, TwoCalls
    <3> QED
      BY <2>3, <3>1
  <2>7. CASE Calls(c) = <<t>>
    BY <2>3, <2>7, OneCall
  <2>8. CASE Calls(c) = <<>>
    BY <2>8, NoCall
  <2>9. ASSUME NEW x, Calls(c) = <<Call("getString", x)>>
        PROVE  IsCall(d)
    BY <2>1, <2>9, OneCall
  <2> QED
    BY <2>4, <2>5, <2>6, <2>7, <2>8, <2>9
<1> QED
  BY <1>1, <1>2

\* Arguments of one call, in whatever order: it returns if they all do, and
\* fails as any of them does.
LEMMA OtherEnds ==
    ASSUME pool \in Pools, NEW c, IsCall(c), ~InOrder(c), "text" \in Own(c), NEW e,
           IF e = "text" THEN \A d \in Range(Calls(c)) : "text" \in Ends(d)
           ELSE \E d \in Range(Calls(c)) : e \in Ends(d)
    PROVE  e \in Ends(c)
<1>1. OneOf(c)
  BY OtherCalls
<1>2. CASE Calls(c) = <<>> /\ "text" \in Ends(c)
  BY <1>2, NoCall
<1>3. ASSUME NEW d, Calls(c) = <<d>>, Ends(c) = Ends(d)
      PROVE  e \in Ends(c)
  <2>1. Range(Calls(c)) = {d}
    BY <1>3, OneCall
  <2> QED
    BY <1>3, <2>1
<1>4. ASSUME NEW d, NEW f, Calls(c) = <<d>> \o <<f>>, Ends(c) = Both(Ends(d), Ends(f))
      PROVE  e \in Ends(c)
  <2>1. Range(Calls(c)) = {d, f}
    BY <1>4, TwoCalls
  <2> QED
    BY <1>4, <2>1 DEF Both, Then, Text
<1> QED
  BY <1>1, <1>2, <1>3, <1>4 DEF OneOf

-----------------------------------------------------------------------------
(***************************************************************************)
(* The frames of the stack.                                                *)
(***************************************************************************)
\* A call that c may be making: of those in order, all before it can return.
Made(c, d) ==
    \E k \in DOMAIN Calls(c) :
      /\ d = Calls(c)[k]
      /\ InOrder(c) => \A before \in 1..(k - 1) : "text" \in Ends(Calls(c)[before])

LEMMA CallFails ==
    ASSUME pool \in Pools, NEW c, IsCall(c), "text" \in Own(c), NEW d, Made(c, d),
           NEW e \in {"throw", "crash"}, e \in Ends(d)
    PROVE  e \in Ends(c)
<1>1. PICK k \in DOMAIN Calls(c) :
             /\ d = Calls(c)[k]
             /\ InOrder(c) => \A before \in 1..(k - 1) : "text" \in Ends(Calls(c)[before])
  BY DEF Made
<1>2. CASE InOrder(c)
  BY <1>1, <1>2, TypeEnds DEF Outcomes
<1>3. CASE ~InOrder(c)
  <2>1. d \in Range(Calls(c))
    BY <1>1 DEF Range
  <2> QED
    BY <1>3, <2>1, OtherEnds
<1> QED
  BY <1>2, <1>3

LEMMA CallReturns ==
    ASSUME pool \in Pools, NEW c, IsCall(c), "text" \in Own(c),
           \A d \in Range(Calls(c)) : "text" \in Ends(d)
    PROVE  "text" \in Ends(c)
<1>1. CASE InOrder(c)
  BY <1>1, TypeEnds DEF Outcomes, Range
<1>2. CASE ~InOrder(c)
  BY <1>2, OtherEnds
<1> QED
  BY <1>1, <1>2

InOrderBehind(todo, all, open) ==
    \E p \in 0..Len(all) :
      Behind(todo, all, p) /\ \A k \in 1..p : all[k] \in open \/ "text" \in Ends(all[k])

AnyBehind(todo, all, open) ==
    /\ Range(todo) \subseteq Range(all)
    /\ \A d \in Range(all) : d \in Range(todo) \/ d \in open \/ "text" \in Ends(d)

\* A frame has behind it only calls that can return, and the open one.
Progress(frame, open) ==
    LET c == frame.call
    IN  /\ IsCall(c)
        /\ "text" \in Own(c)
        /\ \A d \in open : Made(c, d)
        /\ IF InOrder(c) THEN InOrderBehind(frame.todo, Calls(c), open)
                         ELSE AnyBehind(frame.todo, Calls(c), open)

LEMMA ProgressBegins ==
    ASSUME pool \in Pools, NEW c, IsCall(c), "text" \in Own(c)
    PROVE  Progress([call |-> c, todo |-> Calls(c)], {})
<1> DEFINE all == Calls(c)
<1>1. Len(all) \in Nat
  BY CallsAre, SeqShape
<1> HIDE DEF all
<1>2. 0 \in 0..Len(all) /\ Behind(all, all, 0)
  BY <1>1 DEF Behind
<1>3. InOrderBehind(all, all, {}) /\ AnyBehind(all, all, {})
  BY <1>2 DEF InOrderBehind, AnyBehind
<1> QED
  BY <1>3 DEF Progress, all

LEMMA ProgressReturns ==
    ASSUME NEW frame, NEW d, Progress(frame, {d}), "text" \in Ends(d)
    PROVE  Progress(frame, {})
BY DEF Progress, InOrderBehind, AnyBehind

LEMMA ProgressEnds ==
    ASSUME pool \in Pools, NEW frame, Progress(frame, {}), frame.todo = <<>>
    PROVE  "text" \in Ends(frame.call)
<1> DEFINE c == frame.call
           all == Calls(c)
<1>1. IsSeq(all) /\ Len(all) \in Nat /\ DOMAIN all = 1..Len(all)
  BY CallsAre, SeqShape
<1>2. CASE InOrder(c)
  <2>1. PICK p \in 0..Len(all) : Behind(frame.todo, all, p) /\ \A k \in 1..p : "text" \in Ends(all[k])
    BY <1>2 DEF Progress, InOrderBehind
  <2>2. p = Len(all)
    <3>1. Len(frame.todo) = 0
      BY EmptySeq
    <3> QED
      BY <1>1, <2>1, <3>1 DEF Behind
  <2>3. \A d \in Range(all) : "text" \in Ends(d)
    BY <1>1, <2>1, <2>2 DEF Range
  <2> QED
    BY <2>3, CallReturns DEF Progress
<1>3. CASE ~InOrder(c)
  <2>1. \A d \in Range(all) : "text" \in Ends(d)
    BY <1>3, NoCall DEF Progress, AnyBehind
  <2> QED
    BY <2>1, CallReturns DEF Progress
<1> QED
  BY <1>2, <1>3

LEMMA ProgressCalls ==
    ASSUME pool \in Pools, NEW f, Progress(f, {}), IsSeq(f.todo),
           NEW k \in DOMAIN f.todo, InOrder(f.call) => k = 1,
           NEW g, g.call = f.call, g.todo = RemoveAt(f.todo, k)
    PROVE  Progress(g, {f.todo[k]}) /\ IsCall(f.todo[k])
<1> DEFINE c == f.call
           all == Calls(c)
           d == f.todo[k]
           rest == RemoveAt(f.todo, k)
<1>1. IsSeq(all) /\ Len(all) \in Nat /\ DOMAIN all = 1..Len(all)
  BY CallsAre, SeqShape
<1>2. Len(f.todo) \in Nat /\ DOMAIN f.todo = 1..Len(f.todo) /\ d \in Range(f.todo)
  BY SeqShape DEF Range
<1>3. /\ \A x \in Range(f.todo) : x = d \/ x \in Range(rest)
      /\ Range(rest) \subseteq Range(f.todo)
      /\ k = 1 => Behind(rest, f.todo, 1)
  BY Removed
<1> HIDE DEF c, all, d, rest
<1>4. CASE InOrder(c)
  <2>1. PICK p \in 0..Len(all) : Behind(f.todo, all, p) /\ \A l \in 1..p : "text" \in Ends(all[l])
    BY <1>4 DEF Progress, InOrderBehind, c, all
  <2>2. k = 1
    BY <1>4 DEF c
  <2>3. p + 1 \in 1..Len(all) /\ d = all[p + 1]
    <3>1. Len(f.todo) = Len(all) - p /\ \A j \in 1..Len(f.todo) : f.todo[j] = all[p + j]
      BY <2>1 DEF Behind
    <3>2. 1 \in 1..Len(f.todo)
      BY <1>2, <2>2
    <3>3. d = all[p + 1]
      BY <2>2, <3>1, <3>2 DEF d
    <3>4. p \in Nat /\ Len(all) - p >= 1
      BY <1>2, <2>1, <3>1, <3>2
    <3>5. p + 1 \in 1..Len(all)
      BY <1>1, <3>4
    <3> QED
      BY <3>3, <3>5
  <2>4. Behind(rest, all, p + 1)
    <3>1. Len(rest) = Len(f.todo) - 1 /\ \A j \in 1..Len(rest) : rest[j] = f.todo[1 + j]
      BY <1>3, <2>2 DEF Behind
    <3>2. Len(f.todo) = Len(all) - p /\ \A j \in 1..Len(f.todo) : f.todo[j] = all[p + j]
      BY <2>1 DEF Behind
    <3>3. ASSUME NEW j \in 1..Len(rest)
          PROVE  rest[j] = all[p + 1 + j]
      <4>1. 1 + j \in 1..Len(f.todo) /\ p + (1 + j) = p + 1 + j
        BY <1>2, <2>1, <3>1
      <4> QED
        BY <3>1, <3>2, <4>1
    <3>4. Len(rest) = Len(all) - (p + 1)
      <4>1. p \in Int /\ Len(all) \in Int
        BY <1>1
      <4>2. Len(rest) = Len(f.todo) - 1
        BY <3>1
      <4>3. Len(f.todo) = Len(all) - p
        BY <3>2
      <4> QED
        BY <4>1, <4>2, <4>3
    <3> QED
      BY <3>3, <3>4 DEF Behind
  <2>5. \A l \in 1..(p + 1) : all[l] \in {d} \/ "text" \in Ends(all[l])
    <3>1. \A l \in 1..(p + 1) : l \in 1..p \/ l = p + 1
      BY <2>1
    <3> QED
      BY <2>1, <2>3, <3>1
  <2>6. p + 1 \in 0..Len(all)
    BY <1>1, <2>1, <2>3
  <2>7. InOrderBehind(rest, all, {d})
    BY <2>4, <2>5, <2>6 DEF InOrderBehind
  <2>8. Made(c, d)
    <3>1. p + 1 - 1 = p
      BY <2>1
    <3> QED
      BY <1>1, <2>1, <2>3, <3>1 DEF Made, all
  <2>9. d \in Range(all)
    BY <1>1, <2>3 DEF Range
  <2>10. IsCall(d)
    BY <2>9, CallsAreCalls DEF Progress, all, c
  <2> QED
    BY <1>4, <2>7, <2>8, <2>10 DEF Progress, c, all, d, rest
<1>5. CASE ~InOrder(c)
  <2>1. Range(f.todo) \subseteq Range(all) /\ \A x \in Range(all) : x \in Range(f.todo) \/ "text" \in Ends(x)
    BY <1>5 DEF Progress, AnyBehind, c, all
  <2>2. AnyBehind(rest, all, {d})
    BY <1>3, <2>1 DEF AnyBehind
  <2>3. d \in Range(all)
    BY <1>2, <2>1
  <2>4. Made(c, d)
    BY <1>5, <2>3 DEF Made, Range, all
  <2>5. IsCall(d)
    BY <2>3, CallsAreCalls DEF Progress, all, c
  <2> QED
    BY <1>5, <2>2, <2>4, <2>5 DEF Progress, c, all, d, rest
<1> QED
  BY <1>4, <1>5

\* The frames of a stack, when the innermost of them waits for c, or the
\* client if there is none.
Waits(s, c) ==
    /\ \A i \in DOMAIN s : Progress(s[i], {IF i + 1 \in DOMAIN s THEN s[i + 1].call ELSE c})
    /\ IF s = <<>> THEN c = query ELSE s[1].call = query
    /\ IsCall(c)

\* The frames of a stack, when no call is about to be made.
Runs(s) ==
    /\ \A i \in DOMAIN s : Progress(s[i], IF i + 1 \in DOMAIN s THEN {s[i + 1].call} ELSE {})
    /\ s # <<>> => s[1].call = query

\* An exception, or the end of the stack, is not caught on the way.
LEMMA FailsThrough ==
    ASSUME pool \in Pools, NEW s, IsSeq(s), NEW c, Waits(s, c),
           NEW e \in {"throw", "crash"}, e \in Ends(c)
    PROVE  e \in Ends(query)
<1> DEFINE n == Len(s)
           at(i) == IF i \in 1..n THEN s[i].call ELSE c
           D == {d \in Nat : d <= n => e \in Ends(at(n + 1 - d))}
<1>1. n \in Nat /\ DOMAIN s = 1..n /\ (s # <<>> => n # 0)
  BY SeqShape
<1> HIDE DEF n
<1>2. 0 \in D
  <2>1. n + 1 - 0 \notin 1..n
    BY <1>1
  <2> QED
    BY <2>1
<1>3. ASSUME NEW d \in Nat, d \in D
      PROVE  d + 1 \in D
  <2> SUFFICES ASSUME d + 1 <= n
               PROVE  e \in Ends(at(n + 1 - (d + 1)))
    OBVIOUS
  <2> DEFINE i == n - d
  <2>1. /\ i \in 1..n /\ n + 1 - (d + 1) = i /\ n + 1 - d = i + 1 /\ d <= n
    BY <1>1
  <2> HIDE DEF i
  <2>2. Progress(s[i], {at(i + 1)})
    BY <1>1, <2>1 DEF Waits
  <2>3. e \in Ends(at(i + 1))
    BY <1>3, <2>1
  <2> HIDE DEF at
  <2>4. IsCall(s[i].call) /\ "text" \in Own(s[i].call) /\ Made(s[i].call, at(i + 1))
    BY <2>2 DEF Progress
  <2>5. e \in Ends(s[i].call)
    BY <2>3, <2>4, CallFails
  <2> QED
    BY <2>1, <2>5 DEF at
<1>4. n \in D
  <2> HIDE DEF D
  <2> QED
    BY <1>1, <1>2, <1>3, NatInductive
<1>5. e \in Ends(at(1))
  <2>1. n + 1 - n = 1
    BY <1>1
  <2> QED
    BY <1>1, <1>4, <2>1
<1>6. at(1) = query
  <2>1. CASE s = <<>>
    <3>1. 1 \notin 1..n
      BY <1>1, <2>1, NoCall
    <3> QED
      BY <2>1, <3>1 DEF Waits
  <2>2. CASE s # <<>>
    BY <1>1, <2>2 DEF Waits
  <2> QED
    BY <2>1, <2>2
<1> QED
  BY <1>5, <1>6

\* The calls of a TypeName are of the same accessor.
LEMMA MadeByTypeName ==
    ASSUME pool \in Pools, NEW c, InOrder(c), NEW d, Made(c, d)
    PROVE  LET all == NamesOf(Multiname(c))
           IN  \E k \in 1..Len(all) :
                 /\ d = Call(c.fn, all[k])
                 /\ \A before \in 1..(k - 1) : "text" \in Ends(Call(c.fn, all[before]))
<1> DEFINE all == NamesOf(Multiname(c))
           calls == Calls(c)
<1>1. /\ DOMAIN calls = 1..Len(all) /\ Len(all) \in Nat
      /\ \A k \in 1..Len(all) : calls[k] = Call(c.fn, all[k])
  BY TypeNameCallsAre
<1>2. PICK k \in DOMAIN calls :
             d = calls[k] /\ \A before \in 1..(k - 1) : "text" \in Ends(calls[before])
  BY DEF Made
<1> HIDE DEF all, calls
<1>3. \A before \in 1..(k - 1) : before \in 1..Len(all)
  BY <1>1, <1>2
<1>4. \A before \in 1..(k - 1) : "text" \in Ends(Call(c.fn, all[before]))
  BY <1>1, <1>2, <1>3
<1> QED
  BY <1>1, <1>2, <1>4 DEF all

\* A stack that is full is full of names, each the name of the one before it:
\* as many rounds as the stack has room for do not get to the end of them.
LEMMA FullStack ==
    ASSUME pool \in Pools, NEW s, Path(s), Len(s) = StackLimit, NEW c, Waits(s, c)
    PROVE  "crash" \in Ends(query)
<1> DEFINE M == StackDepth
           N == Len(pool.multinames)
           n == Len(s)
           fn == query.fn
           names == pool.multinames
           t == Entered(s, c)
<1>1. N \in Nat /\ IsNames(names) /\ DOMAIN names = 1..N /\ M \in Nat
  BY NamesAre, StackDepthAssumption
<1>2. n \in Nat /\ DOMAIN s = 1..n /\ n = M + 2 /\ IsSeq(s)
  BY SeqShape DEF Path, StackLimit
<1>16. Below(s[n].call, c)
  <2>1. n \in DOMAIN s /\ n + 1 \notin DOMAIN s
    BY <1>1, <1>2
  <2>2. Made(s[n].call, c)
    BY <2>1 DEF Waits, Progress
  <2> HIDE DEF n
  <2>3. c \in Range(Calls(s[n].call))
    BY <2>2 DEF Made, Range
  <2> QED
    BY <2>3, CallsAre
<1>17. Path(t)
  BY <1>16, Longer
<1>18. Len(t) = n + 1 /\ \A i \in 1..n : t[i] = s[i]
  <2> DEFINE e == [call |-> c, todo |-> Calls(c)]
  <2>1. t = Append(s, e)
    BY DEF Entered
  <2> HIDE DEF e, t, n
  <2>2. IsSeq(t) /\ DOMAIN t = 1..(n + 1) /\ \A i \in 1..n : t[i] = s[i]
    BY <1>2, <2>1, Pushed DEF n
  <2>3. Len(t) \in Nat /\ DOMAIN t = 1..Len(t)
    BY <2>2, SeqShape
  <2>4. Len(t) = n + 1
    <3>1. n + 1 \in DOMAIN t /\ Len(t) \notin 1..n
      <4>1. n + 1 \in 1..(n + 1)
        BY <1>2
      <4>2. n + 1 \in 1..Len(t)
        BY <2>2, <2>3, <4>1
      <4> QED
        BY <1>2, <2>2, <2>3, <4>1, <4>2
    <3>2. Len(t) # 0 => Len(t) \in 1..(n + 1)
      <4>1. Len(t) # 0 => Len(t) \in 1..Len(t)
        BY <2>3
      <4> QED
        BY <2>2, <2>3, <4>1
    <3> QED
      BY <1>2, <2>2, <2>3, <3>1, <3>2
  <2> QED
    BY <2>2, <2>4
<1> HIDE DEF N, n, t, M
<1>3. \A i \in 1..(M + 1) : i \in DOMAIN s /\ Known(s[i].call)
  <2> TAKE i \in 1..(M + 1)
  <2>1. Len(t) > M + 2
    BY <1>1, <1>2, <1>18
  <2>2. Known(t[i].call)
    BY <1>1, <1>17, <2>1, DeepNames
  <2>3. i \in 1..n
    BY <1>1, <1>2
  <2> QED
    BY <1>2, <1>18, <2>2, <2>3
<1>4. ASSUME NEW i \in 1..M
      PROVE  InOrder(s[i].call) /\ Made(s[i].call, s[i + 1].call)
  <2>1. i \in DOMAIN s /\ i + 1 \in DOMAIN s /\ i < i + 1 /\ i + 1 \in 1..(M + 1)
    BY <1>1, <1>2
  <2>2. Linked(s, i, i + 1)
    BY <2>1 DEF Path
  <2>3. Progress(s[i], {s[i + 1].call})
    BY <2>1 DEF Waits
  <2> QED
    BY <1>3, <2>1, <2>2, <2>3 DEF Linked, Progress
<1>5. ASSUME NEW i \in 1..M
      PROVE  LET all == NamesOf(names[s[i].call.of])
             IN  \E k \in 1..Len(all) :
                   /\ s[i + 1].call = Call(s[i].call.fn, all[k])
                   /\ \A before \in 1..(k - 1) : "text" \in Ends(Call(s[i].call.fn, all[before]))
  BY <1>4, MadeByTypeName DEF Multiname
<1>6. s[1].call = query
  <2>1. s # <<>>
    BY <1>1, <1>2, NoCall
  <2> QED
    BY <2>1 DEF Waits
<1>7. \A i \in 1..(M + 1) : s[i].call.fn = fn
  <2> DEFINE F == {d \in Nat : d <= M => s[d + 1].call.fn = fn}
  <2>1. 0 \in F
    BY <1>6
  <2>2. ASSUME NEW d \in Nat, d \in F
        PROVE  d + 1 \in F
    <3> SUFFICES ASSUME d + 1 <= M
                 PROVE  s[d + 1 + 1].call.fn = fn
      OBVIOUS
    <3>1. d + 1 \in 1..M /\ d <= M
      BY <1>1
    <3>2. PICK x : s[d + 1 + 1].call = Call(s[d + 1].call.fn, x)
      BY <1>5, <3>1
    <3> QED
      BY <2>2, <3>1, <3>2 DEF Call
  <2> HIDE DEF F
  <2>3. Nat \subseteq F
    BY <2>1, <2>2, NatInductive
  <2> TAKE i \in 1..(M + 1)
  <2>4. i - 1 \in Nat /\ i - 1 <= M /\ i - 1 + 1 = i
    BY <1>1
  <2> QED
    BY <2>3, <2>4 DEF F
<1>8. fn \in Recursive
  <2>1. 1 \in 1..(M + 1)
    BY <1>1
  <2> QED
    BY <1>3, <1>6, <2>1 DEF Known
<1>9. PICK ends :
             /\ AreRounds(names, Leaf(fn), ends)
             /\ \A x : x.fn = fn => Ends(x) = Entry(ends[N], x.of) \cup (Entry(ends[M], x.of) \cap Crash)
  BY <1>8, EndsInRounds DEF N, M, Settled
<1>10. \A i \in 1..(M + 1) : s[i].call.of \in DOMAIN names
  BY <1>3 DEF Known
<1> DEFINE D == {d \in Nat : \A i \in 1..(M + 1 - d) : "crash" \in ends[d][s[i].call.of]}
<1>11. 0 \in D
  <2>1. M + 1 - 0 = M + 1
    BY <1>1
  <2> QED
    BY <1>9, <1>10, <2>1 DEF AreRounds, Crash
<1>12. ASSUME NEW d \in Nat, d \in D
       PROVE  d + 1 \in D
  <2> SUFFICES ASSUME NEW i \in 1..(M + 1 - (d + 1))
               PROVE  "crash" \in ends[d + 1][s[i].call.of]
    OBVIOUS
  <2>1. i \in 1..M /\ i + 1 \in 1..(M + 1 - d) /\ i + 1 \in 1..(M + 1) /\ i \in 1..(M + 1)
    BY <1>1
  <2> DEFINE x == s[i].call.of
             all == NamesOf(names[x])
  <2>2. PICK k \in 1..Len(all) :
               /\ s[i + 1].call = Call(s[i].call.fn, all[k])
               /\ \A before \in 1..(k - 1) : "text" \in Ends(Call(s[i].call.fn, all[before]))
    BY <1>5, <2>1
  <2>3. s[i].call.fn = fn /\ x \in DOMAIN names /\ names[x].kind = TypeName
    BY <1>4, <1>7, <1>10, <2>1 DEF InOrder, Multiname
  <2>4. \A before \in 1..(k - 1) : "text" \in Entry(ends[N], all[before])
    <3> TAKE before \in 1..(k - 1)
    <3>1. Call(fn, all[before]).fn = fn /\ Call(fn, all[before]).of = all[before]
      BY DEF Call
    <3> QED
      BY <1>9, <2>2, <2>3, <3>1 DEF Crash
  <2>5. s[i + 1].call.of = all[k] /\ all[k] \in DOMAIN names
    <3>1. s[i + 1].call.of = all[k]
      BY <2>2 DEF Call
    <3> QED
      BY <1>10, <2>1, <3>1
  <2>6. "crash" \in Entry(ends[d], all[k])
    <3>1. "crash" \in ends[d][all[k]]
      BY <1>12, <2>1, <2>5
    <3>2. DOMAIN ends[d] = DOMAIN names /\ all[k] # 0
      BY <1>1, <1>9, <2>5, RoundOf
    <3> QED
      BY <2>5, <3>1, <3>2 DEF Entry
  <2> HIDE DEF x, names
  <2> QED
    BY <1>1, <1>9, <2>1, <2>2, <2>3, <2>4, <2>6, CrashClimbs DEF x, N, names
<1>13. M \in D
  <2> HIDE DEF D
  <2> QED
    BY <1>1, <1>11, <1>12, NatInductive
<1>14. "crash" \in ends[M][query.of] /\ query.of \in DOMAIN names
  <2>1. 1 \in 1..(M + 1 - M) /\ 1 \in 1..(M + 1)
    BY <1>1
  <2> QED
    BY <1>6, <1>10, <1>13, <2>1
<1>15. DOMAIN ends[M] = DOMAIN names /\ query.of # 0
  BY <1>1, <1>9, <1>14, RoundOf
<1>19. "crash" \in Entry(ends[M], query.of)
  BY <1>14, <1>15 DEF Entry
<1>20. Ends(query) = Entry(ends[N], query.of) \cup (Entry(ends[M], query.of) \cap Crash)
  BY <1>9
<1> QED
  BY <1>19, <1>20 DEF Crash

-----------------------------------------------------------------------------
\* One more call.
LEMMA RunsOn ==
    ASSUME pool \in Pools, NEW s, IsSeq(s), NEW c, Waits(s, c), "text" \in Own(c)
    PROVE  Runs(Entered(s, c))
<1> DEFINE e == [call |-> c, todo |-> Calls(c)]
           n == Len(s)
           t == Append(s, e)
<1>1. /\ t # <<>> /\ DOMAIN t = 1..(n + 1)
      /\ \A i \in 1..n : t[i] = s[i]
      /\ t[n + 1] = e
  BY Pushed
<1>2. n \in Nat /\ DOMAIN s = 1..n /\ (s # <<>> => n # 0)
  BY SeqShape
<1>3. e.call = c /\ Progress(e, {})
  BY ProgressBegins DEF Waits
<1> HIDE DEF e, t, n
<1>4. ASSUME NEW i \in DOMAIN t
      PROVE  Progress(t[i], IF i + 1 \in DOMAIN t THEN {t[i + 1].call} ELSE {})
  <2>1. CASE i \in 1..n
    <3>1. i \in DOMAIN s /\ i + 1 \in DOMAIN t /\ t[i] = s[i]
      BY <1>1, <1>2, <2>1
    <3>2. t[i + 1].call = IF i + 1 \in DOMAIN s THEN s[i + 1].call ELSE c
      <4>1. CASE i + 1 \in 1..n
        BY <1>1, <1>2, <4>1
      <4>2. CASE i + 1 \notin 1..n
        <5>1. i + 1 = n + 1
          BY <1>2, <2>1, <4>2
        <5> QED
          BY <1>1, <1>2, <1>3, <4>2, <5>1
      <4> QED
        BY <4>1, <4>2
    <3> QED
      BY <3>1, <3>2 DEF Waits
  <2>2. CASE i = n + 1
    <3>1. i + 1 \notin DOMAIN t
      BY <1>1, <1>2, <2>2
    <3> QED
      BY <1>1, <1>3, <2>2, <3>1
  <2> QED
    BY <1>1, <1>2, <2>1, <2>2
<1>5. t[1].call = query
  <2>1. CASE s = <<>>
    <3>1. n = 0 /\ n + 1 = 1
      BY <2>1, EmptySeq DEF n
    <3> QED
      BY <1>1, <1>3, <2>1, <3>1 DEF Waits
  <2>2. CASE s # <<>>
    BY <1>1, <1>2, <2>2 DEF Waits
  <2> QED
    BY <2>1, <2>2
<1>6. Runs(t)
  BY <1>4, <1>5 DEF Runs
<1> QED
  BY <1>6 DEF Entered, t, e

\* The innermost call makes a call that it can make.
LEMMA RunsCalls ==
    ASSUME pool \in Pools, NEW s, Path(s), s # <<>>, Runs(s),
           NEW k \in DOMAIN s[Len(s)].todo, InOrder(s[Len(s)].call) => k = 1
    PROVE  Waits([s EXCEPT ![Len(s)].todo = RemoveAt(@, k)], s[Len(s)].todo[k])
<1> DEFINE n == Len(s)
           f == s[n]
           d == f.todo[k]
           g == [f EXCEPT !.todo = RemoveAt(f.todo, k)]
           t == [s EXCEPT ![n] = g]
<1>1. IsSeq(s) /\ n \in Nat \ {0} /\ DOMAIN s = 1..n /\ n + 1 \notin 1..n
  BY SeqShape DEF Path
<1> HIDE DEF n
<1>2. Progress(s[n], {}) /\ Framed(s[n])
  <2>1. n \in DOMAIN s /\ n + 1 \notin DOMAIN s
    BY <1>1
  <2> QED
    BY <2>1 DEF Runs, Path
<1>3. g.call = f.call /\ g.todo = RemoveAt(f.todo, k)
  <2>1. DOMAIN f = {"call", "todo"}
    BY <1>2 DEF Framed
  <2> HIDE DEF f
  <2> QED
    BY <2>1
<1>4. /\ t # <<>> /\ DOMAIN t = 1..n
      /\ \A i \in 1..n : t[i] = IF i = n THEN g ELSE s[i]
  <2> HIDE DEF g
  <2> QED
    BY <1>1, Replaced DEF n
<1> HIDE DEF g, t, d
<1>5. Progress(g, {d}) /\ IsCall(d)
  <2>1. IsSeq(f.todo) /\ k \in DOMAIN f.todo /\ (InOrder(f.call) => k = 1)
    BY <1>2 DEF Framed, n
  <2> HIDE DEF f
  <2>2. Progress(f, {})
    BY <1>2 DEF f
  <2> QED
    BY <1>3, <2>1, <2>2, ProgressCalls DEF d
<1> HIDE DEF f
<1>6. ASSUME NEW i \in DOMAIN t
      PROVE  Progress(t[i], {IF i + 1 \in DOMAIN t THEN t[i + 1].call ELSE d})
  <2>1. CASE i = n
    BY <1>1, <1>4, <1>5, <2>1
  <2>2. CASE i # n
    <3>1. i \in DOMAIN s /\ i + 1 \in DOMAIN s /\ i + 1 \in DOMAIN t /\ t[i] = s[i]
      BY <1>1, <1>4, <2>2
    <3>2. t[i + 1].call = s[i + 1].call
      BY <1>1, <1>3, <1>4, <3>1 DEF f
    <3> QED
      BY <3>1, <3>2 DEF Runs
  <2> QED
    BY <2>1, <2>2
<1>7. t[1].call = query
  <2>1. t[1].call = s[1].call
    BY <1>1, <1>3, <1>4 DEF f
  <2> QED
    BY <2>1 DEF Runs
<1>8. Waits(t, d)
  BY <1>4, <1>5, <1>6, <1>7 DEF Waits
<1> QED
  BY <1>8 DEF t, d, g, f, n

\* The innermost call returns: to the one before it, or to the client.
LEMMA RunsBack ==
    ASSUME pool \in Pools, NEW s, Path(s), s # <<>>, Runs(s), s[Len(s)].todo = <<>>
    PROVE  Runs(Front(s)) /\ (Len(s) = 1 => "text" \in Ends(query))
<1> DEFINE n == Len(s)
           t == Front(s)
           c == s[n].call
<1>1. IsSeq(s) /\ n \in Nat \ {0} /\ DOMAIN s = 1..n /\ n + 1 \notin 1..n
  BY SeqShape DEF Path
<1>2. IsSeq(t) /\ DOMAIN t = 1..(n - 1) /\ \A i \in 1..(n - 1) : t[i] = s[i]
  BY <1>1, Popped
<1> HIDE DEF n, t, c
<1>3. "text" \in Ends(c)
  <2>1. Progress(s[n], {})
    <3>1. n \in DOMAIN s /\ n + 1 \notin DOMAIN s
      BY <1>1
    <3> QED
      BY <3>1 DEF Runs
  <2> QED
    BY <2>1, ProgressEnds DEF n, c
<1>4. ASSUME NEW i \in DOMAIN t
      PROVE  Progress(t[i], IF i + 1 \in DOMAIN t THEN {t[i + 1].call} ELSE {})
  <2>1. i \in DOMAIN s /\ i + 1 \in DOMAIN s /\ t[i] = s[i]
    BY <1>1, <1>2
  <2>2. Progress(s[i], {s[i + 1].call})
    BY <2>1 DEF Runs
  <2>3. CASE i + 1 \in DOMAIN t
    BY <1>2, <2>1, <2>2, <2>3
  <2>4. CASE i + 1 \notin DOMAIN t
    <3>1. i + 1 = n
      BY <1>1, <1>2, <2>4
    <3>2. Progress(s[i], {c})
      BY <2>2, <3>1 DEF c
    <3>3. Progress(s[i], {})
      BY <1>3, <3>2, ProgressReturns
    <3> QED
      BY <2>1, <2>4, <3>3
  <2> QED
    BY <2>3, <2>4
<1>5. s[1].call = query
  BY DEF Runs
<1>6. t # <<>> => t[1].call = query
  <2> SUFFICES ASSUME t # <<>>
               PROVE  t[1].call = query
    OBVIOUS
  <2>1. 1 \in 1..(n - 1)
    <3>1. Len(t) # 0 /\ DOMAIN t = 1..Len(t) /\ Len(t) \in Nat
      BY <1>2, SeqShape
    <3>2. 1 \in DOMAIN t
      BY <3>1
    <3> QED
      BY <1>2, <3>2
  <2> QED
    BY <1>2, <1>5, <2>1
<1>7. n = 1 => "text" \in Ends(query)
  BY <1>3, <1>5 DEF c
<1> QED
  BY <1>4, <1>6, <1>7 DEF Runs, t, n

-----------------------------------------------------------------------------
RInv ==
    /\ PInv
    /\ query \in Queries
    /\ Runs(stack)
    /\ EndsAsPromised

\* What a frame has behind it depends on the pool, which stays.
LEMMA ProgressStays ==
    ASSUME UNCHANGED pool
    PROVE  /\ \A c : Ends(c)' = Ends(c)
           /\ \A frame, open : Progress(frame, open)' <=> Progress(frame, open)
<1>1. ASSUME NEW c
      PROVE  /\ Ends(c)' = Ends(c) /\ Own(c)' = Own(c) /\ Calls(c)' = Calls(c)
             /\ InOrder(c)' <=> InOrder(c)
             /\ IsCall(c)' <=> IsCall(c)
  BY DEF Ends, Own, Calls, TypeNameCalls, InOrder, Known, Multiname, IsCall
<1>2. \A c, d : Made(c, d)' <=> Made(c, d)
  BY <1>1 DEF Made
<1>3. ASSUME NEW todo, NEW all, NEW open
      PROVE  /\ InOrderBehind(todo, all, open)' <=> InOrderBehind(todo, all, open)
             /\ AnyBehind(todo, all, open)' <=> AnyBehind(todo, all, open)
  BY <1>1 DEF InOrderBehind, AnyBehind, Behind
<1>4. ASSUME NEW frame, NEW open
      PROVE  Progress(frame, open)' <=> Progress(frame, open)
  <2> DEFINE c == frame.call
             all == Calls(c)
  <2>1. /\ InOrder(c)' <=> InOrder(c)
        /\ IsCall(c)' <=> IsCall(c)
        /\ "text" \in Own(c)' <=> "text" \in Own(c)
        /\ Calls(c)' = Calls(c)
    BY <1>1
  <2>2. (\A d \in open : Made(c, d)') <=> \A d \in open : Made(c, d)
    BY <1>2
  <2>3. PICK a : a = Calls(c) /\ a = Calls(c)'
    BY <2>1
  <2>4. /\ InOrderBehind(frame.todo, a, open)' <=> InOrderBehind(frame.todo, a, open)
        /\ AnyBehind(frame.todo, a, open)' <=> AnyBehind(frame.todo, a, open)
    BY <1>3
  <2>5. /\ InOrderBehind(frame.todo, all, open)' <=> InOrderBehind(frame.todo, all, open)
        /\ AnyBehind(frame.todo, all, open)' <=> AnyBehind(frame.todo, all, open)
    BY <2>3, <2>4
  <2> QED
    BY <2>1, <2>2, <2>5 DEF Progress
<1> QED
  BY <1>1, <1>4

LEMMA RunsStay ==
    ASSUME NEW s, UNCHANGED <<pool, query>>
    PROVE  Runs(s)' <=> Runs(s')
BY ProgressStays DEF Runs

LEMMA EnterWell ==
    ASSUME RInv, UNCHANGED <<pool, query>>, NEW c, NEW below, Path(below), Waits(below, c),
           Enter(c, below)
    PROVE  Runs(stack)' /\ EndsAsPromised'
<1>1. pool \in Pools /\ IsSeq(below) /\ IsCall(c)
  BY DEF RInv, PInv, Path, Waits
<1>2. CASE "text" \in Own(c) /\ stack' = Entered(below, c) /\ UNCHANGED result
  <2>1. Runs(stack')
    BY <1>1, <1>2, RunsOn
  <2>2. EndsAsPromised'
    BY <1>2, ProgressStays DEF RInv, EndsAsPromised
  <2> QED
    BY <2>1, <2>2, RunsStay
<1>3. ASSUME NEW e \in {"throw", "crash"}, e \in Ends(query), stack' = <<>>, result' = e
      PROVE  Runs(stack)' /\ EndsAsPromised'
  <2>1. Runs(stack')
    BY <1>3, NoCall DEF Runs
  <2>2. EndsAsPromised'
    BY <1>3, ProgressStays DEF EndsAsPromised
  <2> QED
    BY <2>1, <2>2, RunsStay
<1>4. ASSUME NEW e \in {"throw", "crash"}, e \in Own(c)
      PROVE  e \in Ends(query)
  <2>1. e \in Ends(c)
    BY <1>1, <1>4, OwnFailure
  <2> QED
    BY <1>1, <2>1, FailsThrough
<1>5. Len(below) = StackLimit => "crash" \in Ends(query)
  BY <1>1, FullStack
<1> QED
  BY <1>2, <1>3, <1>4, <1>5 DEF Enter

LEMMA NextEndsWell == RInv /\ [Next]_vars => RInv'
<1> SUFFICES ASSUME RInv, [Next]_vars
             PROVE  RInv'
  OBVIOUS
<1>1. UNCHANGED <<pool, query>>
  BY DEF Next, vars, Ask, Descend, Return, Ended
<1>2. PInv'
  BY LemmaNext DEF RInv
<1>3. SUFFICES Runs(stack)' /\ EndsAsPromised'
  BY <1>1, <1>2 DEF RInv
<1>4. CASE Ask
  <2>1. Enter(query, <<>>)
    BY <1>4 DEF Ask
  <2>2. Waits(<<>>, query)
    <3>1. IsCall(query)
      BY QueriesAssumption DEF RInv, IsCall
    <3> QED
      BY <3>1, NoCall DEF Waits
  <2> QED
    BY <1>1, <2>1, <2>2, EmptyPath, EnterWell
<1>5. CASE Descend
  <2>1. stack # <<>>
    BY <1>5 DEF Descend
  <2>2. PICK k \in DOMAIN Top.todo :
               /\ InOrder(Top.call) => k = 1
               /\ Enter(Top.todo[k], [stack EXCEPT ![Len(stack)].todo = RemoveAt(@, k)])
    BY <1>5 DEF Descend
  <2> DEFINE below == [stack EXCEPT ![Len(stack)].todo = RemoveAt(@, k)]
  <2>3. Top = stack[Len(stack)]
    BY DEF Top, Last
  <2>4. Path(below)
    BY <2>1, <2>2, <2>3, Narrower DEF RInv, PInv
  <2>5. Waits(below, Top.todo[k])
    BY <2>1, <2>2, <2>3, RunsCalls DEF RInv, PInv
  <2> HIDE DEF below
  <2> QED
    BY <1>1, <2>2, <2>4, <2>5, EnterWell DEF below
<1>6. CASE Return
  <2>1. /\ stack # <<>> /\ stack[Len(stack)].todo = <<>> /\ stack' = Front(stack)
        /\ result' = IF Len(stack) = 1 THEN "text" ELSE result
    BY <1>6 DEF Return, Top, Last
  <2>2. Runs(Front(stack)) /\ (Len(stack) = 1 => "text" \in Ends(query))
    BY <2>1, RunsBack DEF RInv, PInv
  <2>3. EndsAsPromised'
    BY <1>1, <2>1, <2>2, ProgressStays DEF RInv, EndsAsPromised
  <2> QED
    BY <1>1, <2>1, <2>2, <2>3, RunsStay
<1>7. CASE UNCHANGED vars
  <2>1. stack' = stack /\ result' = result
    BY <1>7 DEF vars
  <2>2. EndsAsPromised'
    BY <1>1, <2>1, ProgressStays DEF RInv, EndsAsPromised
  <2> QED
    BY <1>1, <2>1, <2>2, RunsStay DEF RInv
<1> QED
  BY <1>4, <1>5, <1>6, <1>7 DEF Next, Ended

\* However the compiler orders the arguments, and however deep the names go, an
\* accessor returns, throws or crashes only where ConstantPool, which follows
\* the names round by round, says that it can: on a stack of any size, which
\* may be too small for the names of the pool.
THEOREM AccessEndsAsPromised == Spec => []EndsAsPromised
<1>1. Init => RInv
  <2> SUFFICES ASSUME Init
               PROVE  RInv
    OBVIOUS
  <2>1. Runs(<<>>)
    BY NoCall DEF Runs
  <2> QED
    BY <2>1, EmptyPath DEF Init, RInv, PInv, EndsAsPromised
<1>2. RInv => EndsAsPromised
  BY DEF RInv
<1> QED
  BY <1>1, <1>2, NextEndsWell, PTL DEF Spec

=============================================================================

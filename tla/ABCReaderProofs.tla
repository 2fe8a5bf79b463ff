--------------------------- MODULE ABCReaderProofs ---------------------------
(***************************************************************************)
(* Theorems on class ABCReader.                                            *)
(*                                                                         *)
(* Its primitive reads, for every byte string, every place in it or behind *)
(* it and every order of calls: a read looks at nothing outside of the     *)
(* buffer, and an integer of variable length is read as it was encoded,    *)
(* whatever the sign of a char does to the word on the way.                *)
(*                                                                         *)
(* ABCReader::read, for every input: the tables cannot grow faster than    *)
(* the cursor moves, and what is read of a file whose integers are all     *)
(* written the short way is, written again, the bytes that were read.      *)
(***************************************************************************)
EXTENDS ABCReaderWords, ABCParse, DataFacts, SequenceTheorems

\* A reader on a byte string, at a place in it or behind it.
ReaderType ==
    /\ buf \in Seq(Byte)
    /\ signed \in BOOLEAN
    /\ cur \in Nat

\* A byte of the buffer, and the char that it is.
LEMMA ByteType ==
    ASSUME ReaderType, NEW p \in Nat, InRange(buf, p + 1)
    PROVE  /\ ByteAt(buf, p) \in 0..255
           /\ BitsOf[ByteAt(buf, p)] \subseteq 0..7
           /\ Char(p) \subseteq WordBits
           /\ Char(p) \cap (0..7) = BitsOf[ByteAt(buf, p)]
           /\ \A k \in Char(p) : k >= 8 => 7 \in Char(p)
           /\ 7 \in Char(p) <=> ByteAt(buf, p) >= 128
<1>1. ByteAt(buf, p) \in 0..255
  <2>1. p + 1 \in 1..Len(buf)
    BY LenProperties DEF ReaderType, InRange
  <2> QED
    BY <2>1, ElementOfSeq DEF ReaderType, ByteAt, Byte
<1> DEFINE bits == BitsOf[ByteAt(buf, p)]
<1>2. bits \subseteq 0..7 /\ (7 \in bits <=> ByteAt(buf, p) >= 128)
  BY <1>1, BitsOfType
<1>3. Char(p) = IF signed /\ 7 \in bits THEN bits \cup (8..31) ELSE bits
  <2>1. 8 - 1 = 7
    OBVIOUS
  <2> QED
    BY <2>1 DEF Char, SignExtend
<1> HIDE DEF Char, bits
<1> QED
  BY <1>1, <1>2, <1>3 DEF WordBits, bits

-----------------------------------------------------------------------------
(***************************************************************************)
(* The word of readU32.                                                    *)
(***************************************************************************)
CharsHere == [i \in Nat |-> Char(cur + i)]

\* The words of the loop are collected from the chars.
LEMMA WordCollects ==
    ASSUME ReaderType, InRange(buf, cur + 1)
    PROVE  Collects(Word, CharsHere)
<1> DEFINE C == CharsHere
           body(f) == [n \in Nat |-> IF n = 0 THEN Char(cur)
                                     ELSE (f[n - 1] \cap (0..(7 * n - 1))) \cup Shl(Char(cur + n), 7 * n)]
           w == CHOOSE g : g = body(g)
<1>1. C[0] = Char(cur) /\ \A n \in Nat : C[n] = Char(cur + n)
  <2>1. cur + 0 = cur
    BY DEF ReaderType
  <2> QED
    BY <2>1 DEF CharsHere
<1>2. C[0] \subseteq WordBits
  BY <1>1, ByteType DEF ReaderType
<1> HIDE DEF C
<1>3. \A f : body(f) = Taken(C, f)
  BY <1>1 DEF Taken
<1>4. PICK f : f = Taken(C, f)
  BY <1>2, Collectable
<1>5. w = body(w)
  <2>1. f = body(f)
    BY <1>3, <1>4
  <2> HIDE DEF body
  <2> QED
    BY <2>1
<1>6. Word = w
  BY Zenon DEF Word
<1> HIDE DEF w, body
<1>7. w = Taken(C, w)
  BY <1>3, <1>5
<1> QED
  BY <1>6, <1>7, TakenCollects DEF C

\* Each char up to the end of the buffer is a byte and its sign.
LEMMA CharsHereType ==
    ASSUME ReaderType, NEW n \in Nat, InRange(buf, cur + n + 1)
    PROVE  /\ CharsHere[n] \subseteq WordBits
           /\ SignOnly(CharsHere, n)
           /\ 7 \in CharsHere[n] <=> ByteAt(buf, cur + n) >= 128
           /\ CharsHere[n] \cap (0..6) = BitsOf[ByteAt(buf, cur + n)] \cap (0..6)
<1>1. cur + n \in Nat /\ CharsHere[n] = Char(cur + n)
  BY DEF CharsHere, ReaderType
<1>2. Char(cur + n) \cap (0..7) = BitsOf[ByteAt(buf, cur + n)]
  BY <1>1, ByteType
<1>3. \A x \in 0..6 : x \in 0..7
  OBVIOUS
<1> DEFINE char == Char(cur + n)
<1>4. char \cap (0..6) = BitsOf[ByteAt(buf, cur + n)] \cap (0..6)
  <2> HIDE DEF char
  <2> QED
    BY <1>2, <1>3 DEF char
<1> QED
  BY <1>1, <1>4, ByteType DEF SignOnly

\* What lies before a place in the buffer is in the buffer.
LEMMA InRangeBefore ==
    ASSUME ReaderType, NEW n \in Nat, NEW m \in Nat, InRange(buf, cur + n), m <= n
    PROVE  InRange(buf, cur + m)
BY LenProperties DEF ReaderType, InRange

\* The loop asks the word whether to go on, the format its last byte.
LEMMA WordGoesOn ==
    ASSUME ReaderType, NEW n \in 1..4, InRange(buf, cur + n)
    PROVE  Word[n - 1] \cap ((7 * n)..31) = {} <=> ByteAt(buf, cur + n - 1) < 128
<1> DEFINE w == Word[n - 1]
<1>1. n - 1 \in Nat /\ cur + (n - 1) = cur + n - 1 /\ cur + (n - 1) + 1 = cur + n
  BY DEF ReaderType
<1>2. \A i \in 0..(n - 1) : InRange(buf, cur + i + 1)
  <2>1. ASSUME NEW i \in 0..(n - 1)
        PROVE  InRange(buf, cur + i + 1)
    <3>1. i + 1 \in Nat /\ n \in Nat /\ i + 1 <= n /\ cur + (i + 1) = cur + i + 1
      BY DEF ReaderType
    <3> QED
      BY <3>1, InRangeBefore
  <2> QED
    BY <2>1
<1>3. 7 \in CharsHere[n - 1] <=> ByteAt(buf, cur + n - 1) >= 128
  BY <1>1, CharsHereType
<1>4. (\E k \in w : k >= 7 * n) <=> 7 \in CharsHere[n - 1]
  <2>1. \A i \in 0..(n - 1) : CharsHere[i] \subseteq WordBits
    BY <1>2, CharsHereType
  <2>2. SignOnly(CharsHere, n - 1)
    BY <1>1, CharsHereType
  <2>3. InRange(buf, cur + 1)
    <3>1. 0 \in 0..(n - 1) /\ cur + 0 + 1 = cur + 1
      BY DEF ReaderType
    <3> QED
      BY <1>2, <3>1
  <2> QED
    BY <2>1, <2>2, <2>3, WordCollects, WordAsksOn
<1>5. w \cap ((7 * n)..31) = {} <=> ~\E k \in w : k >= 7 * n
  <2>1. w \subseteq WordBits
    <3>1. \A i \in 0..(n - 1) : CharsHere[i] \subseteq WordBits
      BY <1>2, CharsHereType
    <3>2. InRange(buf, cur + 1)
      <4>1. 0 \in 0..(n - 1) /\ cur + 0 + 1 = cur + 1
        BY DEF ReaderType
      <4> QED
        BY <1>2, <4>1
    <3>3. Collects(Word, CharsHere)
      BY <3>2, WordCollects
    <3> DEFINE m == n - 1
    <3>4. m \in Nat /\ m \in 0..m
      OBVIOUS
    <3> HIDE DEF m
    <3>5. \A i \in 0..m : CharsHere[i] \subseteq WordBits
      BY <3>1 DEF m
    <3>6. Word[m] \subseteq WordBits
      BY <3>3, <3>4, <3>5, WordOfGroups
    <3> QED
      BY <3>6 DEF m
  <2> HIDE DEF w
  <2> QED
    BY <2>1 DEF WordBits
<1>6. ByteAt(buf, cur + n - 1) \in 0..255
  <2>1. cur + n - 1 \in Nat /\ cur + n - 1 + 1 = cur + n
    BY DEF ReaderType
  <2> QED
    BY <2>1, ByteType
<1> QED
  BY <1>3, <1>4, <1>5, <1>6

\* The loop ends where the encoding does: Min is a choice that can be made.
LEMMA LengthIsEncoded ==
    ASSUME ReaderType
    PROVE  /\ Length \in 1..5
           /\ Length = Encoded(cur)
           /\ ~InRange(buf, cur + Length) \/ Length = 5 \/ ByteAt(buf, cur + Length - 1) < 128
           /\ \A m \in 1..(Length - 1) : InRange(buf, cur + m) /\ ByteAt(buf, cur + m - 1) >= 128
<1> DEFINE S == {n \in 1..5 : Stops(n)}
           T == {n \in 1..5 : cur + n > Len(buf) \/ n = 5 \/ ByteAt(buf, cur + n - 1) < 128}
<1>1. ASSUME NEW n \in 1..5
      PROVE  /\ InRange(buf, cur + n) <=> ~(cur + n > Len(buf))
             /\ Stops(n) <=> cur + n > Len(buf) \/ n = 5 \/ ByteAt(buf, cur + n - 1) < 128
  <2>1. InRange(buf, cur + n) <=> ~(cur + n > Len(buf))
    BY LenProperties DEF InRange, ReaderType
  <2>2. CASE n = 5 \/ ~InRange(buf, cur + n)
    BY <2>1, <2>2 DEF Stops
  <2>3. CASE n # 5 /\ InRange(buf, cur + n)
    <3>1. n \in 1..4
      BY <2>3
    <3>2. Word[n - 1] \cap ((7 * n)..31) = {} <=> ByteAt(buf, cur + n - 1) < 128
      BY <2>3, <3>1, WordGoesOn
    <3> QED
      BY <2>1, <2>3, <3>2 DEF Stops
  <2> QED
    BY <2>1, <2>2, <2>3
<1>2. S = T
  BY <1>1
<1>3. T \subseteq Nat /\ 5 \in T
  OBVIOUS
<1>4. \E n \in T : \A m \in T : n <= m
  <2> HIDE DEF T
  <2> QED
    BY <1>3, NatMinimum
<1>5. Length = Min(T) /\ Encoded(cur) = Min(T)
  <2> HIDE DEF S, T
  <2>1. Length = Min(S)
    BY Zenon DEF Length, S
  <2>2. Encoded(cur) = Min(T)
    BY Zenon DEF Encoded, T
  <2> QED
    BY <1>2, <2>1, <2>2
<1> DEFINE l == Length
<1>6. l \in T /\ \A m \in T : l <= m
  <2> HIDE DEF T, l
  <2>1. l = CHOOSE n \in T : \A m \in T : n <= m
    BY Zenon, <1>5 DEF Min, l
  <2> QED
    BY <1>4, <2>1
<1>7. l = Encoded(cur)
  BY <1>5
<1> HIDE DEF l
<1>8. l \in 1..5 /\ (cur + l > Len(buf) \/ l = 5 \/ ByteAt(buf, cur + l - 1) < 128)
  BY <1>6
<1>9. ASSUME NEW m \in 1..(l - 1)
      PROVE  InRange(buf, cur + m) /\ ByteAt(buf, cur + m - 1) >= 128
  <2>1. m \in 1..5 /\ ~(l <= m)
    BY <1>8
  <2>2. m \notin T
    BY <1>6, <2>1
  <2>3. ~(cur + m > Len(buf)) /\ ~(ByteAt(buf, cur + m - 1) < 128)
    BY <2>1, <2>2
  <2>4. InRange(buf, cur + m)
    BY <1>1, <2>1, <2>3
  <2>5. cur + m - 1 \in Nat /\ cur + m - 1 + 1 = cur + m
    BY <2>1 DEF ReaderType
  <2>6. ByteAt(buf, cur + m - 1) \in 0..255
    BY <2>4, <2>5, ByteType
  <2> QED
    <3>1. \A b \in 0..255 : ~(b < 128) => b >= 128
      OBVIOUS
    <3> QED
      BY <2>3, <2>4, <2>6, <3>1
<1>10. ~InRange(buf, cur + l) \/ l = 5 \/ ByteAt(buf, cur + l - 1) < 128
  BY <1>1, <1>8
<1> QED
  BY <1>7, <1>8, <1>9, <1>10 DEF l

\* What the byte at from + i brings to the integer encoded at from.
Seven(from, i) == {7 * i + j : j \in BitsOf[ByteAt(buf, from + i)] \cap (0..6)}

\* The word that readU32 ends with is what was encoded.
LEMMA WordIsEncoded ==
    ASSUME ReaderType, InRange(buf, cur + Length)
    PROVE  /\ Word[Length - 1] = EncodedBits(cur) \cap WordBits
           /\ Word[Length - 1] \subseteq WordBits
<1> DEFINE L == Length
           N == L - 1
<1>1. L \in 1..5 /\ L = Encoded(cur) /\ (L = 5 \/ ByteAt(buf, cur + L - 1) < 128)
  BY LengthIsEncoded
<1>2. InRange(buf, cur + L)
  OBVIOUS
<1> HIDE DEF L
<1>3. N \in Nat /\ N \in 0..4 /\ cur + N = cur + L - 1 /\ cur + N + 1 = cur + L
  BY <1>1 DEF ReaderType
<1>4. \A i \in 0..N : InRange(buf, cur + i + 1)
  <2>1. ASSUME NEW i \in 0..N
        PROVE  InRange(buf, cur + i + 1)
    <3>1. i + 1 \in Nat /\ L \in Nat /\ i + 1 <= L /\ cur + (i + 1) = cur + i + 1
      BY <1>1 DEF ReaderType
    <3> QED
      BY <1>2, <3>1, InRangeBefore
  <2> QED
    BY <2>1
<1>5. (N = 4 \/ ByteAt(buf, cur + N) < 128)
  BY <1>1, <1>3
<1> HIDE DEF N
<1>6. \A i \in 0..N : CharsHere[i] \subseteq WordBits
  BY <1>4, CharsHereType
<1>7. Word[N] = Groups(CharsHere, N)
  <2>1. N \in 0..N /\ 0 \in 0..N /\ cur + 0 + 1 = cur + 1
    BY <1>3 DEF ReaderType
  <2>2. N = 4 \/ 7 \notin CharsHere[N]
    <3>1. cur + N \in Nat /\ InRange(buf, cur + N + 1)
      BY <1>3, <1>4, <2>1 DEF ReaderType
    <3>2. ByteAt(buf, cur + N) < 128 => ~(ByteAt(buf, cur + N) >= 128)
      BY <3>1, ByteType
    <3> QED
      BY <1>3, <1>5, <3>1, <3>2, CharsHereType
  <2>3. SignOnly(CharsHere, N)
    BY <1>3, <1>4, <2>1, CharsHereType
  <2>4. InRange(buf, cur + 1)
    BY <1>4, <2>1
  <2> QED
    BY <1>3, <1>6, <2>2, <2>3, <2>4, WordCollects, WordEnds
<1>8. EncodedBits(cur) = UNION {Seven(cur, i) : i \in 0..N}
  BY Zenon, <1>1 DEF EncodedBits, Seven, N
<1>9. \A k, i : k \in Seven(cur, i) <=>
                  \E j \in BitsOf[ByteAt(buf, cur + i)] \cap (0..6) : k = 7 * i + j
  BY DEF Seven
<1>10. \A i \in 0..N : CharsHere[i] \cap (0..6) = BitsOf[ByteAt(buf, cur + i)] \cap (0..6)
  BY <1>4, CharsHereType
<1> DEFINE C == CharsHere
<1> HIDE DEF C
<1>11. ASSUME NEW k
       PROVE  k \in Groups(C, N) <=> k \in EncodedBits(cur) \cap WordBits
  <2>1. k \in Groups(C, N) <=>
          k \in WordBits /\ \E i \in 0..N : \E j \in C[i] \cap (0..6) : k = 7 * i + j
    BY InGroups
  <2>2. (\E i \in 0..N : \E j \in C[i] \cap (0..6) : k = 7 * i + j) <=>
          \E i \in 0..N : \E j \in BitsOf[ByteAt(buf, cur + i)] \cap (0..6) : k = 7 * i + j
    BY <1>10 DEF C
  <2>3. k \in EncodedBits(cur) <=> \E i \in 0..N : k \in Seven(cur, i)
    BY <1>8
  <2> QED
    BY <1>9, <2>1, <2>2, <2>3
<1>12. Word[N] = EncodedBits(cur) \cap WordBits
  BY <1>7, <1>11 DEF C
<1> QED
  BY <1>12 DEF N, L

\* The length that readString believes is a number.
LEMMA U30Type ==
    ASSUME ReaderType, InRange(buf, cur + Length)
    PROVE  U30At(buf, cur) \in Nat
<1> DEFINE L == Length
<1>1. L \in 1..5 /\ (L = 5 \/ ByteAt(buf, cur + L - 1) < 128) /\ InRange(buf, cur + L)
  BY LengthIsEncoded
<1> HIDE DEF L
<1>2. ASSUME NEW i \in 0..4
      PROVE  Group(buf, cur, i) \in Nat
  <2>1. CASE ~Continues(buf, cur, i)
    BY <2>1 DEF Group
  <2>2. CASE Continues(buf, cur, i) /\ i < L
    <3>1. i + 1 \in Nat /\ L \in Nat /\ i + 1 <= L /\ cur + (i + 1) = cur + i + 1 /\ cur + i \in Nat
      BY <1>1, <2>2 DEF ReaderType
    <3>2. ByteAt(buf, cur + i) \in 0..255
      BY <1>1, <3>1, InRangeBefore, ByteType
    <3> QED
      BY <2>2, <3>2 DEF Group
  <2>3. CASE Continues(buf, cur, i) /\ ~(i < L)
    <3>1. L - 1 \in 0..(i - 1) /\ L # 5 /\ cur + (L - 1) = cur + L - 1
      BY <1>1, <2>3 DEF ReaderType
    <3>2. ByteAt(buf, cur + L - 1) >= 128
      BY <2>3, <3>1 DEF Continues
    <3>3. cur + L - 1 \in Nat /\ cur + L - 1 + 1 = cur + L
      BY <1>1 DEF ReaderType
    <3>4. ByteAt(buf, cur + L - 1) \in 0..255
      BY <1>1, <3>3, ByteType
    <3> QED
      BY <1>1, <3>1, <3>2, <3>4
  <2> QED
    BY <2>1, <2>2, <2>3
<1>3. /\ Group(buf, cur, 0) \in Nat /\ Group(buf, cur, 1) \in Nat /\ Group(buf, cur, 2) \in Nat
      /\ Group(buf, cur, 3) \in Nat /\ Group(buf, cur, 4) \in Nat
  BY <1>2
<1> QED
  BY <1>3 DEF U30At

----------------------------------------------------------------------------------------------------------------------------------------------------------
(***************************************************************************)
(* The same reads by the operators of ABCReader.                           *)
(***************************************************************************)
LEMMA ContinuesIs ==
    ASSUME ReaderType, NEW k \in 0..4
    PROVE  Continues(buf, cur, k) <=> k < Length
<1> DEFINE L == Length
<1>1. /\ L \in 1..5
      /\ ~InRange(buf, cur + L) \/ L = 5 \/ ByteAt(buf, cur + L - 1) < 128
      /\ \A m \in 1..(L - 1) : InRange(buf, cur + m) /\ ByteAt(buf, cur + m - 1) >= 128
  BY LengthIsEncoded
<1> HIDE DEF L
<1>2. ASSUME k < L, NEW i \in 0..(k - 1)
      PROVE  InRange(buf, cur + i + 1) /\ ByteAt(buf, cur + i) >= 128
  <2>1. i + 1 \in 1..(L - 1) /\ cur + (i + 1) = cur + i + 1 /\ cur + (i + 1) - 1 = cur + i
    BY <1>1, <1>2 DEF ReaderType
  <2> QED
    BY <1>1, <2>1
<1>3. ASSUME ~(k < L), Continues(buf, cur, k)
      PROVE  FALSE
  <2>1. L - 1 \in 0..(k - 1) /\ L # 5 /\ cur + (L - 1) = cur + L - 1 /\ cur + (L - 1) + 1 = cur + L
    BY <1>1, <1>3 DEF ReaderType
  <2>2. InRange(buf, cur + L) /\ ByteAt(buf, cur + L - 1) >= 128
    BY <1>3, <2>1 DEF Continues
  <2>3. cur + L - 1 \in Nat /\ cur + L - 1 + 1 = cur + L
    BY <1>1 DEF ReaderType
  <2>4. ByteAt(buf, cur + L - 1) \in 0..255
    BY <2>2, <2>3, ByteType
  <2> QED
    BY <1>1, <2>1, <2>2, <2>4
<1> QED
  BY <1>2, <1>3 DEF Continues, L

LEMMA AfterIs ==
    ASSUME ReaderType
    PROVE  AfterU30(buf, cur) = cur + Length
<1>1. Length \in 1..5
  BY LengthIsEncoded
<1>2. \A k \in 1..4 : Continues(buf, cur, k) <=> k < Length
  BY ContinuesIs
<1> DEFINE L == Length
           go(k) == Continues(buf, cur, k)
<1>3. VarLen(buf, cur) = IF ~go(1) THEN 1 ELSE IF ~go(2) THEN 2 ELSE IF ~go(3) THEN 3 ELSE IF ~go(4) THEN 4 ELSE 5
  BY DEF VarLen
<1>4. (go(1) <=> 1 < L) /\ (go(2) <=> 2 < L) /\ (go(3) <=> 3 < L) /\ (go(4) <=> 4 < L)
  BY <1>2
<1> HIDE DEF go, L
<1>5. VarLen(buf, cur) = L
  BY <1>1, <1>3, <1>4 DEF L
<1> QED
  BY <1>5 DEF AfterU30, L

\* What a group adds to the number, bit by bit.
LEMMA GroupIs ==
    ASSUME ReaderType, InRange(buf, cur + Length), NEW i \in 0..4
    PROVE  /\ Group(buf, cur, i) \in 0..127
           /\ \A j \in 0..6 : OneAt(Group(buf, cur, i), j) <=>
                                i < Length /\ j \in BitsOf[ByteAt(buf, cur + i)] /\ 7 * i + j <= 29
<1> DEFINE L == Length
           g == Group(buf, cur, i)
           b == ByteAt(buf, cur + i)
<1>1. L \in 1..5 /\ InRange(buf, cur + L)
  BY LengthIsEncoded
<1>2. Continues(buf, cur, i) <=> i < L
  BY ContinuesIs
<1> HIDE DEF L
<1>3. CASE ~(i < L)
  <2>1. g = 0
    BY <1>2, <1>3 DEF Group
  <2> QED
    BY <1>3, <2>1, BitOfNone DEF L
<1>4. CASE i < L
  <2>1. b \in 0..255
    <3>1. i + 1 \in Nat /\ L \in Nat /\ i + 1 <= L /\ cur + (i + 1) = cur + i + 1 /\ cur + i \in Nat
      BY <1>1, <1>4 DEF ReaderType
    <3> QED
      BY <1>1, <3>1, InRangeBefore, ByteType
  <2>2. g = IF i = 4 THEN b % 4 ELSE b % 128
    BY <1>2, <1>4 DEF Group
  <2>3. \A j \in 0..7 : j \in BitsOf[b] <=> OneAt(b, j)
    BY <2>1 DEF BitsOf, OneAt
  <2> HIDE DEF g, b
  <2>4. CASE i # 4
    <3>1. g \in 0..127 /\ b \div 128 \in Nat /\ b = g + 128 * (b \div 128)
      BY <2>1, <2>2, <2>4
    <3>2. ASSUME NEW j \in 0..6
          PROVE  OneAt(g, j) <=> j \in BitsOf[b] /\ 7 * i + j <= 29
      <4>1. OneAt(b, j) <=> OneAt(g, j)
        <5>1. j \in Nat /\ j < 7
          OBVIOUS
        <5>2. PICK c \in Nat : b = Over7(g, c)
          BY <3>1 DEF Over7
        <5> QED
          BY <3>1, <5>1, <5>2, BitOfGroup
      <4>2. 7 * i + j <= 29 /\ j \in 0..7
        BY <2>4
      <4> QED
        BY <2>3, <4>1, <4>2
    <3> QED
      BY <1>4, <3>1, <3>2 DEF g, b, L
  <2>5. CASE i = 4
    <3>1. g = b % 4
      BY <2>2, <2>5
    <3>2. ASSUME NEW j \in 0..6
          PROVE  OneAt(g, j) <=> j \in BitsOf[b] /\ 7 * i + j <= 29
      <4>1. CASE j = 0
        BY <2>1, <2>3, <2>5, <3>1, <4>1 DEF OneAt
      <4>2. CASE j = 1
        BY <2>1, <2>3, <2>5, <3>1, <4>2 DEF OneAt
      <4>3. CASE j > 1
        <5>1. ~(7 * i + j <= 29)
          BY <2>5, <4>3
        <5>2. g \in 0..3
          BY <2>1, <3>1
        <5>3. ~OneAt(g, j)
          <6>1. j \in 2..6
            BY <4>3
          <6>2. 2^2 = 4 /\ 2^3 = 8 /\ 2^4 = 16 /\ 2^5 = 32 /\ 2^6 = 64
            OBVIOUS
          <6>3. j = 2 \/ j = 3 \/ j = 4 \/ j = 5 \/ j = 6
            BY <6>1
          <6>4. \E m \in {4, 8, 16, 32, 64} : 2^j = m
            BY <6>2, <6>3
          <6>5. \A m \in {4, 8, 16, 32, 64} : g \div m = 0
            BY <5>2
          <6>6. g \div 2^j = 0
            BY <6>4, <6>5
          <6> QED
            BY <6>6 DEF OneAt
        <5> QED
          BY <5>1, <5>3
      <4> QED
        BY <4>1, <4>2, <4>3
    <3>3. g \in 0..127
      BY <2>1, <3>1
    <3> QED
      BY <1>4, <3>2, <3>3 DEF g, b, L
  <2> QED
    BY <2>4, <2>5
<1> QED
  BY <1>3, <1>4

\* A number of five groups, bit by bit.
LEMMA FiveGroups ==
    ASSUME NEW a \in 0..127, NEW b \in 0..127, NEW c \in 0..127, NEW d \in 0..127, NEW e \in 0..127,
           NEW k \in Nat
    PROVE  /\ Over7(a, Over7(b, Over7(c, Over7(d, e)))) \in Nat
           /\ OneAt(Over7(a, Over7(b, Over7(c, Over7(d, e)))), k) <=>
                             IF k < 7 THEN OneAt(a, k)
                             ELSE IF k < 14 THEN OneAt(b, k - 7)
                             ELSE IF k < 21 THEN OneAt(c, k - 14)
                             ELSE IF k < 28 THEN OneAt(d, k - 21)
                             ELSE OneAt(e, k - 28)
<1>0. \A x \in Nat : \A y \in Nat : Over7(x, y) \in Nat
  BY DEF Over7
<1>a. a \in Nat /\ b \in Nat /\ c \in Nat /\ d \in Nat /\ e \in Nat
  OBVIOUS
<1>1. PICK v3 \in Nat : v3 = Over7(d, e)
  BY <1>0, <1>a
<1>2. PICK v2 \in Nat : v2 = Over7(c, v3)
  BY <1>0, <1>a
<1>3. PICK v1 \in Nat : v1 = Over7(b, v2)
  BY <1>0, <1>a
<1>4. PICK v0 \in Nat : v0 = Over7(a, v1)
  BY <1>0, <1>a, <1>1, <1>2, <1>3
<1>6. OneAt(v0, k) <=> IF k < 7 THEN OneAt(a, k) ELSE OneAt(v1, k - 7)
  BY <1>4, BitOfGroup
<1>7. k >= 7 => (OneAt(v1, k - 7) <=> IF k < 14 THEN OneAt(b, k - 7) ELSE OneAt(v2, k - 14))
  <2> SUFFICES ASSUME k >= 7
               PROVE  OneAt(v1, k - 7) <=> IF k < 14 THEN OneAt(b, k - 7) ELSE OneAt(v2, k - 14)
    OBVIOUS
  <2>1. PICK j \in Nat : j = k - 7 /\ (j < 7 <=> k < 14) /\ j - 7 = k - 14
    OBVIOUS
  <2>2. OneAt(v1, j) <=> IF j < 7 THEN OneAt(b, j) ELSE OneAt(v2, j - 7)
    BY <1>3, BitOfGroup
  <2> QED
    BY <2>1, <2>2
<1>8. k >= 14 => (OneAt(v2, k - 14) <=> IF k < 21 THEN OneAt(c, k - 14) ELSE OneAt(v3, k - 21))
  <2> SUFFICES ASSUME k >= 14
               PROVE  OneAt(v2, k - 14) <=> IF k < 21 THEN OneAt(c, k - 14) ELSE OneAt(v3, k - 21)
    OBVIOUS
  <2>1. k - 14 \in Nat /\ (k - 14 < 7 <=> k < 21) /\ k - 14 - 7 = k - 21
    OBVIOUS
  <2> QED
    BY <1>2, <2>1, BitOfGroup
<1>9. k >= 21 => (OneAt(v3, k - 21) <=> IF k < 28 THEN OneAt(d, k - 21) ELSE OneAt(e, k - 28))
  <2> SUFFICES ASSUME k >= 21
               PROVE  OneAt(v3, k - 21) <=> IF k < 28 THEN OneAt(d, k - 21) ELSE OneAt(e, k - 28)
    OBVIOUS
  <2>1. k - 21 \in Nat /\ (k - 21 < 7 <=> k < 28) /\ k - 21 - 7 = k - 28 /\ e \in Nat
    OBVIOUS
  <2> QED
    BY <1>1, <2>1, BitOfGroup
<1>10. /\ k < 7 \/ k >= 7
       /\ k < 14 \/ k >= 14
       /\ k < 21 \/ k >= 21
  OBVIOUS
<1>11. v0 = Over7(a, Over7(b, Over7(c, Over7(d, e))))
  BY <1>1, <1>2, <1>3, <1>4
<1>12. OneAt(v0, k) <=> IF k < 7 THEN OneAt(a, k)
                      ELSE IF k < 14 THEN OneAt(b, k - 7)
                      ELSE IF k < 21 THEN OneAt(c, k - 14)
                      ELSE IF k < 28 THEN OneAt(d, k - 21)
                      ELSE OneAt(e, k - 28)
  BY <1>6, <1>7, <1>8, <1>9, <1>10
<1> QED
  BY <1>11, <1>12

\* The number that U30At computes has the bits that were encoded.
LEMMA U30Is ==
    ASSUME ReaderType, InRange(buf, cur + Length)
    PROVE  EncodedBits(cur) \cap (0..29) = Complement(U30At(buf, cur))
<1> DEFINE L == Length
           G(i) == Group(buf, cur, i)
           has(i, j) == i < L /\ j \in BitsOf[ByteAt(buf, cur + i)] /\ 7 * i + j <= 29
           v0 == U30At(buf, cur)
<1>1. \A i \in 0..4 : G(i) \in 0..127 /\ \A j \in 0..6 : OneAt(G(i), j) <=> has(i, j)
  BY GroupIs
<1>2. G(0) \in 0..127 /\ G(1) \in 0..127 /\ G(2) \in 0..127 /\ G(3) \in 0..127 /\ G(4) \in 0..127
  BY <1>1
<1>3. L \in 1..5 /\ L = Encoded(cur)
  BY LengthIsEncoded
<1>4. v0 = Over7(G(0), Over7(G(1), Over7(G(2), Over7(G(3), G(4)))))
  <2>1. PICK g0 \in 0..127, g1 \in 0..127, g2 \in 0..127, g3 \in 0..127, g4 \in 0..127 :
          G(0) = g0 /\ G(1) = g1 /\ G(2) = g2 /\ G(3) = g3 /\ G(4) = g4
    BY <1>2
  <2>2. U30At(buf, cur) = g0 + 128 * g1 + 16384 * g2 + 2097152 * g3 + 268435456 * g4
    BY SMT, <2>1 DEF U30At
  <2>3. Over7(g0, Over7(g1, Over7(g2, Over7(g3, g4)))) = g0 + 128 * g1 + 16384 * g2 + 2097152 * g3 + 268435456 * g4
    BY SMT DEF Over7
  <2> HIDE DEF v0, G
  <2> QED
    BY SMT, <2>1, <2>2, <2>3 DEF v0
<1> HIDE DEF has, L, G, v0
<1>5. ASSUME NEW k \in Nat
      PROVE  /\ v0 \in Nat
             /\ OneAt(v0, k) <=> IF k < 7 THEN OneAt(G(0), k)
                               ELSE IF k < 14 THEN OneAt(G(1), k - 7)
                               ELSE IF k < 21 THEN OneAt(G(2), k - 14)
                               ELSE IF k < 28 THEN OneAt(G(3), k - 21)
                               ELSE OneAt(G(4), k - 28)
  <2> DEFINE g0 == G(0)
             g1 == G(1)
             g2 == G(2)
             g3 == G(3)
             g4 == G(4)
  <2>1. g0 \in 0..127 /\ g1 \in 0..127 /\ g2 \in 0..127 /\ g3 \in 0..127 /\ g4 \in 0..127
    BY <1>2
  <2>2. v0 = Over7(g0, Over7(g1, Over7(g2, Over7(g3, g4)))) /\ k \in Nat
    BY <1>4
  <2> HIDE DEF g0, g1, g2, g3, g4
  <2>3. /\ v0 \in Nat
        /\ OneAt(v0, k) <=> IF k < 7 THEN OneAt(g0, k)
                          ELSE IF k < 14 THEN OneAt(g1, k - 7)
                          ELSE IF k < 21 THEN OneAt(g2, k - 14)
                          ELSE IF k < 28 THEN OneAt(g3, k - 21)
                          ELSE OneAt(g4, k - 28)
    <3>1. Over7(g0, Over7(g1, Over7(g2, Over7(g3, g4)))) \in Nat
      BY <2>1, <2>2, FiveGroups
    <3>2. OneAt(Over7(g0, Over7(g1, Over7(g2, Over7(g3, g4)))), k) <=>
                          IF k < 7 THEN OneAt(g0, k)
                          ELSE IF k < 14 THEN OneAt(g1, k - 7)
                          ELSE IF k < 21 THEN OneAt(g2, k - 14)
                          ELSE IF k < 28 THEN OneAt(g3, k - 21)
                          ELSE OneAt(g4, k - 28)
      BY <2>1, <2>2, FiveGroups
    <3> QED
      BY <2>2, <3>1, <3>2
  <2> QED
    BY <2>3 DEF g0, g1, g2, g3, g4
<1>6. ASSUME NEW k \in 0..30
      PROVE  OneAt(v0, k) <=> \E i \in 0..4 : \E j \in 0..6 : k = 7 * i + j /\ has(i, j)
  <2>1. ASSUME NEW i \in 0..4, NEW j \in 0..6, k = 7 * i + j, OneAt(v0, k) <=> OneAt(G(i), j)
        PROVE  OneAt(v0, k) <=> \E p \in 0..4 : \E q \in 0..6 : k = 7 * p + q /\ has(p, q)
    <3>1. \A p \in 0..4 : \A q \in 0..6 : k = 7 * p + q => p = i /\ q = j
      BY <2>1
    <3> QED
      BY <1>1, <2>1, <3>1
  <2>2. CASE k < 7
    <3>1. k \in 0..6 /\ k = 7 * 0 + k /\ k \in Nat
      BY <2>2
    <3>2. OneAt(v0, k) <=> OneAt(G(0), k)
      BY <1>5, <2>2, <3>1
    <3> QED
      BY <2>1, <3>1, <3>2
  <2>3. CASE k >= 7 /\ k < 14
    <3>1. k - 7 \in 0..6 /\ k = 7 * 1 + (k - 7) /\ k \in Nat /\ ~(k < 7)
      BY <2>3
    <3>2. OneAt(v0, k) <=> OneAt(G(1), k - 7)
      BY <1>5, <2>3, <3>1
    <3> QED
      BY <2>1, <3>1, <3>2
  <2>4. CASE k >= 14 /\ k < 21
    <3>1. k - 14 \in 0..6 /\ k = 7 * 2 + (k - 14) /\ k \in Nat /\ ~(k < 7) /\ ~(k < 14)
      BY <2>4
    <3>2. OneAt(v0, k) <=> OneAt(G(2), k - 14)
      BY <1>5, <2>4, <3>1
    <3> QED
      BY <2>1, <3>1, <3>2
  <2>5. CASE k >= 21 /\ k < 28
    <3>1. k - 21 \in 0..6 /\ k = 7 * 3 + (k - 21) /\ k \in Nat /\ ~(k < 7) /\ ~(k < 14) /\ ~(k < 21)
      BY <2>5
    <3>2. OneAt(v0, k) <=> OneAt(G(3), k - 21)
      BY <1>5, <2>5, <3>1
    <3> QED
      BY <2>1, <3>1, <3>2
  <2>6. CASE k >= 28
    <3>1. k - 28 \in 0..6 /\ k = 7 * 4 + (k - 28) /\ k \in Nat /\ ~(k < 7) /\ ~(k < 14) /\ ~(k < 21) /\ ~(k < 28)
      BY <2>6
    <3>2. OneAt(v0, k) <=> OneAt(G(4), k - 28)
      BY <1>5, <2>6, <3>1
    <3> QED
      BY <2>1, <3>1, <3>2
  <2> QED
    BY <2>2, <2>3, <2>4, <2>5, <2>6
<1>7. Complement(v0) = {k \in 0..30 : OneAt(v0, k)}
  BY <1>5 DEF Complement, OneAt
<1>8. ASSUME NEW k
      PROVE  k \in EncodedBits(cur) \cap (0..29) <=>
               k \in 0..30 /\ \E i \in 0..4 : \E j \in 0..6 : k = 7 * i + j /\ has(i, j)
  <2>1. EncodedBits(cur) = UNION {Seven(cur, i) : i \in 0..(L - 1)}
    BY Zenon, <1>3 DEF EncodedBits, Seven
  <2>2. k \in EncodedBits(cur) <=>
          \E i \in 0..(L - 1) : \E j \in BitsOf[ByteAt(buf, cur + i)] \cap (0..6) : k = 7 * i + j
    BY <2>1 DEF Seven
  <2>3. \A i : i \in 0..(L - 1) <=> i \in 0..4 /\ i < L
    BY <1>3
  <2>4. (\E i \in 0..(L - 1) : \E j \in BitsOf[ByteAt(buf, cur + i)] \cap (0..6) : k = 7 * i + j) <=>
          \E i \in 0..4 : \E j \in 0..6 : k = 7 * i + j /\ i < L /\ j \in BitsOf[ByteAt(buf, cur + i)]
    BY <2>3
  <2>5. \A i \in 0..4 : \A j \in 0..6 : k = 7 * i + j => (k \in 0..29 <=> 7 * i + j <= 29) /\ (7 * i + j <= 29 => k \in 0..30)
    OBVIOUS
  <2> QED
    BY <2>2, <2>4, <2>5 DEF has
<1>9. ASSUME NEW k
      PROVE  k \in EncodedBits(cur) \cap (0..29) <=> k \in Complement(v0)
  BY <1>6, <1>7, <1>8
<1> QED
  BY <1>9 DEF v0

\* What readS24 returns: the lower half, the third byte with its sign, and the
\* sign again in the upper byte.
S24Word ==
    LET r == Shl(Char(cur + 2), 16) \cup SignedHalf
    IN  IF 23 \in r THEN r \cup (24..31) ELSE r

\* The word, bit by bit.
LEMMA S24Bits ==
    ASSUME ReaderType, InRange(buf, cur + 3),
           NEW b0, NEW b1, NEW b2,
           b0 = ByteAt(buf, cur), b1 = ByteAt(buf, cur + 1), b2 = ByteAt(buf, cur + 2)
    PROVE  /\ b0 \in 0..255 /\ b1 \in 0..255 /\ b2 \in 0..255
           /\ S24Word \subseteq WordBits
           /\ \A k \in WordBits :
                k \in S24Word <=>
                  \/ k < 8 /\ OneAt(b0, k)
                  \/ k >= 8 /\ k < 16 /\ OneAt(b1, k - 8)
                  \/ k >= 16 /\ b1 >= 128
                  \/ k >= 16 /\ k < 24 /\ OneAt(b2, k - 16)
                  \/ k >= 24 /\ b2 >= 128
<1>1. /\ cur \in Nat /\ cur + 1 \in Nat /\ cur + 2 \in Nat
      /\ InRange(buf, cur + 1) /\ InRange(buf, cur + 1 + 1) /\ InRange(buf, cur + 2 + 1)
  <2>1. /\ cur \in Nat /\ cur + 1 \in Nat /\ cur + 2 \in Nat
        /\ 1 \in Nat /\ 2 \in Nat /\ 3 \in Nat /\ 1 <= 3 /\ 2 <= 3
        /\ cur + 1 + 1 = cur + 2 /\ cur + 2 + 1 = cur + 3
    BY DEF ReaderType
  <2>2. InRange(buf, cur + 1) /\ InRange(buf, cur + 2)
    BY <2>1, InRangeBefore
  <2> QED
    BY <2>1, <2>2
<1>2. /\ b0 \in 0..255 /\ b1 \in 0..255 /\ b2 \in 0..255
      /\ Char(cur + 2) \subseteq WordBits
      /\ Char(cur + 2) \cap (0..7) = BitsOf[b2]
      /\ \A k \in Char(cur + 2) : k >= 8 => b2 >= 128
      /\ 7 \in Char(cur + 2) <=> b2 >= 128
  BY <1>1, ByteType
<1>3. /\ BitsOf[b0] = {k \in 0..7 : OneAt(b0, k)}
      /\ BitsOf[b1] = {k \in 0..7 : OneAt(b1, k)}
      /\ BitsOf[b2] = {k \in 0..7 : OneAt(b2, k)}
  BY <1>2 DEF BitsOf, OneAt
<1>4. 7 \in BitsOf[b1] <=> b1 >= 128
  BY <1>2, BitsOfType
<1> DEFINE half == Half
           signedHalf == SignedHalf
           upper == Shl(Char(cur + 2), 16)
           r == upper \cup signedHalf
<1>5. half \subseteq WordBits
      /\ \A k \in WordBits : k \in half <=> \/ k < 8 /\ OneAt(b0, k)
                                            \/ k >= 8 /\ k < 16 /\ OneAt(b1, k - 8)
  <2>1. half = BitsOf[b0] \cup Shl(BitsOf[b1], 8)
    BY DEF Half
  <2>2. \A k : k \in Shl(BitsOf[b1], 8) <=> k \in WordBits /\ k >= 8 /\ k < 16 /\ OneAt(b1, k - 8)
    <3>1. \A k : k \in Shl(BitsOf[b1], 8) <=> k \in WordBits /\ \E j \in 0..7 : OneAt(b1, j) /\ k = j + 8
      BY <1>3 DEF Shl
    <3>2. \A k \in WordBits : (\E j \in 0..7 : OneAt(b1, j) /\ k = j + 8) <=> k >= 8 /\ k < 16 /\ OneAt(b1, k - 8)
      <4>1. ASSUME NEW k \in WordBits, NEW j \in 0..7, k = j + 8
            PROVE  k >= 8 /\ k < 16 /\ k - 8 = j
        BY <4>1 DEF WordBits
      <4>2. ASSUME NEW k \in WordBits, k >= 8, k < 16
            PROVE  k - 8 \in 0..7 /\ k = k - 8 + 8
        BY <4>2 DEF WordBits
      <4> QED
        BY <4>1, <4>2
    <3> QED
      BY <3>1, <3>2
  <2>3. \A k : k \in BitsOf[b0] <=> k \in WordBits /\ k < 8 /\ OneAt(b0, k)
    BY <1>3 DEF WordBits
  <2> QED
    BY <2>1, <2>2, <2>3
<1>6. signedHalf \subseteq WordBits
      /\ \A k \in WordBits : k \in signedHalf <=> k \in half \/ (k >= 16 /\ b1 >= 128)
  <2>1. 15 \in half <=> b1 >= 128
    <3>1. 15 \in WordBits /\ 15 - 8 = 7
      BY DEF WordBits
    <3>2. 15 \in half <=> OneAt(b1, 7)
      BY <1>5, <3>1
    <3> QED
      BY <1>3, <1>4, <3>2
  <2>2. signedHalf = IF 15 \in half THEN half \cup (16..31) ELSE half
    <3>1. 16 - 1 = 15
      OBVIOUS
    <3> QED
      BY <3>1 DEF SignedHalf, SignExtend
  <2>3. 16..31 \subseteq WordBits /\ \A k \in WordBits : k \in 16..31 <=> k >= 16
    BY DEF WordBits
  <2> DEFINE sign == 16..31
  <2> HIDE DEF signedHalf, half, sign
  <2>4. sign \subseteq WordBits /\ \A k \in WordBits : k \in sign <=> k >= 16
    BY <2>3 DEF sign
  <2>5. signedHalf = IF 15 \in half THEN half \cup sign ELSE half
    BY <2>2 DEF sign
  <2>6. half \subseteq WordBits
    BY <1>5
  <2>7. CASE b1 >= 128
    <3>1. signedHalf = half \cup sign
      BY <2>1, <2>5, <2>7
    <3> QED
      BY <2>4, <2>6, <2>7, <3>1
  <2>8. CASE ~(b1 >= 128)
    <3>1. signedHalf = half
      BY <2>1, <2>5, <2>8
    <3> QED
      BY <2>6, <2>8, <3>1
  <2> QED
    BY <2>7, <2>8
<1>7. upper \subseteq WordBits
      /\ \A k \in WordBits : k \in upper <=> k >= 16 /\ k - 16 \in Char(cur + 2)
  <2> DEFINE char == Char(cur + 2)
  <2>1. char \subseteq WordBits
    BY <1>2
  <2> HIDE DEF char
  <2>2. \A k : k \in Shl(char, 16) <=> k \in WordBits /\ \E j \in char : k = j + 16
    BY DEF Shl
  <2>3. ASSUME NEW k \in WordBits, NEW j \in char, k = j + 16
        PROVE  k >= 16 /\ k - 16 = j
    BY <2>1, <2>3 DEF WordBits
  <2>4. ASSUME NEW k \in WordBits, k >= 16
        PROVE  k = k - 16 + 16
    BY <2>4 DEF WordBits
  <2> QED
    BY <2>2, <2>3, <2>4 DEF char
<1>8. ASSUME NEW k \in WordBits
      PROVE  /\ k >= 16 /\ k < 24 => (k \in upper <=> OneAt(b2, k - 16))
             /\ k \in upper /\ k >= 24 => b2 >= 128
             /\ k < 16 => k \notin upper
  <2>1. ASSUME k >= 16, k < 24
        PROVE  k \in upper <=> OneAt(b2, k - 16)
    <3>1. k - 16 \in 0..7
      BY <2>1 DEF WordBits
    <3> QED
      BY <1>2, <1>3, <1>7, <2>1, <3>1
  <2>2. ASSUME k \in upper, k >= 24
        PROVE  b2 >= 128
    <3>1. k - 16 >= 8
      BY <2>2 DEF WordBits
    <3> QED
      BY <1>2, <1>7, <2>2, <3>1
  <2>3. k < 16 => ~(k >= 16)
    BY DEF WordBits
  <2> QED
    BY <1>7, <2>1, <2>2, <2>3
<1>9. 23 \in upper <=> b2 >= 128
  <2>1. 23 \in WordBits /\ 23 >= 16 /\ 23 - 16 = 7
    BY DEF WordBits
  <2> QED
    BY <1>2, <1>7, <2>1
<1>10. S24Word = IF 23 \in r THEN r \cup (24..31) ELSE r
  BY DEF S24Word
<1>11. 23 \in signedHalf <=> b1 >= 128
  <2>1. 23 \in WordBits /\ ~(23 < 8) /\ ~(23 < 16) /\ 23 >= 16
    BY DEF WordBits
  <2> QED
    BY <1>5, <1>6, <2>1
<1> HIDE DEF upper, signedHalf, half
<1>12. S24Word \subseteq WordBits
       /\ \A k \in WordBits : k \in S24Word <=> \/ k \in upper
                                                \/ k \in signedHalf
                                                \/ k >= 24 /\ b1 >= 128
                                                \/ k >= 24 /\ b2 >= 128
  <2>1. \A k \in WordBits : k \in 24..31 <=> k >= 24
    BY DEF WordBits
  <2>2. 24..31 \subseteq WordBits
    BY DEF WordBits
  <2> DEFINE top == 24..31
  <2> HIDE DEF top
  <2>3. S24Word = IF 23 \in r THEN r \cup top ELSE r
    BY <1>10 DEF top
  <2>4. 23 \in r <=> b1 >= 128 \/ b2 >= 128
    BY <1>9, <1>11
  <2>5. top \subseteq WordBits /\ \A k \in WordBits : k \in top <=> k >= 24
    BY <2>1, <2>2 DEF top
  <2>6. upper \subseteq WordBits /\ signedHalf \subseteq WordBits
    BY <1>6, <1>7
  <2>7. CASE b1 >= 128 \/ b2 >= 128
    <3>1. S24Word = upper \cup signedHalf \cup top
      BY <2>3, <2>4, <2>7
    <3> QED
      BY <2>5, <2>6, <2>7, <3>1
  <2>8. CASE ~(b1 >= 128 \/ b2 >= 128)
    <3>1. S24Word = upper \cup signedHalf
      BY <2>3, <2>4, <2>8
    <3> QED
      BY <2>6, <2>8, <3>1
  <2> QED
    BY <2>7, <2>8
<1>13. ASSUME NEW k \in WordBits
       PROVE  k \in S24Word <=>
                  \/ k < 8 /\ OneAt(b0, k)
                  \/ k >= 8 /\ k < 16 /\ OneAt(b1, k - 8)
                  \/ k >= 16 /\ b1 >= 128
                  \/ k >= 16 /\ k < 24 /\ OneAt(b2, k - 16)
                  \/ k >= 24 /\ b2 >= 128
  <2>1. (k < 16 \/ k >= 16) /\ (k < 24 \/ k >= 24) /\ (k >= 24 => k >= 16) /\ ~(k >= 24 /\ k < 24)
        /\ ~(k < 16 /\ k >= 16)
    BY DEF WordBits
  <2>2. k \in S24Word <=> \/ k \in upper
                          \/ k \in half
                          \/ k >= 16 /\ b1 >= 128
                          \/ k >= 24 /\ b2 >= 128
    BY <1>6, <1>12, <2>1
  <2>3. k \in half <=> \/ k < 8 /\ OneAt(b0, k)
                       \/ k >= 8 /\ k < 16 /\ OneAt(b1, k - 8)
    BY <1>5
  <2>4. k \in upper => \/ k >= 16 /\ k < 24 /\ OneAt(b2, k - 16)
                       \/ k >= 24 /\ b2 >= 128
    BY <1>8, <2>1
  <2>5. k >= 16 /\ k < 24 /\ OneAt(b2, k - 16) => k \in upper
    BY <1>8
  <2> QED
    BY <2>2, <2>3, <2>4, <2>5
<1> QED
  BY <1>2, <1>12, <1>13

\* The number that S24At computes has these bits.
LEMMA S24Is ==
    ASSUME ReaderType, InRange(buf, cur + 3)
    PROVE  S24Word = Complement(S24At(buf, cur))
<1> DEFINE b0 == ByteAt(buf, cur)
           b1 == ByteAt(buf, cur + 1)
           b2 == ByteAt(buf, cur + 2)
           N == S24At(buf, cur)
           W(k) == \/ k < 8 /\ OneAt(b0, k)
                   \/ k >= 8 /\ k < 16 /\ OneAt(b1, k - 8)
                   \/ k >= 16 /\ b1 >= 128
                   \/ k >= 16 /\ k < 24 /\ OneAt(b2, k - 16)
                   \/ k >= 24 /\ b2 >= 128
<1>1. b0 \in 0..255 /\ b1 \in 0..255 /\ b2 \in 0..255
  BY S24Bits
<1>2. S24Word \subseteq WordBits /\ \A k \in WordBits : k \in S24Word <=> W(k)
  BY S24Bits
<1>3. N = IF b1 >= 128 THEN b0 + 256 * b1 - 65536
          ELSE 65536 * (IF b2 >= 128 THEN b2 - 256 ELSE b2) + (b0 + 256 * b1)
  <2> DEFINE low == b0 + 256 * b1
  <2>1. N = IF low >= 32768 THEN low - 65536 ELSE 65536 * SignedByte(b2) + low
    BY DEF S24At
  <2> HIDE DEF b0, b1, b2, N
  <2>2. low >= 32768 <=> b1 >= 128
    BY <1>1
  <2> HIDE DEF low
  <2>3. N = IF b1 >= 128 THEN low - 65536 ELSE 65536 * SignedByte(b2) + low
    BY <2>1, <2>2
  <2> QED
    BY SMT, <1>1, <2>3 DEF low, SignedByte
<1> HIDE DEF b0, b1, b2, N
<1>4. ASSUME NEW c \in 0..255
      PROVE  Over8(255 - b0, Over8(255 - b1, Over8(255 - c, 0))) = 65536 * (255 - c) + 65535 - (b0 + 256 * b1)
  BY SMT, <1>1 DEF Over8
<1> DEFINE Turned(n) == N = -n - 1
           Rest(c) == \A k \in WordBits : W(k) <=> \/ k < 8 /\ OneAt(b0, k)
                                                   \/ k >= 8 /\ k < 16 /\ OneAt(b1, k - 8)
                                                   \/ k >= 16 /\ k < 24 /\ OneAt(c, k - 16)
                                                   \/ k >= 24
           Others(c) == Over8(255 - b0, Over8(255 - b1, Over8(255 - c, 0)))
<1>5. ASSUME NEW c \in 0..255, Turned(Others(c)), Rest(c)
      PROVE  S24Word = Complement(N)
  <2>0. 255 - b0 \in 0..255 /\ 255 - b1 \in 0..255 /\ 255 - c \in 0..255
    BY <1>1
  <2>1. PICK x0 \in 0..255, x1 \in 0..255, x2 \in 0..255 : x0 = 255 - b0 /\ x1 = 255 - b1 /\ x2 = 255 - c
    BY <2>0
  <2>2. PICK n \in Nat : n = Over8(x0, Over8(x1, Over8(x2, 0)))
    BY ThreeBytes
  <2>3. n = Others(c)
    BY <2>1, <2>2
  <2>4. N = -n - 1
    BY <1>5, <2>3
  <2>5. ~(N >= 0) /\ -N - 1 = n
    BY <2>4
  <2>6. Complement(N) = WordBits \ {k \in 0..30 : OneAt(-N - 1, k)}
    BY <2>5 DEF Complement, OneAt
  <2>7. Complement(N) = WordBits \ {k \in 0..30 : OneAt(n, k)}
    BY <2>5, <2>6
  <2>8. ASSUME NEW k \in WordBits
        PROVE  W(k) <=> ~(k \in 0..30 /\ OneAt(n, k))
    <3>1. k \in Nat
      BY DEF WordBits
    <3>2. OneAt(n, k) <=> IF k < 8 THEN OneAt(x0, k)
                        ELSE IF k < 16 THEN OneAt(x1, k - 8)
                        ELSE k < 24 /\ OneAt(x2, k - 16)
      BY <2>2, <3>1, ThreeBytes
    <3>3. W(k) <=> \/ k < 8 /\ OneAt(b0, k)
                   \/ k >= 8 /\ k < 16 /\ OneAt(b1, k - 8)
                   \/ k >= 16 /\ k < 24 /\ OneAt(c, k - 16)
                   \/ k >= 24
      BY <1>5
    <3>4. CASE k < 8
      <4>1. k \in 0..7 /\ k \in 0..30 /\ ~(k >= 8) /\ ~(k >= 16) /\ ~(k >= 24)
        BY <3>4 DEF WordBits
      <4>2. OneAt(255 - b0, k) <=> ~OneAt(b0, k)
        BY <1>1, <4>1, BitTurned
      <4> HIDE DEF W
      <4> QED
        BY <2>1, <3>2, <3>3, <3>4, <4>1, <4>2
    <3>5. CASE k >= 8 /\ k < 16
      <4>1. k - 8 \in 0..7 /\ k \in 0..30 /\ ~(k < 8) /\ ~(k >= 16) /\ ~(k >= 24)
        BY <3>5 DEF WordBits
      <4>2. OneAt(255 - b1, k - 8) <=> ~OneAt(b1, k - 8)
        BY <1>1, <4>1, BitTurned
      <4> HIDE DEF W
      <4> QED
        BY <2>1, <3>2, <3>3, <3>5, <4>1, <4>2
    <3>6. CASE k >= 16 /\ k < 24
      <4>1. k - 16 \in 0..7 /\ k \in 0..30 /\ ~(k < 8) /\ ~(k < 16) /\ ~(k >= 24)
        BY <3>6 DEF WordBits
      <4>2. OneAt(255 - c, k - 16) <=> ~OneAt(c, k - 16)
        BY <4>1, BitTurned
      <4> HIDE DEF W
      <4> QED
        BY <2>1, <3>2, <3>3, <3>6, <4>1, <4>2
    <3>7. CASE k >= 24
      <4>1. ~(k < 8) /\ ~(k < 16) /\ ~(k < 24)
        BY <3>7 DEF WordBits
      <4> HIDE DEF W
      <4> QED
        BY <3>2, <3>3, <3>7, <4>1
    <3> QED
      BY <3>1, <3>4, <3>5, <3>6, <3>7
  <2> HIDE DEF W, N
  <2> QED
    BY <1>2, <2>7, <2>8
<1>6. CASE b1 >= 128
  <2>1. Turned(Others(255))
    BY SMT, <1>1, <1>3, <1>4, <1>6
  <2>2. Rest(255)
    <3>1. ASSUME NEW k \in WordBits, k >= 16, k < 24
          PROVE  OneAt(255, k - 16)
      <4>1. k - 16 \in 0..7 /\ 0 \in 0..255 /\ 255 - 0 = 255 /\ k - 16 \in Nat
        BY <3>1 DEF WordBits
      <4>2. OneAt(255 - 0, k - 16) <=> ~OneAt(0, k - 16)
        BY ONLY <4>1, BitTurned
      <4> QED
        BY <4>1, <4>2, BitOfNone
    <3>2. \A k \in WordBits : k >= 16 <=> (k >= 16 /\ k < 24) \/ k >= 24
      BY DEF WordBits
    <3> QED
      BY <1>6, <3>1, <3>2
  <2>3. 255 \in 0..255
    OBVIOUS
  <2> HIDE DEF Turned, Rest, Others, W, N
  <2> QED
    BY <1>5, <2>1, <2>2, <2>3 DEF N
<1>7. CASE ~(b1 >= 128) /\ b2 >= 128
  <2>1. Turned(Others(b2))
    BY SMT, <1>1, <1>3, <1>4, <1>7
  <2>2. Rest(b2)
    BY <1>7
  <2> HIDE DEF Turned, Rest, Others, W, N
  <2> QED
    BY <1>1, <1>5, <2>1, <2>2 DEF N
<1>8. CASE ~(b1 >= 128) /\ ~(b2 >= 128)
  <2>1. PICK n \in Nat : n = Over8(b0, Over8(b1, Over8(b2, 0)))
    BY <1>1, ThreeBytes
  <2>2. N = n
    <3>1. Over8(b0, Over8(b1, Over8(b2, 0))) = 65536 * b2 + (b0 + 256 * b1)
      BY SMT, <1>1 DEF Over8
    <3> QED
      BY SMT, <1>1, <1>3, <1>8, <2>1, <3>1
  <2>3. Complement(N) = {k \in 0..30 : OneAt(n, k)}
    BY <2>2 DEF Complement, OneAt
  <2>4. ASSUME NEW k \in WordBits
        PROVE  W(k) <=> k \in 0..30 /\ OneAt(n, k)
    <3>1. k \in Nat
      BY DEF WordBits
    <3>2. OneAt(n, k) <=> IF k < 8 THEN OneAt(b0, k)
                        ELSE IF k < 16 THEN OneAt(b1, k - 8)
                        ELSE k < 24 /\ OneAt(b2, k - 16)
      BY <1>1, <2>1, <3>1, ThreeBytes
    <3>3. /\ k < 8 \/ k >= 8
          /\ k < 16 \/ k >= 16
          /\ ~(k < 8 /\ k >= 8)
          /\ ~(k < 16 /\ k >= 16)
          /\ k < 8 => k < 16
          /\ k < 16 => k < 24
          /\ k < 24 => k \in 0..30
      BY DEF WordBits
    <3> QED
      BY <1>8, <3>2, <3>3
  <2>5. 0..30 \subseteq WordBits
    BY DEF WordBits
  <2> DEFINE low == 0..30
  <2> HIDE DEF W, low, N
  <2>6. ASSUME NEW k
        PROVE  k \in S24Word <=> k \in Complement(N)
    BY <1>2, <2>3, <2>4, <2>5 DEF low
  <2>7. S24Word \subseteq WordBits /\ Complement(N) \subseteq WordBits
    BY <1>2, <2>3, <2>5
  <2> QED
    BY <2>6, <2>7 DEF N
<1> QED
  BY <1>6, <1>7, <1>8 DEF N

-----------------------------------------------------------------------------
(***************************************************************************)
(* A call, whatever it gives: its value is a word, it has looked at        *)
(* nothing behind the buffer, an integer is the one that was encoded, and  *)
(* the operators of ABCReader tell the same.                               *)
(***************************************************************************)
Agrees(r) ==
    /\ r.read = "u30" =>
         /\ r.ok <=> InRange(buf, AfterU30(buf, cur))
         /\ r.ok => r.end = AfterU30(buf, cur)
         /\ r.ok => r.val = Complement(U30At(buf, cur))
    /\ r.read = "s24" =>
         /\ r.ok <=> InRange(buf, AfterS24(cur))
         /\ r.ok => r.val = Complement(S24At(buf, cur))

Sound(r) ==
    /\ r.from = cur
    /\ r.end \in Nat
    /\ r.ok \in BOOLEAN
    /\ r.val \subseteq WordBits
    /\ r.read \notin {"none", "pos"} => r.from..(r.end - 1) \subseteq 0..(Len(buf) - 1)
    /\ r.ok /\ r.read \in {"u30", "u32"} =>
         /\ r.end = cur + Encoded(cur)
         /\ r.val = EncodedBits(cur) \cap (0..(IF r.read = "u30" THEN 29 ELSE 31))
    /\ Agrees(r)

\* Bytes up to a place in the buffer are in it.
LEMMA UpToIsWithin ==
    ASSUME ReaderType, NEW end \in Nat, InRange(buf, end) \/ end = cur
    PROVE  cur..(end - 1) \subseteq 0..(Len(buf) - 1)
<1>1. Len(buf) \in Nat /\ cur \in Nat
  BY LenProperties DEF ReaderType
<1> QED
  BY <1>1 DEF InRange

LEMMA FixedIsSound ==
    ASSUME ReaderType, NEW size \in Nat, NEW val, InRange(buf, cur + size) => val \subseteq WordBits,
           NEW read, read \notin {"u30", "u32"},
           read = "s24" => size = 3 /\ (InRange(buf, cur + 3) => val = Complement(S24At(buf, cur)))
    PROVE  Sound(Fixed(read, size, val))
<1>0. AfterS24(cur) = cur + 3
  BY DEF AfterS24
<1>1. CASE InRange(buf, cur + size)
  <2> DEFINE end == cur + size
  <2>1. end \in Nat /\ InRange(buf, end)
    BY <1>1 DEF ReaderType
  <2>2. Fixed(read, size, val) = [read |-> read, from |-> cur, end |-> end, ok |-> TRUE, val |-> val]
    BY <1>1 DEF Fixed, Returned
  <2>3. val \subseteq WordBits
    BY <1>1
  <2> HIDE DEF end
  <2>4. cur..(end - 1) \subseteq 0..(Len(buf) - 1)
    BY <2>1, UpToIsWithin
  <2>5. Agrees(Fixed(read, size, val))
    BY <1>0, <1>1, <2>2 DEF Agrees
  <2> QED
    BY <2>1, <2>2, <2>3, <2>4, <2>5 DEF Sound
<1>2. CASE ~InRange(buf, cur + size)
  <2>1. cur..(cur - 1) \subseteq 0..(Len(buf) - 1)
    BY UpToIsWithin DEF ReaderType
  <2>2. Agrees(Fixed(read, size, val))
    BY <1>0, <1>2 DEF Fixed, Threw, Agrees
  <2> QED
    BY <1>2, <2>1, <2>2 DEF Fixed, Threw, Sound, ReaderType
<1> QED
  BY <1>1, <1>2

\* readU32, readU30 and the length of readString.
LEMMA VarintIsSound ==
    ASSUME ReaderType, NEW read, NEW width, <<read, width>> \in {<<"u32", 32>>, <<"u30", 30>>, <<"string", 30>>}
    PROVE  /\ Sound(Varint(read, width))
           /\ Varint(read, width).read = read
           /\ Varint(read, width).ok <=> InRange(buf, cur + Length)
           /\ Varint(read, width).ok => Varint(read, width).end = cur + Length
<1>1. Length \in 1..5 /\ Length = Encoded(cur) /\ \A m \in 1..(Length - 1) : InRange(buf, cur + m)
  BY LengthIsEncoded
<1>2. read \in {"u32", "u30", "string"} /\ width - 1 = (IF read = "u32" THEN 31 ELSE 29)
  OBVIOUS
<1>5. AfterU30(buf, cur) = cur + Length
  BY AfterIs
<1>3. CASE InRange(buf, cur + Length)
  <2> DEFINE word == Word[Length - 1]
             end == cur + Length
             val == word \cap (0..(width - 1))
  <2>1. end \in Nat
    BY <1>1 DEF ReaderType
  <2>2. cur..(end - 1) \subseteq 0..(Len(buf) - 1)
    BY <1>3, <2>1, UpToIsWithin
  <2>3. word = EncodedBits(cur) \cap WordBits /\ word \subseteq WordBits
    BY <1>3, WordIsEncoded
  <2>4. Varint(read, width) = [read |-> read, from |-> cur, end |-> end, ok |-> TRUE, val |-> val]
    BY <1>3 DEF Varint, Returned
  <2> HIDE DEF word
  <2>5. val \subseteq WordBits /\ (read = "u32" => val = EncodedBits(cur) \cap (0..31))
        /\ (read = "u30" => val = EncodedBits(cur) \cap (0..29))
    BY <1>2, <2>3 DEF WordBits
  <2>6. end = cur + Encoded(cur)
    BY <1>1
  <2> HIDE DEF end, val
  <2>7. read \in {"u30", "u32"} =>
          val = EncodedBits(cur) \cap (0..(IF read = "u30" THEN 29 ELSE 31))
    <3>1. CASE read = "u30"
      BY <2>5, <3>1
    <3>2. CASE read = "u32"
      BY <2>5, <3>2
    <3> QED
      BY <3>1, <3>2
  <2>9. Agrees(Varint(read, width))
    <3>1. EncodedBits(cur) \cap (0..29) = Complement(U30At(buf, cur))
      BY <1>3, U30Is
    <3>2. read = "u30" => val = Complement(U30At(buf, cur))
      BY <2>5, <3>1
    <3>3. read # "s24"
      BY <1>2
    <3> QED
      BY <1>3, <1>5, <2>4, <3>2, <3>3 DEF Agrees, end
  <2>8. Sound(Varint(read, width))
    BY <2>1, <2>2, <2>4, <2>5, <2>6, <2>7, <2>9 DEF Sound
  <2> QED
    BY <1>3, <2>4, <2>8 DEF end
<1>4. CASE ~InRange(buf, cur + Length)
  <2> DEFINE end == cur + Length - 1
  <2>1. end \in Nat
    BY <1>1 DEF ReaderType
  <2>2. InRange(buf, end) \/ end = cur
    <3>1. CASE Length = 1
      BY <3>1 DEF ReaderType
    <3>2. CASE Length # 1
      <4>1. Length - 1 \in 1..(Length - 1) /\ end = cur + (Length - 1)
        BY <1>1, <3>2 DEF ReaderType
      <4> QED
        BY <1>1, <4>1
    <3> QED
      BY <3>1, <3>2
  <2>3. Varint(read, width) = [read |-> read, from |-> cur, end |-> end, ok |-> FALSE, val |-> {}]
    BY <1>4 DEF Varint, Threw
  <2> HIDE DEF end
  <2>4. cur..(end - 1) \subseteq 0..(Len(buf) - 1)
    BY <2>1, <2>2, UpToIsWithin
  <2>5. Agrees(Varint(read, width))
    BY <1>2, <1>4, <1>5, <2>3 DEF Agrees
  <2> QED
    BY <1>4, <2>1, <2>3, <2>4, <2>5 DEF Sound
<1> QED
  BY <1>3, <1>4

\* The lower half of a three byte number, and the number.
LEMMA HalfIsWord ==
    ASSUME ReaderType, InRange(buf, cur + 2)
    PROVE  Half \subseteq WordBits /\ SignedHalf \subseteq WordBits
<1>1. BitsOf[ByteAt(buf, cur)] \subseteq 0..7
  <2>1. cur \in Nat /\ cur + 1 \in Nat /\ 1 \in Nat /\ 2 \in Nat /\ 1 <= 2
    BY DEF ReaderType
  <2> QED
    BY <2>1, InRangeBefore, ByteType
<1>2. Shl(BitsOf[ByteAt(buf, cur + 1)], 8) \subseteq WordBits
  BY DEF Shl
<1>3. Half \subseteq WordBits
  BY <1>1, <1>2 DEF Half, WordBits
<1>4. SignedHalf \subseteq WordBits
  <2>1. SignedHalf = Half \/ SignedHalf = Half \cup (16..31)
    BY DEF SignedHalf, SignExtend
  <2>2. 16..31 \subseteq WordBits
    BY DEF WordBits
  <2> DEFINE sign == 16..31
  <2> HIDE DEF sign
  <2> QED
    BY <1>3, <2>1, <2>2 DEF sign
<1> QED
  BY <1>3, <1>4

(***************************************************************************)
(* The invariant, and the calls that keep it.                              *)
(***************************************************************************)
IInv == TypeOK /\ ReadsInBounds /\ VarintExact /\ AgreesWithABCReader

LEMMA LemmaType ==
    ASSUME TypeOK
    PROVE  ReaderType
BY BuffersAssumption DEF TypeOK, ReaderType

\* What the format says of a byte string does not change with the cursor.
LEMMA BufferStays ==
    ASSUME UNCHANGED buf, NEW from
    PROVE  Encoded(from)' = Encoded(from) /\ EncodedBits(from)' = EncodedBits(from)
BY DEF Encoded, EncodedBits

LEMMA LemmaDo ==
    ASSUME IInv, NEW r, Sound(r), Do(r)
    PROVE  IInv'
<1>1. /\ last' = r /\ cur' = r.end /\ buf' = buf /\ signed' = signed /\ calls' = calls + 1
      /\ calls < MaxCalls
  BY DEF Do
<1>2. TypeOK'
  BY <1>1, MaxCallsAssumption DEF IInv, TypeOK, Sound
<1>3. ReadsInBounds'
  BY <1>1 DEF Sound, ReadsInBounds, IsRead
<1>4. VarintExact'
  <2>1. PICK from : from = cur
    OBVIOUS
  <2>2. r.from = from
    BY <2>1 DEF Sound
  <2>3. Encoded(last.from)' = Encoded(from) /\ EncodedBits(last.from)' = EncodedBits(from)
    BY <1>1, <2>2, BufferStays
  <2>4. r.ok /\ r.read \in {"u30", "u32"} =>
          /\ r.end = from + Encoded(from)
          /\ r.val = EncodedBits(from) \cap (0..(IF r.read = "u30" THEN 29 ELSE 31))
    BY <2>1 DEF Sound
  <2> QED
    BY <1>1, <2>2, <2>3, <2>4 DEF VarintExact
<1>5. AgreesWithABCReader'
  <2>1. PICK from, b : from = cur /\ b = buf
    OBVIOUS
  <2>2. r.from = from /\ last' = r /\ buf' = b
    BY <1>1, <2>1 DEF Sound
  <2>3. /\ r.read = "u30" =>
             /\ r.ok <=> InRange(b, AfterU30(b, from))
             /\ r.ok => r.end = AfterU30(b, from)
             /\ r.ok => r.val = Complement(U30At(b, from))
        /\ r.read = "s24" =>
             /\ r.ok <=> InRange(b, AfterS24(from))
             /\ r.ok => r.val = Complement(S24At(b, from))
    BY <2>1 DEF Sound, Agrees
  <2> QED
    BY <2>2, <2>3 DEF AgreesWithABCReader
<1> QED
  BY <1>2, <1>3, <1>4, <1>5 DEF IInv

LEMMA LemmaFixed ==
    ASSUME IInv, ReadU8 \/ ReadU16 \/ ReadS24 \/ ReadD64
    PROVE  IInv'
<1>1. ReaderType
  BY LemmaType DEF IInv
<1>2. CASE ReadU8
  <2>1. InRange(buf, cur + 1) => BitsOf[ByteAt(buf, cur)] \subseteq WordBits
    <3>1. cur \in Nat
      BY <1>1 DEF ReaderType
    <3> QED
      BY <1>1, <3>1, ByteType DEF WordBits
  <2>2. Sound(Fixed("u8", 1, BitsOf[ByteAt(buf, cur)]))
    BY <1>1, <2>1, FixedIsSound
  <2> QED
    BY <1>2, <2>2, LemmaDo DEF ReadU8
<1>3. CASE ReadU16
  <2>1. Sound(Fixed("u16", 2, Half))
    BY <1>1, HalfIsWord, FixedIsSound
  <2> QED
    BY <1>3, <2>1, LemmaDo DEF ReadU16
<1>4. CASE ReadS24
  <2>1. InRange(buf, cur + 3) => S24Word \subseteq WordBits
    BY <1>1, S24Bits
  <2>2. InRange(buf, cur + 3) => S24Word = Complement(S24At(buf, cur))
    BY <1>1, S24Is
  <2>3. Do(Fixed("s24", 3, S24Word))
    BY <1>4 DEF ReadS24, S24Word
  <2>4. Sound(Fixed("s24", 3, S24Word))
    BY <1>1, <2>1, <2>2, FixedIsSound
  <2> QED
    BY <2>3, <2>4, LemmaDo
<1>5. CASE ReadD64
  <2>1. Sound(Fixed("d64", 8, {}))
    BY <1>1, FixedIsSound
  <2> QED
    BY <1>5, <2>1, LemmaDo DEF ReadD64
<1> QED
  BY <1>2, <1>3, <1>4, <1>5

LEMMA LemmaString ==
    ASSUME IInv, ReadString
    PROVE  IInv'
<1> DEFINE length == Varint("string", 30)
           end == length.end + U30At(buf, cur)
<1>1. ReaderType
  BY LemmaType DEF IInv
<1>2. /\ Sound(length)
      /\ length.ok => InRange(buf, cur + Length) /\ length.end = cur + Length
      /\ length.read = "string"
  BY <1>1, VarintIsSound
<1>3. IF ~length.ok THEN Do(length)
      ELSE IF InRange(buf, end) THEN Do(Returned("string", {}, end))
      ELSE Do(Threw("string", length.end))
  BY DEF ReadString
<1> HIDE DEF length
<1>4. CASE ~length.ok
  BY <1>2, <1>3, <1>4, LemmaDo
<1>5. CASE length.ok /\ InRange(buf, end)
  <2>1. end \in Nat
    BY <1>1, <1>2, <1>5, U30Type DEF Sound
  <2>2. cur..(end - 1) \subseteq 0..(Len(buf) - 1)
    BY <1>1, <1>5, <2>1, UpToIsWithin
  <2> HIDE DEF end
  <2>3. Sound(Returned("string", {}, end))
    BY <2>1, <2>2 DEF Sound, Returned, Agrees
  <2> QED
    BY <1>3, <1>5, <2>3, LemmaDo
<1>6. CASE length.ok /\ ~InRange(buf, end)
  <2>1. length.end \in Nat /\ cur..(length.end - 1) \subseteq 0..(Len(buf) - 1)
    BY <1>2 DEF Sound
  <2>2. Sound(Threw("string", length.end))
    BY <2>1 DEF Sound, Threw, Agrees
  <2> QED
    BY <1>3, <1>6, <2>2, LemmaDo
<1> QED
  BY <1>4, <1>5, <1>6

LEMMA LemmaNext == IInv /\ [ReaderNext]_readerVars => IInv'
<1> SUFFICES ASSUME IInv, [ReaderNext]_readerVars
             PROVE  IInv'
  OBVIOUS
<1>1. ReaderType
  BY LemmaType DEF IInv
<1>2. CASE ReadU32
  <2>1. Sound(Varint("u32", 32))
    BY <1>1, VarintIsSound
  <2> QED
    BY <1>2, <2>1, LemmaDo DEF ReadU32
<1>3. CASE ReadU30
  <2>1. Sound(Varint("u30", 30))
    BY <1>1, VarintIsSound
  <2> QED
    BY <1>3, <2>1, LemmaDo DEF ReadU30
<1>4. ASSUME NEW value \in Seeks, Pos(value)
      PROVE  IInv'
  <2>1. value \in Nat
    BY SeeksAssumption
  <2>2. Sound(Returned("pos", {}, value))
    BY <2>1 DEF Sound, Returned, Agrees
  <2> QED
    BY <1>4, <2>2, LemmaDo DEF Pos
<1>5. CASE UNCHANGED readerVars
  <2>1. PICK l : l = last
    OBVIOUS
  <2>2. last' = l /\ cur' = cur /\ buf' = buf /\ signed' = signed /\ calls' = calls
    BY <1>5, <2>1 DEF readerVars
  <2>3. Encoded(last.from)' = Encoded(l.from) /\ EncodedBits(last.from)' = EncodedBits(l.from)
    BY <2>2, BufferStays
  <2>4. VarintExact'
    BY <2>1, <2>2, <2>3 DEF IInv, VarintExact
  <2>5. TypeOK' /\ ReadsInBounds'
    BY <2>1, <2>2 DEF IInv, TypeOK, ReadsInBounds, IsRead
  <2>6. AgreesWithABCReader'
    BY <2>1, <2>2 DEF IInv, AgreesWithABCReader
  <2> QED
    BY <2>4, <2>5, <2>6 DEF IInv
<1> QED
  BY <1>2, <1>3, <1>4, <1>5, LemmaFixed, LemmaString DEF ReaderNext

\* The invariant holds of every byte string and any number of calls.
THEOREM Invariance == ReaderSpec => []IInv
<1>1. ReaderInit => IInv
  BY MaxCallsAssumption DEF ReaderInit, IInv, TypeOK, ReadsInBounds, IsRead, VarintExact, AgreesWithABCReader, WordBits
<1> QED
  BY <1>1, LemmaNext, PTL DEF ReaderSpec

-----------------------------------------------------------------------------
\* Values are words of 32 bits, cursors are offsets (type correctness).
THEOREM Typed == ReaderSpec => []TypeOK
BY Invariance, PTL DEF IInv

\* No call of a read method looks outside of the buffer, wherever pos(value)
\* has put the cursor: every dereference comes after its test.
THEOREM StaysInBounds == ReaderSpec => []ReadsInBounds
BY Invariance, PTL DEF IInv

\* readU32 and readU30 read every integer as it was encoded, with a signed
\* char as with an unsigned one, and end behind its last byte.
THEOREM VarintsAreExact == ReaderSpec => []VarintExact
BY Invariance, PTL DEF IInv

\* The operators of module ABCReader, which the models of the parser and of
\* the disassembler are built on, throw, move and read what readU30 and readS24
\* do with words, signed chars and a signed load of two bytes.
THEOREM OperatorsAgree == ReaderSpec => []AgreesWithABCReader
BY Invariance, PTL DEF IInv

-----------------------------------------------------------------------------
(***************************************************************************)
(* ABCReader::read, which is made of these reads.                          *)
(***************************************************************************)
-----------------------------------------------------------------------------
(***************************************************************************)
(* Places in the file.  The one behind its end stands for a read that has  *)
(* thrown.                                                                 *)
(***************************************************************************)
ParseType == data \in Seq(Byte)

End == Len(data) + 1
Places == 0..End

\* From p, a read gets to q: not back, and forward unless it throws.
Onward(p, q) == q \in Places /\ p <= q
Forward(p, q) == q \in Places /\ (p < q \/ q = End)

LEMMA PlacesType ==
    ASSUME ParseType
    PROVE  End \in Nat /\ Places \subseteq Nat /\ End \in Places
BY LenProperties DEF ParseType, End, Places

LEMMA OnwardAgain ==
    ASSUME ParseType, NEW p \in Places, NEW q, NEW r, Onward(p, q) \/ Forward(p, q), Onward(q, r) \/ Forward(q, r)
    PROVE  /\ q \in Places /\ r \in Places
           /\ Onward(p, q) /\ Onward(p, r)
           /\ Forward(p, q) \/ Forward(q, r) => Forward(p, r)
<1>1. \A x \in Places : x \in Nat /\ x <= End
  BY PlacesType DEF Places
<1>2. End \in Nat
  BY PlacesType
<1>3. q \in Places /\ r \in Places
  BY DEF Onward, Forward
<1>4. p \in Nat /\ q \in Nat /\ r \in Nat /\ p <= End /\ q <= End /\ r <= End
  BY <1>1, <1>3
<1>5. p <= q /\ q <= r
  BY <1>2, <1>4 DEF Onward, Forward
<1> HIDE DEF Places, End
<1>6. p <= r
  BY <1>4, <1>5
<1>7. ASSUME Forward(p, q)
      PROVE  p < r \/ r = End
  BY <1>2, <1>4, <1>5, <1>7 DEF Forward
<1>8. ASSUME Forward(q, r)
      PROVE  p < r \/ r = End
  BY <1>2, <1>4, <1>5, <1>8 DEF Forward
<1> QED
  BY <1>3, <1>5, <1>6, <1>7, <1>8 DEF Onward, Forward

LEMMA ForwardIsOnward ==
    ASSUME ParseType, NEW p \in Places, NEW q, Forward(p, q)
    PROVE  Onward(p, q)
<1>1. Onward(q, q) /\ q \in Places
  BY PlacesType DEF Onward, Forward
<1> QED
  BY <1>1, OnwardAgain

\* The cursor of what has been read.
LEMMA GotNext ==
    ASSUME NEW v, NEW q, NEW front, NEW item
    PROVE  Got(v, q).next = q /\ With(front, item).next = item.next
BY DEF Got, With

\* What a read of the parser is made of.
LEMMA CheckedEnds ==
    ASSUME ParseType, NEW p \in Places, NEW q \in Nat, p <= q, NEW val
    PROVE  /\ Onward(p, Checked(val, q).next)
           /\ p < q => Forward(p, Checked(val, q).next)
           /\ q <= Len(data) => Checked(val, q).val = val
           /\ ~(q <= Len(data)) => Checked(val, q).val = 0
<1>1. End = Len(data) + 1 /\ Len(data) \in Nat /\ p \in Nat /\ p <= End /\ Places = 0..End
  BY LenProperties DEF ParseType, End, Places
<1>2. Checked(val, q) = IF q <= Len(data) THEN [val |-> val, next |-> q] ELSE [val |-> 0, next |-> End]
  BY Zenon DEF Checked, InRange, Got, Thrown, End
<1> HIDE DEF End, Places
<1>3. CASE q <= Len(data)
  <2>1. Checked(val, q).next = q /\ Checked(val, q).val = val
    BY <1>2, <1>3
  <2>2. q \in 0..End
    BY <1>1, <1>3
  <2> QED
    BY <1>1, <1>3, <2>1, <2>2 DEF Onward, Forward
<1>4. CASE ~(q <= Len(data))
  <2>1. Checked(val, q).next = End /\ Checked(val, q).val = 0
    BY <1>2, <1>4
  <2>2. End \in 0..End
    BY <1>1
  <2> QED
    BY <1>1, <1>4, <2>1, <2>2 DEF Onward, Forward
<1> QED
  BY <1>3, <1>4

LEMMA U8Ends ==
    ASSUME ParseType, NEW p \in Places
    PROVE  Forward(p, U8(p).next)
<1>1. p \in Nat /\ p + 1 \in Nat /\ p <= p + 1 /\ p < p + 1
  BY PlacesType
<1> QED
  BY <1>1, CheckedEnds DEF U8

LEMMA U16Ends ==
    ASSUME ParseType, NEW p \in Places
    PROVE  Forward(p, U16(p).next)
<1>1. p \in Nat /\ p + 2 \in Nat /\ p <= p + 2 /\ p < p + 2
  BY PlacesType
<1> QED
  BY <1>1, CheckedEnds DEF U16

LEMMA BytesEnd ==
    ASSUME ParseType, NEW p \in Places, NEW n \in Nat
    PROVE  /\ Onward(p, Bytes(p, n).next)
           /\ n # 0 => Forward(p, Bytes(p, n).next)
<1>1. p \in Nat /\ p + n \in Nat /\ p <= p + n /\ (n # 0 => p < p + n)
  BY PlacesType
<1> QED
  BY <1>1, CheckedEnds DEF Bytes

LEMMA VarLenEnds ==
    ASSUME NEW p
    PROVE  VarLen(data, p) \in 1..5
BY DEF VarLen

LEMMA U32Ends ==
    ASSUME ParseType, NEW p \in Places
    PROVE  Forward(p, U32(p).next)
<1>1. VarLen(data, p) \in Nat /\ VarLen(data, p) # 0
  BY VarLenEnds
<1> QED
  BY <1>1, BytesEnd DEF U32

LEMMA ThirtyBits == 2^30 = 1073741824
<1>1. 2^(0 + 8) = 256 * 2^0
  BY PowerWord
<1>2. 2^(8 + 8) = 256 * 2^8
  BY PowerWord
<1>3. 2^(16 + 7) = 128 * 2^16
  BY PowerWord
<1>4. 2^(23 + 7) = 128 * 2^23
  BY PowerWord
<1>5. 2^0 = 1 /\ 0 + 8 = 8 /\ 8 + 8 = 16 /\ 16 + 7 = 23 /\ 23 + 7 = 30
  OBVIOUS
<1>6. 2^16 = 65536
  BY <1>1, <1>2, <1>5
<1> QED
  BY SMT, <1>3, <1>4, <1>5, <1>6

\* readU30 returns a number of 30 bits when it does not throw: all the bytes it
\* takes groups from are there.
LEMMA U30AtType ==
    ASSUME NEW b \in Seq(Byte), NEW p \in Nat, InRange(b, AfterU30(b, p))
    PROVE  U30At(b, p) \in Nat /\ U30At(b, p) < 2^30
<1>1. ASSUME NEW i \in 0..4
      PROVE  Group(b, p, i) \in 0..(IF i = 4 THEN 3 ELSE 127)
  <2>1. CASE ~Continues(b, p, i)
    BY <2>1 DEF Group
  <2>2. CASE Continues(b, p, i)
    <3>1. ASSUME NEW j \in 0..i
          PROVE  Continues(b, p, j)
      <4>1. \A m \in 0..(j - 1) : m \in 0..(i - 1)
        OBVIOUS
      <4> QED
        BY <2>2, <4>1 DEF Continues
    <3>2. VarLen(b, p) \in 1..5 /\ i < VarLen(b, p)
      BY <3>1 DEF VarLen
    <3>3. p + i + 1 \in 1..Len(b)
      BY <3>2, LenProperties DEF InRange, AfterU30
    <3>4. ByteAt(b, p + i) \in 0..255
      BY <3>3, ElementOfSeq DEF ByteAt, Byte
    <3>5. \A x \in 0..255 : x % 4 \in 0..3 /\ x % 128 \in 0..127
      OBVIOUS
    <3>6. ByteAt(b, p + i) % 4 \in 0..3 /\ ByteAt(b, p + i) % 128 \in 0..127
      BY <3>4, <3>5
    <3> QED
      BY <2>2, <3>6 DEF Group
  <2> QED
    BY <2>1, <2>2
<1>2. /\ Group(b, p, 0) \in 0..127 /\ Group(b, p, 1) \in 0..127 /\ Group(b, p, 2) \in 0..127
      /\ Group(b, p, 3) \in 0..127 /\ Group(b, p, 4) \in 0..3
  BY <1>1
<1>3. PICK g0 \in 0..127, g1 \in 0..127, g2 \in 0..127, g3 \in 0..127, g4 \in 0..3 :
        /\ Group(b, p, 0) = g0 /\ Group(b, p, 1) = g1 /\ Group(b, p, 2) = g2
        /\ Group(b, p, 3) = g3 /\ Group(b, p, 4) = g4
  BY <1>2
<1>4. U30At(b, p) = g0 + 128 * g1 + 16384 * g2 + 2097152 * g3 + 268435456 * g4
  BY SMT, <1>3 DEF U30At
<1>5. PICK sum : sum = g0 + 128 * g1 + 16384 * g2 + 2097152 * g3 + 268435456 * g4
  OBVIOUS
<1>6. sum \in Nat /\ sum <= 1073741823
  <2>1. PICK a0 \in Int, a1 \in Int, a2 \in Int, a3 \in Int, a4 \in Int :
          /\ a0 = g0 /\ a1 = 128 * g1 /\ a2 = 16384 * g2
          /\ a3 = 2097152 * g3 /\ a4 = 268435456 * g4
    OBVIOUS
  <2>2. 0 <= a0 /\ a0 <= 127
    BY <2>1
  <2>3. 0 <= a1 /\ a1 <= 16256
    BY <2>1
  <2>4. 0 <= a2 /\ a2 <= 2080768
    BY <2>1
  <2>5. 0 <= a3 /\ a3 <= 266338304
    BY <2>1
  <2>6. 0 <= a4 /\ a4 <= 805306368
    BY <2>1
  <2>7. 0 <= a0 + a1 + a2 + a3 + a4 /\ a0 + a1 + a2 + a3 + a4 <= 1073741823
    BY ONLY SMT, <2>2, <2>3, <2>4, <2>5, <2>6, a0 \in Int, a1 \in Int, a2 \in Int, a3 \in Int, a4 \in Int
  <2> QED
    BY SMT, <1>5, <2>1, <2>7
<1> QED
  BY SMT, <1>4, <1>5, <1>6, ThirtyBits

\* The number is a number, whether the read throws or not.
LEMMA U30Ends ==
    ASSUME ParseType, NEW p \in Places
    PROVE  Forward(p, U30(p).next) /\ U30(p).val \in Nat
<1> DEFINE q == AfterU30(data, p)
           n == U30At(data, p)
<1>1. q = p + VarLen(data, p) /\ p \in Nat
  BY PlacesType DEF AfterU30
<1>2. q \in Nat /\ p <= q /\ p < q
  BY <1>1, VarLenEnds
<1>3. U30(p) = Checked(n, q)
  BY DEF U30
<1>4. ASSUME q <= Len(data)
      PROVE  n \in Nat
  BY <1>1, <1>4, U30AtType DEF ParseType, InRange
<1> HIDE DEF q, n
<1>5. Forward(p, Checked(n, q).next)
  BY <1>2, CheckedEnds
<1>6. Checked(n, q).val \in Nat
  BY <1>2, <1>4, CheckedEnds
<1> QED
  BY <1>3, <1>5, <1>6

LEMMA StringEnds ==
    ASSUME ParseType, NEW p \in Places
    PROVE  Forward(p, String(p).next)
<1>1. PICK length : length = U30(p)
  OBVIOUS
<1>2. Forward(p, length.next) /\ length.val \in Nat
  BY <1>1, U30Ends
<1>3. length.next \in Places
  BY <1>2 DEF Forward
<1>4. Onward(length.next, Bytes(length.next, length.val).next)
  BY <1>2, <1>3, BytesEnd
<1>5. String(p) = Bytes(length.next, length.val)
  BY <1>1 DEF String
<1> QED
  BY <1>2, <1>4, <1>5, OnwardAgain

-----------------------------------------------------------------------------
(***************************************************************************)
(* Lists, of items that are read onward.                                   *)
(***************************************************************************)
Lists(R, item, p) ==
    R = [i \in Nat |-> IF i = 0 THEN Got(<<>>, p)
                       ELSE With(R[i - 1], item[R[i - 1].next])]

LEMMA ListExists ==
    ASSUME ParseType, NEW item, \A q \in Places : item[q].next \in Places, NEW p \in Places
    PROVE  \E R : Lists(R, item, p) /\ \A i \in Nat : R[i].next \in Places
<1> DEFINE X == {item[q].val : q \in Places}
           V == [val : Seq(X), next : Places]
           G == [x \in Nat \X V |-> With(x[2], item[x[2].next])]
           first == Got(<<>>, p)
<1>1. first \in V
  BY DEF Got
<1>2. G \in StepsIn(V)
  <2>1. ASSUME NEW v \in V
        PROVE  With(v, item[v.next]) \in V
    <3>1. v.next \in Places /\ v.val \in Seq(X)
      OBVIOUS
    <3>2. item[v.next].next \in Places /\ item[v.next].val \in X
      BY <3>1
    <3> HIDE DEF X
    <3>3. Append(v.val, item[v.next].val) \in Seq(X)
      BY <3>1, <3>2, AppendProperties
    <3> QED
      BY <3>2, <3>3 DEF With, Got
  <2> HIDE DEF V
  <2> QED
    BY <2>1 DEF StepsIn
<1>3. PICK R \in [Nat -> V] : Unfolds(R, first, G)
  <2> HIDE DEF V, G, first
  <2> QED
    BY <1>1, <1>2, NatRecursive
<1>4. ASSUME NEW i \in Nat, i # 0
      PROVE  R[i] = With(R[i - 1], item[R[i - 1].next])
  <2>1. i - 1 \in Nat
    BY <1>4
  <2>2. R[i] = G[<<i, R[i - 1]>>]
    <3> HIDE DEF V, G, first
    <3> QED
      BY <1>3, <1>4 DEF Unfolds
  <2>3. R[i - 1] \in V
    BY <1>3, <2>1
  <2> HIDE DEF V
  <2> QED
    BY <2>2, <2>3
<1>5. R[0] = first
  BY <1>3 DEF Unfolds
<1>6. \A i \in Nat : R[i].next \in Places
  BY <1>3
<1>7. Lists(R, item, p)
  <2>1. DOMAIN R = Nat /\ R = [i \in Nat |-> R[i]]
    BY <1>3
  <2> HIDE DEF V
  <2> QED
    BY <1>4, <1>5, <2>1 DEF Lists
<1> QED
  BY <1>6, <1>7

\* Onward in each step is onward altogether.
LEMMA StepsOnward ==
    ASSUME ParseType, NEW w, NEW p \in Places, w[0].next = p,
           \A i \in Nat : w[i].next \in Places => Onward(w[i].next, w[i + 1].next),
           NEW n \in Nat
    PROVE  Onward(p, w[n].next)
<1> DEFINE S == {i \in Nat : Onward(p, w[i].next)}
<1>1. 0 \in S
  BY PlacesType DEF Onward
<1>2. ASSUME NEW i \in Nat, i \in S
      PROVE  i + 1 \in S
  <2>1. Onward(p, w[i].next) /\ w[i].next \in Places
    BY <1>2 DEF Onward
  <2>2. Onward(w[i].next, w[i + 1].next)
    BY <2>1
  <2> QED
    BY <2>1, <2>2, OnwardAgain
<1>3. Nat \subseteq S
  <2> HIDE DEF S
  <2> QED
    BY <1>1, <1>2, NatInductive
<1> QED
  BY <1>3

\* w[n] are the first n items of a list, each read where the one before ends.
Repeats(w, item, p) ==
    /\ w[0] = Got(<<>>, p)
    /\ \A i \in Nat : w[i].next \in Places /\ w[i + 1] = With(w[i], item[w[i].next])

LEMMA RepeatsOnward ==
    ASSUME ParseType, NEW w, NEW item, NEW p \in Places, Repeats(w, item, p),
           \A q \in Places : Onward(q, item[q].next), NEW n \in Nat
    PROVE  Onward(p, w[n].next)
<1>1. w[0].next = p /\ \A i \in Nat : w[i + 1].next = item[w[i].next].next
  BY GotNext DEF Repeats
<1>2. \A i \in Nat : w[i].next \in Places => Onward(w[i].next, w[i + 1].next)
  BY <1>1
<1> QED
  BY <1>1, <1>2, StepsOnward

LEMMA ThrownEnds ==
    ASSUME ParseType, NEW p \in Places
    PROVE  Forward(p, Thrown.next) /\ Onward(p, Thrown.next)
<1>1. Thrown.next = End
  BY DEF Thrown, Got, End
<1> QED
  BY <1>1, PlacesType DEF Forward, Onward, Places

LEMMA U30sUnfold ==
    ASSUME ParseType, NEW n \in Nat, NEW p \in Places
    PROVE  \E w : List(U30, n, p) = w[n] /\ Repeats(w, [q \in Places |-> U30(q)], p)
<1> DEFINE item == [q \in Places |-> U30(q)]
           body(g) == [i \in Nat |-> IF i = 0 THEN Got(<<>>, p)
                                     ELSE With(g[i - 1], U30(g[i - 1].next))]
           w == CHOOSE g : g = body(g)
<1>1. \A q \in Places : item[q] = U30(q) /\ Onward(q, U30(q).next)
  BY U30Ends, ForwardIsOnward
<1> HIDE DEF item
<1>2. PICK R : Lists(R, item, p) /\ \A i \in Nat : R[i].next \in Places
  BY <1>1, ListExists DEF Onward
<1>3. R = body(R)
  <2>1. \A i \in Nat : i # 0 => item[R[i - 1].next] = U30(R[i - 1].next)
    BY <1>1, <1>2
  <2> QED
    BY <1>2, <2>1 DEF Lists
<1>4. w = body(w)
  <2> HIDE DEF body
  <2> QED
    BY <1>3
<1>5. List(U30, n, p) = w[n]
  BY Zenon DEF List
<1> HIDE DEF w
<1>6. w[0] = Got(<<>>, p) /\ \A i \in Nat : w[i + 1] = With(w[i], U30(w[i].next))
  BY <1>4
<1>7. w[0].next = p /\ \A i \in Nat : w[i + 1].next = U30(w[i].next).next
  BY <1>6, GotNext
<1>8. \A i \in Nat : Onward(p, w[i].next)
  BY <1>1, <1>7, StepsOnward
<1>9. Repeats(w, item, p)
  BY <1>1, <1>6, <1>8 DEF Repeats, Onward
<1> QED
  BY <1>5, <1>9 DEF item

LEMMA U30sEnd ==
    ASSUME ParseType, NEW n \in Nat, NEW p \in Places
    PROVE  Onward(p, List(U30, n, p).next)
<1> DEFINE item == [q \in Places |-> U30(q)]
<1>1. \A q \in Places : Onward(q, item[q].next)
  BY U30Ends, ForwardIsOnward
<1>2. PICK w : List(U30, n, p) = w[n] /\ Repeats(w, item, p)
  BY U30sUnfold
<1> HIDE DEF item
<1> QED
  BY <1>1, <1>2, RepeatsOnward

\* A count, and as many.
LEMMA CountedU30sEnd ==
    ASSUME ParseType, NEW p \in Places
    PROVE  Forward(p, Counted(U30, p).next)
<1>1. PICK n : n = U30(p)
  OBVIOUS
<1>2. Forward(p, n.next) /\ n.val \in Nat /\ n.next \in Places
  BY <1>1, U30Ends DEF Forward
<1>3. Onward(n.next, List(U30, n.val, n.next).next)
  BY <1>2, U30sEnd
<1>4. Onward(n.next, Thrown.next)
  BY <1>2, ThrownEnds
<1>5. Counted(U30, p) \in {Thrown, List(U30, n.val, n.next)}
  BY Zenon, <1>1 DEF Counted, Times
<1> QED
  BY <1>2, <1>3, <1>4, <1>5, OnwardAgain

\* A struct of members is a list of as many numbers.
LEMMA StructEnds ==
    ASSUME ParseType, NEW members, Len(members) \in Nat, NEW p \in Places
    PROVE  Onward(p, Struct(members, p).next)
<1>1. Onward(p, List(U30, Len(members), p).next)
  BY U30sEnd
<1>2. Struct(members, p).next = List(U30, Len(members), p).next
  BY DEF Struct, Named, Got
<1> QED
  BY <1>1, <1>2

LEMMA OptionEnds ==
    ASSUME ParseType, NEW p \in Places
    PROVE  Forward(p, Option(p).next)
<1>1. PICK val : val = U30(p)
  OBVIOUS
<1>2. Forward(p, val.next) /\ val.next \in Places
  BY <1>1, U30Ends DEF Forward
<1>3. Forward(val.next, U8(val.next).next)
  BY <1>2, U8Ends
<1>4. Option(p).next = U8(val.next).next
  BY <1>1 DEF Option, Got
<1> QED
  BY <1>2, <1>3, <1>4, OnwardAgain

LEMMA MetadataItemEnds ==
    ASSUME ParseType, NEW p \in Places
    PROVE  Onward(p, MetadataItem(p).next)
<1>1. Len(<<"key", "val">>) \in Nat
  OBVIOUS
<1> QED
  BY <1>1, StructEnds DEF MetadataItem

LEMMA ExceptionEnds ==
    ASSUME ParseType, NEW p \in Places
    PROVE  Onward(p, Exception(p).next)
<1>1. Len(<<"from", "to", "target", "type", "name">>) \in Nat
  OBVIOUS
<1> QED
  BY <1>1, StructEnds DEF Exception

\* Any other kind of trait throws, so that the members are known.
LEMMA TraitEnds ==
    ASSUME ParseType, NEW p \in Places
    PROVE  Forward(p, Trait(p).next)
<1>1. PICK name : name = U30(p)
  OBVIOUS
<1>2. PICK kind : kind = U8(name.next)
  OBVIOUS
<1>3. PICK members : members = Struct(TraitMembers(kind.val % 16), kind.next)
  OBVIOUS
<1>4. PICK body : body = TraitData(members)
  OBVIOUS
<1>5. PICK metadata : metadata = IF Flag(kind.val, 64) THEN Counted(U30, body.next)
                                 ELSE Got(<<>>, body.next)
  OBVIOUS
<1>6. Trait(p).next = IF kind.val % 16 \notin TraitKinds THEN Thrown.next ELSE metadata.next
  BY <1>1, <1>2, <1>3, <1>4, <1>5 DEF Trait, Got
<1>7. CASE kind.val % 16 \notin TraitKinds
  BY <1>6, <1>7, ThrownEnds
<1>8. CASE kind.val % 16 \in TraitKinds
  <2>1. Forward(p, name.next) /\ name.next \in Places
    BY <1>1, U30Ends DEF Forward
  <2>2. Forward(name.next, kind.next) /\ kind.next \in Places
    BY <1>2, <2>1, U8Ends DEF Forward
  <2>3. Len(TraitMembers(kind.val % 16)) \in Nat
    <3>1. PICK k \in 0..6 : k = kind.val % 16
      BY <1>8 DEF TraitKinds
    <3>2. TraitMembers(k) \in {<<"slotID", "typeName", "vindex">>, <<"dispID", "method">>,
                                     <<"slotID", "classi">>, <<"slotID", "functioni">>}
      BY DEF TraitMembers
    <3> QED
      BY <3>1, <3>2
  <2>4. Onward(kind.next, members.next) /\ members.next \in Places
    BY <1>3, <2>2, <2>3, StructEnds DEF Onward
  <2>5. Onward(members.next, body.next) /\ body.next \in Places
    <3>1. Forward(members.next, U8(members.next).next)
      BY <2>4, U8Ends
    <3>2. body.next = U8(members.next).next \/ body.next = members.next
      BY <1>4 DEF TraitData, Got
    <3>3. Onward(members.next, members.next)
      BY <2>4, PlacesType DEF Onward
    <3> QED
      BY <2>4, <3>1, <3>2, <3>3, OnwardAgain
  <2>6. Onward(body.next, metadata.next)
    <3>1. Forward(body.next, Counted(U30, body.next).next)
      BY <2>5, CountedU30sEnd
    <3>2. Onward(body.next, Got(<<>>, body.next).next)
      BY <2>5, PlacesType DEF Onward, Got
    <3>3. metadata \in {Counted(U30, body.next), Got(<<>>, body.next)}
      BY <1>5
    <3>4. Onward(body.next, Counted(U30, body.next).next)
      BY <2>5, <3>1, ForwardIsOnward
    <3> QED
      BY <3>2, <3>3, <3>4
  <2>7. Onward(p, members.next) /\ Forward(p, kind.next)
    BY <2>1, <2>2, <2>4, OnwardAgain
  <2>8. Forward(p, members.next)
    BY <2>2, <2>4, <2>7, OnwardAgain
  <2>9. Forward(p, body.next)
    BY <2>4, <2>5, <2>8, OnwardAgain
  <2>10. Forward(p, metadata.next)
    BY <2>5, <2>6, <2>9, OnwardAgain
  <2> QED
    BY <1>6, <1>8, <2>10
<1> QED
  BY <1>7, <1>8

LEMMA OptionsUnfold ==
    ASSUME ParseType, NEW n \in Nat, NEW p \in Places
    PROVE  \E w : List(Option, n, p) = w[n] /\ Repeats(w, [q \in Places |-> Option(q)], p)
<1> DEFINE item == [q \in Places |-> Option(q)]
           body(g) == [i \in Nat |-> IF i = 0 THEN Got(<<>>, p)
                                     ELSE With(g[i - 1], Option(g[i - 1].next))]
           w == CHOOSE g : g = body(g)
<1>1. \A q \in Places : item[q] = Option(q) /\ Onward(q, Option(q).next)
  BY OptionEnds, ForwardIsOnward
<1> HIDE DEF item
<1>2. PICK R : Lists(R, item, p) /\ \A i \in Nat : R[i].next \in Places
  BY <1>1, ListExists DEF Onward
<1>3. R = body(R)
  <2>1. \A i \in Nat : i # 0 => item[R[i - 1].next] = Option(R[i - 1].next)
    BY <1>1, <1>2
  <2> QED
    BY <1>2, <2>1 DEF Lists
<1>4. w = body(w)
  <2> HIDE DEF body
  <2> QED
    BY <1>3
<1>5. List(Option, n, p) = w[n]
  BY Zenon DEF List
<1> HIDE DEF w
<1>6. w[0] = Got(<<>>, p) /\ \A i \in Nat : w[i + 1] = With(w[i], Option(w[i].next))
  BY <1>4
<1>7. w[0].next = p /\ \A i \in Nat : w[i + 1].next = Option(w[i].next).next
  BY <1>6, GotNext
<1>8. \A i \in Nat : Onward(p, w[i].next)
  BY <1>1, <1>7, StepsOnward
<1>9. Repeats(w, item, p)
  BY <1>1, <1>6, <1>8 DEF Repeats, Onward
<1> QED
  BY <1>5, <1>9 DEF item

LEMMA OptionsEnd ==
    ASSUME ParseType, NEW n \in Nat, NEW p \in Places
    PROVE  Onward(p, List(Option, n, p).next)
<1> DEFINE item == [q \in Places |-> Option(q)]
<1>1. \A q \in Places : Onward(q, item[q].next)
  BY OptionEnds, ForwardIsOnward
<1>2. PICK w : List(Option, n, p) = w[n] /\ Repeats(w, item, p)
  BY OptionsUnfold
<1> HIDE DEF item
<1> QED
  BY <1>1, <1>2, RepeatsOnward

\* A count, and as many.
LEMMA CountedOptionsEnd ==
    ASSUME ParseType, NEW p \in Places
    PROVE  Forward(p, Counted(Option, p).next)
<1>1. PICK n : n = U30(p)
  OBVIOUS
<1>2. Forward(p, n.next) /\ n.val \in Nat /\ n.next \in Places
  BY <1>1, U30Ends DEF Forward
<1>3. Onward(n.next, List(Option, n.val, n.next).next)
  BY <1>2, OptionsEnd
<1>4. Onward(n.next, Thrown.next)
  BY <1>2, ThrownEnds
<1>5. Counted(Option, p) \in {Thrown, List(Option, n.val, n.next)}
  BY Zenon, <1>1 DEF Counted, Times
<1> QED
  BY <1>2, <1>3, <1>4, <1>5, OnwardAgain

LEMMA MetadataItemsUnfold ==
    ASSUME ParseType, NEW n \in Nat, NEW p \in Places
    PROVE  \E w : List(MetadataItem, n, p) = w[n] /\ Repeats(w, [q \in Places |-> MetadataItem(q)], p)
<1> DEFINE item == [q \in Places |-> MetadataItem(q)]
           body(g) == [i \in Nat |-> IF i = 0 THEN Got(<<>>, p)
                                     ELSE With(g[i - 1], MetadataItem(g[i - 1].next))]
           w == CHOOSE g : g = body(g)
<1>1. \A q \in Places : item[q] = MetadataItem(q) /\ Onward(q, MetadataItem(q).next)
  BY MetadataItemEnds
<1> HIDE DEF item
<1>2. PICK R : Lists(R, item, p) /\ \A i \in Nat : R[i].next \in Places
  BY <1>1, ListExists DEF Onward
<1>3. R = body(R)
  <2>1. \A i \in Nat : i # 0 => item[R[i - 1].next] = MetadataItem(R[i - 1].next)
    BY <1>1, <1>2
  <2> QED
    BY <1>2, <2>1 DEF Lists
<1>4. w = body(w)
  <2> HIDE DEF body
  <2> QED
    BY <1>3
<1>5. List(MetadataItem, n, p) = w[n]
  BY Zenon DEF List
<1> HIDE DEF w
<1>6. w[0] = Got(<<>>, p) /\ \A i \in Nat : w[i + 1] = With(w[i], MetadataItem(w[i].next))
  BY <1>4
<1>7. w[0].next = p /\ \A i \in Nat : w[i + 1].next = MetadataItem(w[i].next).next
  BY <1>6, GotNext
<1>8. \A i \in Nat : Onward(p, w[i].next)
  BY <1>1, <1>7, StepsOnward
<1>9. Repeats(w, item, p)
  BY <1>1, <1>6, <1>8 DEF Repeats, Onward
<1> QED
  BY <1>5, <1>9 DEF item

LEMMA MetadataItemsEnd ==
    ASSUME ParseType, NEW n \in Nat, NEW p \in Places
    PROVE  Onward(p, List(MetadataItem, n, p).next)
<1> DEFINE item == [q \in Places |-> MetadataItem(q)]
<1>1. \A q \in Places : Onward(q, item[q].next)
  BY MetadataItemEnds
<1>2. PICK w : List(MetadataItem, n, p) = w[n] /\ Repeats(w, item, p)
  BY MetadataItemsUnfold
<1> HIDE DEF item
<1> QED
  BY <1>1, <1>2, RepeatsOnward

\* A count, and as many.
LEMMA CountedMetadataItemsEnd ==
    ASSUME ParseType, NEW p \in Places
    PROVE  Forward(p, Counted(MetadataItem, p).next)
<1>1. PICK n : n = U30(p)
  OBVIOUS
<1>2. Forward(p, n.next) /\ n.val \in Nat /\ n.next \in Places
  BY <1>1, U30Ends DEF Forward
<1>3. Onward(n.next, List(MetadataItem, n.val, n.next).next)
  BY <1>2, MetadataItemsEnd
<1>4. Onward(n.next, Thrown.next)
  BY <1>2, ThrownEnds
<1>5. Counted(MetadataItem, p) \in {Thrown, List(MetadataItem, n.val, n.next)}
  BY Zenon, <1>1 DEF Counted, Times
<1> QED
  BY <1>2, <1>3, <1>4, <1>5, OnwardAgain

LEMMA ExceptionsUnfold ==
    ASSUME ParseType, NEW n \in Nat, NEW p \in Places
    PROVE  \E w : List(Exception, n, p) = w[n] /\ Repeats(w, [q \in Places |-> Exception(q)], p)
<1> DEFINE item == [q \in Places |-> Exception(q)]
           body(g) == [i \in Nat |-> IF i = 0 THEN Got(<<>>, p)
                                     ELSE With(g[i - 1], Exception(g[i - 1].next))]
           w == CHOOSE g : g = body(g)
<1>1. \A q \in Places : item[q] = Exception(q) /\ Onward(q, Exception(q).next)
  BY ExceptionEnds
<1> HIDE DEF item
<1>2. PICK R : Lists(R, item, p) /\ \A i \in Nat : R[i].next \in Places
  BY <1>1, ListExists DEF Onward
<1>3. R = body(R)
  <2>1. \A i \in Nat : i # 0 => item[R[i - 1].next] = Exception(R[i - 1].next)
    BY <1>1, <1>2
  <2> QED
    BY <1>2, <2>1 DEF Lists
<1>4. w = body(w)
  <2> HIDE DEF body
  <2> QED
    BY <1>3
<1>5. List(Exception, n, p) = w[n]
  BY Zenon DEF List
<1> HIDE DEF w
<1>6. w[0] = Got(<<>>, p) /\ \A i \in Nat : w[i + 1] = With(w[i], Exception(w[i].next))
  BY <1>4
<1>7. w[0].next = p /\ \A i \in Nat : w[i + 1].next = Exception(w[i].next).next
  BY <1>6, GotNext
<1>8. \A i \in Nat : Onward(p, w[i].next)
  BY <1>1, <1>7, StepsOnward
<1>9. Repeats(w, item, p)
  BY <1>1, <1>6, <1>8 DEF Repeats, Onward
<1> QED
  BY <1>5, <1>9 DEF item

LEMMA ExceptionsEnd ==
    ASSUME ParseType, NEW n \in Nat, NEW p \in Places
    PROVE  Onward(p, List(Exception, n, p).next)
<1> DEFINE item == [q \in Places |-> Exception(q)]
<1>1. \A q \in Places : Onward(q, item[q].next)
  BY ExceptionEnds
<1>2. PICK w : List(Exception, n, p) = w[n] /\ Repeats(w, item, p)
  BY ExceptionsUnfold
<1> HIDE DEF item
<1> QED
  BY <1>1, <1>2, RepeatsOnward

\* A count, and as many.
LEMMA CountedExceptionsEnd ==
    ASSUME ParseType, NEW p \in Places
    PROVE  Forward(p, Counted(Exception, p).next)
<1>1. PICK n : n = U30(p)
  OBVIOUS
<1>2. Forward(p, n.next) /\ n.val \in Nat /\ n.next \in Places
  BY <1>1, U30Ends DEF Forward
<1>3. Onward(n.next, List(Exception, n.val, n.next).next)
  BY <1>2, ExceptionsEnd
<1>4. Onward(n.next, Thrown.next)
  BY <1>2, ThrownEnds
<1>5. Counted(Exception, p) \in {Thrown, List(Exception, n.val, n.next)}
  BY Zenon, <1>1 DEF Counted, Times
<1> QED
  BY <1>2, <1>3, <1>4, <1>5, OnwardAgain

LEMMA TraitsUnfold ==
    ASSUME ParseType, NEW n \in Nat, NEW p \in Places
    PROVE  \E w : List(Trait, n, p) = w[n] /\ Repeats(w, [q \in Places |-> Trait(q)], p)
<1> DEFINE item == [q \in Places |-> Trait(q)]
           body(g) == [i \in Nat |-> IF i = 0 THEN Got(<<>>, p)
                                     ELSE With(g[i - 1], Trait(g[i - 1].next))]
           w == CHOOSE g : g = body(g)
<1>1. \A q \in Places : item[q] = Trait(q) /\ Onward(q, Trait(q).next)
  BY TraitEnds, ForwardIsOnward
<1> HIDE DEF item
<1>2. PICK R : Lists(R, item, p) /\ \A i \in Nat : R[i].next \in Places
  BY <1>1, ListExists DEF Onward
<1>3. R = body(R)
  <2>1. \A i \in Nat : i # 0 => item[R[i - 1].next] = Trait(R[i - 1].next)
    BY <1>1, <1>2
  <2> QED
    BY <1>2, <2>1 DEF Lists
<1>4. w = body(w)
  <2> HIDE DEF body
  <2> QED
    BY <1>3
<1>5. List(Trait, n, p) = w[n]
  BY Zenon DEF List
<1> HIDE DEF w
<1>6. w[0] = Got(<<>>, p) /\ \A i \in Nat : w[i + 1] = With(w[i], Trait(w[i].next))
  BY <1>4
<1>7. w[0].next = p /\ \A i \in Nat : w[i + 1].next = Trait(w[i].next).next
  BY <1>6, GotNext
<1>8. \A i \in Nat : Onward(p, w[i].next)
  BY <1>1, <1>7, StepsOnward
<1>9. Repeats(w, item, p)
  BY <1>1, <1>6, <1>8 DEF Repeats, Onward
<1> QED
  BY <1>5, <1>9 DEF item

LEMMA TraitsEnd ==
    ASSUME ParseType, NEW n \in Nat, NEW p \in Places
    PROVE  Onward(p, List(Trait, n, p).next)
<1> DEFINE item == [q \in Places |-> Trait(q)]
<1>1. \A q \in Places : Onward(q, item[q].next)
  BY TraitEnds, ForwardIsOnward
<1>2. PICK w : List(Trait, n, p) = w[n] /\ Repeats(w, item, p)
  BY TraitsUnfold
<1> HIDE DEF item
<1> QED
  BY <1>1, <1>2, RepeatsOnward

\* A count, and as many.
LEMMA CountedTraitsEnd ==
    ASSUME ParseType, NEW p \in Places
    PROVE  Forward(p, Counted(Trait, p).next)
<1>1. PICK n : n = U30(p)
  OBVIOUS
<1>2. Forward(p, n.next) /\ n.val \in Nat /\ n.next \in Places
  BY <1>1, U30Ends DEF Forward
<1>3. Onward(n.next, List(Trait, n.val, n.next).next)
  BY <1>2, TraitsEnd
<1>4. Onward(n.next, Thrown.next)
  BY <1>2, ThrownEnds
<1>5. Counted(Trait, p) \in {Thrown, List(Trait, n.val, n.next)}
  BY Zenon, <1>1 DEF Counted, Times
<1> QED
  BY <1>2, <1>3, <1>4, <1>5, OnwardAgain

LEMMA ForwardOn ==
    ASSUME ParseType, NEW p \in Places, NEW q, NEW r, Forward(p, q), Onward(q, r) \/ Forward(q, r)
    PROVE  Forward(p, r) /\ r \in Places
<1>1. q \in Places /\ r \in Places
  BY DEF Forward, Onward
<1> QED
  BY <1>1, OnwardAgain

\* What is not there is read in no bytes.
LEMMA StaysHere ==
    ASSUME ParseType, NEW p \in Places, NEW v
    PROVE  Onward(p, Got(v, p).next)
<1>1. Onward(p, p)
  BY PlacesType DEF Onward
<1> QED
  BY <1>1, GotNext

Names == {"ints", "uints", "doubles", "strings", "namespaces", "namespaceSets", "multinames",
          "methods", "metadatas", "instances", "classes", "scripts", "bodies"}

\* The tables are finitely many.
LEMMA NamesFinite == IsFiniteSet(Names)
<1>1. \A a, b, c, d : IsFiniteSet({a, b, c, d})
  <2> TAKE a, b, c, d
  <2>1. IsFiniteSet({a})
    BY FS_Singleton
  <2>2. IsFiniteSet({a} \cup {b})
    BY <2>1, FS_AddElement
  <2>3. IsFiniteSet(({a} \cup {b}) \cup {c})
    BY <2>2, FS_AddElement
  <2>4. IsFiniteSet((({a} \cup {b}) \cup {c}) \cup {d})
    BY <2>3, FS_AddElement
  <2>5. (({a} \cup {b}) \cup {c}) \cup {d} = {a, b, c, d}
    OBVIOUS
  <2> QED
    BY <2>4, <2>5
<1>2. IsFiniteSet({"ints", "uints", "doubles", "strings"} \cup {"namespaces", "namespaceSets", "multinames", "methods"})
  BY <1>1, FS_Union
<1>3. IsFiniteSet({"metadatas", "instances", "classes", "scripts"} \cup {"bodies", "bodies", "bodies", "bodies"})
  BY <1>1, FS_Union
<1>4. IsFiniteSet(({"ints", "uints", "doubles", "strings"} \cup {"namespaces", "namespaceSets", "multinames", "methods"})
                    \cup ({"metadatas", "instances", "classes", "scripts"} \cup {"bodies", "bodies", "bodies", "bodies"}))
  BY <1>2, <1>3, FS_Union
<1>5. Names = ({"ints", "uints", "doubles", "strings"} \cup {"namespaces", "namespaceSets", "multinames", "methods"})
                \cup ({"metadatas", "instances", "classes", "scripts"} \cup {"bodies", "bodies", "bodies", "bodies"})
  BY DEF Names
<1> QED
  BY <1>4, <1>5

LEMMA TablesAre == AllTables = Names /\ IsFiniteSet(AllTables)
<1> DEFINE T == TableOrder
<1>1. DOMAIN T = 1..13
  <2>1. DOMAIN T = 1..13
    BY DEF TableOrder
  <2> QED
    BY <2>1
<1>2. AllTables = {T[i] : i \in 1..13}
  BY <1>1 DEF AllTables, Range
<1>4. /\ T[1] = "ints" /\ T[2] = "uints" /\ T[3] = "doubles" /\ T[4] = "strings"
      /\ T[5] = "namespaces" /\ T[6] = "namespaceSets" /\ T[7] = "multinames" /\ T[8] = "methods"
      /\ T[9] = "metadatas" /\ T[10] = "instances" /\ T[11] = "classes" /\ T[12] = "scripts"
      /\ T[13] = "bodies"
  BY DEF TableOrder
<1> HIDE DEF T
<1>3. {T[i] : i \in 1..13} = Names
  <2>1. \A i : i \in 1..13 <=> i \in {1, 2, 3, 4, 5, 6, 7, 8, 9, 10, 11, 12, 13}
    OBVIOUS
  <2>2. \A x : x \in {T[i] : i \in 1..13} <=> \E i \in {1, 2, 3, 4, 5, 6, 7, 8, 9, 10, 11, 12, 13} : x = T[i]
    BY <2>1
  <2> QED
    BY <1>4, <2>2 DEF Names
<1> QED
  BY <1>2, <1>3, NamesFinite

LEMMA NamespaceEnds ==
    ASSUME ParseType, NEW p \in Places
    PROVE  Forward(p, Namespace(p).next)
<1>1. PICK kind : kind = U8(p)
  OBVIOUS
<1>2. Forward(p, kind.next) /\ kind.next \in Places
  BY <1>1, U8Ends DEF Forward
<1>3. Forward(kind.next, U30(kind.next).next)
  BY <1>2, U30Ends
<1>4. Namespace(p).next = U30(kind.next).next
  BY <1>1 DEF Namespace, Got
<1> QED
  BY <1>2, <1>3, <1>4, ForwardOn

\* Any other kind of multiname throws, so that the members are known.
LEMMA MultinameEnds ==
    ASSUME ParseType, NEW p \in Places
    PROVE  Forward(p, Multiname(p).next)
<1>1. PICK kind : kind = U8(p)
  OBVIOUS
<1>2. PICK members : members = Struct(MultinameMembers(kind.val), kind.next)
  OBVIOUS
<1>3. PICK params : params = Counted(U30, members.next)
  OBVIOUS
<1>4. Multiname(p).next \in IF kind.val \notin MultinameKinds THEN {Thrown.next}
                                  ELSE {params.next, members.next}
  BY <1>1, <1>2, <1>3 DEF Multiname, Got
<1>5. CASE kind.val \notin MultinameKinds
  BY <1>4, <1>5, ThrownEnds
<1>6. CASE kind.val \in MultinameKinds
  <2>1. Forward(p, kind.next) /\ kind.next \in Places
    BY <1>1, U8Ends DEF Forward
  <2>2. Len(MultinameMembers(kind.val)) \in Nat
    <3>1. PICK k \in {7, 9} \cup (13..18) \cup (27..29) : k = kind.val
      BY <1>6 DEF MultinameKinds
    <3>2. MultinameMembers(k) \in {<<"ns", "name">>, <<"name">>, <<>>, <<"name", "nsset">>, <<"nsset">>}
      BY DEF MultinameMembers
    <3> QED
      BY <3>1, <3>2
  <2>3. Onward(kind.next, members.next)
    BY <1>2, <2>1, <2>2, StructEnds
  <2>4. Forward(p, members.next) /\ members.next \in Places
    BY <2>1, <2>3, ForwardOn
  <2>5. Forward(members.next, params.next)
    BY <1>3, <2>4, CountedU30sEnd
  <2>6. Forward(p, params.next)
    BY <2>4, <2>5, ForwardOn
  <2> QED
    BY <1>4, <1>6, <2>4, <2>6
<1> QED
  BY <1>5, <1>6

\* Nothing is read of a method with more parameters than bytes are left.
LEMMA MethodEnds ==
    ASSUME ParseType, NEW p \in Places
    PROVE  Forward(p, Method(p).next)
<1>1. PICK count : count = U30(p)
  OBVIOUS
<1>2. PICK returns : returns = U30(count.next)
  OBVIOUS
<1>3. PICK types : types = List(U30, count.val, returns.next)
  OBVIOUS
<1>4. PICK name : name = U30(types.next)
  OBVIOUS
<1>5. PICK flags : flags = U8(name.next)
  OBVIOUS
<1>6. PICK options : options = IF Flag(flags.val, 8) THEN Counted(Option, flags.next)
                               ELSE Got(<<>>, flags.next)
  OBVIOUS
<1>7. PICK names : names = IF Flag(flags.val, 128) THEN List(U30, count.val, options.next)
                           ELSE Got([i \in 1..count.val |-> 0], options.next)
  OBVIOUS
<1>8. Method(p).next \in {Thrown.next, names.next}
  BY <1>1, <1>2, <1>3, <1>4, <1>5, <1>6, <1>7 DEF Method, Got
<1>9. Forward(p, count.next) /\ count.next \in Places /\ count.val \in Nat
  BY <1>1, U30Ends DEF Forward
<1>10. Forward(count.next, returns.next)
  BY <1>2, <1>9, U30Ends
<1>11. Forward(p, returns.next) /\ returns.next \in Places
  BY <1>9, <1>10, ForwardOn
<1>12. Onward(returns.next, types.next)
  BY <1>3, <1>9, <1>11, U30sEnd
<1>13. Forward(p, types.next) /\ types.next \in Places
  BY <1>11, <1>12, ForwardOn
<1>14. Forward(types.next, name.next)
  BY <1>4, <1>13, U30Ends
<1>15. Forward(p, name.next) /\ name.next \in Places
  BY <1>13, <1>14, ForwardOn
<1>16. Forward(name.next, flags.next)
  BY <1>5, <1>15, U8Ends
<1>17. Forward(p, flags.next) /\ flags.next \in Places
  BY <1>15, <1>16, ForwardOn
<1>18. Onward(flags.next, options.next)
  <2>1. options \in {Counted(Option, flags.next), Got(<<>>, flags.next)}
    BY <1>6
  <2>2. Forward(flags.next, Counted(Option, flags.next).next)
    BY <1>17, CountedOptionsEnd
  <2> QED
    BY <1>17, <2>1, <2>2, ForwardIsOnward, StaysHere
<1>19. Forward(p, options.next) /\ options.next \in Places
  BY <1>17, <1>18, ForwardOn
<1>20. Onward(options.next, names.next)
  <2> DEFINE none == [i \in 1..count.val |-> 0]
  <2>1. names \in {List(U30, count.val, options.next), Got(none, options.next)}
    BY <1>7
  <2>2. Onward(options.next, List(U30, count.val, options.next).next)
    BY <1>9, <1>19, U30sEnd
  <2> HIDE DEF none
  <2> QED
    BY <1>19, <2>1, <2>2, StaysHere
<1>21. Forward(p, names.next)
  BY <1>19, <1>20, ForwardOn
<1> QED
  BY <1>8, <1>21, ThrownEnds

LEMMA MetadataEnds ==
    ASSUME ParseType, NEW p \in Places
    PROVE  Forward(p, Metadata(p).next)
<1>1. PICK name : name = U30(p)
  OBVIOUS
<1>2. Forward(p, name.next) /\ name.next \in Places
  BY <1>1, U30Ends DEF Forward
<1>3. Forward(name.next, Counted(MetadataItem, name.next).next)
  BY <1>2, CountedMetadataItemsEnd
<1>4. Metadata(p).next = Counted(MetadataItem, name.next).next
  BY <1>1 DEF Metadata, Got
<1> QED
  BY <1>2, <1>3, <1>4, ForwardOn

LEMMA InstanceEnds ==
    ASSUME ParseType, NEW p \in Places
    PROVE  Forward(p, Instance(p).next)
<1>1. PICK names : names = Struct(<<"name", "super">>, p)
  OBVIOUS
<1>2. PICK flags : flags = U8(names.next)
  OBVIOUS
<1>3. PICK protected : protected = IF Flag(flags.val, 8) THEN U30(flags.next)
                                   ELSE Got(0, flags.next)
  OBVIOUS
<1>4. PICK interfaces : interfaces = Counted(U30, protected.next)
  OBVIOUS
<1>5. PICK iinit : iinit = U30(interfaces.next)
  OBVIOUS
<1>6. PICK traits : traits = Counted(Trait, iinit.next)
  OBVIOUS
<1>7. Instance(p).next = traits.next
  BY <1>1, <1>2, <1>3, <1>4, <1>5, <1>6 DEF Instance, TraitList, Got
<1>8. Onward(p, names.next) /\ names.next \in Places
  <2>1. Len(<<"name", "super">>) \in Nat
    OBVIOUS
  <2> QED
    BY <1>1, <2>1, StructEnds DEF Onward
<1>9. Forward(names.next, flags.next) /\ flags.next \in Places
  BY <1>2, <1>8, U8Ends DEF Forward
<1>10. Forward(p, flags.next)
  BY <1>8, <1>9, OnwardAgain
<1>11. Onward(flags.next, protected.next)
  <2>1. protected \in {U30(flags.next), Got(0, flags.next)}
    BY <1>3
  <2>2. Forward(flags.next, U30(flags.next).next)
    BY <1>9, U30Ends
  <2> QED
    BY <1>9, <2>1, <2>2, ForwardIsOnward, StaysHere
<1>12. Forward(p, protected.next) /\ protected.next \in Places
  BY <1>10, <1>11, ForwardOn
<1>13. Forward(protected.next, interfaces.next)
  BY <1>4, <1>12, CountedU30sEnd
<1>14. Forward(p, interfaces.next) /\ interfaces.next \in Places
  BY <1>12, <1>13, ForwardOn
<1>15. Forward(interfaces.next, iinit.next)
  BY <1>5, <1>14, U30Ends
<1>16. Forward(p, iinit.next) /\ iinit.next \in Places
  BY <1>14, <1>15, ForwardOn
<1>17. Forward(iinit.next, traits.next)
  BY <1>6, <1>16, CountedTraitsEnd
<1> QED
  BY <1>7, <1>16, <1>17, ForwardOn

LEMMA InitialisedEnds ==
    ASSUME ParseType, NEW member, NEW p \in Places
    PROVE  Forward(p, Initialised(member, p).next)
<1>1. PICK init : init = Struct(<<member>>, p)
  OBVIOUS
<1>2. Onward(p, init.next) /\ init.next \in Places
  <2>1. Len(<<member>>) \in Nat
    OBVIOUS
  <2> QED
    BY <1>1, <2>1, StructEnds DEF Onward
<1>3. Forward(init.next, Counted(Trait, init.next).next)
  BY <1>2, CountedTraitsEnd
<1>4. Initialised(member, p).next = Counted(Trait, init.next).next
  BY <1>1 DEF Initialised, TraitList, Got
<1> QED
  BY <1>2, <1>3, <1>4, OnwardAgain

LEMMA BodyEnds ==
    ASSUME ParseType, NEW p \in Places
    PROVE  Forward(p, Body(p).next)
<1>1. PICK limits : limits = Struct(<<"method", "maxStack", "localCount", "initScopeDepth",
                                            "maxScopeDepth">>, p)
  OBVIOUS
<1>2. PICK code : code = String(limits.next)
  OBVIOUS
<1>3. PICK exceptions : exceptions = Counted(Exception, code.next)
  OBVIOUS
<1>4. PICK traits : traits = Counted(Trait, exceptions.next)
  OBVIOUS
<1>5. Body(p).next = traits.next
  BY <1>1, <1>2, <1>3, <1>4 DEF Body, TraitList, Got
<1>6. Onward(p, limits.next) /\ limits.next \in Places
  <2>1. Len(<<"method", "maxStack", "localCount", "initScopeDepth", "maxScopeDepth">>) \in Nat
    OBVIOUS
  <2> QED
    BY <1>1, <2>1, StructEnds DEF Onward
<1>7. Forward(limits.next, code.next) /\ code.next \in Places
  BY <1>2, <1>6, StringEnds DEF Forward
<1>8. Forward(p, code.next)
  BY <1>6, <1>7, OnwardAgain
<1>9. Forward(code.next, exceptions.next)
  BY <1>3, <1>7, CountedExceptionsEnd
<1>10. Forward(p, exceptions.next) /\ exceptions.next \in Places
  BY <1>8, <1>9, ForwardOn
<1>11. Forward(exceptions.next, traits.next)
  BY <1>4, <1>10, CountedTraitsEnd
<1> QED
  BY <1>5, <1>10, <1>11, ForwardOn

\* No entry of any table is empty.
LEMMA EntryEnds ==
    ASSUME ParseType, NEW table \in AllTables, NEW p \in Places
    PROVE  Forward(p, Entry(table, p).next)
<1>1. table \in Names
  BY TablesAre
<1>2. CASE table \in {"ints", "uints"}
  BY <1>2, U32Ends DEF Entry
<1>3. CASE table = "doubles"
  <2>1. 8 \in Nat /\ 8 # 0
    OBVIOUS
  <2>2. Entry(table, p) = Bytes(p, 8)
    BY <1>3 DEF Entry
  <2> QED
    BY <2>1, <2>2, BytesEnd
<1>4. CASE table = "strings"
  BY <1>4, StringEnds DEF Entry
<1>5. CASE table = "namespaces"
  BY <1>5, NamespaceEnds DEF Entry
<1>6. CASE table = "namespaceSets"
  <2>1. Entry(table, p) = Counted(U30, p)
    BY <1>6 DEF Entry, NamespaceSet
  <2> QED
    BY <2>1, CountedU30sEnd
<1>7. CASE table = "multinames"
  BY <1>7, MultinameEnds DEF Entry
<1>8. CASE table = "methods"
  BY <1>8, MethodEnds DEF Entry
<1>9. CASE table = "metadatas"
  BY <1>9, MetadataEnds DEF Entry
<1>10. CASE table = "instances"
  BY <1>10, InstanceEnds DEF Entry
<1>11. CASE table = "classes"
  BY <1>11, InitialisedEnds DEF Entry
<1>12. CASE table = "scripts"
  BY <1>12, InitialisedEnds DEF Entry
<1>13. CASE table = "bodies"
  BY <1>13, BodyEnds DEF Entry
<1> QED
  BY <1>1, <1>2, <1>3, <1>4, <1>5, <1>6, <1>7, <1>8, <1>9, <1>10, <1>11, <1>12, <1>13 DEF Names

-----------------------------------------------------------------------------
(***************************************************************************)
(* The invariant of read.                                                  *)
(***************************************************************************)
Entries == [t \in Names |-> Len(file[t])]

\* Every table is a sequence, and the cursor is behind as many bytes as there
\* are entries in all tables together.
PaidFor ==
    /\ data \in Seq(Byte)
    /\ at \in Nat
    /\ at <= Len(data)
    /\ Names \subseteq DOMAIN file
    /\ \A t \in Names : \E S : file[t] \in Seq(S)
    /\ SumFunctionOnSet(Entries, Names) <= at

\* A sequence may be taken for one of more than its elements.
LEMMA SequenceOfMore ==
    ASSUME NEW S, NEW s \in Seq(S), NEW e
    PROVE  \E T : Append(s, e) \in Seq(T) /\ Len(Append(s, e)) = Len(s) + 1 /\ Len(s) \in Nat
<1> DEFINE T == S \cup {e}
<1>1. s \in Seq(T)
  <2>1. Len(s) \in Nat /\ s \in [1..Len(s) -> S]
    BY LenProperties
  <2>2. s \in [1..Len(s) -> T]
    BY <2>1
  <2> HIDE DEF T
  <2> QED
    BY <2>1, <2>2, SeqDef
<1>2. e \in T
  OBVIOUS
<1> HIDE DEF T
<1> QED
  BY <1>1, <1>2, AppendProperties, LenProperties

\* No entries are none in sum.
LEMMA NothingInSum ==
    ASSUME NEW g, \A t \in Names : g[t] = 0
    PROVE  SumFunctionOnSet(g, Names) = 0
<1> DEFINE P == {s \in SUBSET Names : SumFunctionOnSet(g, s) = 0}
<1>1. {} \in P
  BY SumNone
<1>2. ASSUME NEW s \in SUBSET Names, s # {}, \A x \in s : s \ {x} \in P
      PROVE  s \in P
  <2>1. PICK x : x \in s
    BY <1>2
  <2>2. IsFiniteSet(s \ {x})
    BY NamesFinite, FS_Subset
  <2>3. (s \ {x}) \cup {x} = s
    BY <2>1
  <2>4. \A y \in (s \ {x}) \cup {x} : g[y] \in Int
    <3>1. \A y \in s : g[y] = 0
      OBVIOUS
    <3> QED
      BY <3>1, <2>3
  <2>5. SumFunctionOnSet(g, (s \ {x}) \cup {x}) = g[x] + SumFunctionOnSet(g, s \ {x})
    BY <2>2, <2>4, SumMore
  <2>6. SumFunctionOnSet(g, s \ {x}) = 0 /\ g[x] = 0
    BY <1>2, <2>1
  <2> QED
    BY <2>3, <2>5, <2>6
<1> HIDE DEF P
<1>3. SUBSET Names \subseteq P
  BY <1>1, <1>2, NamesFinite, SubsetInductive
<1> QED
  BY <1>3 DEF P

\* One entry more in a table is one more in sum.
LEMMA OneMoreInSum ==
    ASSUME NEW t \in Names, NEW g, \A x \in Names : g[x] \in Nat,
           NEW h, \A x \in Names : h[x] = IF x = t THEN g[x] + 1 ELSE g[x]
    PROVE  /\ SumFunctionOnSet(h, Names) = SumFunctionOnSet(g, Names) + 1
           /\ SumFunctionOnSet(g, Names) \in Nat
<1> DEFINE S == Names \ {t}
<1>1. IsFiniteSet(S) /\ S \cup {t} = Names /\ t \notin S
  BY NamesFinite, FS_Subset
<1>2. \A x \in S : g[x] \in Nat /\ h[x] = g[x]
  OBVIOUS
<1>3. h[t] = g[t] + 1 /\ g[t] \in Nat
  OBVIOUS
<1>4. \A x \in Names : h[x] \in Int /\ g[x] \in Int
  OBVIOUS
<1>5. (\A x \in S : g[x] = h[x]) /\ \A x \in S \cup {t} : h[x] \in Int
  BY <1>1, <1>2, <1>4
<1> HIDE DEF S
<1>6. SumFunctionOnSet(h, S \cup {t}) = h[t] + SumFunctionOnSet(g, S)
  BY <1>1, <1>5, SumMore
<1>7. SumFunctionOnSet(g, S \cup {t}) = g[t] + SumFunctionOnSet(g, S)
  BY <1>1, <1>4, SumMore
<1>8. SumFunctionOnSet(g, S) \in Nat
  BY <1>1, <1>2, SumType
<1>9. SumFunctionOnSet(h, Names) = h[t] + SumFunctionOnSet(g, S)
      /\ SumFunctionOnSet(g, Names) = g[t] + SumFunctionOnSet(g, S)
  BY <1>1, <1>6, <1>7
<1> QED
  BY <1>3, <1>8, <1>9

LEMMA PaidForInit ==
    ASSUME Init
    PROVE  PaidFor
<1>1. AllTables = Names /\ "version" \notin Names
  BY TablesAre DEF Names
<1>2. data \in Seq(Byte) /\ at = 0
  BY InputsAssumption DEF Init
<1>3. Names \subseteq DOMAIN file /\ \A t \in Names : file[t] = <<>>
  BY <1>1 DEF Init
<1>4. Len(data) \in Nat
  BY <1>2, LenProperties
<1>5. \A t \in Names : file[t] \in Seq(Names)
  <2>1. <<>> \in Seq(Names)
    BY EmptySeq
  <2> QED
    BY <1>3, <2>1
<1>6. \A t \in Names : Entries[t] = 0
  <2>1. Len(<<>>) = 0
    BY EmptySeq
  <2> QED
    BY <1>3, <2>1 DEF Entries
<1>7. SumFunctionOnSet(Entries, Names) = 0
  BY <1>6, NothingInSum
<1> QED
  BY <1>2, <1>3, <1>4, <1>5, <1>7 DEF PaidFor

\* A place that is in range is not the one behind the end.
LEMMA InRangeIsBefore ==
    ASSUME ParseType, NEW p \in Places, NEW q, Onward(p, q) \/ Forward(p, q), InRange(data, q)
    PROVE  /\ q \in Nat /\ p <= q /\ q <= Len(data)
           /\ Forward(p, q) => p < q
<1>1. End = Len(data) + 1 /\ Len(data) \in Nat
  BY LenProperties DEF ParseType, End
<1>2. q \in Places /\ q <= Len(data) /\ p \in Nat
  BY PlacesType DEF Onward, Forward, InRange
<1>3. q \in Nat
  BY <1>2, PlacesType
<1> HIDE DEF End, Places
<1>4. q # End
  BY <1>1, <1>2, <1>3
<1> QED
  BY <1>2, <1>3, <1>4 DEF Onward, Forward

\* A step that only moves on keeps the bound.
LEMMA MovesOn ==
    ASSUME PaidFor, data' = data, \A t \in Names : file'[t] = file[t], Names \subseteq DOMAIN file',
           at' \in Nat, at <= at', at' <= Len(data)
    PROVE  PaidFor'
<1>1. data' \in Seq(Byte) /\ at' \in Nat /\ at' <= Len(data')
  BY DEF PaidFor
<1>2. \A t \in Names : \E S : file'[t] \in Seq(S)
  BY DEF PaidFor
<1>3. Entries' = Entries
  BY DEF Entries
<1>4. SumFunctionOnSet(Entries, Names) \in Nat
  <2>1. \A t \in Names : Entries[t] \in Nat
    <3> TAKE t \in Names
    <3>1. PICK S : file[t] \in Seq(S)
      BY DEF PaidFor
    <3>2. Len(file[t]) \in Nat
      BY <3>1, LenProperties
    <3> QED
      BY <3>2 DEF Entries
  <2> QED
    BY <2>1, NamesFinite, SumType
<1>5. SumFunctionOnSet(Entries, Names) <= at'
  <2>1. SumFunctionOnSet(Entries, Names) <= at /\ at \in Nat
    BY DEF PaidFor
  <2> QED
    BY <1>4, <2>1
<1>6. SumFunctionOnSet(Entries', Names) <= at'
  BY <1>3, <1>5
<1> QED
  BY <1>1, <1>2, <1>6 DEF PaidFor

LEMMA PaidForStep ==
    ASSUME PaidFor, [Next]_(vars)
    PROVE  PaidFor'
<1>1. ParseType /\ at \in Places /\ at \in Nat /\ at <= Len(data) /\ Len(data) \in Nat
  <2>1. data \in Seq(Byte) /\ at \in Nat /\ at <= Len(data)
    BY DEF PaidFor
  <2>2. Len(data) \in Nat
    BY <2>1, LenProperties
  <2> QED
    BY <2>1, <2>2 DEF ParseType, Places, End
<1>2. AllTables = Names /\ "version" \notin Names
  BY TablesAre DEF Names
<1>3. ASSUME UNCHANGED <<data, at, file>>
      PROVE  PaidFor'
  BY <1>1, <1>3, MovesOn DEF PaidFor
<1>4. CASE ReadVersion
  <2>1. PICK minor : minor = U16(at)
    OBVIOUS
  <2>2. PICK major : major = U16(minor.next)
    OBVIOUS
  <2>3. InRange(data, major.next) /\ at' = major.next /\ data' = data
        /\ file' = [file EXCEPT !.version = [minor |-> minor.val, major |-> major.val]]
    BY <1>4, <2>1, <2>2 DEF ReadVersion
  <2>4. Forward(at, minor.next) /\ minor.next \in Places
    BY <1>1, <2>1, U16Ends DEF Forward
  <2>5. Forward(minor.next, major.next)
    BY <1>1, <2>2, <2>4, U16Ends
  <2>6. Forward(at, major.next)
    BY <1>1, <2>4, <2>5, OnwardAgain
  <2>7. at' \in Nat /\ at <= at' /\ at' <= Len(data)
    BY <1>1, <2>3, <2>6, InRangeIsBefore
  <2>8. DOMAIN file' = DOMAIN file /\ \A t \in Names : file'[t] = file[t]
    BY <1>2, <2>3 DEF PaidFor
  <2> QED
    BY <2>3, <2>7, <2>8, MovesOn DEF PaidFor
<1>5. CASE ReadCount
  <2>1. PICK count : count = U30(at)
    OBVIOUS
  <2>2. InRange(data, count.next) /\ at' = count.next /\ data' = data /\ file' = file
    BY <1>5, <2>1 DEF ReadCount
  <2>3. Forward(at, count.next)
    BY <1>1, <2>1, U30Ends
  <2>4. at' \in Nat /\ at <= at' /\ at' <= Len(data)
    BY <1>1, <2>2, <2>3, InRangeIsBefore
  <2> QED
    BY <2>2, <2>4, MovesOn DEF PaidFor
<1>6. CASE SizeClasses
  BY <1>3, <1>6 DEF SizeClasses
<1>7. CASE ReadEntry
  <2>1. PICK entry : entry = Entry(pc, at)
    OBVIOUS
  <2>2. /\ pc \in Names /\ data' = data /\ at' = entry.next /\ InRange(data, entry.next)
        /\ file' = [file EXCEPT ![pc] = Append(file[pc], entry.val)]
    BY <1>2, <1>7, <2>1 DEF ReadEntry, Keep
  <2>3. Forward(at, entry.next)
    <3>1. Forward(at, Entry(pc, at).next)
      <4>1. PICK table, p : table = pc /\ p = at
        OBVIOUS
      <4>2. table \in AllTables /\ p \in Places
        BY <1>1, <1>2, <2>2, <4>1
      <4>3. Forward(p, Entry(table, p).next)
        BY <1>1, <4>2, EntryEnds
      <4> QED
        BY <4>1, <4>3
    <3> QED
      BY <2>1, <3>1
  <2>4. at' \in Nat /\ at < at' /\ at' <= Len(data)
    BY <1>1, <2>2, <2>3, InRangeIsBefore
  <2>5. /\ DOMAIN file' = DOMAIN file /\ Names \subseteq DOMAIN file
        /\ file'[pc] = Append(file[pc], entry.val)
        /\ \A t \in Names : t # pc => file'[t] = file[t]
    BY <2>2 DEF PaidFor
  <2>6. PICK S : file[pc] \in Seq(S)
    BY <2>2 DEF PaidFor
  <2>7. PICK T : /\ file'[pc] \in Seq(T)
                 /\ Len(file'[pc]) = Len(file[pc]) + 1
    <3>1. PICK s, e : s = file[pc] /\ e = entry.val
      OBVIOUS
    <3>2. \E T : Append(s, e) \in Seq(T) /\ Len(Append(s, e)) = Len(s) + 1 /\ Len(s) \in Nat
      BY <2>6, <3>1, SequenceOfMore
    <3> QED
      BY <2>5, <3>1, <3>2
  <2>8. \A t \in Names : \E U : file'[t] \in Seq(U)
    BY <2>5, <2>7 DEF PaidFor
  <2>9. \A t \in Names : Entries[t] \in Nat
    <3> TAKE t \in Names
    <3>1. PICK U : file[t] \in Seq(U)
      BY DEF PaidFor
    <3>2. Len(file[t]) \in Nat
      BY <3>1, LenProperties
    <3> QED
      BY <3>2 DEF Entries
  <2>10. \A t \in Names : Entries'[t] = IF t = pc THEN Entries[t] + 1 ELSE Entries[t]
    <3> TAKE t \in Names
    <3>1. Entries'[t] = Len(file'[t]) /\ Entries[t] = Len(file[t])
      BY DEF Entries
    <3>2. CASE t = pc
      BY <3>1, <3>2, <2>7
    <3>3. CASE t # pc
      BY <3>1, <3>3, <2>5
    <3> QED
      BY <3>2, <3>3
  <2>11. /\ SumFunctionOnSet(Entries', Names) = SumFunctionOnSet(Entries, Names) + 1
         /\ SumFunctionOnSet(Entries, Names) \in Nat
    <3>1. PICK h : h = Entries'
      OBVIOUS
    <3>2. \A t \in Names : h[t] = IF t = pc THEN Entries[t] + 1 ELSE Entries[t]
      BY <2>10, <3>1
    <3>3. SumFunctionOnSet(h, Names) = SumFunctionOnSet(Entries, Names) + 1
          /\ SumFunctionOnSet(Entries, Names) \in Nat
      BY <2>2, <2>9, <3>2, OneMoreInSum
    <3> QED
      BY <3>1, <3>3
  <2>12. SumFunctionOnSet(Entries', Names) <= at'
    <3>1. SumFunctionOnSet(Entries, Names) <= at /\ at \in Nat
      BY DEF PaidFor
    <3> QED
      BY <2>4, <2>11, <3>1
  <2> QED
    BY <1>1, <2>2, <2>4, <2>5, <2>8, <2>12 DEF PaidFor, ParseType
<1>8. CASE LeaveLoop
  BY <1>3, <1>8 DEF LeaveLoop
<1>9. CASE Throw
  BY <1>3, <1>9 DEF Throw
<1>10. CASE NoMemory
  BY <1>3, <1>10 DEF NoMemory
<1>11. CASE Ended
  BY <1>3, <1>11 DEF Ended, vars
<1>12. CASE UNCHANGED vars
  BY <1>3, <1>12 DEF vars
<1> QED
  BY <1>4, <1>5, <1>6, <1>7, <1>8, <1>9, <1>10, <1>11, <1>12 DEF Next

-----------------------------------------------------------------------------
(***************************************************************************)
(* What is written and what was read.                                      *)
(***************************************************************************)
\* The text t is what the file says from p to q: there is a place before every
\* piece, and one behind the last.
Spells(t, p, q) ==
    /\ t \in Seq(Piece)
    /\ p \in Nat
    /\ q \in Nat
    /\ q <= Len(data)
    /\ \E place \in [0..Len(t) -> Nat] :
         /\ place[0] = p
         /\ place[Len(t)] = q
         /\ \A i \in 1..Len(t) : place[i] = Past(t[i], place[i - 1])

LEMMA SpellsNothing ==
    ASSUME NEW p \in Nat, p <= Len(data)
    PROVE  Spells(<<>>, p, p)
<1>1. <<>> \in Seq(Piece) /\ Len(<<>>) = 0
  BY EmptySeq
<1>2. PICK place : place = [i \in 0..0 |-> p]
  OBVIOUS
<1>3. place \in [0..0 -> Nat] /\ place[0] = p /\ \A i \in 1..0 : FALSE
  BY <1>2
<1> QED
  BY <1>1, <1>3 DEF Spells

LEMMA SpellsPiece ==
    ASSUME NEW x \in Piece, NEW p \in Nat, NEW q \in Nat, q = Past(x, p), q <= Len(data)
    PROVE  Spells(<<x>>, p, q)
<1>1. PICK t : t = <<x>>
  OBVIOUS
<1>2. t \in Seq(Piece) /\ Len(t) = 1 /\ t[1] = x
  BY <1>1
<1>3. PICK place : place = [i \in 0..1 |-> IF i = 0 THEN p ELSE q]
  OBVIOUS
<1>4. place \in [0..1 -> Nat] /\ place[0] = p /\ place[1] = q
  BY <1>3
<1>5. \A i \in 1..1 : place[i] = Past(t[i], place[i - 1])
  BY <1>2, <1>4
<1> QED
  BY <1>1, <1>2, <1>4, <1>5 DEF Spells

LEMMA SpellsOn ==
    ASSUME NEW t, NEW u, NEW p, NEW q, NEW r, Spells(t, p, q), Spells(u, q, r)
    PROVE  Spells(t \o u, p, r)
<1>1. t \in Seq(Piece) /\ u \in Seq(Piece) /\ p \in Nat /\ q \in Nat /\ r \in Nat /\ r <= Len(data)
  BY DEF Spells
<1>2. PICK m, n, v : m = Len(t) /\ n = Len(u) /\ v = t \o u
  OBVIOUS
<1>3. /\ v \in Seq(Piece) /\ Len(v) = m + n /\ m \in Nat /\ n \in Nat
      /\ \A i \in 1..(m + n) : v[i] = IF i <= m THEN t[i] ELSE u[i - m]
  BY <1>1, <1>2, ConcatProperties, LenProperties
<1>4. PICK f \in [0..m -> Nat] : /\ f[0] = p /\ f[m] = q
                                 /\ \A i \in 1..m : f[i] = Past(t[i], f[i - 1])
  BY <1>2 DEF Spells
<1>5. PICK g \in [0..n -> Nat] : /\ g[0] = q /\ g[n] = r
                                 /\ \A i \in 1..n : g[i] = Past(u[i], g[i - 1])
  BY <1>2 DEF Spells
<1>6. PICK h : h = [i \in 0..(m + n) |-> IF i <= m THEN f[i] ELSE g[i - m]]
  OBVIOUS
<1>7. \A i \in 0..m : h[i] = f[i]
  BY <1>3, <1>6
<1>8. \A i \in 0..n : h[m + i] = g[i]
  <2> TAKE i \in 0..n
  <2>1. m + i \in 0..(m + n) /\ (m + i) - m = i
    BY <1>3
  <2>2. CASE i = 0
    <3>1. m + i = m /\ m \in 0..m
      BY <1>3, <2>2
    <3> QED
      BY <1>4, <1>5, <1>7, <2>2, <3>1
  <2>3. CASE i # 0
    <3>1. ~(m + i <= m)
      BY <1>3, <2>3
    <3> QED
      BY <1>6, <2>1, <3>1
  <2> QED
    BY <2>2, <2>3
<1>9. ASSUME NEW i \in 0..(m + n)
      PROVE  (i \in 0..m) \/ \E j \in 0..n : i = m + j
  <2>1. i \in 0..m \/ (i - m \in 0..n /\ i = m + (i - m))
    BY <1>3
  <2> QED
    BY <2>1
<1>10. h \in [0..(m + n) -> Nat]
  <2>1. ASSUME NEW i \in 0..(m + n)
        PROVE  h[i] \in Nat
    <3>1. CASE i \in 0..m
      BY <1>7, <3>1
    <3>2. ASSUME NEW j \in 0..n, i = m + j
          PROVE  h[i] \in Nat
      BY <1>8, <3>2
    <3> QED
      BY <1>9, <3>1, <3>2
  <2> QED
    BY <1>6, <2>1
<1>11. ASSUME NEW i \in 1..(m + n)
       PROVE  h[i] = Past(v[i], h[i - 1])
  <2>1. CASE i <= m
    <3>1. i \in 1..m /\ i \in 0..m /\ i - 1 \in 0..m
      BY <1>3, <2>1
    <3>2. v[i] = t[i]
      BY <1>3, <2>1
    <3> QED
      BY <1>4, <1>7, <3>1, <3>2
  <2>2. CASE ~(i <= m)
    <3>1. PICK j \in 1..n : j = i - m /\ i = m + j /\ i - 1 = m + (j - 1) /\ j - 1 \in 0..n /\ j \in 0..n
      BY <1>3, <2>2
    <3>2. v[i] = u[j]
      BY <1>3, <2>2, <3>1
    <3>3. h[i] = g[j] /\ h[i - 1] = g[j - 1]
      BY <1>8, <3>1
    <3> QED
      BY <1>5, <3>2, <3>3
  <2> QED
    BY <2>1, <2>2
<1>12. h[0] = p /\ h[m + n] = r
  BY <1>3, <1>4, <1>5, <1>7, <1>8
<1>13. Spells(v, p, r)
  BY <1>1, <1>3, <1>10, <1>11, <1>12 DEF Spells
<1> QED
  BY <1>2, <1>13

LEMMA SpellsBytes ==
    ASSUME ParseType, NEW bytes, NEW n \in Nat, NEW p \in Nat, p + n <= Len(data),
           DOMAIN bytes = 1..n, \A i \in 1..n : bytes[i] = data[p + i]
    PROVE  Spells(WriteBytes(bytes), p, p + n)
<1>1. PICK t : t = WriteBytes(bytes)
  OBVIOUS
<1>2. t = [i \in 1..n |-> [is |-> "byte", num |-> bytes[i]]]
  BY <1>1 DEF WriteBytes
<1>3. Len(data) \in Nat /\ data \in Seq(Byte)
  BY LenProperties DEF ParseType
<1>4. \A i \in 1..n : p + i \in 1..Len(data) /\ data[p + i] \in Nat
  <2> TAKE i \in 1..n
  <2>1. p + i \in 1..Len(data)
    BY <1>3
  <2>2. PICK b \in Byte : b = data[p + i]
    BY <1>3, <2>1, ElementOfSeq
  <2>3. b \in Nat
    BY DEF Byte
  <2> QED
    BY <2>1, <2>2, <2>3
<1>5. t \in Seq(Piece) /\ Len(t) = n
  <2>1. \A i \in 1..n : t[i] \in Piece
    <3> TAKE i \in 1..n
    <3>1. t[i] = [is |-> "byte", num |-> bytes[i]] /\ bytes[i] \in Nat
      BY <1>2, <1>4
    <3> QED
      BY <3>1 DEF Piece
  <2>2. t \in [1..n -> Piece]
    BY <1>2, <2>1
  <2> QED
    BY <2>2, SeqDef, LenProperties
<1>6. PICK place : place = [i \in 0..n |-> p + i]
  OBVIOUS
<1>7. place \in [0..n -> Nat] /\ place[0] = p /\ place[n] = p + n
  BY <1>6
<1>8. ASSUME NEW i \in 1..n
      PROVE  place[i] = Past(t[i], place[i - 1])
  <2>1. t[i].is = "byte" /\ t[i].num = data[p + i]
    BY <1>2
  <2>2. PICK s \in Nat : s = place[i - 1] /\ s + 1 = p + i /\ place[i] = s + 1
    BY <1>6
  <2>3. U8(s) = [val |-> data[p + i], next |-> s + 1]
    <3>1. s + 1 <= Len(data)
      BY <1>4, <2>2
    <3> QED
      BY <2>2, <3>1, Zenon DEF U8, Checked, InRange, Got, ByteAt
  <2>4. Past(t[i], s) = s + 1
    BY <2>1, <2>3 DEF Past
  <2> QED
    BY <2>2, <2>4
<1>9. p + n \in Nat
  OBVIOUS
<1>10. Spells(t, p, p + n)
  BY <1>5, <1>7, <1>8, <1>9 DEF Spells
<1> QED
  BY <1>1, <1>10

\* What is spelled from p is found there.
LEMMA SpellsFile ==
    ASSUME NEW t, NEW p, NEW q, Spells(t, p, q)
    PROVE  PastAll(t, p) = q
<1>1. PICK n : n = Len(t)
  OBVIOUS
<1>2. n \in Nat
  BY <1>1, LenProperties DEF Spells
<1>3. PICK place \in [0..n -> Nat] : /\ place[0] = p /\ place[n] = q
                                     /\ \A i \in 1..n : place[i] = Past(t[i], place[i - 1])
  BY <1>1 DEF Spells
<1> DEFINE body(g) == [i \in 0..n |-> IF i = 0 THEN p ELSE Past(t[i], g[i - 1])]
           R == CHOOSE g : g = body(g)
<1>4. place = body(place)
  <2>1. \A i \in 0..n : place[i] = IF i = 0 THEN p ELSE Past(t[i], place[i - 1])
    <3> TAKE i \in 0..n
    <3>1. i = 0 \/ i \in 1..n
      OBVIOUS
    <3> QED
      BY <1>3, <3>1
  <2> QED
    BY <2>1
<1>5. R = body(R)
  <2> HIDE DEF body
  <2> QED
    BY <1>4
<1>6. PICK f : f = R
  OBVIOUS
<1>7. f = body(f)
  BY <1>5, <1>6, Zenon
<1> HIDE DEF R
<1> DEFINE S == {k \in Nat : k <= n => f[k] = place[k]}
<1>8. 0 \in S
  <2>1. 0 \in 0..n
    BY <1>2
  <2>2. f[0] = p
    BY <1>7, <2>1
  <2> QED
    BY <1>3, <2>2
<1>9. ASSUME NEW k \in Nat, k \in S
      PROVE  k + 1 \in S
  <2> SUFFICES ASSUME k + 1 <= n
               PROVE  f[k + 1] = place[k + 1]
    OBVIOUS
  <2>1. k + 1 \in 0..n /\ k + 1 \in 1..n /\ k + 1 # 0 /\ (k + 1) - 1 = k /\ k <= n
    BY <1>2
  <2>2. f[k + 1] = Past(t[k + 1], f[k])
    <3>1. f[k + 1] = IF k + 1 = 0 THEN p ELSE Past(t[k + 1], f[(k + 1) - 1])
      BY <1>7, <2>1
    <3> QED
      BY <2>1, <3>1
  <2>3. place[k + 1] = Past(t[k + 1], place[k])
    BY <1>3, <2>1
  <2>4. f[k] = place[k]
    BY <1>9, <2>1
  <2> QED
    BY <2>2, <2>3, <2>4
<1>10. n \in S
  <2> HIDE DEF S
  <2> QED
    BY <1>2, <1>8, <1>9, NatInductive
<1>11. f[n] = q
  BY <1>2, <1>3, <1>10
<1>12. PastAll(t, p) = R[n]
  BY <1>1, Zenon DEF PastAll, R
<1> QED
  BY <1>6, <1>11, <1>12

-----------------------------------------------------------------------------
(***************************************************************************)
(* Reads of one number.                                                    *)
(***************************************************************************)

\* A read that has not thrown is one that was in range.
LEMMA CheckedIs ==
    ASSUME ParseType, NEW val, NEW q \in Nat, InRange(data, Checked(val, q).next)
    PROVE  q <= Len(data) /\ Checked(val, q).val = val /\ Checked(val, q).next = q
<1>1. Checked(val, q) = IF q <= Len(data) THEN [val |-> val, next |-> q]
                        ELSE [val |-> 0, next |-> Len(data) + 1]
  BY Zenon DEF Checked, InRange, Got, Thrown
<1>2. Len(data) \in Nat
  BY LenProperties DEF ParseType
<1>3. CASE q <= Len(data)
  BY <1>1, <1>3
<1>4. CASE ~(q <= Len(data))
  <2>1. Checked(val, q).next = Len(data) + 1
    BY <1>1, <1>4
  <2> QED
    BY <1>2, <2>1 DEF InRange
<1> QED
  BY <1>3, <1>4

LEMMA U8Spelled ==
    ASSUME ParseType, NEW p \in Places, InRange(data, U8(p).next)
    PROVE  /\ Spells(WriteU8(U8(p).val), p, U8(p).next)
           /\ U8(p).val \in Byte
<1>1. p \in Nat /\ p + 1 \in Nat
  BY PlacesType
<1>2. p + 1 <= Len(data) /\ U8(p).val = data[p + 1] /\ U8(p).next = p + 1
  BY <1>1, CheckedIs DEF U8, ByteAt
<1>3. PICK bytes : bytes = <<data[p + 1]>>
  OBVIOUS
<1>4. Spells(WriteBytes(bytes), p, p + 1)
  <2>1. PICK n \in Nat : n = 1
    OBVIOUS
  <2>2. DOMAIN bytes = 1..n /\ \A i \in 1..n : bytes[i] = data[p + i]
    BY <1>3, <2>1
  <2> QED
    BY <1>1, <1>2, <2>1, <2>2, SpellsBytes
<1>5. data[p + 1] \in Byte
  <2>1. p + 1 \in 1..Len(data)
    BY <1>1, <1>2, LenProperties DEF ParseType
  <2> QED
    BY <2>1, ElementOfSeq DEF ParseType
<1> QED
  BY <1>2, <1>3, <1>4, <1>5 DEF WriteU8

\* A u30 that is read is there to be read.
LEMMA U30Spelled ==
    ASSUME ParseType, NEW p \in Places, InRange(data, U30(p).next)
    PROVE  /\ Spells(WriteU30(U30(p).val), p, U30(p).next)
           /\ U30(p).val \in Nat
<1>1. PICK n, q : n = U30(p).val /\ q = U30(p).next
  OBVIOUS
<1>2. p \in Nat /\ n \in Nat /\ Forward(p, q)
  BY <1>1, PlacesType, U30Ends
<1>3. q \in Nat /\ q <= Len(data)
  BY <1>1, <1>2, InRangeIsBefore
<1>4. PICK x : x = [is |-> "u30", num |-> n]
  OBVIOUS
<1>5. x \in Piece /\ x.is = "u30" /\ x.num = n
  BY <1>2, <1>4 DEF Piece
<1>6. Past(x, p) = q
  BY <1>1, <1>5 DEF Past
<1>7. Spells(<<x>>, p, q)
  BY <1>2, <1>3, <1>5, <1>6, SpellsPiece
<1> QED
  BY <1>1, <1>2, <1>4, <1>7 DEF WriteU30

-----------------------------------------------------------------------------
(***************************************************************************)
(* Lists.                                                                  *)
(***************************************************************************)

\* Not in range is not in range any more.
LEMMA InRangeBack ==
    ASSUME ParseType, NEW p \in Places, NEW q, Onward(p, q) \/ Forward(p, q), InRange(data, q)
    PROVE  InRange(data, p)
<1>1. Len(data) \in Nat
  BY LenProperties DEF ParseType
<1>2. p \in Nat /\ q \in Nat /\ p <= q /\ q <= Len(data)
  BY PlacesType, InRangeIsBefore
<1> QED
  BY <1>1, <1>2 DEF InRange

LEMMA WithIs ==
    ASSUME NEW front, NEW back
    PROVE  /\ With(front, back).val = Append(front.val, back.val)
           /\ With(front, back).next = back.next
BY DEF With, Got

LEMMA GotIs ==
    ASSUME NEW v, NEW q
    PROVE  Got(v, q).val = v /\ Got(v, q).next = q
BY DEF Got

\* One item more.
LEMMA AppendIs ==
    ASSUME NEW S, NEW s \in Seq(S), NEW m \in Nat, Len(s) = m, NEW e \in S,
           NEW t, t = Append(s, e)
    PROVE  /\ t \in Seq(S) /\ Len(t) = m + 1 /\ t[m + 1] = e
           /\ \A i \in 1..m : t[i] = s[i]
BY AppendProperties

\* From p to q are the texts of the items, val, one behind the other.
ItemsSpelled(val, n, item, text, p, q) ==
    \E ts \in Seq(Seq(Piece)) :
      /\ Spells(FlattenSeq(ts), p, q)
      /\ Len(ts) = n
      /\ \A i \in 1..n : \E x \in Places : val[i] = item[x].val /\ ts[i] = text[x]

\* A list is written with the texts of its items, one behind the other.
LEMMA ListSpelled ==
    ASSUME ParseType, NEW w, NEW item, NEW text, NEW V, NEW p \in Places,
           Repeats(w, item, p),
           \A q \in Places : Onward(q, item[q].next),
           \A q \in Places : InRange(data, item[q].next) =>
             Spells(text[q], q, item[q].next) /\ item[q].val \in V,
           NEW n \in Nat, InRange(data, w[n].next)
    PROVE  /\ w[n].val \in Seq(V)
           /\ Len(w[n].val) = n
           /\ ItemsSpelled(w[n].val, n, item, text, p, w[n].next)
<1> DEFINE P(m) == InRange(data, w[m].next) =>
             /\ w[m].val \in Seq(V)
             /\ Len(w[m].val) = m
             /\ ItemsSpelled(w[m].val, m, item, text, p, w[m].next)
           S == {m \in Nat : P(m)}
<1>1. \A i \in Nat : /\ w[i + 1].next = item[w[i].next].next
                     /\ w[i + 1].val = Append(w[i].val, item[w[i].next].val)
  <2> TAKE i \in Nat
  <2>1. PICK f, e : f = w[i] /\ e = item[w[i].next]
    OBVIOUS
  <2>2. w[i + 1] = With(f, e)
    BY <2>1 DEF Repeats
  <2>3. With(f, e).next = e.next /\ With(f, e).val = Append(f.val, e.val)
    BY WithIs
  <2> QED
    BY <2>1, <2>2, <2>3
<1>2. w[0].next = p /\ w[0].val = <<>>
  BY GotIs DEF Repeats
<1>3. \A m \in Nat : Onward(p, w[m].next)
  BY RepeatsOnward
<1>4. 0 \in S
  <2>1. ASSUME InRange(data, w[0].next)
        PROVE  Spells(FlattenSeq(<<>>), p, w[0].next)
    <3>1. p \in Nat /\ p <= Len(data)
      BY <1>2, <2>1, PlacesType DEF InRange
    <3> QED
      BY <1>2, <3>1, SpellsNothing, FlattenNone
  <2>2. /\ <<>> \in Seq(V) /\ <<>> \in Seq(Seq(Piece)) /\ Len(<<>>) = 0
    BY EmptySeq
  <2>3. \A i \in 1..0 : FALSE
    OBVIOUS
  <2> QED
    BY <1>2, <2>1, <2>2, <2>3 DEF ItemsSpelled
<1>5. ASSUME NEW m \in Nat, m \in S
      PROVE  m + 1 \in S
  <2> HIDE DEF P
  <2> SUFFICES P(m + 1)
    OBVIOUS
  <2> USE DEF P
  <2> SUFFICES ASSUME InRange(data, w[m + 1].next)
               PROVE  P(m + 1)
    OBVIOUS
  <2> HIDE DEF P
  <2>1. PICK r : r = w[m].next
    OBVIOUS
  <2>2. r \in Places /\ Onward(r, item[r].next) /\ w[m + 1].next = item[r].next
    BY <1>1, <1>3, <2>1 DEF Onward
  <2>3. InRange(data, r)
    BY <2>2, InRangeBack
  <2>4. w[m].val \in Seq(V) /\ Len(w[m].val) = m
    BY <1>5, <2>1, <2>3 DEF P
  <2>5. PICK ts \in Seq(Seq(Piece)) :
                  /\ Spells(FlattenSeq(ts), p, r)
                  /\ Len(ts) = m
                  /\ \A i \in 1..m : \E q \in Places : w[m].val[i] = item[q].val /\ ts[i] = text[q]
    BY <1>5, <2>1, <2>3 DEF P, ItemsSpelled
  <2>6. PICK v, t : v = item[r].val /\ t = text[r]
    OBVIOUS
  <2>7. Spells(t, r, item[r].next) /\ v \in V
    BY <2>2, <2>6
  <2>8. t \in Seq(Piece)
    BY <2>7 DEF Spells
  <2>9. w[m + 1].val = Append(w[m].val, v)
    BY <1>1, <2>1, <2>6
  <2>10. PICK us : us = Append(ts, t)
    OBVIOUS
  <2>11. /\ us \in Seq(Seq(Piece)) /\ Len(us) = m + 1 /\ us[m + 1] = t
         /\ \A i \in 1..m : us[i] = ts[i]
    <3>1. PICK TS : TS = Seq(Piece)
      OBVIOUS
    <3>2. ts \in Seq(TS) /\ Len(ts) = m /\ t \in TS
      BY <2>5, <2>8, <3>1
    <3>3. us \in Seq(TS) /\ Len(us) = m + 1 /\ us[m + 1] = t /\ \A i \in 1..m : us[i] = ts[i]
      BY ONLY <2>10, <3>2, m \in Nat, AppendIs
    <3> QED
      BY <3>1, <3>3
  <2>12. /\ w[m + 1].val \in Seq(V) /\ Len(w[m + 1].val) = m + 1 /\ w[m + 1].val[m + 1] = v
         /\ \A i \in 1..m : w[m + 1].val[i] = w[m].val[i]
    <3>1. PICK s, u : s = w[m].val /\ u = w[m + 1].val
      OBVIOUS
    <3>2. s \in Seq(V) /\ Len(s) = m /\ v \in V /\ u = Append(s, v)
      BY <2>4, <2>7, <2>9, <3>1
    <3>3. u \in Seq(V) /\ Len(u) = m + 1 /\ u[m + 1] = v /\ \A i \in 1..m : u[i] = s[i]
      BY ONLY <3>2, m \in Nat, AppendIs
    <3> QED
      BY <3>1, <3>3
  <2>13. FlattenSeq(us) = FlattenSeq(ts) \o t
    BY <2>5, <2>8, <2>10, FlattenMore
  <2>14. Spells(FlattenSeq(us), p, w[m + 1].next)
    BY <2>2, <2>5, <2>7, <2>13, SpellsOn
  <2>15. \A i \in 1..(m + 1) : \E q \in Places : w[m + 1].val[i] = item[q].val /\ us[i] = text[q]
    <3> TAKE i \in 1..(m + 1)
    <3>1. CASE i \in 1..m
      <4>1. us[i] = ts[i] /\ w[m + 1].val[i] = w[m].val[i]
        BY <2>11, <2>12, <3>1
      <4>2. PICK q \in Places : w[m].val[i] = item[q].val /\ ts[i] = text[q]
        BY <2>5, <3>1
      <4> QED
        BY <4>1, <4>2
    <3>2. CASE i = m + 1
      BY <2>2, <2>6, <2>11, <2>12, <3>2
    <3> QED
      BY <3>1, <3>2
  <2> QED
    BY <2>11, <2>12, <2>14, <2>15 DEF P, ItemsSpelled
<1>6. Nat \subseteq S
  <2> HIDE DEF S
  <2> QED
    BY <1>4, <1>5, NatInductive
<1>7. P(n)
  BY <1>6
<1> QED
  BY <1>7

LEMMA ThrownIsOut ==
    ASSUME ParseType
    PROVE  ~InRange(data, Thrown.next)
<1>1. Len(data) \in Nat /\ Thrown.next = Len(data) + 1
  BY LenProperties DEF ParseType, Thrown, Got
<1> QED
  BY <1>1 DEF InRange

LEMMA U30sSpelled ==
    ASSUME ParseType, NEW n \in Nat, NEW p \in Places, NEW r, r = List(U30, n, p), InRange(data, r.next)
    PROVE  /\ r.val \in Seq(Nat) /\ Len(r.val) = n
           /\ Spells(FlattenSeq([i \in DOMAIN r.val |-> WriteU30(r.val[i])]), p, r.next)
<1> DEFINE item == [q \in Places |-> U30(q)]
           text == [q \in Places |-> WriteU30(U30(q).val)]
<1>1. \A q \in Places : item[q] = U30(q) /\ Onward(q, item[q].next) /\ text[q] = WriteU30(item[q].val)
  BY U30Ends, ForwardIsOnward
<1>2. \A q \in Places : InRange(data, item[q].next) =>
        Spells(text[q], q, item[q].next) /\ item[q].val \in Nat
  BY <1>1, U30Spelled
<1>3. PICK w : List(U30, n, p) = w[n] /\ Repeats(w, item, p)
  BY U30sUnfold
<1> HIDE DEF item, text
<1>4. r = w[n] /\ InRange(data, w[n].next)
  BY <1>3
<1>5. r.val \in Seq(Nat) /\ Len(r.val) = n /\ ItemsSpelled(r.val, n, item, text, p, r.next)
  <2>1. PICK V : V = Nat
    OBVIOUS
  <2>2. \A q \in Places : Onward(q, item[q].next)
    BY <1>1
  <2>3. \A q \in Places : InRange(data, item[q].next) => Spells(text[q], q, item[q].next) /\ item[q].val \in V
    BY <1>2, <2>1
  <2>4. w[n].val \in Seq(V) /\ Len(w[n].val) = n /\ ItemsSpelled(w[n].val, n, item, text, p, w[n].next)
    BY ONLY ParseType, p \in Places, n \in Nat, <1>3, <1>4, <2>2, <2>3, ListSpelled, ZenonT(40)
  <2> QED
    BY <1>4, <2>1, <2>4
<1>6. PICK ts \in Seq(Seq(Piece)) :
           /\ Spells(FlattenSeq(ts), p, r.next)
           /\ Len(ts) = n
           /\ \A i \in 1..n : \E q \in Places : r.val[i] = item[q].val /\ ts[i] = text[q]
  BY <1>5 DEF ItemsSpelled
<1>7. \A i \in 1..n : ts[i] = WriteU30(r.val[i])
  BY <1>1, <1>6
<1>8. ts = [i \in 1..n |-> ts[i]] /\ DOMAIN r.val = 1..n
  BY <1>5, <1>6, LenProperties
<1>9. ts = [i \in DOMAIN r.val |-> WriteU30(r.val[i])]
  BY <1>7, <1>8
<1> QED
  BY <1>5, <1>6, <1>9

LEMMA CountedU30sSpelled ==
    ASSUME ParseType, NEW p \in Places, NEW r, r = Counted(U30, p), InRange(data, r.next)
    PROVE  r.val \in Seq(Nat) /\ Spells(WriteList(WriteU30, r.val), p, r.next)
<1>1. PICK n : n = U30(p)
  OBVIOUS
<1>2. ParseType /\ Forward(p, n.next) /\ n.val \in Nat /\ n.next \in Places
  BY <1>1, U30Ends DEF Forward
<1>3. PICK l : l = List(U30, n.val, n.next)
  OBVIOUS
<1>4. r = l
  <2>1. ~InRange(data, Thrown.next)
    BY <1>2, ThrownIsOut
  <2> QED
    BY Zenon, <1>1, <1>3, <2>1 DEF Counted, Times
<1>5. InRange(data, l.next) /\ Onward(n.next, l.next)
  BY <1>2, <1>3, <1>4, U30sEnd
<1>6. InRange(data, n.next)
  BY <1>2, <1>5, InRangeBack
<1>7. Spells(WriteU30(n.val), p, n.next)
  BY <1>1, <1>6, U30Spelled
<1>8. PICK m, q : m = n.val /\ q = n.next
  OBVIOUS
<1>9. /\ l.val \in Seq(Nat) /\ Len(l.val) = m
      /\ Spells(FlattenSeq([i \in DOMAIN l.val |-> WriteU30(l.val[i])]), q, l.next)
  BY <1>2, <1>3, <1>5, <1>8, U30sSpelled
<1>10. PICK t : t = FlattenSeq([i \in DOMAIN l.val |-> WriteU30(l.val[i])])
  OBVIOUS
<1>11. WriteList(WriteU30, l.val) = WriteU30(n.val) \o t
  BY <1>8, <1>9, <1>10, Zenon DEF WriteList
<1>12. Spells(WriteU30(n.val) \o t, p, l.next)
  BY <1>7, <1>8, <1>9, <1>10, SpellsOn
<1> QED
  BY <1>4, <1>9, <1>11, <1>12

-----------------------------------------------------------------------------
(***************************************************************************)
(* Structs, and the entries of a list.                                     *)
(***************************************************************************)

\* A struct is written with its members, in the order in which they are read.
LEMMA StructSpelled ==
    ASSUME ParseType, NEW members, NEW n \in Nat, DOMAIN members = 1..n, Len(members) = n,
           \A i, j \in 1..n : members[i] = members[j] => i = j,
           NEW p \in Places, NEW r, r = Struct(members, p), InRange(data, r.next)
    PROVE  Spells(WriteU30s([i \in 1..n |-> r.val[members[i]]]), p, r.next)
<1>1. PICK l : l = List(U30, n, p)
  OBVIOUS
<1>2. Struct(members, p) = Named(members, l)
  BY Zenon, <1>1 DEF Struct
<1>3. r.next = l.next /\ r.val = [m \in Range(members) |->
                                 l.val[CHOOSE i \in DOMAIN members : members[i] = m]]
  <2>1. PICK f : f = [m \in Range(members) |-> l.val[CHOOSE i \in DOMAIN members : members[i] = m]]
    OBVIOUS
  <2>2. Named(members, l) = [val |-> f, next |-> l.next]
    BY <2>1, Zenon DEF Named, Got
  <2> QED
    BY <1>2, <2>1, <2>2
<1>4. l.val \in Seq(Nat) /\ Len(l.val) = n
      /\ Spells(FlattenSeq([i \in DOMAIN l.val |-> WriteU30(l.val[i])]), p, l.next)
  BY <1>1, <1>3, U30sSpelled
<1>5. ASSUME NEW i \in 1..n
      PROVE  r.val[members[i]] = l.val[i]
  <2>1. members[i] \in Range(members)
    BY DEF Range
  <2>2. (CHOOSE j \in DOMAIN members : members[j] = members[i]) = i
    OBVIOUS
  <2> QED
    BY <1>3, <2>1, <2>2
<1>6. l.val = [i \in 1..n |-> l.val[i]]
  BY <1>4, LenProperties
<1>7. l.val = [i \in 1..n |-> r.val[members[i]]]
  BY <1>5, <1>6
<1> QED
  BY <1>3, <1>4, <1>7, Zenon DEF WriteU30s

LEMMA OptionSpelled ==
    ASSUME ParseType, NEW p \in Places, InRange(data, Option(p).next)
    PROVE  Spells(WriteOption(Option(p).val), p, Option(p).next)
<1>1. PICK val : val = U30(p)
  OBVIOUS
<1>2. PICK kind : kind = U8(val.next)
  OBVIOUS
<1>3. ParseType /\ val.next \in Places
  BY <1>1, U30Ends DEF Forward
<1>4. Option(p) = [val |-> [val |-> val.val, kind |-> kind.val], next |-> kind.next]
  BY <1>1, <1>2, Zenon DEF Option, Got
<1>5. InRange(data, kind.next) /\ Forward(val.next, kind.next)
  BY <1>2, <1>3, <1>4, U8Ends
<1>6. InRange(data, val.next)
  BY <1>3, <1>5, InRangeBack
<1>7. Spells(WriteU30(val.val), p, val.next)
  BY <1>1, <1>6, U30Spelled
<1>8. Spells(WriteU8(kind.val), val.next, kind.next)
  BY <1>2, <1>3, <1>5, U8Spelled
<1>9. Spells(WriteU30(val.val) \o WriteU8(kind.val), p, kind.next)
  BY <1>7, <1>8, SpellsOn
<1>10. WriteOption(Option(p).val) = WriteU30(val.val) \o WriteU8(kind.val) /\ Option(p).next = kind.next
  BY <1>4 DEF WriteOption
<1> QED
  BY <1>9, <1>10

LEMMA MetadataItemSpelled ==
    ASSUME ParseType, NEW p \in Places, InRange(data, MetadataItem(p).next)
    PROVE  Spells(WriteItem(MetadataItem(p).val), p, MetadataItem(p).next)
<1>1. PICK members : members = <<"key", "val">>
  OBVIOUS
<1>2. PICK r : r = Struct(members, p)
  OBVIOUS
<1>3. MetadataItem(p) = r
  BY <1>1, <1>2 DEF MetadataItem
<1>4. DOMAIN members = 1..2 /\ Len(members) = 2 /\ \A i, j \in 1..2 : members[i] = members[j] => i = j
  BY <1>1
<1>5. Spells(WriteU30s([i \in 1..2 |-> r.val[members[i]]]), p, r.next)
  BY <1>2, <1>3, <1>4, StructSpelled
<1>6. [i \in 1..2 |-> r.val[members[i]]] = <<r.val.key, r.val.val>>
  BY <1>1
<1> QED
  BY <1>3, <1>5, <1>6 DEF WriteItem

LEMMA ExceptionSpelled ==
    ASSUME ParseType, NEW p \in Places, InRange(data, Exception(p).next)
    PROVE  Spells(WriteException(Exception(p).val), p, Exception(p).next)
<1>1. PICK members : members = <<"from", "to", "target", "type", "name">>
  OBVIOUS
<1>2. PICK r : r = Struct(members, p)
  OBVIOUS
<1>3. Exception(p) = r
  BY <1>1, <1>2 DEF Exception
<1>4. DOMAIN members = 1..5 /\ Len(members) = 5 /\ \A i, j \in 1..5 : members[i] = members[j] => i = j
  <2>1. \A i \in 1..5 : i \in {1, 2, 3, 4, 5}
    OBVIOUS
  <2>2. /\ members[1] = "from" /\ members[2] = "to" /\ members[3] = "target"
        /\ members[4] = "type" /\ members[5] = "name"
        /\ DOMAIN members = 1..5 /\ Len(members) = 5
    BY <1>1
  <2> QED
    BY ONLY <2>1, <2>2
<1>5. Spells(WriteU30s([i \in 1..5 |-> r.val[members[i]]]), p, r.next)
  <2>1. PICK n \in Nat : n = 5
    OBVIOUS
  <2>2. InRange(data, r.next) /\ DOMAIN members = 1..n /\ Len(members) = n
        /\ \A i, j \in 1..n : members[i] = members[j] => i = j
    BY <1>3, <1>4, <2>1
  <2>3. Spells(WriteU30s([i \in 1..n |-> r.val[members[i]]]), p, r.next)
    BY <1>2, <2>2, StructSpelled
  <2> QED
    BY <2>1, <2>3
<1>6. [i \in 1..5 |-> r.val[members[i]]] = <<r.val.from, r.val.to, r.val.target, r.val.type, r.val.name>>
  BY <1>1
<1> QED
  BY <1>3, <1>5, <1>6 DEF WriteException

LEMMA OptionsSpelled ==
    ASSUME ParseType, NEW n \in Nat, NEW p \in Places, NEW r, r = List(Option, n, p), InRange(data, r.next)
    PROVE  /\ Len(r.val) = n
           /\ Spells(FlattenSeq([i \in DOMAIN r.val |-> WriteOption(r.val[i])]), p, r.next)
<1> DEFINE item == [q \in Places |-> Option(q)]
           text == [q \in Places |-> WriteOption(Option(q).val)]
<1>1. PICK V : V = {item[q].val : q \in Places}
  OBVIOUS
<1>2. \A q \in Places : item[q] = Option(q) /\ Onward(q, item[q].next) /\ text[q] = WriteOption(item[q].val)
  BY OptionEnds, ForwardIsOnward
<1>3. \A q \in Places : InRange(data, item[q].next) =>
        Spells(text[q], q, item[q].next) /\ item[q].val \in V
  BY <1>1, <1>2, OptionSpelled
<1>4. PICK w : List(Option, n, p) = w[n] /\ Repeats(w, item, p)
  BY OptionsUnfold
<1> HIDE DEF item, text
<1>5. r = w[n] /\ InRange(data, w[n].next)
  BY <1>4
<1>6. r.val \in Seq(V) /\ Len(r.val) = n /\ ItemsSpelled(r.val, n, item, text, p, r.next)
  <2>1. \A q \in Places : Onward(q, item[q].next)
    BY <1>2
  <2>2. w[n].val \in Seq(V) /\ Len(w[n].val) = n /\ ItemsSpelled(w[n].val, n, item, text, p, w[n].next)
    BY ONLY ParseType, p \in Places, n \in Nat, <1>3, <1>4, <1>5, <2>1, ListSpelled, ZenonT(40)
  <2> QED
    BY <1>5, <2>2
<1>7. PICK ts \in Seq(Seq(Piece)) :
           /\ Spells(FlattenSeq(ts), p, r.next)
           /\ Len(ts) = n
           /\ \A i \in 1..n : \E q \in Places : r.val[i] = item[q].val /\ ts[i] = text[q]
  BY <1>6 DEF ItemsSpelled
<1>8. \A i \in 1..n : ts[i] = WriteOption(r.val[i])
  BY <1>2, <1>7
<1>9. ts = [i \in 1..n |-> ts[i]] /\ DOMAIN r.val = 1..n
  BY <1>6, <1>7, LenProperties
<1>10. ts = [i \in DOMAIN r.val |-> WriteOption(r.val[i])]
  BY <1>8, <1>9
<1> QED
  BY <1>6, <1>7, <1>10

LEMMA CountedOptionsSpelled ==
    ASSUME ParseType, NEW p \in Places, NEW r, r = Counted(Option, p), InRange(data, r.next)
    PROVE  Spells(WriteList(WriteOption, r.val), p, r.next)
<1>1. PICK n : n = U30(p)
  OBVIOUS
<1>2. ParseType /\ Forward(p, n.next) /\ n.val \in Nat /\ n.next \in Places
  BY <1>1, U30Ends DEF Forward
<1>3. PICK l : l = List(Option, n.val, n.next)
  OBVIOUS
<1>4. r = l
  <2>1. ~InRange(data, Thrown.next)
    BY <1>2, ThrownIsOut
  <2> QED
    BY Zenon, <1>1, <1>3, <2>1 DEF Counted, Times
<1>5. InRange(data, l.next) /\ Onward(n.next, l.next)
  BY <1>2, <1>3, <1>4, OptionsEnd
<1>6. InRange(data, n.next)
  BY <1>2, <1>5, InRangeBack
<1>7. Spells(WriteU30(n.val), p, n.next)
  BY <1>1, <1>6, U30Spelled
<1>8. PICK m, q : m = n.val /\ q = n.next
  OBVIOUS
<1>9. /\ Len(l.val) = m
      /\ Spells(FlattenSeq([i \in DOMAIN l.val |-> WriteOption(l.val[i])]), q, l.next)
  BY <1>2, <1>3, <1>5, <1>8, OptionsSpelled
<1>10. PICK t : t = FlattenSeq([i \in DOMAIN l.val |-> WriteOption(l.val[i])])
  OBVIOUS
<1>11. WriteList(WriteOption, l.val) = WriteU30(n.val) \o t
  BY <1>8, <1>9, <1>10, Zenon DEF WriteList
<1>12. Spells(WriteU30(n.val) \o t, p, l.next)
  BY <1>7, <1>8, <1>9, <1>10, SpellsOn
<1> QED
  BY <1>4, <1>11, <1>12

LEMMA MetadataItemsSpelled ==
    ASSUME ParseType, NEW n \in Nat, NEW p \in Places, NEW r, r = List(MetadataItem, n, p), InRange(data, r.next)
    PROVE  /\ Len(r.val) = n
           /\ Spells(FlattenSeq([i \in DOMAIN r.val |-> WriteItem(r.val[i])]), p, r.next)
<1> DEFINE item == [q \in Places |-> MetadataItem(q)]
           text == [q \in Places |-> WriteItem(MetadataItem(q).val)]
<1>1. PICK V : V = {item[q].val : q \in Places}
  OBVIOUS
<1>2. \A q \in Places : item[q] = MetadataItem(q) /\ Onward(q, item[q].next) /\ text[q] = WriteItem(item[q].val)
  BY MetadataItemEnds
<1>3. \A q \in Places : InRange(data, item[q].next) =>
        Spells(text[q], q, item[q].next) /\ item[q].val \in V
  BY <1>1, <1>2, MetadataItemSpelled
<1>4. PICK w : List(MetadataItem, n, p) = w[n] /\ Repeats(w, item, p)
  BY MetadataItemsUnfold
<1> HIDE DEF item, text
<1>5. r = w[n] /\ InRange(data, w[n].next)
  BY <1>4
<1>6. r.val \in Seq(V) /\ Len(r.val) = n /\ ItemsSpelled(r.val, n, item, text, p, r.next)
  <2>1. \A q \in Places : Onward(q, item[q].next)
    BY <1>2
  <2>2. w[n].val \in Seq(V) /\ Len(w[n].val) = n /\ ItemsSpelled(w[n].val, n, item, text, p, w[n].next)
    BY ONLY ParseType, p \in Places, n \in Nat, <1>3, <1>4, <1>5, <2>1, ListSpelled, ZenonT(40)
  <2> QED
    BY <1>5, <2>2
<1>7. PICK ts \in Seq(Seq(Piece)) :
           /\ Spells(FlattenSeq(ts), p, r.next)
           /\ Len(ts) = n
           /\ \A i \in 1..n : \E q \in Places : r.val[i] = item[q].val /\ ts[i] = text[q]
  BY <1>6 DEF ItemsSpelled
<1>8. \A i \in 1..n : ts[i] = WriteItem(r.val[i])
  BY <1>2, <1>7
<1>9. ts = [i \in 1..n |-> ts[i]] /\ DOMAIN r.val = 1..n
  BY <1>6, <1>7, LenProperties
<1>10. ts = [i \in DOMAIN r.val |-> WriteItem(r.val[i])]
  BY <1>8, <1>9
<1> QED
  BY <1>6, <1>7, <1>10

LEMMA CountedMetadataItemsSpelled ==
    ASSUME ParseType, NEW p \in Places, NEW r, r = Counted(MetadataItem, p), InRange(data, r.next)
    PROVE  Spells(WriteList(WriteItem, r.val), p, r.next)
<1>1. PICK n : n = U30(p)
  OBVIOUS
<1>2. ParseType /\ Forward(p, n.next) /\ n.val \in Nat /\ n.next \in Places
  BY <1>1, U30Ends DEF Forward
<1>3. PICK l : l = List(MetadataItem, n.val, n.next)
  OBVIOUS
<1>4. r = l
  <2>1. ~InRange(data, Thrown.next)
    BY <1>2, ThrownIsOut
  <2> QED
    BY Zenon, <1>1, <1>3, <2>1 DEF Counted, Times
<1>5. InRange(data, l.next) /\ Onward(n.next, l.next)
  BY <1>2, <1>3, <1>4, MetadataItemsEnd
<1>6. InRange(data, n.next)
  BY <1>2, <1>5, InRangeBack
<1>7. Spells(WriteU30(n.val), p, n.next)
  BY <1>1, <1>6, U30Spelled
<1>8. PICK m, q : m = n.val /\ q = n.next
  OBVIOUS
<1>9. /\ Len(l.val) = m
      /\ Spells(FlattenSeq([i \in DOMAIN l.val |-> WriteItem(l.val[i])]), q, l.next)
  BY <1>2, <1>3, <1>5, <1>8, MetadataItemsSpelled
<1>10. PICK t : t = FlattenSeq([i \in DOMAIN l.val |-> WriteItem(l.val[i])])
  OBVIOUS
<1>11. WriteList(WriteItem, l.val) = WriteU30(n.val) \o t
  BY <1>8, <1>9, <1>10, Zenon DEF WriteList
<1>12. Spells(WriteU30(n.val) \o t, p, l.next)
  BY <1>7, <1>8, <1>9, <1>10, SpellsOn
<1> QED
  BY <1>4, <1>11, <1>12

LEMMA ExceptionsSpelled ==
    ASSUME ParseType, NEW n \in Nat, NEW p \in Places, NEW r, r = List(Exception, n, p), InRange(data, r.next)
    PROVE  /\ Len(r.val) = n
           /\ Spells(FlattenSeq([i \in DOMAIN r.val |-> WriteException(r.val[i])]), p, r.next)
<1> DEFINE item == [q \in Places |-> Exception(q)]
           text == [q \in Places |-> WriteException(Exception(q).val)]
<1>1. PICK V : V = {item[q].val : q \in Places}
  OBVIOUS
<1>2. \A q \in Places : item[q] = Exception(q) /\ Onward(q, item[q].next) /\ text[q] = WriteException(item[q].val)
  BY ExceptionEnds
<1>3. \A q \in Places : InRange(data, item[q].next) =>
        Spells(text[q], q, item[q].next) /\ item[q].val \in V
  BY <1>1, <1>2, ExceptionSpelled
<1>4. PICK w : List(Exception, n, p) = w[n] /\ Repeats(w, item, p)
  BY ExceptionsUnfold
<1> HIDE DEF item, text
<1>5. r = w[n] /\ InRange(data, w[n].next)
  BY <1>4
<1>6. r.val \in Seq(V) /\ Len(r.val) = n /\ ItemsSpelled(r.val, n, item, text, p, r.next)
  <2>1. \A q \in Places : Onward(q, item[q].next)
    BY <1>2
  <2>2. w[n].val \in Seq(V) /\ Len(w[n].val) = n /\ ItemsSpelled(w[n].val, n, item, text, p, w[n].next)
    BY ONLY ParseType, p \in Places, n \in Nat, <1>3, <1>4, <1>5, <2>1, ListSpelled, ZenonT(40)
  <2> QED
    BY <1>5, <2>2
<1>7. PICK ts \in Seq(Seq(Piece)) :
           /\ Spells(FlattenSeq(ts), p, r.next)
           /\ Len(ts) = n
           /\ \A i \in 1..n : \E q \in Places : r.val[i] = item[q].val /\ ts[i] = text[q]
  BY <1>6 DEF ItemsSpelled
<1>8. \A i \in 1..n : ts[i] = WriteException(r.val[i])
  BY <1>2, <1>7
<1>9. ts = [i \in 1..n |-> ts[i]] /\ DOMAIN r.val = 1..n
  BY <1>6, <1>7, LenProperties
<1>10. ts = [i \in DOMAIN r.val |-> WriteException(r.val[i])]
  BY <1>8, <1>9
<1> QED
  BY <1>6, <1>7, <1>10

LEMMA CountedExceptionsSpelled ==
    ASSUME ParseType, NEW p \in Places, NEW r, r = Counted(Exception, p), InRange(data, r.next)
    PROVE  Spells(WriteList(WriteException, r.val), p, r.next)
<1>1. PICK n : n = U30(p)
  OBVIOUS
<1>2. ParseType /\ Forward(p, n.next) /\ n.val \in Nat /\ n.next \in Places
  BY <1>1, U30Ends DEF Forward
<1>3. PICK l : l = List(Exception, n.val, n.next)
  OBVIOUS
<1>4. r = l
  <2>1. ~InRange(data, Thrown.next)
    BY <1>2, ThrownIsOut
  <2> QED
    BY Zenon, <1>1, <1>3, <2>1 DEF Counted, Times
<1>5. InRange(data, l.next) /\ Onward(n.next, l.next)
  BY <1>2, <1>3, <1>4, ExceptionsEnd
<1>6. InRange(data, n.next)
  BY <1>2, <1>5, InRangeBack
<1>7. Spells(WriteU30(n.val), p, n.next)
  BY <1>1, <1>6, U30Spelled
<1>8. PICK m, q : m = n.val /\ q = n.next
  OBVIOUS
<1>9. /\ Len(l.val) = m
      /\ Spells(FlattenSeq([i \in DOMAIN l.val |-> WriteException(l.val[i])]), q, l.next)
  BY <1>2, <1>3, <1>5, <1>8, ExceptionsSpelled
<1>10. PICK t : t = FlattenSeq([i \in DOMAIN l.val |-> WriteException(l.val[i])])
  OBVIOUS
<1>11. WriteList(WriteException, l.val) = WriteU30(n.val) \o t
  BY <1>8, <1>9, <1>10, Zenon DEF WriteList
<1>12. Spells(WriteU30(n.val) \o t, p, l.next)
  BY <1>7, <1>8, <1>9, <1>10, SpellsOn
<1> QED
  BY <1>4, <1>11, <1>12

LEMMA StructDomain ==
    ASSUME NEW members, NEW p
    PROVE  DOMAIN Struct(members, p).val = {members[i] : i \in DOMAIN members}
<1>1. PICK l : l = List(U30, Len(members), p)
  OBVIOUS
<1>2. PICK f : f = [m \in Range(members) |-> l.val[CHOOSE i \in DOMAIN members : members[i] = m]]
  OBVIOUS
<1>3. Struct(members, p) = [val |-> f, next |-> l.next]
  <2>1. Struct(members, p) = Named(members, l)
    BY <1>1, Zenon DEF Struct
  <2>2. Named(members, l) = [val |-> f, next |-> l.next]
    BY <1>2, Zenon DEF Named, Got
  <2> QED
    BY <2>1, <2>2
<1>4. DOMAIN f = Range(members)
  BY <1>2
<1> QED
  BY <1>3, <1>4 DEF Range

\* Structs of two and of three members.
LEMMA StructOf2 ==
    ASSUME ParseType, NEW a, NEW b, a # b, NEW p \in Places, NEW r, r = Struct(<<a, b>>, p), InRange(data, r.next)
    PROVE  /\ Spells(WriteU30s(<<r.val[a], r.val[b]>>), p, r.next)
           /\ DOMAIN r.val = {a, b}
<1>0. PICK members : members = <<a, b>>
  OBVIOUS
<1>1. PICK n \in Nat : members = <<a, b>> /\ n = 2 /\ r = Struct(members, p)
  BY <1>0
<1>2. DOMAIN members = 1..n /\ Len(members) = n /\ \A i, j \in 1..n : members[i] = members[j] => i = j
  BY <1>1
<1>3. Spells(WriteU30s([i \in 1..n |-> r.val[members[i]]]), p, r.next)
  <2>1. r = Struct(members, p) /\ InRange(data, r.next) /\ n \in Nat
    BY <1>1
  <2> QED
    BY ONLY ParseType, p \in Places, <1>2, <2>1, StructSpelled
<1>4. [i \in 1..n |-> r.val[members[i]]] = <<r.val[a], r.val[b]>>
  BY <1>1
<1>5. DOMAIN r.val = {members[i] : i \in 1..n}
  BY <1>1, <1>2, StructDomain
<1>6. {members[i] : i \in 1..n} = {a, b}
  <2>1. \A i : i \in 1..n <=> i = 1 \/ i = 2
    BY <1>1
  <2>2. members[1] = a /\ members[2] = b
    BY <1>1
  <2> QED
    BY ONLY <2>1, <2>2
<1> QED
  BY <1>3, <1>4, <1>5, <1>6

LEMMA StructOf3 ==
    ASSUME ParseType, NEW a, NEW b, NEW c, a # b, a # c, b # c, NEW p \in Places, NEW r,
           r = Struct(<<a, b, c>>, p), InRange(data, r.next)
    PROVE  /\ Spells(WriteU30s(<<r.val[a], r.val[b], r.val[c]>>), p, r.next)
           /\ DOMAIN r.val = {a, b, c}
<1>0. PICK members : members = <<a, b, c>>
  OBVIOUS
<1>1. PICK n \in Nat : members = <<a, b, c>> /\ n = 3 /\ r = Struct(members, p)
  BY <1>0
<1>2. DOMAIN members = 1..n /\ Len(members) = n /\ \A i, j \in 1..n : members[i] = members[j] => i = j
  <2>1. \A i \in 1..n : i = 1 \/ i = 2 \/ i = 3
    BY <1>1
  <2>2. members[1] = a /\ members[2] = b /\ members[3] = c /\ DOMAIN members = 1..n /\ Len(members) = n
    BY <1>1
  <2> QED
    BY <2>1, <2>2
<1>3. Spells(WriteU30s([i \in 1..n |-> r.val[members[i]]]), p, r.next)
  <2>1. r = Struct(members, p) /\ InRange(data, r.next) /\ n \in Nat
    BY <1>1
  <2> QED
    BY ONLY ParseType, p \in Places, <1>2, <2>1, StructSpelled
<1>4. [i \in 1..n |-> r.val[members[i]]] = <<r.val[a], r.val[b], r.val[c]>>
  BY <1>1
<1>5. DOMAIN r.val = {members[i] : i \in 1..n}
  BY <1>1, <1>2, StructDomain
<1>6. {members[i] : i \in 1..n} = {a, b, c}
  <2>1. \A i : i \in 1..n <=> i = 1 \/ i = 2 \/ i = 3
    BY <1>1
  <2>2. members[1] = a /\ members[2] = b /\ members[3] = c
    BY <1>1
  <2> QED
    BY ONLY <2>1, <2>2
<1> QED
  BY <1>3, <1>4, <1>5, <1>6

\* Of whatever it is said to be.
LEMMA WriteU30Type ==
    ASSUME NEW v
    PROVE  \E S : WriteU30(v) \in Seq(S)
<1>1. PICK x : x = [is |-> "u30", num |-> v]
  OBVIOUS
<1>2. <<x>> \in Seq({x})
  OBVIOUS
<1> QED
  BY <1>1, <1>2 DEF WriteU30

LEMMA StructOf1 ==
    ASSUME ParseType, NEW a, NEW p \in Places, NEW r, r = Struct(<<a>>, p), InRange(data, r.next)
    PROVE  /\ Spells(WriteU30(r.val[a]), p, r.next)
           /\ DOMAIN r.val = {a}
<1>0. PICK members : members = <<a>>
  OBVIOUS
<1>1. PICK n \in Nat : members = <<a>> /\ n = 1 /\ r = Struct(members, p)
  BY <1>0
<1>2. DOMAIN members = 1..n /\ Len(members) = n /\ \A i, j \in 1..n : members[i] = members[j] => i = j
  BY <1>1
<1>3. Spells(WriteU30s([i \in 1..n |-> r.val[members[i]]]), p, r.next)
  <2>1. r = Struct(members, p) /\ InRange(data, r.next) /\ n \in Nat
    BY <1>1
  <2> QED
    BY ONLY ParseType, p \in Places, <1>2, <2>1, StructSpelled
<1>4. [i \in 1..n |-> r.val[members[i]]] = <<r.val[a]>>
  BY <1>1
<1>5. DOMAIN r.val = {members[i] : i \in 1..n}
  BY <1>1, <1>2, StructDomain
<1>6. {members[i] : i \in 1..n} = {a}
  <2>1. \A i : i \in 1..n <=> i = 1
    BY <1>1
  <2>2. members[1] = a
    BY <1>1
  <2> QED
    BY ONLY <2>1, <2>2
<1>7. WriteU30s(<<r.val[a]>>) = WriteU30(r.val[a])
  <2>1. PICK t, S : t = WriteU30(r.val[a]) /\ t \in Seq(S)
    BY WriteU30Type
  <2>2. [i \in DOMAIN <<r.val[a]>> |-> WriteU30(<<r.val[a]>>[i])] = <<t>>
    BY <2>1
  <2>3. WriteU30s(<<r.val[a]>>) = FlattenSeq(<<t>>)
    BY <2>2, Zenon DEF WriteU30s
  <2> QED
    BY <2>1, <2>3, FlattenOne
<1> QED
  BY <1>3, <1>4, <1>5, <1>6, <1>7

-----------------------------------------------------------------------------
(***************************************************************************)
(* Traits.                                                                 *)
(***************************************************************************)

\* Nothing, or the kind of the value.
LEMMA TraitDataSpelled ==
    ASSUME ParseType, NEW k \in 0..6, NEW p \in Places, NEW m, m = Struct(TraitMembers(k), p),
           NEW b, b = TraitData(m), InRange(data, b.next)
    PROVE  Spells(WriteTraitData(k, b.val), p, b.next)
<1>1. CASE k \in {0, 6}
  <2>1. m = Struct(<<"slotID", "typeName", "vindex">>, p)
    BY <1>1 DEF TraitMembers
  <2>2. PICK d : d = b.val
    OBVIOUS
  <2>3. WriteTraitData(k, d) = WriteU30s(<<d.slotID, d.typeName, d.vindex>>)
                               \o (IF d.vindex = 0 THEN <<>> ELSE WriteU8(d.vkind))
    BY <1>1 DEF WriteTraitData
  <2>4. m.next \in Places
    <3>1. Len(<<"slotID", "typeName", "vindex">>) \in Nat
      OBVIOUS
    <3>2. Onward(p, m.next)
      BY <2>1, <3>1, StructEnds
    <3> QED
      BY <3>2 DEF Onward
  <2>5. PICK vkind : vkind = U8(m.next)
    OBVIOUS
  <2>6. Forward(m.next, vkind.next)
    BY <2>4, <2>5, U8Ends
  <2>7. ASSUME InRange(data, m.next)
        PROVE  /\ Spells(WriteU30s(<<m.val.slotID, m.val.typeName, m.val.vindex>>), p, m.next)
               /\ DOMAIN m.val = {"slotID", "typeName", "vindex"}
    BY <2>1, <2>7, StructOf3
  <2>8. CASE m.val.vindex = 0
    <3>1. b = m
      BY <2>8, Zenon DEF TraitData, HasValue
    <3>2. Spells(WriteU30s(<<d.slotID, d.typeName, d.vindex>>), p, m.next) /\ d.vindex = 0
      BY <2>2, <2>7, <2>8, <3>1
    <3>3. PICK s : s = WriteU30s(<<d.slotID, d.typeName, d.vindex>>)
      OBVIOUS
    <3>4. s \o <<>> = s
      BY <3>2, <3>3, ConcatEmptySeq DEF Spells
    <3>5. WriteTraitData(k, d) = s
      BY <2>3, <3>2, <3>3, <3>4
    <3> QED
      BY <2>2, <3>1, <3>2, <3>3, <3>5
  <2>9. CASE m.val.vindex # 0
    <3>1. DOMAIN m.val = {"slotID", "typeName", "vindex"}
      <4>1. \A x : x \in DOMAIN m.val <=> x = "slotID" \/ x = "typeName" \/ x = "vindex"
        <5>1. PICK members : members = <<"slotID", "typeName", "vindex">>
          OBVIOUS
        <5>2. DOMAIN m.val = {members[i] : i \in DOMAIN members}
          BY <2>1, <5>1, StructDomain
        <5>3. \A i : i \in DOMAIN members <=> i = 1 \/ i = 2 \/ i = 3
          BY <5>1
        <5>4. members[1] = "slotID" /\ members[2] = "typeName" /\ members[3] = "vindex"
          BY <5>1
        <5> QED
          BY ONLY <5>2, <5>3, <5>4
      <4> QED
        BY <4>1
    <3>2. HasValue(m.val)
      BY <2>9, <3>1 DEF HasValue
    <3>3. b = [val |-> Set(m.val, "vkind", vkind.val), next |-> vkind.next]
      BY <2>5, <3>2, Zenon DEF TraitData, Got
    <3>4. b.next = vkind.next /\ d = Set(m.val, "vkind", vkind.val)
      BY <2>2, <3>3
    <3>5. d.vkind = vkind.val /\ d.slotID = m.val.slotID /\ d.typeName = m.val.typeName
          /\ d.vindex = m.val.vindex
      <4>1. PICK x, y : x = m.val /\ y = vkind.val
        OBVIOUS
      <4>2. "slotID" \in DOMAIN x /\ "typeName" \in DOMAIN x /\ "vindex" \in DOMAIN x
        BY <3>1, <4>1
      <4>3. /\ Set(x, "vkind", y)["vkind"] = y
            /\ \A n \in DOMAIN x : n # "vkind" => Set(x, "vkind", y)[n] = x[n]
        BY DEF Set
      <4>4. d = Set(x, "vkind", y)
        BY <3>4, <4>1
      <4> QED
        BY <4>1, <4>2, <4>3, <4>4
    <3>6. InRange(data, m.next)
      BY <2>4, <2>6, <3>4, InRangeBack
    <3>7. Spells(WriteU30s(<<d.slotID, d.typeName, d.vindex>>), p, m.next)
      BY <2>7, <3>5, <3>6
    <3>8. Spells(WriteU8(d.vkind), m.next, b.next)
      BY <2>4, <2>5, <3>4, <3>5, U8Spelled
    <3>9. Spells(WriteU30s(<<d.slotID, d.typeName, d.vindex>>) \o WriteU8(d.vkind), p, b.next)
      BY <3>7, <3>8, SpellsOn
    <3>10. WriteTraitData(k, d) = WriteU30s(<<d.slotID, d.typeName, d.vindex>>) \o WriteU8(d.vkind)
      BY <2>3, <2>9, <3>5
    <3> QED
      BY <2>2, <3>9, <3>10
  <2> QED
    BY <2>8, <2>9
<1>2. ASSUME NEW x, NEW y, x # y, x # "vindex", y # "vindex", m = Struct(<<x, y>>, p)
      PROVE  b = m /\ Spells(WriteU30s(<<b.val[x], b.val[y]>>), p, b.next)
  <2>1. "vindex" \notin DOMAIN m.val
    <3>1. PICK members : members = <<x, y>>
      OBVIOUS
    <3>2. DOMAIN m.val = {members[i] : i \in DOMAIN members}
      BY <1>2, <3>1, StructDomain
    <3>3. \A i : i \in DOMAIN members <=> i = 1 \/ i = 2
      BY <3>1
    <3>4. members[1] = x /\ members[2] = y
      BY <3>1
    <3> QED
      BY <1>2, <3>2, <3>3, <3>4
  <2>2. b = m
    BY <2>1, Zenon DEF TraitData, HasValue
  <2> QED
    BY <1>2, <2>2, StructOf2
<1>3. CASE k \in {1, 2, 3}
  <2>1. m = Struct(<<"dispID", "method">>, p)
    BY <1>3 DEF TraitMembers
  <2>2. Spells(WriteU30s(<<b.val.dispID, b.val.method>>), p, b.next)
    BY <1>2, <2>1
  <2>3. WriteTraitData(k, b.val) = WriteU30s(<<b.val.dispID, b.val.method>>)
    BY <1>3 DEF WriteTraitData
  <2> QED
    BY <2>2, <2>3
<1>4. CASE k = 4
  <2>1. m = Struct(<<"slotID", "classi">>, p)
    BY <1>4 DEF TraitMembers
  <2>2. Spells(WriteU30s(<<b.val.slotID, b.val.classi>>), p, b.next)
    BY <1>2, <2>1
  <2>3. WriteTraitData(k, b.val) = WriteU30s(<<b.val.slotID, b.val.classi>>)
    BY <1>4 DEF WriteTraitData
  <2> QED
    BY <2>2, <2>3
<1>5. CASE k = 5
  <2>1. m = Struct(<<"slotID", "functioni">>, p)
    BY <1>5 DEF TraitMembers
  <2>2. Spells(WriteU30s(<<b.val.slotID, b.val.functioni>>), p, b.next)
    BY <1>2, <2>1
  <2>3. WriteTraitData(k, b.val) = WriteU30s(<<b.val.slotID, b.val.functioni>>)
    BY <1>5 DEF WriteTraitData
  <2> QED
    BY <2>2, <2>3
<1> QED
  BY <1>1, <1>3, <1>4, <1>5

LEMMA TraitDataEnds ==
    ASSUME ParseType, NEW k \in 0..6, NEW p \in Places, NEW m, m = Struct(TraitMembers(k), p)
    PROVE  Onward(p, m.next) /\ Onward(m.next, TraitData(m).next)
<1>1. Len(TraitMembers(k)) \in Nat
  <2>1. TraitMembers(k) \in {<<"slotID", "typeName", "vindex">>, <<"dispID", "method">>,
                             <<"slotID", "classi">>, <<"slotID", "functioni">>}
    BY DEF TraitMembers
  <2> QED
    BY <2>1
<1>2. Onward(p, m.next) /\ m.next \in Places
  BY <1>1, StructEnds DEF Onward
<1>3. TraitData(m).next = U8(m.next).next \/ TraitData(m).next = m.next
  BY DEF TraitData, Got
<1>4. Onward(m.next, U8(m.next).next) /\ Onward(m.next, m.next)
  BY <1>2, U8Ends, ForwardIsOnward, PlacesType DEF Onward
<1> QED
  BY <1>2, <1>3, <1>4

\* A list that is only there if a flag says so.
LEMMA MaybeU30s ==
    ASSUME ParseType, NEW c \in BOOLEAN, NEW p \in Places, NEW r,
           r = IF c THEN Counted(U30, p) ELSE Got(<<>>, p)
    PROVE  /\ Onward(p, r.next)
           /\ InRange(data, r.next) => Spells(IF c THEN WriteList(WriteU30, r.val) ELSE <<>>, p, r.next)
<1>1. CASE c
  <2>1. r = Counted(U30, p)
    BY <1>1
  <2>2. Onward(p, r.next)
    BY <2>1, CountedU30sEnd, ForwardIsOnward
  <2>3. InRange(data, r.next) => Spells(WriteList(WriteU30, r.val), p, r.next)
    BY <2>1, CountedU30sSpelled
  <2> QED
    BY <1>1, <2>2, <2>3
<1>2. CASE ~c
  <2>1. r.next = p
    BY <1>2 DEF Got
  <2>2. Onward(p, p) /\ p \in Nat
    BY PlacesType DEF Onward
  <2>3. InRange(data, p) => Spells(<<>>, p, p)
    BY <2>2, SpellsNothing DEF InRange
  <2> QED
    BY <1>2, <2>1, <2>2, <2>3
<1> QED
  BY <1>1, <1>2

LEMMA TraitSpelled ==
    ASSUME ParseType, NEW p \in Places, InRange(data, Trait(p).next)
    PROVE  Spells(WriteTrait(Trait(p).val), p, Trait(p).next)
<1>1. PICK name : name = U30(p)
  OBVIOUS
<1>2. PICK kind : kind = U8(name.next)
  OBVIOUS
<1>3. PICK members : members = Struct(TraitMembers(kind.val % 16), kind.next)
  OBVIOUS
<1>4. PICK body : body = TraitData(members)
  OBVIOUS
<1>5. PICK metadata : metadata = IF Flag(kind.val, 64) THEN Counted(U30, body.next)
                                 ELSE Got(<<>>, body.next)
  OBVIOUS
<1>6. PICK t : t = [name |-> name.val, kind |-> kind.val, data |-> body.val,
                    metadata |-> metadata.val]
  OBVIOUS
<1>7. ParseType /\ ~InRange(data, Thrown.next)
  BY ThrownIsOut
<1>8. Trait(p) = IF kind.val % 16 \notin TraitKinds THEN Thrown ELSE Got(t, metadata.next)
  BY Zenon, <1>1, <1>2, <1>3, <1>4, <1>5, <1>6 DEF Trait
<1>9. kind.val % 16 \in TraitKinds /\ Trait(p) = Got(t, metadata.next)
  BY <1>7, <1>8
<1>10. Trait(p).val = t /\ Trait(p).next = metadata.next
  BY <1>9, GotIs
<1>11. PICK k \in 0..6 : k = kind.val % 16
  BY <1>9 DEF TraitKinds
<1>12. Onward(p, name.next) /\ name.next \in Places
  BY <1>1, <1>7, U30Ends, ForwardIsOnward DEF Forward
<1>13. Onward(name.next, kind.next) /\ kind.next \in Places
  BY <1>2, <1>7, <1>12, U8Ends, ForwardIsOnward DEF Forward
<1>14. members = Struct(TraitMembers(k), kind.next)
  BY <1>3, <1>11
<1>15. Onward(kind.next, members.next) /\ Onward(members.next, body.next) /\ members.next \in Places
       /\ body.next \in Places
  BY <1>4, <1>7, <1>13, <1>14, TraitDataEnds DEF Onward
<1>16. PICK c \in BOOLEAN : c = Flag(kind.val, 64)
  BY DEF Flag
<1>17. metadata = IF c THEN Counted(U30, body.next) ELSE Got(<<>>, body.next)
  BY <1>5, <1>16
<1>18. PICK q : q = body.next
  OBVIOUS
<1>19. PICK u : u = IF c THEN WriteList(WriteU30, metadata.val) ELSE <<>>
  OBVIOUS
<1>20. Onward(q, metadata.next) /\ (InRange(data, metadata.next) => Spells(u, q, metadata.next))
  BY <1>15, <1>17, <1>18, <1>19, MaybeU30s
<1>21. InRange(data, metadata.next) /\ InRange(data, body.next)
  BY <1>7, <1>10, <1>15, <1>18, <1>20, InRangeBack
<1>22. InRange(data, members.next)
  BY <1>7, <1>15, <1>21, InRangeBack
<1>23. InRange(data, kind.next)
  BY <1>7, <1>13, <1>15, <1>22, InRangeBack
<1>24. InRange(data, name.next)
  BY <1>7, <1>12, <1>13, <1>23, InRangeBack
<1>25. Spells(WriteU30(name.val), p, name.next)
  BY <1>1, <1>24, U30Spelled
<1>26. Spells(WriteU8(kind.val), name.next, kind.next)
  BY <1>2, <1>7, <1>12, <1>23, U8Spelled
<1>27. Spells(WriteTraitData(k, body.val), kind.next, body.next)
  BY <1>4, <1>13, <1>14, <1>21, TraitDataSpelled
<1>28. Spells(WriteU30(name.val) \o WriteU8(kind.val), p, kind.next)
  BY <1>25, <1>26, SpellsOn
<1>29. Spells(WriteU30(name.val) \o WriteU8(kind.val) \o WriteTraitData(k, body.val), p, body.next)
  BY <1>27, <1>28, SpellsOn
<1>30. Spells(WriteU30(name.val) \o WriteU8(kind.val) \o WriteTraitData(k, body.val) \o u, p, metadata.next)
  BY <1>18, <1>20, <1>21, <1>29, SpellsOn
<1>31. WriteTrait(t) = WriteU30(name.val) \o WriteU8(kind.val) \o WriteTraitData(k, body.val) \o u
  <2>1. t.name = name.val /\ t.kind = kind.val /\ t.data = body.val /\ t.metadata = metadata.val
    BY <1>6
  <2>2. WriteTrait(t) = WriteU30(t.name) \o WriteU8(t.kind) \o WriteTraitData(t.kind % 16, t.data)
                         \o (IF Flag(t.kind, 64) THEN WriteList(WriteU30, t.metadata) ELSE <<>>)
    BY Zenon DEF WriteTrait
  <2> QED
    BY <1>11, <1>16, <1>19, <2>1, <2>2
<1> QED
  BY <1>10, <1>30, <1>31

LEMMA TraitsSpelled ==
    ASSUME ParseType, NEW n \in Nat, NEW p \in Places, NEW r, r = List(Trait, n, p), InRange(data, r.next)
    PROVE  /\ Len(r.val) = n
           /\ Spells(FlattenSeq([i \in DOMAIN r.val |-> WriteTrait(r.val[i])]), p, r.next)
<1> DEFINE item == [q \in Places |-> Trait(q)]
           text == [q \in Places |-> WriteTrait(Trait(q).val)]
<1>1. PICK V : V = {item[q].val : q \in Places}
  OBVIOUS
<1>2. \A q \in Places : item[q] = Trait(q) /\ Onward(q, item[q].next) /\ text[q] = WriteTrait(item[q].val)
  BY TraitEnds, ForwardIsOnward
<1>3. \A q \in Places : InRange(data, item[q].next) =>
        Spells(text[q], q, item[q].next) /\ item[q].val \in V
  BY <1>1, <1>2, TraitSpelled
<1>4. PICK w : List(Trait, n, p) = w[n] /\ Repeats(w, item, p)
  BY TraitsUnfold
<1> HIDE DEF item, text
<1>5. r = w[n] /\ InRange(data, w[n].next)
  BY <1>4
<1>6. r.val \in Seq(V) /\ Len(r.val) = n /\ ItemsSpelled(r.val, n, item, text, p, r.next)
  <2>1. \A q \in Places : Onward(q, item[q].next)
    BY <1>2
  <2>2. w[n].val \in Seq(V) /\ Len(w[n].val) = n /\ ItemsSpelled(w[n].val, n, item, text, p, w[n].next)
    BY ONLY ParseType, p \in Places, n \in Nat, <1>3, <1>4, <1>5, <2>1, ListSpelled, ZenonT(40)
  <2> QED
    BY <1>5, <2>2
<1>7. PICK ts \in Seq(Seq(Piece)) :
           /\ Spells(FlattenSeq(ts), p, r.next)
           /\ Len(ts) = n
           /\ \A i \in 1..n : \E q \in Places : r.val[i] = item[q].val /\ ts[i] = text[q]
  BY <1>6 DEF ItemsSpelled
<1>8. \A i \in 1..n : ts[i] = WriteTrait(r.val[i])
  BY <1>2, <1>7
<1>9. ts = [i \in 1..n |-> ts[i]] /\ DOMAIN r.val = 1..n
  BY <1>6, <1>7, LenProperties
<1>10. ts = [i \in DOMAIN r.val |-> WriteTrait(r.val[i])]
  BY <1>8, <1>9
<1> QED
  BY <1>6, <1>7, <1>10

LEMMA CountedTraitsSpelled ==
    ASSUME ParseType, NEW p \in Places, NEW r, r = Counted(Trait, p), InRange(data, r.next)
    PROVE  Spells(WriteList(WriteTrait, r.val), p, r.next)
<1>1. PICK n : n = U30(p)
  OBVIOUS
<1>2. ParseType /\ Forward(p, n.next) /\ n.val \in Nat /\ n.next \in Places
  BY <1>1, U30Ends DEF Forward
<1>3. PICK l : l = List(Trait, n.val, n.next)
  OBVIOUS
<1>4. r = l
  <2>1. ~InRange(data, Thrown.next)
    BY <1>2, ThrownIsOut
  <2> QED
    BY Zenon, <1>1, <1>3, <2>1 DEF Counted, Times
<1>5. InRange(data, l.next) /\ Onward(n.next, l.next)
  BY <1>2, <1>3, <1>4, TraitsEnd
<1>6. InRange(data, n.next)
  BY <1>2, <1>5, InRangeBack
<1>7. Spells(WriteU30(n.val), p, n.next)
  BY <1>1, <1>6, U30Spelled
<1>8. PICK m, q : m = n.val /\ q = n.next
  OBVIOUS
<1>9. /\ Len(l.val) = m
      /\ Spells(FlattenSeq([i \in DOMAIN l.val |-> WriteTrait(l.val[i])]), q, l.next)
  BY <1>2, <1>3, <1>5, <1>8, TraitsSpelled
<1>10. PICK t : t = FlattenSeq([i \in DOMAIN l.val |-> WriteTrait(l.val[i])])
  OBVIOUS
<1>11. WriteList(WriteTrait, l.val) = WriteU30(n.val) \o t
  BY <1>8, <1>9, <1>10, Zenon DEF WriteList
<1>12. Spells(WriteU30(n.val) \o t, p, l.next)
  BY <1>7, <1>8, <1>9, <1>10, SpellsOn
<1> QED
  BY <1>4, <1>11, <1>12

-----------------------------------------------------------------------------
(***************************************************************************)
(* The entries of a table.                                                 *)
(***************************************************************************)

LEMMA BytesSpelled ==
    ASSUME ParseType, NEW p \in Places, NEW n \in Nat, NEW r, r = Bytes(p, n), InRange(data, r.next)
    PROVE  Spells(WriteBytes(r.val), p, r.next) /\ Len(r.val) = n
<1>1. PICK t : t = SubSeq(data, p + 1, p + n)
  OBVIOUS
<1>2. p \in Nat /\ p + n \in Nat /\ Len(data) \in Nat
  BY PlacesType, LenProperties DEF ParseType
<1>3. r = Checked(t, p + n)
  BY <1>1 DEF Bytes
<1>4. p + n <= Len(data) /\ r.val = t /\ r.next = p + n
  BY <1>2, <1>3, CheckedIs
<1>5. \A i \in (p + 1)..(p + n) : data[i] \in Byte
  <2>1. \A i \in (p + 1)..(p + n) : i \in 1..Len(data)
    BY <1>2, <1>4
  <2> QED
    BY <2>1, ElementOfSeq DEF ParseType
<1>6. Len(t) = n /\ \A i \in 1..n : t[i] = data[p + 1 + i - 1]
  <2>1. PICK a \in Int, b \in Int : a = p + 1 /\ b = p + n
    BY <1>2
  <2>2. /\ SubSeq(data, a, b) \in Seq(Byte)
        /\ Len(SubSeq(data, a, b)) = IF a <= b THEN b - a + 1 ELSE 0
        /\ \A i \in 1..(b - a + 1) : SubSeq(data, a, b)[i] = data[a + i - 1]
    BY <1>5, <2>1, SubSeqProperties
  <2>3. b - a + 1 = n /\ (IF a <= b THEN b - a + 1 ELSE 0) = n
    BY <1>2, <2>1
  <2> QED
    BY <1>1, <2>1, <2>2, <2>3
<1>7. DOMAIN t = 1..n
  <2>1. t \in Seq(Byte)
    BY <1>1, <1>2, <1>5, SubSeqProperties
  <2> QED
    BY <1>6, <2>1, LenProperties
<1>8. \A i \in 1..n : t[i] = data[p + i]
  <2> TAKE i \in 1..n
  <2>1. p + 1 + i - 1 = p + i
    BY <1>2
  <2> QED
    BY <1>6, <2>1
<1> QED
  BY <1>2, <1>4, <1>6, <1>7, <1>8, SpellsBytes

LEMMA StringSpelled ==
    ASSUME ParseType, NEW p \in Places, NEW r, r = String(p), InRange(data, r.next)
    PROVE  Spells(WriteString(r.val), p, r.next)
<1>1. PICK length : length = U30(p)
  OBVIOUS
<1>2. ParseType /\ Forward(p, length.next) /\ length.val \in Nat /\ length.next \in Places
  BY <1>1, U30Ends DEF Forward
<1>3. r = Bytes(length.next, length.val)
  BY <1>1, Zenon DEF String
<1>4. Spells(WriteBytes(r.val), length.next, r.next) /\ Len(r.val) = length.val
  BY <1>2, <1>3, BytesSpelled
<1>5. Onward(length.next, r.next)
  BY <1>2, <1>3, BytesEnd
<1>6. InRange(data, length.next)
  BY <1>2, <1>5, InRangeBack
<1>7. Spells(WriteU30(length.val), p, length.next)
  BY <1>1, <1>6, U30Spelled
<1>8. Spells(WriteU30(length.val) \o WriteBytes(r.val), p, r.next)
  BY <1>4, <1>7, SpellsOn
<1> QED
  BY <1>4, <1>8 DEF WriteString

LEMMA U32Spelled ==
    ASSUME ParseType, NEW p \in Places, NEW r, r = U32(p), InRange(data, r.next)
    PROVE  Spells(WriteBytes(r.val), p, r.next)
<1>1. PICK n \in Nat : n = VarLen(data, p)
  BY VarLenEnds
<1>2. r = Bytes(p, n)
  BY <1>1 DEF U32
<1> QED
  BY <1>2, BytesSpelled

LEMMA NamespaceSpelled ==
    ASSUME ParseType, NEW p \in Places, NEW r, r = Namespace(p), InRange(data, r.next)
    PROVE  Spells(WriteNamespace(r.val), p, r.next)
<1>1. PICK kind : kind = U8(p)
  OBVIOUS
<1>2. PICK name : name = U30(kind.next)
  OBVIOUS
<1>3. ParseType /\ kind.next \in Places
  BY <1>1, U8Ends DEF Forward
<1>4. r = [val |-> [kind |-> kind.val, name |-> name.val], next |-> name.next]
  BY <1>1, <1>2, Zenon DEF Namespace, Got
<1>5. InRange(data, name.next) /\ Forward(kind.next, name.next)
  BY <1>2, <1>3, <1>4, U30Ends
<1>6. InRange(data, kind.next)
  BY <1>3, <1>5, InRangeBack
<1>7. Spells(WriteU8(kind.val), p, kind.next)
  BY <1>1, <1>3, <1>6, U8Spelled
<1>8. Spells(WriteU30(name.val), kind.next, name.next)
  BY <1>2, <1>3, <1>5, U30Spelled
<1>9. Spells(WriteU8(kind.val) \o WriteU30(name.val), p, name.next)
  BY <1>7, <1>8, SpellsOn
<1> QED
  BY <1>4, <1>9 DEF WriteNamespace

LEMMA MetadataSpelled ==
    ASSUME ParseType, NEW p \in Places, NEW r, r = Metadata(p), InRange(data, r.next)
    PROVE  Spells(WriteMetadata(r.val), p, r.next)
<1>1. PICK name : name = U30(p)
  OBVIOUS
<1>2. PICK items : items = Counted(MetadataItem, name.next)
  OBVIOUS
<1>3. ParseType /\ name.next \in Places
  BY <1>1, U30Ends DEF Forward
<1>4. r = [val |-> [name |-> name.val, items |-> items.val], next |-> items.next]
  BY <1>1, <1>2, Zenon DEF Metadata, Got
<1>5. InRange(data, items.next) /\ Forward(name.next, items.next)
  BY <1>2, <1>3, <1>4, CountedMetadataItemsEnd
<1>6. InRange(data, name.next)
  BY <1>3, <1>5, InRangeBack
<1>7. Spells(WriteU30(name.val), p, name.next)
  BY <1>1, <1>6, U30Spelled
<1>8. Spells(WriteList(WriteItem, items.val), name.next, items.next)
  BY <1>2, <1>3, <1>5, CountedMetadataItemsSpelled
<1>9. PICK t : t = WriteList(WriteItem, items.val)
  OBVIOUS
<1>10. Spells(WriteU30(name.val) \o t, p, items.next)
  BY <1>7, <1>8, <1>9, SpellsOn
<1>11. PICK m : m = r.val
  OBVIOUS
<1>12. m.name = name.val /\ m.items = items.val
  BY <1>4, <1>11
<1>13. WriteMetadata(m) = WriteU30(m.name) \o WriteList(WriteItem, m.items)
  BY Zenon DEF WriteMetadata
<1>14. WriteMetadata(m) = WriteU30(name.val) \o t
  BY <1>9, <1>12, <1>13, Zenon
<1>15. r.next = items.next
  BY <1>4
<1> QED
  BY <1>10, <1>11, <1>14, <1>15, Zenon

LEMMA StructOf0 ==
    ASSUME ParseType, NEW p \in Places, NEW r, r = Struct(<<>>, p), InRange(data, r.next)
    PROVE  Spells(<<>>, p, r.next)
<1>1. PICK members : members = <<>>
  OBVIOUS
<1>2. PICK n \in Nat : n = 0 /\ r = Struct(members, p)
  BY <1>1
<1>3. DOMAIN members = 1..n /\ Len(members) = n /\ \A i, j \in 1..n : members[i] = members[j] => i = j
  BY <1>1, <1>2
<1>4. Spells(WriteU30s([i \in 1..n |-> r.val[members[i]]]), p, r.next)
  <2>1. r = Struct(members, p) /\ InRange(data, r.next) /\ n \in Nat
    BY <1>2
  <2> QED
    BY ONLY ParseType, p \in Places, <1>3, <2>1, StructSpelled
<1>5. PICK v : v = [i \in 1..n |-> r.val[members[i]]]
  OBVIOUS
<1>6. DOMAIN v = {} /\ [i \in DOMAIN v |-> WriteU30(v[i])] = <<>>
  BY <1>2, <1>5
<1>7. WriteU30s(v) = <<>>
  BY <1>6, FlattenNone DEF WriteU30s
<1> QED
  BY <1>4, <1>5, <1>7

\* What the kind of a name chooses.
ByKind(k, qname, name, none, nameAndSet, set, generic) ==
    CASE k \in {7, 13}  -> qname
      [] k \in {15, 16} -> name
      [] k \in {17, 18} -> none
      [] k \in {9, 14}  -> nameAndSet
      [] k \in {27, 28} -> set
      [] k = 29         -> generic

LEMMA WriteMultinameIs ==
    ASSUME NEW m
    PROVE  /\ m.kind \in {7, 13} => WriteMultiname(m) = WriteU8(m.kind) \o WriteU30s(<<m.ns, m.name>>)
           /\ m.kind \in {15, 16} => WriteMultiname(m) = WriteU8(m.kind) \o WriteU30(m.name)
           /\ m.kind \in {17, 18} => WriteMultiname(m) = WriteU8(m.kind) \o <<>>
           /\ m.kind \in {9, 14} => WriteMultiname(m) = WriteU8(m.kind) \o WriteU30s(<<m.name, m.nsset>>)
           /\ m.kind \in {27, 28} => WriteMultiname(m) = WriteU8(m.kind) \o WriteU30(m.nsset)
           /\ m.kind = 29 => WriteMultiname(m) = WriteU8(m.kind)
                                \o (WriteU30(m.name) \o WriteList(WriteU30, m.params))
<1>1. PICK l : l = WriteU30(m.name) \o WriteList(WriteU30, m.params)
  OBVIOUS
<1>2. WriteMultiname(m) = WriteU8(m.kind)
        \o ByKind(m.kind, WriteU30s(<<m.ns, m.name>>), WriteU30(m.name), <<>>,
                  WriteU30s(<<m.name, m.nsset>>), WriteU30(m.nsset),
                  WriteU30(m.name) \o WriteList(WriteU30, m.params))
  BY Zenon DEF WriteMultiname, ByKind
<1>3. WriteMultiname(m) = WriteU8(m.kind)
        \o ByKind(m.kind, WriteU30s(<<m.ns, m.name>>), WriteU30(m.name), <<>>,
                  WriteU30s(<<m.name, m.nsset>>), WriteU30(m.nsset), l)
  BY <1>1, <1>2, Zenon
<1>4. PICK k, a, b, c, d, e : /\ k = m.kind /\ a = WriteU30s(<<m.ns, m.name>>) /\ b = WriteU30(m.name)
                              /\ c = <<>> /\ d = WriteU30s(<<m.name, m.nsset>>)
                              /\ e = WriteU30(m.nsset)
  OBVIOUS
<1>5. WriteMultiname(m) = WriteU8(k) \o ByKind(k, a, b, c, d, e, l)
  BY <1>3, <1>4
<1>6. /\ k \in {7, 13} => ByKind(k, a, b, c, d, e, l) = a
      /\ k \in {15, 16} => ByKind(k, a, b, c, d, e, l) = b
      /\ k \in {17, 18} => ByKind(k, a, b, c, d, e, l) = c
      /\ k \in {9, 14} => ByKind(k, a, b, c, d, e, l) = d
      /\ k \in {27, 28} => ByKind(k, a, b, c, d, e, l) = e
      /\ k = 29 => ByKind(k, a, b, c, d, e, l) = l
  BY DEF ByKind
<1> QED
  BY <1>1, <1>4, <1>5, <1>6, Zenon

\* What follows the kind k of a name, m; of a TypeName, only its name.
MembersSpelled(k, m, p, q) ==
    \E u : /\ Spells(u, p, q)
           /\ k # 29 => WriteMultiname(m) = WriteU8(k) \o u
           /\ k = 29 => u = WriteU30(m.name)

\* The members of f are members of m.
Keeps(m, f) == \A x \in DOMAIN f : m[x] = f[x]

LEMMA MultinameMembersSpelled ==
    ASSUME ParseType, NEW k \in MultinameKinds, NEW p \in Places, NEW r, r = Struct(MultinameMembers(k), p),
           InRange(data, r.next), NEW m, m.kind = k, Keeps(m, r.val)
    PROVE  MembersSpelled(k, m, p, r.next)
<1>1. CASE k \in {7, 13}
  <2>1. r = Struct(<<"ns", "name">>, p)
    BY <1>1 DEF MultinameMembers
  <2>2. Spells(WriteU30s(<<r.val["ns"], r.val["name"]>>), p, r.next) /\ DOMAIN r.val = {"ns", "name"}
    BY <2>1, StructOf2
  <2>3. m.ns = r.val["ns"] /\ m.name = r.val["name"]
    BY <2>2 DEF Keeps
  <2>4. WriteMultiname(m) = WriteU8(k) \o WriteU30s(<<m.ns, m.name>>)
    BY <1>1, WriteMultinameIs
  <2>5. WriteMultiname(m) = WriteU8(k) \o WriteU30s(<<r.val["ns"], r.val["name"]>>)
    BY <2>3, <2>4
  <2>6. k # 29
    BY <1>1
  <2> QED
    BY <2>2, <2>5, <2>6 DEF MembersSpelled
<1>2. CASE k \in {9, 14}
  <2>1. r = Struct(<<"name", "nsset">>, p)
    BY <1>2 DEF MultinameMembers
  <2>2. Spells(WriteU30s(<<r.val["name"], r.val["nsset"]>>), p, r.next) /\ DOMAIN r.val = {"name", "nsset"}
    BY <2>1, StructOf2
  <2>3. m.name = r.val["name"] /\ m.nsset = r.val["nsset"]
    BY <2>2 DEF Keeps
  <2>4. WriteMultiname(m) = WriteU8(k) \o WriteU30s(<<m.name, m.nsset>>)
    BY <1>2, WriteMultinameIs
  <2>5. WriteMultiname(m) = WriteU8(k) \o WriteU30s(<<r.val["name"], r.val["nsset"]>>)
    BY <2>3, <2>4
  <2>6. k # 29
    BY <1>2
  <2> QED
    BY <2>2, <2>5, <2>6 DEF MembersSpelled
<1>3. CASE k \in {15, 16}
  <2>1. r = Struct(<<"name">>, p)
    BY <1>3 DEF MultinameMembers
  <2>2. Spells(WriteU30(r.val["name"]), p, r.next) /\ DOMAIN r.val = {"name"}
    BY <2>1, StructOf1
  <2>3. m.name = r.val["name"]
    BY <2>2 DEF Keeps
  <2>4. WriteMultiname(m) = WriteU8(k) \o WriteU30(m.name)
    BY <1>3, WriteMultinameIs
  <2>5. k # 29
    BY <1>3
  <2> QED
    BY <2>2, <2>3, <2>4, <2>5 DEF MembersSpelled
<1>4. CASE k \in {27, 28}
  <2>1. r = Struct(<<"nsset">>, p)
    BY <1>4 DEF MultinameMembers
  <2>2. Spells(WriteU30(r.val["nsset"]), p, r.next) /\ DOMAIN r.val = {"nsset"}
    BY <2>1, StructOf1
  <2>3. m.nsset = r.val["nsset"]
    BY <2>2 DEF Keeps
  <2>4. WriteMultiname(m) = WriteU8(k) \o WriteU30(m.nsset)
    BY <1>4, WriteMultinameIs
  <2>5. k # 29
    BY <1>4
  <2> QED
    BY <2>2, <2>3, <2>4, <2>5 DEF MembersSpelled
<1>5. CASE k \in {17, 18}
  <2>1. r = Struct(<<>>, p)
    BY <1>5 DEF MultinameMembers
  <2>2. Spells(<<>>, p, r.next)
    BY <2>1, StructOf0
  <2>3. WriteMultiname(m) = WriteU8(k) \o <<>>
    BY <1>5, WriteMultinameIs
  <2>4. k # 29
    BY <1>5
  <2> QED
    BY <2>2, <2>3, <2>4 DEF MembersSpelled
<1>6. CASE k = 29
  <2>1. r = Struct(<<"name">>, p)
    BY <1>6 DEF MultinameMembers
  <2>2. Spells(WriteU30(r.val["name"]), p, r.next) /\ DOMAIN r.val = {"name"}
    BY <2>1, StructOf1
  <2>3. m.name = r.val["name"]
    BY <2>2 DEF Keeps
  <2> QED
    BY <1>6, <2>2, <2>3 DEF MembersSpelled
<1>7. k \in {7, 13} \/ k \in {9, 14} \/ k \in {15, 16} \/ k \in {17, 18} \/ k \in {27, 28} \/ k = 29
  BY DEF MultinameKinds
<1> QED
  BY <1>1, <1>2, <1>3, <1>4, <1>5, <1>6, <1>7

\* The members of a name are neither its kind nor its parameters.
LEMMA MultinameDomain ==
    ASSUME NEW k \in MultinameKinds, NEW p
    PROVE  /\ "kind" \notin DOMAIN Struct(MultinameMembers(k), p).val
           /\ "params" \notin DOMAIN Struct(MultinameMembers(k), p).val
           /\ Len(MultinameMembers(k)) \in Nat
<1>1. PICK members : members = MultinameMembers(k)
  OBVIOUS
<1>2. members \in {<<"ns", "name">>, <<"name">>, <<>>, <<"name", "nsset">>, <<"nsset">>}
  BY <1>1 DEF MultinameKinds, MultinameMembers
<1>3. /\ Len(members) \in Nat
      /\ \A i \in DOMAIN members : members[i] \in {"ns", "name", "nsset"}
  BY <1>2
<1>4. DOMAIN Struct(members, p).val = {members[i] : i \in DOMAIN members}
  BY StructDomain
<1> QED
  BY <1>1, <1>3, <1>4

LEMMA MultinameSpelled ==
    ASSUME ParseType, NEW p \in Places, NEW r, r = Multiname(p), InRange(data, r.next)
    PROVE  Spells(WriteMultiname(r.val), p, r.next)
<1>1. PICK kind : kind = U8(p)
  OBVIOUS
<1>2. PICK members : members = Struct(MultinameMembers(kind.val), kind.next)
  OBVIOUS
<1>3. PICK params : params = Counted(U30, members.next)
  OBVIOUS
<1>4. PICK named : named = Set(members.val, "kind", kind.val)
  OBVIOUS
<1>5. r = IF kind.val \notin MultinameKinds THEN Thrown
          ELSE IF kind.val = 29 THEN Got(Set(named, "params", params.val), params.next)
          ELSE Got(named, members.next)
  BY <1>1, <1>2, <1>3, <1>4, Zenon DEF Multiname
<1>6. ParseType /\ ~InRange(data, Thrown.next)
  BY ThrownIsOut
<1>7. PICK k \in MultinameKinds : k = kind.val
  BY <1>5, <1>6
<1>8. kind.next \in Places
  BY <1>1, <1>6, U8Ends DEF Forward
<1>9. members = Struct(MultinameMembers(k), kind.next)
  BY <1>2, <1>7
<1>10. "kind" \notin DOMAIN members.val /\ "params" \notin DOMAIN members.val
  BY <1>9, MultinameDomain
<1>11. Onward(kind.next, members.next) /\ members.next \in Places
  <2>1. Len(MultinameMembers(k)) \in Nat
    BY MultinameDomain
  <2> QED
    BY <1>6, <1>8, <1>9, <2>1, StructEnds DEF Onward
<1>12. named.kind = k /\ DOMAIN named = DOMAIN members.val \cup {"kind"}
       /\ \A x \in DOMAIN members.val : named[x] = members.val[x]
  <2>1. PICK f : f = members.val
    OBVIOUS
  <2>2. named = Set(f, "kind", k)
    BY <1>4, <1>7, <2>1
  <2>3. DOMAIN named = DOMAIN f \cup {"kind"} /\ named["kind"] = k
        /\ \A x \in DOMAIN f : x # "kind" => named[x] = f[x]
    BY <2>2 DEF Set
  <2> QED
    BY <1>10, <2>1, <2>3
<1>13. ASSUME InRange(data, members.next)
       PROVE  Spells(WriteU8(k), p, kind.next)
  <2>1. InRange(data, kind.next)
    BY <1>6, <1>8, <1>11, <1>13, InRangeBack
  <2> QED
    BY <1>1, <1>6, <1>7, <2>1, U8Spelled
<1>14. CASE k # 29
  <2>1. r.val = named /\ r.next = members.next
    BY <1>5, <1>7, <1>14, GotIs
  <2>2. PICK u : Spells(u, kind.next, members.next) /\ WriteMultiname(named) = WriteU8(k) \o u
    <3>1. InRange(data, members.next)
      BY <2>1
    <3>2. MembersSpelled(k, named, kind.next, members.next)
      <4>1. Keeps(named, members.val) /\ named.kind = k
        BY <1>12 DEF Keeps
      <4> QED
        BY ONLY ParseType, <1>7, <1>8, <1>9, <3>1, <4>1, MultinameMembersSpelled
    <3> QED
      BY <1>14, <3>2 DEF MembersSpelled
  <2>3. Spells(WriteU8(k) \o u, p, members.next)
    BY <1>13, <2>1, <2>2, SpellsOn
  <2> QED
    BY <2>1, <2>2, <2>3
<1>15. CASE k = 29
  <2>1. PICK m : m = Set(named, "params", params.val)
    OBVIOUS
  <2>2. r.val = m /\ r.next = params.next
    BY <1>5, <1>7, <1>15, <2>1, GotIs
  <2>3. m.kind = k /\ m.params = params.val /\ \A x \in DOMAIN members.val : m[x] = members.val[x]
    <3>1. PICK v : v = params.val
      OBVIOUS
    <3>2. m["params"] = v /\ \A x \in DOMAIN named : x # "params" => m[x] = named[x]
      BY <2>1, <3>1 DEF Set
    <3> QED
      BY <1>10, <1>12, <3>1, <3>2
  <2>4. Forward(members.next, params.next)
    BY <1>3, <1>6, <1>11, CountedU30sEnd
  <2>5. InRange(data, members.next)
    BY <1>6, <1>11, <2>2, <2>4, InRangeBack
  <2>6. PICK u : Spells(u, kind.next, members.next) /\ u = WriteU30(m.name)
    <3>1. MembersSpelled(k, m, kind.next, members.next)
      <4>1. Keeps(m, members.val) /\ m.kind = k
        BY <2>3 DEF Keeps
      <4> QED
        BY ONLY ParseType, <1>7, <1>8, <1>9, <2>5, <4>1, MultinameMembersSpelled
    <3> QED
      BY <1>15, <3>1 DEF MembersSpelled
  <2>7. PICK l : l = WriteList(WriteU30, params.val)
    OBVIOUS
  <2>8. Spells(l, members.next, params.next)
    BY <1>3, <1>11, <2>2, <2>7, CountedU30sSpelled
  <2>9. Spells(WriteU8(k) \o u, p, members.next)
    BY <1>13, <2>5, <2>6, SpellsOn
  <2>10. Spells(WriteU8(k) \o u \o l, p, params.next)
    BY <2>8, <2>9, SpellsOn
  <2>11. WriteMultiname(m) = WriteU8(k) \o (u \o l)
    <3>1. WriteMultiname(m) = WriteU8(k) \o (WriteU30(m.name) \o WriteList(WriteU30, m.params))
      BY <1>15, <2>3, WriteMultinameIs
    <3> QED
      BY <2>3, <2>6, <2>7, <3>1, Zenon
  <2>12. WriteU8(k) \o u \o l = WriteU8(k) \o (u \o l)
    <3>1. WriteU8(k) \in Seq(Piece) /\ u \in Seq(Piece) /\ l \in Seq(Piece)
      BY <1>13, <2>5, <2>6, <2>8 DEF Spells
    <3> QED
      BY <3>1, ConcatAssociative
  <2> QED
    BY <2>2, <2>10, <2>11, <2>12
<1> QED
  BY <1>14, <1>15

LEMMA MaybeU30 ==
    ASSUME ParseType, NEW c \in BOOLEAN, NEW p \in Places, NEW r,
           r = IF c THEN U30(p) ELSE Got(0, p)
    PROVE  /\ Onward(p, r.next)
           /\ InRange(data, r.next) => Spells(IF c THEN WriteU30(r.val) ELSE <<>>, p, r.next)
<1>1. CASE c
  <2>1. r = U30(p)
    BY <1>1
  <2>2. Onward(p, r.next)
    BY <2>1, U30Ends, ForwardIsOnward
  <2>3. InRange(data, r.next) => Spells(WriteU30(r.val), p, r.next)
    BY <2>1, U30Spelled
  <2> QED
    BY <1>1, <2>2, <2>3
<1>2. CASE ~c
  <2>1. r.next = p
    BY <1>2 DEF Got
  <2>2. Onward(p, p) /\ p \in Nat
    BY PlacesType DEF Onward
  <2>3. InRange(data, p) => Spells(<<>>, p, p)
    BY <2>2, SpellsNothing DEF InRange
  <2> QED
    BY <1>2, <2>1, <2>2, <2>3
<1> QED
  BY <1>1, <1>2

LEMMA MaybeOptions ==
    ASSUME ParseType, NEW c \in BOOLEAN, NEW p \in Places, NEW r,
           r = IF c THEN Counted(Option, p) ELSE Got(<<>>, p)
    PROVE  /\ Onward(p, r.next)
           /\ InRange(data, r.next) => Spells(IF c THEN WriteList(WriteOption, r.val) ELSE <<>>, p, r.next)
<1>1. CASE c
  <2>1. r = Counted(Option, p)
    BY <1>1
  <2>2. Onward(p, r.next)
    BY <2>1, CountedOptionsEnd, ForwardIsOnward
  <2>3. InRange(data, r.next) => Spells(WriteList(WriteOption, r.val), p, r.next)
    BY <2>1, CountedOptionsSpelled
  <2> QED
    BY <1>1, <2>2, <2>3
<1>2. CASE ~c
  <2>1. r.next = p
    BY <1>2 DEF Got
  <2>2. Onward(p, p) /\ p \in Nat
    BY PlacesType DEF Onward
  <2>3. InRange(data, p) => Spells(<<>>, p, p)
    BY <2>2, SpellsNothing DEF InRange
  <2> QED
    BY <1>2, <2>1, <2>2, <2>3
<1> QED
  BY <1>1, <1>2

LEMMA InitialisedSpelled ==
    ASSUME ParseType, NEW a, a # "traits", NEW p \in Places, NEW r, r = Initialised(a, p), InRange(data, r.next)
    PROVE  Spells(WriteU30(r.val[a]) \o WriteList(WriteTrait, r.val["traits"]), p, r.next)
<1>1. PICK init : init = Struct(<<a>>, p)
  OBVIOUS
<1>2. PICK traits : traits = Counted(Trait, init.next)
  OBVIOUS
<1>3. PICK m : m = Set(init.val, "traits", traits.val)
  OBVIOUS
<1>4. r = [val |-> m, next |-> traits.next]
  BY <1>1, <1>2, <1>3, Zenon DEF Initialised, TraitList, Got
<1>5. r.val = m /\ r.next = traits.next
  BY <1>4
<1>6. Onward(p, init.next) /\ init.next \in Places
  <2>1. Len(<<a>>) \in Nat
    OBVIOUS
  <2> QED
    BY <1>1, <2>1, StructEnds DEF Onward
<1>7. Forward(init.next, traits.next)
  BY <1>2, <1>6, CountedTraitsEnd
<1>8. InRange(data, init.next)
  BY <1>5, <1>6, <1>7, InRangeBack
<1>9. Spells(WriteU30(init.val[a]), p, init.next) /\ DOMAIN init.val = {a}
  BY <1>1, <1>8, StructOf1
<1>10. PICK l : l = WriteList(WriteTrait, traits.val)
  OBVIOUS
<1>11. Spells(l, init.next, traits.next)
  BY <1>2, <1>5, <1>6, <1>10, CountedTraitsSpelled
<1>12. Spells(WriteU30(init.val[a]) \o l, p, traits.next)
  BY <1>9, <1>11, SpellsOn
<1>13. m[a] = init.val[a] /\ m["traits"] = traits.val
  <2>1. PICK f, v : f = init.val /\ v = traits.val
    OBVIOUS
  <2>2. m = Set(f, "traits", v) /\ a \in DOMAIN f
    BY <1>3, <1>9, <2>1
  <2>3. m["traits"] = v /\ m[a] = f[a]
    BY <2>2 DEF Set
  <2> QED
    BY <2>1, <2>3
<1> QED
  BY <1>5, <1>10, <1>12, <1>13, Zenon

LEMMA InstanceSpelled ==
    ASSUME ParseType, NEW p \in Places, NEW r, r = Instance(p), InRange(data, r.next)
    PROVE  Spells(WriteInstance(r.val), p, r.next)
<1>1. PICK names : names = Struct(<<"name", "super">>, p)
  OBVIOUS
<1>2. PICK flags : flags = U8(names.next)
  OBVIOUS
<1>3. PICK protected : protected = IF Flag(flags.val, 8) THEN U30(flags.next) ELSE Got(0, flags.next)
  OBVIOUS
<1>4. PICK interfaces : interfaces = Counted(U30, protected.next)
  OBVIOUS
<1>5. PICK iinit : iinit = U30(interfaces.next)
  OBVIOUS
<1>6. PICK traits : traits = Counted(Trait, iinit.next)
  OBVIOUS
<1>7. PICK i : i = [name |-> names.val.name, super |-> names.val.super, flags |-> flags.val,
                    protectedNS |-> protected.val, interfaces |-> interfaces.val,
                    iinit |-> iinit.val, traits |-> traits.val]
  OBVIOUS
<1>8. r = [val |-> i, next |-> traits.next]
  BY <1>1, <1>2, <1>3, <1>4, <1>5, <1>6, <1>7, Zenon DEF Instance, TraitList, Got
<1>9. r.val = i /\ r.next = traits.next /\ ParseType
  BY <1>8
<1>10. PICK c \in BOOLEAN : c = Flag(flags.val, 8)
  BY DEF Flag
<1>11. protected = IF c THEN U30(flags.next) ELSE Got(0, flags.next)
  BY <1>3, <1>10
<1>12. PICK u : u = IF c THEN WriteU30(protected.val) ELSE <<>>
  OBVIOUS
<1>13. Onward(p, names.next) /\ names.next \in Places
  <2>1. Len(<<"name", "super">>) \in Nat
    OBVIOUS
  <2> QED
    BY <1>1, <1>9, <2>1, StructEnds DEF Onward
<1>14. Forward(names.next, flags.next) /\ flags.next \in Places
  BY <1>2, <1>9, <1>13, U8Ends DEF Forward
<1>15. Onward(flags.next, protected.next)
       /\ (InRange(data, protected.next) => Spells(u, flags.next, protected.next))
  BY <1>11, <1>12, <1>14, MaybeU30
<1>16. protected.next \in Places
  BY <1>15 DEF Onward
<1>17. Forward(protected.next, interfaces.next) /\ interfaces.next \in Places
  BY <1>4, <1>9, <1>16, CountedU30sEnd DEF Forward
<1>18. Forward(interfaces.next, iinit.next) /\ iinit.next \in Places
  BY <1>5, <1>9, <1>17, U30Ends DEF Forward
<1>19. Forward(iinit.next, traits.next)
  BY <1>6, <1>9, <1>18, CountedTraitsEnd
<1>20. InRange(data, traits.next) /\ InRange(data, iinit.next)
  BY <1>9, <1>18, <1>19, InRangeBack
<1>21. InRange(data, interfaces.next)
  BY <1>9, <1>17, <1>18, <1>20, InRangeBack
<1>22. InRange(data, protected.next)
  BY <1>9, <1>16, <1>17, <1>21, InRangeBack
<1>23. InRange(data, flags.next)
  BY <1>9, <1>14, <1>15, <1>22, InRangeBack
<1>24. InRange(data, names.next)
  BY <1>9, <1>13, <1>14, <1>23, InRangeBack
<1>25. PICK s, l, k : /\ s = WriteU30s(<<names.val["name"], names.val["super"]>>)
                      /\ l = WriteList(WriteU30, interfaces.val)
                      /\ k = WriteList(WriteTrait, traits.val)
  OBVIOUS
<1>26. Spells(s, p, names.next)
  BY <1>1, <1>24, <1>25, StructOf2
<1>27. Spells(WriteU8(flags.val), names.next, flags.next)
  BY <1>2, <1>9, <1>13, <1>23, U8Spelled
<1>28. Spells(l, protected.next, interfaces.next)
  BY <1>4, <1>16, <1>21, <1>25, CountedU30sSpelled
<1>29. Spells(WriteU30(iinit.val), interfaces.next, iinit.next)
  BY <1>5, <1>17, <1>20, U30Spelled
<1>30. Spells(k, iinit.next, traits.next)
  BY <1>6, <1>18, <1>20, <1>25, CountedTraitsSpelled
<1>31. Spells(s \o WriteU8(flags.val), p, flags.next)
  BY <1>26, <1>27, SpellsOn
<1>32. Spells(s \o WriteU8(flags.val) \o u, p, protected.next)
  BY <1>15, <1>22, <1>31, SpellsOn
<1>33. Spells(s \o WriteU8(flags.val) \o u \o l, p, interfaces.next)
  BY <1>28, <1>32, SpellsOn
<1>34. Spells(s \o WriteU8(flags.val) \o u \o l \o WriteU30(iinit.val), p, iinit.next)
  BY <1>29, <1>33, SpellsOn
<1>35. Spells(s \o WriteU8(flags.val) \o u \o l \o WriteU30(iinit.val) \o k, p, traits.next)
  BY <1>30, <1>34, SpellsOn
<1>36. WriteInstance(i) = s \o WriteU8(flags.val) \o u \o l \o WriteU30(iinit.val) \o k
  <2>1. /\ i.name = names.val["name"] /\ i.super = names.val["super"] /\ i.flags = flags.val
        /\ i.protectedNS = protected.val /\ i.interfaces = interfaces.val
        /\ i.iinit = iinit.val /\ i.traits = traits.val
    BY <1>7
  <2>2. WriteInstance(i) = WriteU30s(<<i.name, i.super>>) \o WriteU8(i.flags)
                           \o (IF Flag(i.flags, 8) THEN WriteU30(i.protectedNS) ELSE <<>>)
                           \o WriteList(WriteU30, i.interfaces)
                           \o WriteU30(i.iinit) \o WriteList(WriteTrait, i.traits)
    BY Zenon DEF WriteInstance
  <2>3. u = IF Flag(i.flags, 8) THEN WriteU30(i.protectedNS) ELSE <<>>
    BY <1>10, <1>12, <2>1
  <2>4. l = WriteList(WriteU30, i.interfaces) /\ k = WriteList(WriteTrait, i.traits)
    BY <1>25, <2>1, Zenon
  <2>5. WriteInstance(i) = WriteU30s(<<i.name, i.super>>) \o WriteU8(i.flags) \o u \o l \o WriteU30(i.iinit) \o k
    BY <2>2, <2>3, <2>4, Zenon
  <2>6. s = WriteU30s(<<i.name, i.super>>)
    BY <1>25, <2>1
  <2> QED
    BY <2>1, <2>5, <2>6
<1> QED
  BY <1>9, <1>35, <1>36

LEMMA LimitsSpelled ==
    ASSUME ParseType, NEW p \in Places, NEW r,
           r = Struct(<<"method", "maxStack", "localCount", "initScopeDepth", "maxScopeDepth">>, p),
           InRange(data, r.next)
    PROVE  /\ Spells(WriteU30s(<<r.val["method"], r.val["maxStack"], r.val["localCount"],
                                r.val["initScopeDepth"], r.val["maxScopeDepth"]>>), p, r.next)
           /\ \A x : x \in DOMAIN r.val <=> \/ x = "method" \/ x = "maxStack" \/ x = "localCount"
                                            \/ x = "initScopeDepth" \/ x = "maxScopeDepth"
<1>1. PICK members : members = <<"method", "maxStack", "localCount", "initScopeDepth", "maxScopeDepth">>
  OBVIOUS
<1>2. /\ members[1] = "method" /\ members[2] = "maxStack" /\ members[3] = "localCount"
      /\ members[4] = "initScopeDepth" /\ members[5] = "maxScopeDepth"
      /\ DOMAIN members = 1..5 /\ Len(members) = 5
  BY <1>1
<1>3. \A i \in 1..5 : i \in {1, 2, 3, 4, 5}
  OBVIOUS
<1>4. DOMAIN members = 1..5 /\ Len(members) = 5 /\ \A i, j \in 1..5 : members[i] = members[j] => i = j
  BY ONLY <1>2, <1>3
<1>5. Spells(WriteU30s([i \in 1..5 |-> r.val[members[i]]]), p, r.next)
  <2>1. PICK n \in Nat : n = 5
    OBVIOUS
  <2>2. InRange(data, r.next) /\ DOMAIN members = 1..n /\ Len(members) = n
        /\ (\A i, j \in 1..n : members[i] = members[j] => i = j) /\ r = Struct(members, p)
    BY <1>1, <1>4, <2>1
  <2>3. Spells(WriteU30s([i \in 1..n |-> r.val[members[i]]]), p, r.next)
    BY <2>2, StructSpelled
  <2> QED
    BY <2>1, <2>3
<1>6. [i \in 1..5 |-> r.val[members[i]]] =
        <<r.val["method"], r.val["maxStack"], r.val["localCount"],
          r.val["initScopeDepth"], r.val["maxScopeDepth"]>>
  BY <1>1
<1>7. DOMAIN r.val = {members[i] : i \in 1..5}
  BY <1>1, <1>4, StructDomain
<1>8. \A i : i \in 1..5 <=> i = 1 \/ i = 2 \/ i = 3 \/ i = 4 \/ i = 5
  OBVIOUS
<1>9. \A x : x \in DOMAIN r.val <=> \/ x = "method" \/ x = "maxStack" \/ x = "localCount"
                                    \/ x = "initScopeDepth" \/ x = "maxScopeDepth"
  BY ONLY <1>2, <1>7, <1>8
<1> QED
  BY <1>5, <1>6, <1>9

LEMMA BodySpelled ==
    ASSUME ParseType, NEW p \in Places, NEW r, r = Body(p), InRange(data, r.next)
    PROVE  Spells(WriteBody(r.val), p, r.next)
<1>1. PICK limits : limits = Struct(<<"method", "maxStack", "localCount", "initScopeDepth",
                                      "maxScopeDepth">>, p)
  OBVIOUS
<1>2. PICK code : code = String(limits.next)
  OBVIOUS
<1>3. PICK exceptions : exceptions = Counted(Exception, code.next)
  OBVIOUS
<1>4. PICK traits : traits = Counted(Trait, exceptions.next)
  OBVIOUS
<1>5. PICK f, g, h : /\ f = Set(limits.val, "code", code.val)
                     /\ g = Set(f, "exceptions", exceptions.val)
                     /\ h = Set(g, "traits", traits.val)
  OBVIOUS
<1>6. r = [val |-> h, next |-> traits.next]
  <2>1. Set(Set(Set(limits.val, "code", code.val), "exceptions", exceptions.val), "traits", traits.val) = h
    BY <1>5
  <2>2. Body(p) = [val |-> Set(Set(Set(limits.val, "code", code.val), "exceptions", exceptions.val),
                               "traits", traits.val), next |-> traits.next]
    BY <1>1, <1>2, <1>3, <1>4, Zenon DEF Body, TraitList, Got
  <2> QED
    BY <2>1, <2>2, Zenon
<1>7. r.val = h /\ r.next = traits.next /\ ParseType
  BY <1>6
<1>8. Onward(p, limits.next) /\ limits.next \in Places
  <2>1. Len(<<"method", "maxStack", "localCount", "initScopeDepth", "maxScopeDepth">>) \in Nat
    OBVIOUS
  <2> QED
    BY <1>1, <1>7, <2>1, StructEnds DEF Onward
<1>9. Forward(limits.next, code.next) /\ code.next \in Places
  BY <1>2, <1>7, <1>8, StringEnds DEF Forward
<1>10. Forward(code.next, exceptions.next) /\ exceptions.next \in Places
  BY <1>3, <1>7, <1>9, CountedExceptionsEnd DEF Forward
<1>11. Forward(exceptions.next, traits.next)
  BY <1>4, <1>7, <1>10, CountedTraitsEnd
<1>12. InRange(data, traits.next) /\ InRange(data, exceptions.next)
  BY <1>7, <1>10, <1>11, InRangeBack
<1>13. InRange(data, code.next)
  BY <1>7, <1>9, <1>10, <1>12, InRangeBack
<1>14. InRange(data, limits.next)
  BY <1>7, <1>8, <1>9, <1>13, InRangeBack
<1>15. PICK s, e, k : /\ s = WriteU30s(<<limits.val["method"], limits.val["maxStack"],
                                        limits.val["localCount"], limits.val["initScopeDepth"],
                                        limits.val["maxScopeDepth"]>>)
                      /\ e = WriteList(WriteException, exceptions.val)
                      /\ k = WriteList(WriteTrait, traits.val)
  OBVIOUS
<1>16. /\ Spells(s, p, limits.next)
       /\ \A x : x \in DOMAIN limits.val <=> \/ x = "method" \/ x = "maxStack" \/ x = "localCount"
                                             \/ x = "initScopeDepth" \/ x = "maxScopeDepth"
  BY <1>1, <1>14, <1>15, LimitsSpelled
<1>17. Spells(WriteString(code.val), limits.next, code.next)
  BY <1>2, <1>8, <1>13, StringSpelled
<1>18. Spells(e, code.next, exceptions.next)
  BY <1>3, <1>9, <1>12, <1>15, CountedExceptionsSpelled
<1>19. Spells(k, exceptions.next, traits.next)
  BY <1>4, <1>10, <1>12, <1>15, CountedTraitsSpelled
<1>20. Spells(s \o WriteString(code.val), p, code.next)
  BY <1>16, <1>17, SpellsOn
<1>21. Spells(s \o WriteString(code.val) \o e, p, exceptions.next)
  BY <1>18, <1>20, SpellsOn
<1>22. Spells(s \o WriteString(code.val) \o e \o k, p, traits.next)
  BY <1>19, <1>21, SpellsOn
<1>23. /\ h["code"] = code.val /\ h["exceptions"] = exceptions.val /\ h["traits"] = traits.val
       /\ \A x \in DOMAIN limits.val : h[x] = limits.val[x]
  <2>1. PICK l, a, b, c : l = limits.val /\ a = code.val /\ b = exceptions.val /\ c = traits.val
    OBVIOUS
  <2>2. f = Set(l, "code", a) /\ g = Set(f, "exceptions", b) /\ h = Set(g, "traits", c)
    BY <1>5, <2>1
  <2>3. \A x \in DOMAIN l : x # "code" /\ x # "exceptions" /\ x # "traits"
    BY <1>16, <2>1
  <2>4. f["code"] = a /\ "code" \in DOMAIN f /\ \A x \in DOMAIN l : x \in DOMAIN f /\ f[x] = l[x]
    BY <2>2, <2>3 DEF Set
  <2>5. /\ g["exceptions"] = b /\ "exceptions" \in DOMAIN g
        /\ g["code"] = a /\ "code" \in DOMAIN g
        /\ \A x \in DOMAIN l : x \in DOMAIN g /\ g[x] = l[x]
    BY <2>2, <2>3, <2>4 DEF Set
  <2>6. /\ h["traits"] = c /\ h["exceptions"] = b /\ h["code"] = a
        /\ \A x \in DOMAIN l : h[x] = l[x]
    BY <2>2, <2>3, <2>5 DEF Set
  <2> QED
    BY <2>1, <2>6
<1>24. WriteBody(h) = s \o WriteString(code.val) \o e \o k
  <2>1. /\ h.method = limits.val["method"] /\ h.maxStack = limits.val["maxStack"]
        /\ h.localCount = limits.val["localCount"]
        /\ h.initScopeDepth = limits.val["initScopeDepth"]
        /\ h.maxScopeDepth = limits.val["maxScopeDepth"]
        /\ h.code = code.val /\ h.exceptions = exceptions.val /\ h.traits = traits.val
    BY <1>16, <1>23
  <2>2. WriteBody(h) = WriteU30s(<<h.method, h.maxStack, h.localCount, h.initScopeDepth, h.maxScopeDepth>>)
                       \o WriteString(h.code) \o WriteList(WriteException, h.exceptions)
                       \o WriteList(WriteTrait, h.traits)
    BY Zenon DEF WriteBody
  <2>3. e = WriteList(WriteException, h.exceptions) /\ k = WriteList(WriteTrait, h.traits)
    BY <1>15, <2>1, Zenon
  <2>4. s = WriteU30s(<<h.method, h.maxStack, h.localCount, h.initScopeDepth, h.maxScopeDepth>>)
    BY <1>15, <2>1
  <2> QED
    BY <2>1, <2>2, <2>3, <2>4, Zenon
<1> QED
  BY <1>7, <1>22, <1>24

\* The names of the parameters, if they are there.
LEMMA NamesSpelled ==
    ASSUME ParseType, NEW c \in BOOLEAN, NEW n \in Nat, NEW none, NEW p \in Places, NEW r,
           r = IF c THEN List(U30, n, p) ELSE Got(none, p), InRange(data, r.next)
    PROVE  /\ InRange(data, p)
           /\ Spells(IF c THEN WriteU30s([i \in 1..n |-> r.val[i]]) ELSE <<>>, p, r.next)
<1>1. CASE c
  <2>1. r = List(U30, n, p)
    BY <1>1
  <2>2. Onward(p, r.next)
    BY <2>1, U30sEnd
  <2>3. /\ r.val \in Seq(Nat) /\ Len(r.val) = n
        /\ Spells(FlattenSeq([i \in DOMAIN r.val |-> WriteU30(r.val[i])]), p, r.next)
    BY <2>1, U30sSpelled
  <2>4. PICK v : v = r.val
    OBVIOUS
  <2>5. v = [i \in 1..n |-> v[i]]
    BY <2>3, <2>4, LenProperties
  <2>6. Spells(WriteU30s(v), p, r.next)
    BY <2>3, <2>4, Zenon DEF WriteU30s
  <2>7. InRange(data, p)
    BY <2>2, InRangeBack
  <2> QED
    BY <1>1, <2>4, <2>5, <2>6, <2>7
<1>2. CASE ~c
  <2>1. r.next = p
    BY <1>2 DEF Got
  <2>2. p \in Nat
    BY PlacesType
  <2>3. Spells(<<>>, p, p)
    BY <2>1, <2>2, SpellsNothing DEF InRange
  <2> QED
    BY <1>2, <2>1, <2>3
<1> QED
  BY <1>1, <1>2

LEMMA MethodSpelled ==
    ASSUME ParseType, NEW p \in Places, NEW r, r = Method(p), InRange(data, r.next)
    PROVE  Spells(WriteMethod(r.val), p, r.next)
<1>1. PICK count : count = U30(p)
  OBVIOUS
<1>2. PICK returns : returns = U30(count.next)
  OBVIOUS
<1>3. PICK types : types = List(U30, count.val, returns.next)
  OBVIOUS
<1>4. PICK name : name = U30(types.next)
  OBVIOUS
<1>5. PICK flags : flags = U8(name.next)
  OBVIOUS
<1>6. PICK options : options = IF Flag(flags.val, 8) THEN Counted(Option, flags.next)
                               ELSE Got(<<>>, flags.next)
  OBVIOUS
<1>7. PICK names : names = IF Flag(flags.val, 128) THEN List(U30, count.val, options.next)
                           ELSE Got([i \in 1..count.val |-> 0], options.next)
  OBVIOUS
<1>8. PICK params : params = [i \in 1..count.val |-> [type |-> types.val[i], name |-> names.val[i]]]
  OBVIOUS
<1>9. PICK m : m = [params |-> params, returnType |-> returns.val, name |-> name.val,
                    flags |-> flags.val, options |-> options.val]
  OBVIOUS
<1>10. PICK fits : fits = (returns.next + count.val <= Len(data))
  OBVIOUS
<1>11. r = IF ~fits THEN Thrown ELSE [val |-> m, next |-> names.next]
  BY <1>1, <1>2, <1>3, <1>4, <1>5, <1>6, <1>7, <1>8, <1>9, <1>10, Zenon DEF Method, Got
<1>12. ParseType /\ ~InRange(data, Thrown.next)
  BY ThrownIsOut
<1>13. r = [val |-> m, next |-> names.next]
  BY <1>11, <1>12
<1>14. r.val = m /\ r.next = names.next
  BY <1>13
<1>15. PICK n \in Nat : n = count.val
  BY <1>1, <1>12, U30Ends
<1>16. PICK c \in BOOLEAN : c = Flag(flags.val, 8)
  BY DEF Flag
<1>17. PICK d \in BOOLEAN : d = Flag(flags.val, 128)
  BY DEF Flag
<1>18. PICK none : none = [i \in 1..n |-> 0]
  OBVIOUS
<1>19. /\ types = List(U30, n, returns.next)
       /\ options = IF c THEN Counted(Option, flags.next) ELSE Got(<<>>, flags.next)
       /\ names = IF d THEN List(U30, n, options.next) ELSE Got(none, options.next)
       /\ params = [i \in 1..n |-> [type |-> types.val[i], name |-> names.val[i]]]
  BY <1>3, <1>6, <1>7, <1>8, <1>15, <1>16, <1>17, <1>18
<1>20. PICK o, v : /\ o = IF c THEN WriteList(WriteOption, options.val) ELSE <<>>
                   /\ v = IF d THEN WriteU30s([i \in 1..n |-> names.val[i]]) ELSE <<>>
  OBVIOUS
<1>21. Forward(p, count.next) /\ count.next \in Places
  BY <1>1, <1>12, U30Ends DEF Forward
<1>22. Forward(count.next, returns.next) /\ returns.next \in Places
  BY <1>2, <1>12, <1>21, U30Ends DEF Forward
<1>23. Onward(returns.next, types.next) /\ types.next \in Places
  BY <1>12, <1>19, <1>22, U30sEnd DEF Onward
<1>24. Forward(types.next, name.next) /\ name.next \in Places
  BY <1>4, <1>12, <1>23, U30Ends DEF Forward
<1>25. Forward(name.next, flags.next) /\ flags.next \in Places
  BY <1>5, <1>12, <1>24, U8Ends DEF Forward
<1>26. Onward(flags.next, options.next)
       /\ (InRange(data, options.next) => Spells(o, flags.next, options.next))
  BY <1>19, <1>20, <1>25, MaybeOptions
<1>27. options.next \in Places
  BY <1>26 DEF Onward
<1>28. InRange(data, options.next) /\ Spells(v, options.next, names.next)
  BY <1>14, <1>19, <1>20, <1>27, NamesSpelled
<1>29. InRange(data, flags.next)
  BY <1>12, <1>25, <1>26, <1>28, InRangeBack
<1>30. InRange(data, name.next)
  BY <1>12, <1>24, <1>25, <1>29, InRangeBack
<1>31. InRange(data, types.next)
  BY <1>12, <1>23, <1>24, <1>30, InRangeBack
<1>32. InRange(data, returns.next)
  BY <1>12, <1>22, <1>23, <1>31, InRangeBack
<1>33. InRange(data, count.next)
  BY <1>12, <1>21, <1>22, <1>32, InRangeBack
<1>34. Spells(WriteU30(count.val), p, count.next)
  BY <1>1, <1>33, U30Spelled
<1>35. Spells(WriteU30(returns.val), count.next, returns.next)
  BY <1>2, <1>21, <1>32, U30Spelled
<1>36. PICK t : t = WriteU30s(types.val)
  OBVIOUS
<1>37. Spells(t, returns.next, types.next) /\ types.val = [i \in 1..n |-> types.val[i]]
  <2>1. /\ types.val \in Seq(Nat) /\ Len(types.val) = n
        /\ Spells(FlattenSeq([i \in DOMAIN types.val |-> WriteU30(types.val[i])]), returns.next, types.next)
    BY <1>19, <1>22, <1>31, U30sSpelled
  <2>2. types.val = [i \in 1..n |-> types.val[i]]
    BY <2>1, LenProperties
  <2> QED
    BY <1>36, <2>1, <2>2, Zenon DEF WriteU30s
<1>38. Spells(WriteU30(name.val), types.next, name.next)
  BY <1>4, <1>23, <1>30, U30Spelled
<1>39. Spells(WriteU8(flags.val), name.next, flags.next)
  BY <1>5, <1>12, <1>24, <1>29, U8Spelled
<1>40. PICK a, b, e, f : /\ a = WriteU30(count.val) /\ b = WriteU30(returns.val)
                         /\ e = WriteU30(name.val) /\ f = WriteU8(flags.val)
  OBVIOUS
<1>41. Spells(a \o b, p, returns.next)
  BY <1>34, <1>35, <1>40, SpellsOn
<1>42. Spells(a \o b \o t, p, types.next)
  BY <1>37, <1>41, SpellsOn
<1>43. Spells(a \o b \o t \o e, p, name.next)
  BY <1>38, <1>40, <1>42, SpellsOn
<1>44. Spells(a \o b \o t \o e \o f, p, flags.next)
  BY <1>39, <1>40, <1>43, SpellsOn
<1>45. Spells(a \o b \o t \o e \o f \o o, p, options.next)
  BY <1>26, <1>28, <1>44, SpellsOn
<1>46. Spells(a \o b \o t \o e \o f \o o \o v, p, names.next)
  BY <1>28, <1>45, SpellsOn
<1>47. WriteMethod(m) = a \o b \o t \o e \o f \o o \o v
  <2>1. /\ m.params = params /\ m.returnType = returns.val /\ m.name = name.val
        /\ m.flags = flags.val /\ m.options = options.val
    BY <1>9
  <2>2. PICK x, y : /\ x = [i \in DOMAIN m.params |-> m.params[i].type]
                    /\ y = [i \in DOMAIN m.params |-> m.params[i].name]
    OBVIOUS
  <2>3. DOMAIN params = 1..n /\ Len(params) = n
    BY <1>19
  <2>4. x = types.val /\ y = [i \in 1..n |-> names.val[i]]
    <3>1. \A i \in 1..n : params[i].type = types.val[i] /\ params[i].name = names.val[i]
      BY <1>19
    <3>2. x = [i \in 1..n |-> types.val[i]] /\ y = [i \in 1..n |-> names.val[i]]
      BY <2>1, <2>2, <2>3, <3>1
    <3> QED
      BY <1>37, <3>2
  <2>5. WriteMethod(m) = WriteU30(Len(m.params)) \o WriteU30(m.returnType) \o WriteU30s(x)
          \o WriteU30(m.name) \o WriteU8(m.flags)
          \o (IF Flag(m.flags, 8) THEN WriteList(WriteOption, m.options) ELSE <<>>)
          \o (IF Flag(m.flags, 128) THEN WriteU30s(y) ELSE <<>>)
    BY <2>2, Zenon DEF WriteMethod
  <2>6. o = IF Flag(m.flags, 8) THEN WriteList(WriteOption, m.options) ELSE <<>>
    BY <1>16, <1>20, <2>1, Zenon
  <2>7. v = IF Flag(m.flags, 128) THEN WriteU30s(y) ELSE <<>>
    BY <1>17, <1>20, <2>1, <2>4
  <2>8. /\ a = WriteU30(Len(m.params)) /\ b = WriteU30(m.returnType) /\ t = WriteU30s(x)
        /\ e = WriteU30(m.name) /\ f = WriteU8(m.flags)
    BY <1>15, <1>36, <1>40, <2>1, <2>3, <2>4
  <2> QED
    BY <2>5, <2>6, <2>7, <2>8, Zenon
<1> QED
  BY <1>14, <1>46, <1>47

\* An entry of any table is written with the bytes it was read from.
LEMMA EntrySpelled ==
    ASSUME ParseType, NEW table \in Names, NEW p \in Places, NEW r, r = Entry(table, p), InRange(data, r.next)
    PROVE  Spells(WriteEntry(table, r.val), p, r.next)
<1>1. CASE table \in {"ints", "uints"}
  <2>1. r = U32(p) /\ WriteEntry(table, r.val) = WriteBytes(r.val)
    BY <1>1 DEF Entry, WriteEntry
  <2> QED
    BY <2>1, U32Spelled
<1>2. CASE table = "doubles"
  <2>1. PICK n \in Nat : n = 8
    OBVIOUS
  <2>2. r = Bytes(p, n) /\ WriteEntry(table, r.val) = WriteBytes(r.val)
    BY <1>2, <2>1 DEF Entry, WriteEntry
  <2> QED
    BY <2>2, BytesSpelled
<1>3. CASE table = "strings"
  <2>1. r = String(p) /\ WriteEntry(table, r.val) = WriteString(r.val)
    BY <1>3 DEF Entry, WriteEntry
  <2> QED
    BY <2>1, StringSpelled
<1>4. CASE table = "namespaces"
  <2>1. r = Namespace(p) /\ WriteEntry(table, r.val) = WriteNamespace(r.val)
    BY <1>4 DEF Entry, WriteEntry
  <2> QED
    BY <2>1, NamespaceSpelled
<1>5. CASE table = "multinames"
  <2>1. r = Multiname(p) /\ WriteEntry(table, r.val) = WriteMultiname(r.val)
    BY <1>5 DEF Entry, WriteEntry
  <2> QED
    BY <2>1, MultinameSpelled
<1>6. CASE table = "methods"
  <2>1. r = Method(p) /\ WriteEntry(table, r.val) = WriteMethod(r.val)
    BY <1>6 DEF Entry, WriteEntry
  <2> QED
    BY <2>1, MethodSpelled
<1>7. CASE table = "metadatas"
  <2>1. r = Metadata(p) /\ WriteEntry(table, r.val) = WriteMetadata(r.val)
    BY <1>7 DEF Entry, WriteEntry
  <2> QED
    BY <2>1, MetadataSpelled
<1>8. CASE table = "instances"
  <2>1. r = Instance(p) /\ WriteEntry(table, r.val) = WriteInstance(r.val)
    BY <1>8 DEF Entry, WriteEntry
  <2> QED
    BY <2>1, InstanceSpelled
<1>9. CASE table = "bodies"
  <2>1. r = Body(p) /\ WriteEntry(table, r.val) = WriteBody(r.val)
    BY <1>9 DEF Entry, WriteEntry
  <2> QED
    BY <2>1, BodySpelled
<1>10. CASE table = "namespaceSets"
  <2>1. r = Counted(U30, p)
    BY <1>10 DEF Entry, NamespaceSet
  <2>2. WriteEntry(table, r.val) = WriteList(WriteU30, r.val)
    BY <1>10 DEF WriteEntry
  <2> QED
    BY <2>1, <2>2, CountedU30sSpelled
<1>11. CASE table = "classes"
  <2>1. PICK a : a = "cinit"
    OBVIOUS
  <2>2. a # "traits" /\ r = Initialised(a, p) /\ WriteEntry(table, r.val) = WriteClass(r.val)
    BY <1>11, <2>1 DEF Entry, WriteEntry
  <2>3. Spells(WriteU30(r.val[a]) \o WriteList(WriteTrait, r.val["traits"]), p, r.next)
    BY <2>2, InitialisedSpelled
  <2>4. WriteClass(r.val) = WriteU30(r.val[a]) \o WriteList(WriteTrait, r.val["traits"])
    BY <2>1, Zenon DEF WriteClass
  <2> QED
    BY <2>2, <2>3, <2>4, Zenon
<1>12. CASE table = "scripts"
  <2>1. PICK a : a = "init"
    OBVIOUS
  <2>2. a # "traits" /\ r = Initialised(a, p) /\ WriteEntry(table, r.val) = WriteScript(r.val)
    BY <1>12, <2>1 DEF Entry, WriteEntry
  <2>3. Spells(WriteU30(r.val[a]) \o WriteList(WriteTrait, r.val["traits"]), p, r.next)
    BY <2>2, InitialisedSpelled
  <2>4. WriteScript(r.val) = WriteU30(r.val[a]) \o WriteList(WriteTrait, r.val["traits"])
    BY <2>1, Zenon DEF WriteScript
  <2> QED
    BY <2>2, <2>3, <2>4, Zenon
<1> QED
  BY <1>1, <1>2, <1>3, <1>4, <1>5, <1>6, <1>7, <1>8, <1>9, <1>10, <1>11, <1>12 DEF Names

-----------------------------------------------------------------------------
(***************************************************************************)
(* The tables, one behind the other.                                       *)
(***************************************************************************)

LEMMA U16Spelled ==
    ASSUME ParseType, NEW p \in Places, NEW r, r = U16(p), InRange(data, r.next)
    PROVE  Spells(WriteU16(r.val), p, r.next)
<1>1. p \in Nat /\ p + 2 \in Nat /\ p + 1 + 1 = p + 2 /\ Len(data) \in Nat
  BY PlacesType, LenProperties DEF ParseType
<1>2. PICK a, b : a = data[p + 1] /\ b = data[p + 2]
  OBVIOUS
<1>3. r = Checked(a + 256 * b, p + 2)
  BY <1>1, <1>2 DEF U16, ByteAt
<1>4. p + 2 <= Len(data) /\ r.val = a + 256 * b /\ r.next = p + 2
  BY <1>1, <1>3, CheckedIs
<1>5. a \in 0..255 /\ b \in 0..255
  <2>1. p + 1 \in 1..Len(data) /\ p + 2 \in 1..Len(data)
    BY <1>1, <1>4
  <2> QED
    BY <1>2, <2>1, ElementOfSeq DEF ParseType, Byte
<1>6. (a + 256 * b) % 256 = a /\ (a + 256 * b) \div 256 = b
  BY ONLY <1>5
<1>7. PICK s : s = <<a, b>>
  OBVIOUS
<1>8. Spells(WriteBytes(s), p, p + 2)
  <2>1. PICK n \in Nat : n = 2
    OBVIOUS
  <2>2. DOMAIN s = 1..n /\ s[1] = a /\ s[2] = b
    BY <1>7, <2>1
  <2>3. \A i \in 1..n : i = 1 \/ i = 2
    BY <2>1
  <2>4. \A i \in 1..n : s[i] = data[p + i]
    BY <1>2, <2>2, <2>3
  <2> QED
    BY <1>1, <1>4, <2>1, <2>2, <2>4, SpellsBytes
<1>9. WriteU16(r.val) = WriteBytes(s)
  BY <1>4, <1>6, <1>7 DEF WriteU16
<1> QED
  BY <1>4, <1>8, <1>9

\* Where a table is in the file.
Position == [t \in Names |-> CHOOSE i \in 1..13 : TableOrder[i] = t]

LEMMA OrderIs ==
    /\ DOMAIN TableOrder = 1..13 /\ Len(TableOrder) = 13
    /\ \A i \in 1..13 : TableOrder[i] \in Names
    /\ \A t \in Names : Position[t] \in 1..13 /\ TableOrder[Position[t]] = t
    /\ \A i, j \in 1..13 : TableOrder[i] = TableOrder[j] => i = j
    /\ Last(TableOrder) = "bodies"
<1>1. PICK order : order = TableOrder
  OBVIOUS
<1>2. /\ DOMAIN order = 1..13 /\ Len(order) = 13
      /\ order[1] = "ints"
      /\ order[2] = "uints"
      /\ order[3] = "doubles"
      /\ order[4] = "strings"
      /\ order[5] = "namespaces"
      /\ order[6] = "namespaceSets"
      /\ order[7] = "multinames"
      /\ order[8] = "methods"
      /\ order[9] = "metadatas"
      /\ order[10] = "instances"
      /\ order[11] = "classes"
      /\ order[12] = "scripts"
      /\ order[13] = "bodies"
  BY <1>1 DEF TableOrder
<1>3. \A i \in 1..13 : i \in {1, 2, 3, 4, 5, 6, 7, 8, 9, 10, 11, 12, 13}
  OBVIOUS
<1>4. \A i \in 1..13 : order[i] \in Names
  BY ONLY <1>2, <1>3 DEF Names
<1>5. \A t \in Names : \E i \in 1..13 : order[i] = t
  <2>1. 1 \in 1..13 /\ 2 \in 1..13 /\ 3 \in 1..13 /\ 4 \in 1..13 /\ 5 \in 1..13 /\ 6 \in 1..13 /\ 7 \in 1..13 /\ 8 \in 1..13 /\ 9 \in 1..13 /\ 10 \in 1..13 /\ 11 \in 1..13 /\ 12 \in 1..13 /\ 13 \in 1..13
    OBVIOUS
  <2> QED
    BY ONLY <1>2, <2>1 DEF Names
<1>6. \A i, j \in 1..13 : order[i] = order[j] => i = j
  BY ONLY <1>2, <1>3
<1>7. \A t \in Names : Position[t] \in 1..13 /\ TableOrder[Position[t]] = t
  BY <1>1, <1>5 DEF Position
<1>8. Last(order) = "bodies"
  BY ONLY <1>2 DEF Last
<1> QED
  BY <1>1, <1>2, <1>4, <1>6, <1>7, <1>8

LEMMA FollowingIs ==
    ASSUME NEW k \in 1..13
    PROVE  Following(TableOrder[k]) = IF k = 13 THEN "returned" ELSE TableOrder[k + 1]
<1>1. PICK order : order = TableOrder
  OBVIOUS
<1>2. /\ DOMAIN order = 1..13 /\ Last(order) = "bodies"
      /\ \A i, j \in 1..13 : order[i] = order[j] => i = j
  BY <1>1, OrderIs
<1>3. order[13] = "bodies"
  BY <1>1 DEF TableOrder
<1>4. (CHOOSE i \in DOMAIN order : order[i] = order[k]) = k
  BY <1>2
<1>5. order[k] = Last(order) <=> k = 13
  <2>1. 13 \in 1..13
    OBVIOUS
  <2> QED
    BY <1>2, <1>3, <2>1
<1>6. Following(order[k]) = IF order[k] = Last(order) THEN "returned"
                            ELSE order[1 + CHOOSE i \in DOMAIN order : order[i] = order[k]]
  <2>1. Following(TableOrder[k]) =
          IF TableOrder[k] = Last(TableOrder) THEN "returned"
          ELSE TableOrder[1 + CHOOSE i \in DOMAIN TableOrder : TableOrder[i] = TableOrder[k]]
    BY Zenon DEF Following
  <2> QED
    BY <1>1, <2>1
<1>7. Following(order[k]) = IF k = 13 THEN "returned" ELSE order[1 + k]
  BY <1>4, <1>5, <1>6
<1>8. 1 + k = k + 1
  OBVIOUS
<1> QED
  BY <1>1, <1>7, <1>8

Header(f) == WriteU16(f["version"].minor) \o WriteU16(f["version"].major)

\* Up to q, the file says the version and the first k tables of f; ones are
\* the empty tables that are counted as 1.
WrittenTo(f, k, ones, q) ==
    /\ ones \subseteq PoolTables
    /\ \A i \in 1..13 : TableOrder[i] \in ones => i <= k /\ f[TableOrder[i]] = <<>>
    /\ Header(f) \in Seq(Piece)
    /\ \E ss \in Seq(Seq(Piece)) :
         /\ Len(ss) = k
         /\ \A i \in 1..k : ss[i] = WriteTable(TableOrder[i], f[TableOrder[i]], ones)
         /\ Spells(Header(f) \o FlattenSeq(ss), 0, q)

\* From q to p, the file says the count of the table t and the entries read so
\* far; as many as turns are still to be read.
InTable(t, entries, turns, q, p) ==
    /\ turns \in Nat
    /\ \E one \in BOOLEAN, ts \in Seq(Seq(Piece)) : \E s :
         /\ one => t \in PoolTables /\ entries = <<>> /\ turns = 0
         /\ Spells(WriteCount(t, Len(entries) + turns, IF one THEN {t} ELSE {}), q, s)
         /\ Spells(FlattenSeq(ts), s, p)
         /\ Len(ts) = Len(entries)
         /\ \A i \in 1..Len(ts) : ts[i] = WriteEntry(t, entries[i])

LEMMA VersionRead ==
    ASSUME ParseType, NEW minor, NEW major, 0 \in Places, minor = U16(0), major = U16(minor.next),
           InRange(data, major.next),
           NEW f, f["version"] = [minor |-> minor.val, major |-> major.val]
    PROVE  WrittenTo(f, 0, {}, major.next)
<1>1. PICK p \in Places : p = 0
  OBVIOUS
<1>2. minor = U16(p) /\ minor.next \in Places
  BY <1>1, U16Ends DEF Forward
<1>3. Forward(minor.next, major.next)
  BY <1>2, U16Ends
<1>4. InRange(data, minor.next)
  BY <1>2, <1>3, InRangeBack
<1>5. Spells(WriteU16(minor.val), p, minor.next)
  BY <1>2, <1>4, U16Spelled
<1>6. Spells(WriteU16(major.val), minor.next, major.next)
  BY <1>2, U16Spelled
<1>7. PICK h : h = Header(f)
  OBVIOUS
<1>8. h = WriteU16(minor.val) \o WriteU16(major.val)
  BY <1>7 DEF Header
<1>9. Spells(h, p, major.next)
  BY <1>5, <1>6, <1>8, SpellsOn
<1>10. h \in Seq(Piece) /\ h \o <<>> = h
  BY <1>9, ConcatEmptySeq DEF Spells
<1>11. /\ <<>> \in Seq(Seq(Piece)) /\ Len(<<>>) = 0
       /\ Spells(h \o FlattenSeq(<<>>), 0, major.next)
  BY <1>1, <1>9, <1>10, FlattenNone, EmptySeq
<1>12. \A i \in 1..0 : FALSE
  OBVIOUS
<1>13. \E ss \in Seq(Seq(Piece)) :
         /\ Len(ss) = 0
         /\ \A i \in 1..0 : ss[i] = WriteTable(TableOrder[i], f[TableOrder[i]], {})
         /\ Spells(h \o FlattenSeq(ss), 0, major.next)
  BY <1>11, <1>12
<1> QED
  BY <1>7, <1>10, <1>13 DEF WrittenTo

\* Other tables may change.
LEMMA WrittenSame ==
    ASSUME NEW f, NEW g, NEW k \in 0..13, NEW ones, NEW q, WrittenTo(f, k, ones, q),
           g["version"] = f["version"], \A i \in 1..k : g[TableOrder[i]] = f[TableOrder[i]]
    PROVE  WrittenTo(g, k, ones, q)
<1>1. Header(g) = Header(f)
  BY DEF Header
<1>2. PICK ss \in Seq(Seq(Piece)) :
         /\ Len(ss) = k
         /\ \A i \in 1..k : ss[i] = WriteTable(TableOrder[i], f[TableOrder[i]], ones)
         /\ Spells(Header(f) \o FlattenSeq(ss), 0, q)
  BY DEF WrittenTo
<1>3. \A i \in 1..k : ss[i] = WriteTable(TableOrder[i], g[TableOrder[i]], ones)
  BY <1>2
<1>4. \A i \in 1..13 : TableOrder[i] \in ones => i <= k /\ g[TableOrder[i]] = <<>>
  <2> TAKE i \in 1..13
  <2> HAVE TableOrder[i] \in ones
  <2>1. i <= k /\ f[TableOrder[i]] = <<>>
    BY DEF WrittenTo
  <2>2. i \in 1..k
    BY <2>1
  <2> QED
    BY <2>1, <2>2
<1> QED
  BY <1>1, <1>2, <1>3, <1>4 DEF WrittenTo

LEMMA WriteCountSame ==
    ASSUME NEW t, NEW n, NEW ones, NEW more, t \in ones <=> t \in more
    PROVE  WriteCount(t, n, ones) = WriteCount(t, n, more)
BY DEF WriteCount

LEMMA WriteTableSame ==
    ASSUME NEW t, NEW entries, NEW ones, NEW more, t \in ones <=> t \in more
    PROVE  WriteTable(t, entries, ones) = WriteTable(t, entries, more)
<1>1. WriteCount(t, Len(entries), ones) = WriteCount(t, Len(entries), more)
  BY WriteCountSame
<1> QED
  BY <1>1 DEF WriteTable

LEMMA CountRead ==
    ASSUME ParseType, NEW t \in Names, t # "classes", NEW p \in Places, NEW r, r = U30(p), InRange(data, r.next)
    PROVE  InTable(t, <<>>, Turns(t, r.val), p, r.next)
<1>1. ParseType /\ r.val \in Nat /\ r.next \in Places /\ r.next \in Nat /\ r.next <= Len(data)
  <2>1. ParseType /\ Forward(p, r.next) /\ r.val \in Nat
    BY U30Ends
  <2> QED
    BY <2>1, PlacesType DEF Forward, InRange
<1>2. Spells(WriteU30(r.val), p, r.next)
  BY U30Spelled
<1>3. PICK n : n = Turns(t, r.val)
  OBVIOUS
<1>4. PICK one \in BOOLEAN : one <=> t \in PoolTables /\ r.val = 1
  OBVIOUS
<1>5. n \in Nat /\ (one => t \in PoolTables /\ n = 0)
  BY <1>1, <1>3, <1>4 DEF Turns
<1>6. PICK ones : ones = IF one THEN {t} ELSE {}
  OBVIOUS
<1>7. WriteCount(t, 0 + n, ones) = WriteU30(r.val)
  <2>1. 0 + n = n
    BY <1>5
  <2>2. CASE t \in PoolTables
    <3>1. WriteCount(t, n, ones) = WriteU30(IF n > 0 THEN n + 1 ELSE IF t \in ones THEN 1 ELSE 0)
      BY <2>2 DEF WriteCount
    <3>2. (IF n > 0 THEN n + 1 ELSE IF t \in ones THEN 1 ELSE 0) = r.val
      BY <1>1, <1>3, <1>4, <1>6, <2>2 DEF Turns
    <3> QED
      BY <2>1, <3>1, <3>2
  <2>3. CASE t \notin PoolTables
    <3>1. WriteCount(t, n, ones) = WriteU30(n)
      BY <2>3 DEF WriteCount
    <3>2. n = r.val
      BY <1>3, <2>3 DEF Turns
    <3> QED
      BY <2>1, <3>1, <3>2
  <2> QED
    BY <2>2, <2>3
<1>8. Spells(FlattenSeq(<<>>), r.next, r.next)
  BY <1>1, SpellsNothing, FlattenNone
<1>9. <<>> \in Seq(Seq(Piece)) /\ Len(<<>>) = 0
  BY EmptySeq
<1>10. \A i \in 1..0 : FALSE
  OBVIOUS
<1>11. Spells(WriteCount(t, Len(<<>>) + n, IF one THEN {t} ELSE {}), p, r.next)
  BY <1>2, <1>6, <1>7, <1>9
<1> QED
  BY <1>3, <1>5, <1>8, <1>9, <1>10, <1>11 DEF InTable

\* class_count has been read once, before the instances.
LEMMA ClassesSized ==
    ASSUME NEW t, t = "classes", NEW n \in Nat, NEW p \in Nat, p <= Len(data)
    PROVE  InTable(t, <<>>, n, p, p)
<1>1. PICK one \in BOOLEAN : ~one
  OBVIOUS
<1>2. WriteCount(t, Len(<<>>) + n, IF one THEN {t} ELSE {}) = <<>>
  BY DEF WriteCount, PoolTables
<1>3. Spells(FlattenSeq(<<>>), p, p) /\ Spells(<<>>, p, p)
  BY SpellsNothing, FlattenNone
<1>4. <<>> \in Seq(Seq(Piece)) /\ Len(<<>>) = 0
  BY EmptySeq
<1>5. \A i \in 1..0 : FALSE
  OBVIOUS
<1> QED
  BY <1>1, <1>2, <1>3, <1>4, <1>5 DEF InTable

\* One entry more, and one turn less.
LEMMA EntryRead ==
    ASSUME ParseType, NEW t \in Names, NEW S, NEW entries \in Seq(S), NEW turns, turns # 0, NEW q,
           NEW p \in Places, InTable(t, entries, turns, q, p),
           NEW r, r = Entry(t, p), InRange(data, r.next), NEW more, more = Append(entries, r.val)
    PROVE  InTable(t, more, turns - 1, q, r.next)
<1>1. turns \in Nat /\ turns - 1 \in Nat
  BY DEF InTable
<1>2. PICK one \in BOOLEAN : \E ts \in Seq(Seq(Piece)) : \E s :
         /\ one => t \in PoolTables /\ entries = <<>> /\ turns = 0
         /\ Spells(WriteCount(t, Len(entries) + turns, IF one THEN {t} ELSE {}), q, s)
         /\ Spells(FlattenSeq(ts), s, p)
         /\ Len(ts) = Len(entries)
         /\ \A i \in 1..Len(ts) : ts[i] = WriteEntry(t, entries[i])
  BY DEF InTable
<1>3. PICK ts \in Seq(Seq(Piece)) : \E s :
         /\ one => t \in PoolTables /\ entries = <<>> /\ turns = 0
         /\ Spells(WriteCount(t, Len(entries) + turns, IF one THEN {t} ELSE {}), q, s)
         /\ Spells(FlattenSeq(ts), s, p)
         /\ Len(ts) = Len(entries)
         /\ \A i \in 1..Len(ts) : ts[i] = WriteEntry(t, entries[i])
  BY <1>2
<1>4. PICK s :
         /\ one => t \in PoolTables /\ entries = <<>> /\ turns = 0
         /\ Spells(WriteCount(t, Len(entries) + turns, IF one THEN {t} ELSE {}), q, s)
         /\ Spells(FlattenSeq(ts), s, p)
         /\ Len(ts) = Len(entries)
         /\ \A i \in 1..Len(ts) : ts[i] = WriteEntry(t, entries[i])
  BY <1>3
<1>5. ~one
  BY <1>4
<1>6. PICK u, v : u = WriteEntry(t, r.val) /\ v = r.val
  OBVIOUS
<1>7. Spells(u, p, r.next) /\ u \in Seq(Piece)
  <2>1. Spells(u, p, r.next)
    BY <1>6, EntrySpelled
  <2> QED
    BY <2>1 DEF Spells
<1>8. PICK us : us = Append(ts, u)
  OBVIOUS
<1>9. FlattenSeq(us) = FlattenSeq(ts) \o u
  BY <1>7, <1>8, FlattenMore
<1>10. Spells(FlattenSeq(us), s, r.next)
  BY <1>4, <1>7, <1>9, SpellsOn
<1>11. PICK n \in Nat : n = Len(entries)
  BY LenProperties
<1>12. us \in Seq(Seq(Piece)) /\ Len(us) = n + 1 /\ us[n + 1] = u /\ \A i \in 1..n : us[i] = ts[i]
  <2>1. PICK TS : TS = Seq(Piece)
    OBVIOUS
  <2>2. ts \in Seq(TS) /\ Len(ts) = n /\ u \in TS
    BY <1>4, <1>7, <1>11, <2>1
  <2>3. us \in Seq(TS) /\ Len(us) = n + 1 /\ us[n + 1] = u /\ \A i \in 1..n : us[i] = ts[i]
    BY ONLY <1>8, <1>11, <2>2, AppendIs
  <2> QED
    BY <2>1, <2>3
<1>13. Len(more) = n + 1 /\ more[n + 1] = v /\ \A i \in 1..n : more[i] = entries[i]
  <2>1. PICK T : T = S \cup {v}
    OBVIOUS
  <2>2. entries \in Seq(T) /\ v \in T /\ Len(entries) = n
    <3>1. Len(entries) \in Nat /\ entries \in [1..Len(entries) -> S]
      BY LenProperties
    <3>2. entries \in [1..Len(entries) -> T]
      BY <2>1, <3>1
    <3> QED
      BY <1>11, <2>1, <3>1, <3>2, SeqDef
  <2>3. more = Append(entries, v)
    BY <1>6
  <2> QED
    BY ONLY <1>11, <2>2, <2>3, AppendIs
<1>14. Len(more) + (turns - 1) = Len(entries) + turns
  BY <1>1, <1>11, <1>13
<1>15. \A i \in 1..Len(us) : us[i] = WriteEntry(t, more[i])
  <2> TAKE i \in 1..Len(us)
  <2>1. CASE i \in 1..n
    BY <1>4, <1>11, <1>12, <1>13, <2>1
  <2>2. CASE i = n + 1
    BY <1>6, <1>12, <1>13, <2>2
  <2> QED
    BY <1>11, <1>12, <2>1, <2>2
<1>16. Spells(WriteCount(t, Len(more) + (turns - 1), IF one THEN {t} ELSE {}), q, s)
  BY <1>4, <1>14
<1>17. Len(us) = Len(more)
  BY <1>12, <1>13
<1> QED
  BY <1>1, <1>5, <1>10, <1>12, <1>15, <1>16, <1>17 DEF InTable

\* One table more.
LEMMA TableEnds ==
    ASSUME ParseType, NEW f, NEW k \in 1..13, NEW ones, NEW q, NEW p, NEW t, t = TableOrder[k],
           NEW S, f[t] \in Seq(S), WrittenTo(f, k - 1, ones, q), InTable(t, f[t], 0, q, p)
    PROVE  \E more : WrittenTo(f, k, more, p)
<1>1. PICK one \in BOOLEAN : \E ts \in Seq(Seq(Piece)) : \E s :
         /\ one => t \in PoolTables /\ f[t] = <<>> /\ 0 = 0
         /\ Spells(WriteCount(t, Len(f[t]) + 0, IF one THEN {t} ELSE {}), q, s)
         /\ Spells(FlattenSeq(ts), s, p)
         /\ Len(ts) = Len(f[t])
         /\ \A i \in 1..Len(ts) : ts[i] = WriteEntry(t, f[t][i])
  BY DEF InTable
<1>2. PICK ts \in Seq(Seq(Piece)) : \E s :
         /\ one => t \in PoolTables /\ f[t] = <<>>
         /\ Spells(WriteCount(t, Len(f[t]) + 0, IF one THEN {t} ELSE {}), q, s)
         /\ Spells(FlattenSeq(ts), s, p)
         /\ Len(ts) = Len(f[t])
         /\ \A i \in 1..Len(ts) : ts[i] = WriteEntry(t, f[t][i])
  BY <1>1
<1>3. PICK s :
         /\ one => t \in PoolTables /\ f[t] = <<>>
         /\ Spells(WriteCount(t, Len(f[t]) + 0, IF one THEN {t} ELSE {}), q, s)
         /\ Spells(FlattenSeq(ts), s, p)
         /\ Len(ts) = Len(f[t])
         /\ \A i \in 1..Len(ts) : ts[i] = WriteEntry(t, f[t][i])
  BY <1>2
<1>4. PICK ss \in Seq(Seq(Piece)) :
         /\ Len(ss) = k - 1
         /\ \A i \in 1..(k - 1) : ss[i] = WriteTable(TableOrder[i], f[TableOrder[i]], ones)
         /\ Spells(Header(f) \o FlattenSeq(ss), 0, q)
  BY DEF WrittenTo
<1>5. /\ ones \subseteq PoolTables
      /\ \A i \in 1..13 : TableOrder[i] \in ones => i <= k - 1 /\ f[TableOrder[i]] = <<>>
      /\ Header(f) \in Seq(Piece)
  BY DEF WrittenTo
<1>6. PICK m \in Nat : m = k - 1
  OBVIOUS
<1>7. k = m + 1 /\ k \in Nat
  BY <1>6
<1>8. PICK more : more = ones \cup (IF one THEN {t} ELSE {})
  OBVIOUS
<1>9. \A i \in 1..13 : TableOrder[i] = t => i = k
  BY OrderIs
<1>10. t \notin ones
  <2>1. ~(k <= k - 1)
    BY <1>7
  <2> QED
    BY <1>5, <2>1
<1>11. more \subseteq PoolTables
  BY <1>3, <1>5, <1>8
<1>12. \A i \in 1..13 : TableOrder[i] \in more => i <= k /\ f[TableOrder[i]] = <<>>
  <2> TAKE i \in 1..13
  <2> HAVE TableOrder[i] \in more
  <2>1. CASE TableOrder[i] \in ones
    <3>1. i <= k - 1 /\ f[TableOrder[i]] = <<>>
      BY <1>5, <2>1
    <3> QED
      BY <1>7, <3>1
  <2>2. CASE TableOrder[i] \notin ones
    <3>1. one /\ TableOrder[i] = t
      BY <1>8, <2>2
    <3>2. i = k /\ f[TableOrder[i]] = <<>>
      BY <1>3, <1>9, <3>1
    <3> QED
      BY <1>7, <3>2
  <2> QED
    BY <2>1, <2>2
<1>13. PICK c, u : c = WriteCount(t, Len(f[t]), more) /\ u = c \o FlattenSeq(ts)
  OBVIOUS
<1>14. Spells(c, q, s)
  <2>1. Len(f[t]) + 0 = Len(f[t])
    BY LenProperties
  <2>2. t \in more <=> t \in (IF one THEN {t} ELSE {})
    BY <1>8, <1>10
  <2>3. WriteCount(t, Len(f[t]), more) = WriteCount(t, Len(f[t]), IF one THEN {t} ELSE {})
    BY <2>2, WriteCountSame
  <2> QED
    BY <1>3, <1>13, <2>1, <2>3
<1>15. Spells(u, q, p) /\ u \in Seq(Piece)
  <2>1. Spells(u, q, p)
    BY <1>3, <1>13, <1>14, SpellsOn
  <2> QED
    BY <2>1 DEF Spells
<1>16. PICK h : h = Header(f)
  OBVIOUS
<1>17. Spells(h \o FlattenSeq(ss) \o u, 0, p)
  BY <1>4, <1>15, <1>16, SpellsOn
<1>18. PICK us : us = Append(ss, u)
  OBVIOUS
<1>19. h \o FlattenSeq(us) = h \o FlattenSeq(ss) \o u
  <2>1. FlattenSeq(us) = FlattenSeq(ss) \o u
    BY <1>15, <1>18, FlattenMore
  <2>2. PICK x \in Seq(Piece) : x = FlattenSeq(ss)
    BY FlattenType
  <2>3. h \in Seq(Piece) /\ x \in Seq(Piece) /\ u \in Seq(Piece)
    BY <1>5, <1>15, <1>16
  <2>4. (h \o x) \o u = h \o (x \o u)
    BY <2>3, ConcatAssociative
  <2> QED
    BY <2>1, <2>2, <2>4
<1>20. us \in Seq(Seq(Piece)) /\ Len(us) = m + 1 /\ us[m + 1] = u /\ \A i \in 1..m : us[i] = ss[i]
  <2>1. PICK TS : TS = Seq(Piece)
    OBVIOUS
  <2>2. ss \in Seq(TS) /\ Len(ss) = m /\ u \in TS
    BY <1>4, <1>6, <1>15, <2>1
  <2>3. us \in Seq(TS) /\ Len(us) = m + 1 /\ us[m + 1] = u /\ \A i \in 1..m : us[i] = ss[i]
    BY ONLY <1>6, <1>18, <2>2, AppendIs
  <2> QED
    BY <2>1, <2>3
<1>21. \A i \in 1..k : us[i] = WriteTable(TableOrder[i], f[TableOrder[i]], more)
  <2> TAKE i \in 1..k
  <2>1. CASE i \in 1..m
    <3>1. us[i] = WriteTable(TableOrder[i], f[TableOrder[i]], ones)
      BY <1>4, <1>6, <1>20, <2>1
    <3>2. TableOrder[i] # t
      <4>1. i \in 1..13 /\ i # k
        BY <1>7, <2>1
      <4> QED
        BY <1>9, <4>1
    <3>3. TableOrder[i] \in ones <=> TableOrder[i] \in more
      BY <1>8, <3>2
    <3> QED
      BY <3>1, <3>3, WriteTableSame
  <2>2. CASE i = k
    <3>1. WriteTable(t, f[t], more) = WriteCount(t, Len(f[t]), more) \o FlattenSeq(ts)
      <4>1. PICK g \in Seq(S) : g = f[t]
        OBVIOUS
      <4>2. PICK n \in Nat : n = Len(g)
        BY LenProperties
      <4>3. ts = [j \in 1..n |-> ts[j]] /\ DOMAIN g = 1..n
        BY <1>3, <4>1, <4>2, LenProperties
      <4>4. \A j \in 1..n : ts[j] = WriteEntry(t, g[j])
        BY <1>3, <4>1, <4>2
      <4>5. [j \in DOMAIN g |-> WriteEntry(t, g[j])] = ts
        BY <4>3, <4>4
      <4>6. WriteTable(t, g, more) = WriteCount(t, Len(g), more) \o FlattenSeq(ts)
        BY <4>5 DEF WriteTable
      <4> QED
        BY <4>1, <4>6
    <3> QED
      BY <1>7, <1>13, <1>20, <2>2, <3>1
  <2> QED
    BY <1>7, <2>1, <2>2
<1>22. Len(us) = k
  BY <1>7, <1>20
<1>23. WrittenTo(f, k, more, p)
  BY <1>5, <1>11, <1>12, <1>16, <1>17, <1>19, <1>20, <1>21, <1>22 DEF WrittenTo
<1> QED
  BY <1>23

\* All tables are there: this is the file.
LEMMA AllWritten ==
    ASSUME ParseType, NEW f, NEW ones, NEW q, WrittenTo(f, 13, ones, q)
    PROVE  /\ ones \in SUBSET {t \in PoolTables : f[t] = <<>>}
           /\ PastAll(WriteFile(f, ones), 0) = q
<1>1. PICK ss \in Seq(Seq(Piece)) :
         /\ Len(ss) = 13
         /\ \A i \in 1..13 : ss[i] = WriteTable(TableOrder[i], f[TableOrder[i]], ones)
         /\ Spells(Header(f) \o FlattenSeq(ss), 0, q)
  BY DEF WrittenTo
<1>2. ss = [i \in DOMAIN TableOrder |-> WriteTable(TableOrder[i], f[TableOrder[i]], ones)]
  <2>1. ss = [i \in 1..13 |-> ss[i]]
    BY <1>1, LenProperties
  <2>2. DOMAIN TableOrder = 1..13
    BY OrderIs
  <2>3. PICK n : n = 13
    OBVIOUS
  <2>4. /\ ss = [i \in 1..n |-> ss[i]] /\ DOMAIN TableOrder = 1..n
        /\ \A i \in 1..n : ss[i] = WriteTable(TableOrder[i], f[TableOrder[i]], ones)
    BY <1>1, <2>1, <2>2, <2>3
  <2> QED
    BY ONLY <2>4
<1>3. WriteFile(f, ones) = Header(f) \o FlattenSeq(ss)
  <2>1. WriteFile(f, ones) = WriteU16(f.version.minor) \o WriteU16(f.version.major)
          \o FlattenSeq([i \in DOMAIN TableOrder |-> WriteTable(TableOrder[i], f[TableOrder[i]], ones)])
    BY Zenon DEF WriteFile
  <2>2. Header(f) = WriteU16(f.version.minor) \o WriteU16(f.version.major)
    BY Zenon DEF Header
  <2> QED
    BY <1>2, <2>1, <2>2, Zenon
<1>4. PastAll(WriteFile(f, ones), 0) = q
  BY <1>1, <1>3, SpellsFile
<1>5. ones \subseteq {t \in PoolTables : f[t] = <<>>}
  <2> SUFFICES ASSUME NEW t \in ones
               PROVE  t \in PoolTables /\ f[t] = <<>>
    OBVIOUS
  <2>1. t \in PoolTables
    BY DEF WrittenTo
  <2>2. t \in Names
    BY <2>1 DEF PoolTables, Names
  <2>3. PICK i \in 1..13 : TableOrder[i] = t
    BY <2>2, OrderIs
  <2> QED
    BY <2>1, <2>3 DEF WrittenTo
<1> QED
  BY <1>4, <1>5

-----------------------------------------------------------------------------
(***************************************************************************)
(* What has been read, at every step.                                      *)
(***************************************************************************)

Untouched(f, k) == \A i \in k..13 : f[TableOrder[i]] = <<>>

BeforeTable(f, k, p) == \E ones : WrittenTo(f, k - 1, ones, p)

WithinTable(f, k, turns, p) ==
    \E ones, q : /\ WrittenTo(f, k - 1, ones, q)
                 /\ InTable(TableOrder[k], f[TableOrder[k]], turns, q, p)

\* At the k-th table: whole tables have been read, or also the entries of this
\* one that control has come to.
AtTable(f, k, inside, turns, p) ==
    \/ ~inside /\ BeforeTable(f, k, p) /\ Untouched(f, k)
    \/ inside /\ WithinTable(f, k, turns, p) /\ Untouched(f, k + 1)

\* What the file says up to p is what has been read.
Laid(f, where, inside, turns, p) ==
    \/ where \in {"thrown", "noMemory"} /\ ~(inside /\ turns = 0)
    \/ where = "version" /\ ~inside /\ p = 0 /\ "version" \in DOMAIN f /\ Untouched(f, 1)
    \/ \E k \in 1..13 : where = TableOrder[k] /\ AtTable(f, k, inside, turns, p)
    \/ where = "returned" /\ ~inside /\ \E ones : WrittenTo(f, 13, ones, p)

LEMMA NotTables ==
    ASSUME NEW k \in 1..13
    PROVE  TableOrder[k] \in Names /\ TableOrder[k] \notin {"version", "thrown", "noMemory", "returned"}
<1>1. TableOrder[k] \in Names
  BY OrderIs
<1> QED
  BY <1>1 DEF Names

\* A table that is being read is one of the order.
LEMMA InOrder ==
    ASSUME NEW f, NEW where \in Names, NEW inside, NEW turns, NEW p, Laid(f, where, inside, turns, p)
    PROVE  \E k \in 1..13 : where = TableOrder[k] /\ AtTable(f, k, inside, turns, p)
<1>1. where \notin {"version", "thrown", "noMemory", "returned"}
  BY DEF Names
<1> QED
  BY <1>1 DEF Laid

LEMMA LaidVersion ==
    ASSUME PaidFor, ParseType, Laid(file, pc, sized, left, at), ReadVersion
    PROVE  Laid(file', pc', sized', left', at')
<1>1. PICK minor : minor = U16(at)
  OBVIOUS
<1>2. PICK major : major = U16(minor.next)
  OBVIOUS
<1>3. PICK f : f = [file EXCEPT !.version = [minor |-> minor.val, major |-> major.val]]
  OBVIOUS
<1>4. pc = "version" /\ InRange(data, major.next) /\ at' = major.next /\ file' = f /\ pc' = TableOrder[1]
      /\ sized' = sized
  BY <1>1, <1>2, <1>3 DEF ReadVersion
<1>5. at = 0 /\ Untouched(file, 1) /\ "version" \in DOMAIN file /\ ~sized
  BY <1>4, NotTables DEF Laid
<1>6. ParseType /\ 0 \in Places
  <2>1. ParseType /\ Len(data) \in Nat
    BY LenProperties DEF ParseType
  <2> QED
    BY <2>1 DEF Places, End
<1>7. f["version"] = [minor |-> minor.val, major |-> major.val]
  BY <1>3, <1>5
<1>8. WrittenTo(f, 0, {}, major.next)
  BY <1>1, <1>2, <1>4, <1>5, <1>6, <1>7, VersionRead
<1>9. Untouched(f, 1)
  <2>1. \A t \in Names : t # "version" /\ f[t] = file[t]
    BY <1>3 DEF Names, PaidFor
  <2> QED
    BY <1>5, <2>1, OrderIs DEF Untouched
<1>10. AtTable(f, 1, sized', left', major.next)
  BY <1>4, <1>5, <1>8, <1>9 DEF AtTable, BeforeTable
<1> QED
  BY <1>4, <1>10 DEF Laid

LEMMA LaidCount ==
    ASSUME PaidFor, ParseType, Laid(file, pc, sized, left, at), ReadCount
    PROVE  Laid(file', pc', sized', left', at')
<1>1. PICK r : r = U30(at)
  OBVIOUS
<1>2. /\ pc \in Names \ {"classes"} /\ ~sized /\ InRange(data, r.next) /\ at' = r.next
      /\ left' = Turns(pc, r.val) /\ sized' = TRUE /\ file' = file /\ pc' = pc
  BY <1>1, TablesAre DEF ReadCount
<1>3. PICK k \in 1..13 : pc = TableOrder[k] /\ AtTable(file, k, sized, left, at)
  <2>1. PICK f, where, inside, turns, p : f = file /\ where = pc /\ inside = sized /\ turns = left /\ p = at
    OBVIOUS
  <2>2. where \in Names /\ Laid(f, where, inside, turns, p)
    BY <1>2, <2>1
  <2>3. \E k \in 1..13 : where = TableOrder[k] /\ AtTable(f, k, inside, turns, p)
    BY <2>2, InOrder
  <2> QED
    BY <2>1, <2>3
<1>4. BeforeTable(file, k, at) /\ Untouched(file, k)
  BY <1>2, <1>3 DEF AtTable
<1>5. PICK ones : WrittenTo(file, k - 1, ones, at)
  BY <1>4 DEF BeforeTable
<1>6. file[pc] = <<>> /\ Untouched(file, k + 1)
  BY <1>3, <1>4 DEF Untouched
<1>7. InTable(pc, <<>>, left', at, at')
  <2>1. PICK t, p : t = pc /\ p = at
    OBVIOUS
  <2>2. t \in Names /\ t # "classes" /\ p \in Places /\ r = U30(p)
    <3>1. at \in Nat /\ at <= Len(data) /\ Len(data) \in Nat
      BY LenProperties DEF PaidFor
    <3> QED
      BY <1>1, <1>2, <2>1, <3>1 DEF Places, End
  <2>3. InTable(t, <<>>, Turns(t, r.val), p, r.next)
    BY <1>2, <2>2, CountRead
  <2> QED
    BY <1>2, <2>1, <2>3
<1>8. WithinTable(file, k, left', at')
  BY <1>3, <1>5, <1>6, <1>7 DEF WithinTable
<1>9. AtTable(file, k, TRUE, left', at')
  BY <1>6, <1>8 DEF AtTable
<1> QED
  BY <1>2, <1>3, <1>9 DEF Laid

LEMMA LaidClasses ==
    ASSUME PaidFor, Laid(file, pc, sized, left, at), SizeClasses
    PROVE  Laid(file', pc', sized', left', at')
<1>1. /\ pc \in Names /\ pc = "classes" /\ ~sized /\ at' = at
      /\ left' = Len(file["instances"]) /\ sized' = TRUE /\ file' = file /\ pc' = pc
  BY DEF SizeClasses, Names
<1>2. PICK k \in 1..13 : pc = TableOrder[k] /\ AtTable(file, k, sized, left, at)
  <2>1. PICK f, where, inside, turns, p : f = file /\ where = pc /\ inside = sized /\ turns = left /\ p = at
    OBVIOUS
  <2>2. where \in Names /\ Laid(f, where, inside, turns, p)
    BY <1>1, <2>1
  <2>3. \E k \in 1..13 : where = TableOrder[k] /\ AtTable(f, k, inside, turns, p)
    BY <2>2, InOrder
  <2> QED
    BY <2>1, <2>3
<1>3. BeforeTable(file, k, at) /\ Untouched(file, k)
  BY <1>1, <1>2 DEF AtTable
<1>4. PICK ones : WrittenTo(file, k - 1, ones, at)
  BY <1>3 DEF BeforeTable
<1>5. file[pc] = <<>> /\ Untouched(file, k + 1)
  BY <1>2, <1>3 DEF Untouched
<1>6. InTable(pc, <<>>, left', at, at')
  <2>1. PICK t, p, n : t = pc /\ p = at /\ n = left'
    OBVIOUS
  <2>2. n \in Nat
    <3>1. "instances" \in Names
      BY DEF Names
    <3>2. PICK S : file["instances"] \in Seq(S)
      BY <3>1 DEF PaidFor
    <3> QED
      BY <1>1, <2>1, <3>2, LenProperties
  <2>3. p \in Nat /\ p <= Len(data)
    BY <2>1 DEF PaidFor
  <2>4. InTable(t, <<>>, n, p, p)
    BY <1>1, <2>1, <2>2, <2>3, ClassesSized
  <2> QED
    BY <1>1, <2>1, <2>4
<1>7. WithinTable(file, k, left', at')
  BY <1>2, <1>4, <1>5, <1>6 DEF WithinTable
<1>8. AtTable(file, k, TRUE, left', at')
  BY <1>5, <1>7 DEF AtTable
<1> QED
  BY <1>1, <1>2, <1>8 DEF Laid

LEMMA LaidEntry ==
    ASSUME PaidFor, ParseType, Laid(file, pc, sized, left, at), ReadEntry
    PROVE  Laid(file', pc', sized', left', at')
<1>1. PICK f, t, turns, p, r : /\ f = file /\ t = pc /\ turns = left /\ p = at
                               /\ r = Entry(pc, at)
  OBVIOUS
<1>2. PICK g : g = [f EXCEPT ![t] = Append(f[t], r.val)]
  OBVIOUS
<1>3. /\ t \in Names /\ sized /\ turns # 0 /\ InRange(data, r.next) /\ at' = r.next /\ file' = g
      /\ left' = turns - 1 /\ pc' = t /\ sized' = sized
  BY <1>1, <1>2, TablesAre DEF ReadEntry, Keep
<1>4. r = Entry(t, p) /\ Laid(f, t, sized, turns, p)
  BY <1>1
<1>5. PICK k \in 1..13 : t = TableOrder[k] /\ AtTable(f, k, sized, turns, p)
  <2>1. PICK inside : inside = sized
    OBVIOUS
  <2>2. \E k \in 1..13 : t = TableOrder[k] /\ AtTable(f, k, inside, turns, p)
    BY <1>3, <1>4, <2>1, InOrder
  <2> QED
    BY <2>1, <2>2
<1>6. WithinTable(f, k, turns, p) /\ Untouched(f, k + 1)
  BY <1>3, <1>5 DEF AtTable
<1>7. PICK ones, q : WrittenTo(f, k - 1, ones, q) /\ InTable(t, f[t], turns, q, p)
  BY <1>5, <1>6 DEF WithinTable
<1>8. PICK S : f[t] \in Seq(S)
  BY <1>1, <1>3 DEF PaidFor
<1>9. p \in Places
  <2>1. at \in Nat /\ at <= Len(data) /\ Len(data) \in Nat
    BY LenProperties DEF PaidFor
  <2> QED
    BY <1>1, <2>1 DEF Places, End
<1>10. PICK entries, more : entries = f[t] /\ more = Append(entries, r.val)
  OBVIOUS
<1>11. InTable(t, more, turns - 1, q, r.next)
  <2>1. entries \in Seq(S) /\ InTable(t, entries, turns, q, p)
    BY <1>7, <1>8, <1>10
  <2>2. t \in Names /\ turns # 0 /\ InRange(data, r.next)
    BY <1>3
  <2> QED
    BY ParseType, <1>4, <1>9, <1>10, <2>1, <2>2, EntryRead
<1>12. t \in DOMAIN f
  BY <1>1, <1>3 DEF PaidFor
<1>13. g[t] = more /\ \A x \in DOMAIN f : x # t => g[x] = f[x]
  BY <1>2, <1>10, <1>12
<1>14. \A i \in 1..13 : i # k => TableOrder[i] # t /\ g[TableOrder[i]] = f[TableOrder[i]]
  <2> TAKE i \in 1..13
  <2> HAVE i # k
  <2>1. TableOrder[i] \in Names /\ TableOrder[i] # t
    BY <1>5, OrderIs
  <2>2. TableOrder[i] \in DOMAIN f
    BY <1>1, <2>1 DEF PaidFor
  <2> QED
    BY <1>13, <2>1, <2>2
<1>15. g["version"] = f["version"]
  BY <1>2, <1>3 DEF Names
<1>16. WrittenTo(g, k - 1, ones, q)
  <2>1. k - 1 \in 0..13
    OBVIOUS
  <2>2. \A i \in 1..(k - 1) : g[TableOrder[i]] = f[TableOrder[i]]
    <3> TAKE i \in 1..(k - 1)
    <3>1. i \in 1..13 /\ i # k
      OBVIOUS
    <3> QED
      BY <1>14, <3>1
  <2> QED
    BY <1>7, <1>15, <2>1, <2>2, WrittenSame
<1>17. Untouched(g, k + 1)
  <2> SUFFICES ASSUME NEW i \in (k + 1)..13
               PROVE  g[TableOrder[i]] = <<>>
    BY DEF Untouched
  <2>1. i \in 1..13 /\ i # k
    OBVIOUS
  <2> QED
    BY <1>6, <1>14, <2>1 DEF Untouched
<1>18. WithinTable(g, k, turns - 1, r.next)
  BY <1>5, <1>11, <1>13, <1>16 DEF WithinTable
<1>19. AtTable(g, k, sized', turns - 1, r.next)
  BY <1>3, <1>17, <1>18 DEF AtTable
<1> QED
  BY <1>3, <1>5, <1>19 DEF Laid

LEMMA LaidLoop ==
    ASSUME PaidFor, ParseType, Laid(file, pc, sized, left, at), LeaveLoop
    PROVE  Laid(file', pc', sized', left', at')
<1>1. PICK f, p : f = file /\ p = at
  OBVIOUS
<1>2. sized /\ left = 0 /\ ~sized' /\ pc' = Following(pc) /\ at' = p /\ file' = f /\ left' = 0
  BY <1>1 DEF LeaveLoop
<1>3. PICK k \in 1..13 : pc = TableOrder[k] /\ AtTable(f, k, sized, 0, p)
  BY <1>1, <1>2 DEF Laid
<1>4. WithinTable(f, k, 0, p) /\ Untouched(f, k + 1)
  BY <1>2, <1>3 DEF AtTable
<1>5. PICK t : t = TableOrder[k]
  OBVIOUS
<1>6. PICK ones, q : WrittenTo(f, k - 1, ones, q) /\ InTable(t, f[t], 0, q, p)
  BY <1>4, <1>5 DEF WithinTable
<1>7. t \in Names
  BY <1>5, OrderIs
<1>8. PICK S : f[t] \in Seq(S)
  BY <1>1, <1>7 DEF PaidFor
<1>9. PICK more : WrittenTo(f, k, more, p)
  BY <1>5, <1>6, <1>8, TableEnds
<1>10. pc' = IF k = 13 THEN "returned" ELSE TableOrder[k + 1]
  BY <1>2, <1>3, FollowingIs
<1>11. CASE k = 13
  BY <1>2, <1>9, <1>10, <1>11 DEF Laid
<1>12. CASE k # 13
  <2>1. k + 1 \in 1..13 /\ (k + 1) - 1 = k
    BY <1>12
  <2>2. BeforeTable(f, k + 1, p)
    BY <1>9, <2>1 DEF BeforeTable
  <2>3. AtTable(f, k + 1, sized', 0, p)
    BY <1>2, <1>4, <2>2 DEF AtTable
  <2> QED
    BY <1>2, <1>10, <1>12, <2>1, <2>3 DEF Laid
<1> QED
  BY <1>11, <1>12

\* Nothing that ends a read leaves the loop it is in.
LEMMA LaidOver ==
    ASSUME Laid(file, pc, sized, left, at), Throw \/ NoMemory
    PROVE  Laid(file', pc', sized', left', at')
<1>1. pc' \in {"thrown", "noMemory"} /\ sized' = sized /\ left' = left
  BY DEF Throw, NoMemory
<1>2. CASE pc = "version"
  <2>1. ~sized
    BY <1>2, NotTables DEF Laid
  <2> QED
    BY <1>1, <2>1 DEF Laid
<1>3. CASE pc # "version"
  <2>1. ~(sized /\ left = 0)
    BY <1>3 DEF Throw, NoMemory
  <2> QED
    BY <1>1, <2>1 DEF Laid
<1> QED
  BY <1>2, <1>3

\* What is said of the file as it is holds as long as it does not change.
LaidNow == ParseType => Laid(file, pc, sized, left, at)

LEMMA LaidInit ==
    ASSUME Init
    PROVE  LaidNow
<1>1. pc = "version" /\ ~sized /\ at = 0 /\ "version" \in DOMAIN file
  BY DEF Init
<1>2. \A t \in Names : file[t] = <<>>
  BY TablesAre DEF Init, Names
<1>3. Untouched(file, 1)
  BY <1>2, OrderIs DEF Untouched
<1> QED
  BY <1>1, <1>3 DEF LaidNow, Laid

LEMMA LaidStep ==
    ASSUME PaidFor, LaidNow, [Next]_(vars)
    PROVE  LaidNow'
<1>1. data' = data
  BY DEF Next, vars, ReadVersion, ReadCount, SizeClasses, ReadEntry, LeaveLoop, Throw, NoMemory, Ended
<1>2. ASSUME ParseType
      PROVE  Laid(file', pc', sized', left', at')
  <2>1. Laid(file, pc, sized, left, at)
    BY <1>2 DEF LaidNow
  <2>2. CASE ReadVersion
    BY <1>2, <2>1, <2>2, LaidVersion
  <2>3. CASE ReadCount
    BY <1>2, <2>1, <2>3, LaidCount
  <2>4. CASE SizeClasses
    BY <2>1, <2>4, LaidClasses
  <2>5. CASE ReadEntry
    BY <1>2, <2>1, <2>5, LaidEntry
  <2>6. CASE LeaveLoop
    BY <1>2, <2>1, <2>6, LaidLoop
  <2>7. CASE Throw \/ NoMemory
    BY <2>1, <2>7, LaidOver
  <2>8. CASE UNCHANGED vars
    BY <2>1, <2>8 DEF vars
  <2> QED
    BY <2>2, <2>3, <2>4, <2>5, <2>6, <2>7, <2>8 DEF Next, Ended
<1>3. ParseType' => ParseType
  BY <1>1 DEF ParseType
<1>4. PICK f, where, inside, turns, p : /\ f = file' /\ where = pc' /\ inside = sized'
                                        /\ turns = left' /\ p = at'
  OBVIOUS
<1>5. ParseType => Laid(f, where, inside, turns, p)
  BY <1>2, <1>4
<1>6. \A t, x, y : Spells(t, x, y) => Spells(t, x, y)'
  <2>1. \A x, y : Past(x, y)' = Past(x, y)
    BY <1>1 DEF Past, U30, U8, Checked, Thrown
  <2> QED
    BY <1>1, <2>1 DEF Spells
<1>7. \A g, k, ones, q : WrittenTo(g, k, ones, q) => WrittenTo(g, k, ones, q)'
  BY <1>6 DEF WrittenTo
<1>8. \A t, entries, n, q, x : InTable(t, entries, n, q, x) => InTable(t, entries, n, q, x)'
  BY <1>6 DEF InTable
<1>9. Laid(f, where, inside, turns, p) => Laid(f, where, inside, turns, p)'
  BY <1>7, <1>8 DEF Laid, AtTable, BeforeTable, WithinTable, Untouched
<1> QED
  BY <1>3, <1>4, <1>5, <1>9 DEF LaidNow

LEMMA RoundTripWhenLaid ==
    ASSUME LaidNow, PaidFor
    PROVE  RoundTrip
<1> SUFFICES ASSUME pc = "returned"
             PROVE  \E ones \in SUBSET {t \in PoolTables : file[t] = <<>>} :
                      PastAll(WriteFile(file, ones), 0) = at
  BY DEF RoundTrip
<1>1. ParseType
  BY DEF ParseType, PaidFor
<1>2. PICK ones : WrittenTo(file, 13, ones, at)
  BY <1>1, NotTables DEF LaidNow, Laid
<1>3. PICK f, q : f = file /\ q = at
  OBVIOUS
<1>4. WrittenTo(f, 13, ones, q)
  BY <1>2, <1>3
<1>5. ones \in SUBSET {t \in PoolTables : f[t] = <<>>} /\ PastAll(WriteFile(f, ones), 0) = q
  BY <1>1, <1>4, AllWritten
<1> QED
  BY <1>3, <1>5

\* RoundTrip (ABCReader::read): what read returns, laid out by the rules of the
\* format, is the text of the bytes that were read: all of them, in order, in the
\* right member and table.  A number of the text is one whatever its bytes.
THEOREM NothingIsMisread == Spec => []RoundTrip
<1>1. Init => PaidFor /\ LaidNow
  BY PaidForInit, LaidInit
<1>2. PaidFor /\ LaidNow /\ [Next]_(vars) => PaidFor' /\ LaidNow'
  BY PaidForStep, LaidStep
<1>3. PaidFor /\ LaidNow => RoundTrip
  BY RoundTripWhenLaid
<1> QED
  BY <1>1, <1>2, <1>3, PTL DEF Spec

-----------------------------------------------------------------------------
(***************************************************************************)
(* The sizes of the tables.                                                *)
(***************************************************************************)
\* The entry that is not in the file.
Reserved(t) == IF t \in PoolTables THEN 1 ELSE 0

\* Of the table t all entries but n have been read; all of them; it has not
\* been resized.
Lacks(f, sizes, t, n) == n \in Nat /\ sizes[t] = Reserved(t) + Len(f[t]) + n
Full(f, sizes, t)     == sizes[t] = Reserved(t) + Len(f[t])
Fresh(f, sizes, t)    == sizes[t] = Reserved(t) /\ f[t] = <<>>

\* The tables before the k-th are full, and those behind it are fresh.
Around(f, sizes, k) ==
    /\ \A i \in 1..(k - 1) : Full(f, sizes, TableOrder[i])
    /\ \A i \in (k + 1)..13 : Fresh(f, sizes, TableOrder[i])

AllButOneFull(f, sizes) ==
    \E k \in 1..13 :
      /\ \E n : Lacks(f, sizes, TableOrder[k], n)
      /\ \A i \in 1..13 : i # k => Full(f, sizes, TableOrder[i])

Sizes(f, sizes, where, inside, turns) ==
    \/ where = "version" /\ ~inside /\ \A i \in 1..13 : Fresh(f, sizes, TableOrder[i])
    \/ \E k \in 1..13 :
         /\ where = TableOrder[k]
         /\ Around(f, sizes, k)
         /\ ~inside => Fresh(f, sizes, where)
         /\ inside => Lacks(f, sizes, where, turns)
    \/ where = "returned" /\ \A i \in 1..13 : Full(f, sizes, TableOrder[i])
    \/ where \in {"thrown", "noMemory"} /\ ~(inside /\ turns = 0) /\ AllButOneFull(f, sizes)

Roomy ==
    /\ DOMAIN room = Names
    /\ \A t \in Names : room[t] \in Nat /\ room[t] < 2^30
    /\ Sizes(file, room, pc, sized, left)

\* A table that was never resized has nothing to be filled with.
LEMMA FreshIsFull ==
    ASSUME NEW f, NEW sizes, NEW t, Fresh(f, sizes, t)
    PROVE  Full(f, sizes, t) /\ Lacks(f, sizes, t, 0)
<1>1. Len(f[t]) = 0
  BY EmptySeq DEF Fresh
<1>2. Reserved(t) \in Nat
  BY DEF Reserved
<1> QED
  BY <1>1, <1>2 DEF Fresh, Full, Lacks

\* The place where control is in the order of the tables.
LEMMA SizesAt ==
    ASSUME NEW f, NEW sizes, NEW where \in Names, NEW inside, NEW turns,
           Sizes(f, sizes, where, inside, turns)
    PROVE  \E k \in 1..13 : /\ where = TableOrder[k]
                            /\ Around(f, sizes, k)
                            /\ ~inside => Fresh(f, sizes, where)
                            /\ inside => Lacks(f, sizes, where, turns)
<1>1. where \notin {"version", "thrown", "noMemory", "returned"}
  BY DEF Names
<1> QED
  BY <1>1, Zenon DEF Sizes

\* Around one table, all others are full.
LEMMA AroundIsFull ==
    ASSUME NEW f, NEW sizes, NEW k \in 1..13, Around(f, sizes, k), NEW i \in 1..13, i # k
    PROVE  Full(f, sizes, TableOrder[i])
<1>1. i \in 1..(k - 1) \/ i \in (k + 1)..13
  OBVIOUS
<1> QED
  BY <1>1, FreshIsFull DEF Around

\* What changes at one table changes nothing around it.
LEMMA AroundStays ==
    ASSUME NEW f, NEW sizes, NEW k \in 1..13, Around(f, sizes, k), NEW g, NEW more,
           \A t \in Names : t # TableOrder[k] => g[t] = f[t] /\ more[t] = sizes[t]
    PROVE  Around(g, more, k)
<1>1. ASSUME NEW i \in 1..13, i # k
      PROVE  g[TableOrder[i]] = f[TableOrder[i]] /\ more[TableOrder[i]] = sizes[TableOrder[i]]
  BY <1>1, OrderIs
<1>2. ASSUME NEW i \in 1..(k - 1)
      PROVE  Full(g, more, TableOrder[i])
  <2>1. i \in 1..13 /\ i # k
    OBVIOUS
  <2>2. Full(f, sizes, TableOrder[i])
    BY DEF Around
  <2> QED
    BY <1>1, <2>1, <2>2 DEF Full, Reserved
<1>3. ASSUME NEW i \in (k + 1)..13
      PROVE  Fresh(g, more, TableOrder[i])
  <2>1. i \in 1..13 /\ i # k
    OBVIOUS
  <2>2. Fresh(f, sizes, TableOrder[i])
    BY DEF Around
  <2> QED
    BY <1>1, <2>1, <2>2 DEF Fresh
<1> QED
  BY <1>2, <1>3 DEF Around

LEMMA RoomyInit ==
    ASSUME Init
    PROVE  Roomy
<1>1. AllTables = Names /\ "version" \notin Names
  BY TablesAre DEF Names
<1>2. DOMAIN room = Names /\ \A t \in Names : room[t] = Reserved(t) /\ file[t] = <<>>
  BY <1>1 DEF Init, Reserved
<1>3. \A i \in 1..13 : Fresh(file, room, TableOrder[i])
  BY <1>2, OrderIs DEF Fresh
<1>4. Sizes(file, room, pc, sized, left)
  BY <1>3 DEF Init, Sizes
<1>5. 0 < 2^30 /\ 1 < 2^30
  OBVIOUS
<1>6. \A t \in Names : Reserved(t) \in Nat /\ Reserved(t) < 2^30
  BY <1>5 DEF Reserved
<1> QED
  BY <1>2, <1>4, <1>6 DEF Roomy

LEMMA RoomyVersion ==
    ASSUME PaidFor, Roomy, ReadVersion
    PROVE  Roomy'
<1>1. pc = "version" /\ pc' = TableOrder[1] /\ sized' = sized /\ room' = room /\ left' = left
      /\ \E v : file' = [file EXCEPT !.version = v]
  BY DEF ReadVersion
<1>2. \A t \in Names : file'[t] = file[t]
  BY <1>1 DEF Names, PaidFor
<1>3. ~sized /\ \A i \in 1..13 : Fresh(file, room, TableOrder[i])
  BY <1>1, NotTables, Zenon DEF Roomy, Sizes
<1>4. PICK g, sizes : g = file' /\ sizes = room'
  OBVIOUS
<1>5. \A i \in 1..13 : Fresh(g, sizes, TableOrder[i])
  BY <1>1, <1>2, <1>3, <1>4, OrderIs DEF Fresh
<1>6. PICK k \in 1..13 : k = 1
  OBVIOUS
<1>7. Around(g, sizes, k) /\ Fresh(g, sizes, TableOrder[k])
  <2>1. \A i \in (k + 1)..13 : i \in 1..13
    BY <1>6
  <2>2. \A i \in 1..(k - 1) : FALSE
    BY <1>6
  <2> QED
    BY <1>5, <2>1, <2>2 DEF Around
<1>8. Sizes(g, sizes, pc', sized', left')
  BY <1>1, <1>3, <1>6, <1>7 DEF Sizes
<1>9. Sizes(file', room', pc', sized', left')
  BY <1>4, <1>8
<1> QED
  BY <1>1, <1>9 DEF Roomy

\* A number that was read has 30 bits.
LEMMA U30Small ==
    ASSUME ParseType, NEW p \in Places, InRange(data, U30(p).next)
    PROVE  U30(p).val \in Nat /\ U30(p).val < 2^30
<1>1. PICK q, n : q = AfterU30(data, p) /\ n = U30At(data, p)
  OBVIOUS
<1>2. p \in Nat /\ q \in Nat
  BY <1>1, PlacesType, VarLenEnds DEF AfterU30
<1>3. U30(p) = Checked(n, q)
  BY <1>1 DEF U30
<1>4. q <= Len(data) /\ U30(p).val = n
  BY <1>2, <1>3, CheckedIs
<1> QED
  BY <1>1, <1>2, <1>4, U30AtType DEF ParseType, InRange

\* The k-th table, once it is resized.
LEMMA Resized ==
    ASSUME Roomy, NEW k \in 1..13, pc = TableOrder[k], Around(file, room, k), Fresh(file, room, pc),
           NEW size \in Nat, size < 2^30, NEW turns \in Nat,
           size = turns + Reserved(pc),
           room' = [room EXCEPT ![pc] = size], left' = turns, sized' = TRUE, file' = file, pc' = pc
    PROVE  Roomy'
<1>1. PICK t, more : t = pc /\ more = room'
  OBVIOUS
<1>2. t \in Names
  BY <1>1, OrderIs
<1>3. DOMAIN room = Names /\ \A x \in Names : room[x] \in Nat /\ room[x] < 2^30
  BY DEF Roomy
<1>4. DOMAIN more = Names /\ more[t] = size /\ \A x \in Names : x # t => more[x] = room[x]
  BY <1>1, <1>2, <1>3
<1>5. \A x \in Names : more[x] \in Nat /\ more[x] < 2^30
  BY <1>3, <1>4
<1>6. Around(file, more, k)
  <2>1. \A x \in Names : x # TableOrder[k] => file[x] = file[x] /\ more[x] = room[x]
    BY <1>1, <1>4
  <2> QED
    BY <2>1, AroundStays
<1>7. Lacks(file, more, t, turns)
  <2>1. Len(file[t]) = 0
    BY <1>1, EmptySeq DEF Fresh
  <2>2. Reserved(t) \in Nat
    BY DEF Reserved
  <2> QED
    BY <1>1, <1>4, <2>1, <2>2 DEF Lacks
<1>8. Sizes(file, more, t, TRUE, turns)
  BY <1>1, <1>6, <1>7 DEF Sizes
<1>9. Sizes(file', room', pc', sized', left')
  BY <1>1, <1>8
<1> QED
  BY <1>1, <1>4, <1>5, <1>9 DEF Roomy

LEMMA RoomyCount ==
    ASSUME PaidFor, Roomy, ReadCount
    PROVE  Roomy'
<1>1. PICK n, t, next : n = U30(at).val /\ t = pc /\ next = U30(at).next
  OBVIOUS
<1>2. /\ t \in Names /\ ~sized /\ InRange(data, next) /\ room' = [room EXCEPT ![t] = Room(t, n)]
      /\ left' = Turns(t, n) /\ sized' = TRUE /\ file' = file /\ pc' = pc
  BY <1>1, TablesAre, Zenon DEF ReadCount
<1>3. n \in Nat /\ n < 2^30
  <2>1. ParseType /\ at \in Places
    <3>1. at \in Nat /\ at <= Len(data) /\ Len(data) \in Nat
      BY LenProperties DEF PaidFor
    <3> QED
      BY <3>1 DEF PaidFor, ParseType, Places, End
  <2> QED
    BY <1>1, <1>2, <2>1, U30Small
<1>4. PICK k \in 1..13 : pc = TableOrder[k] /\ Around(file, room, k) /\ Fresh(file, room, pc)
  <2>1. PICK f, sizes, inside, turns : f = file /\ sizes = room /\ inside = sized /\ turns = left
    OBVIOUS
  <2>2. Sizes(f, sizes, t, inside, turns) /\ ~inside
    BY <1>1, <1>2, <2>1 DEF Roomy
  <2> QED
    BY <1>1, <1>2, <2>1, <2>2, SizesAt
<1>5. PICK size, turns : size = Room(t, n) /\ turns = Turns(t, n)
  OBVIOUS
<1>6. /\ size \in Nat /\ size < 2^30 /\ turns \in Nat
      /\ size = turns + Reserved(t)
  <2>1. 1 < 2^30
    OBVIOUS
  <2>2. CASE t \in PoolTables
    BY <1>3, <1>5, <2>1, <2>2 DEF Room, Turns, Reserved
  <2>3. CASE t \notin PoolTables
    BY <1>3, <1>5, <2>3 DEF Room, Turns, Reserved
  <2> QED
    BY <2>2, <2>3
<1> QED
  BY <1>1, <1>2, <1>4, <1>5, <1>6, Resized

LEMMA RoomyClasses ==
    ASSUME PaidFor, Roomy, SizeClasses
    PROVE  Roomy'
<1>1. PICK n : n = Len(file["instances"])
  OBVIOUS
<1>2. /\ pc = "classes" /\ ~sized /\ room' = [room EXCEPT !["classes"] = n]
      /\ left' = n /\ sized' = TRUE /\ file' = file /\ pc' = pc
  BY <1>1 DEF SizeClasses
<1>3. PICK k \in 1..13 : pc = TableOrder[k] /\ Around(file, room, k) /\ Fresh(file, room, pc)
  <2>1. PICK f, sizes, where, inside, turns :
          f = file /\ sizes = room /\ where = pc /\ inside = sized /\ turns = left
    OBVIOUS
  <2>2. Sizes(f, sizes, where, inside, turns) /\ ~inside /\ where \in Names
    BY <1>2, <2>1 DEF Roomy, Names
  <2> QED
    BY <2>1, <2>2, SizesAt
<1>4. Full(file, room, "instances")
  <2>1. PICK i \in 1..13 : TableOrder[i] = "instances"
    <3>1. "instances" \in Names
      BY DEF Names
    <3> QED
      BY <3>1, OrderIs
  <2>2. i # k
    BY <1>2, <1>3, <2>1
  <2> QED
    BY <1>3, <2>1, <2>2, AroundIsFull
<1>5. n \in Nat /\ n < 2^30
  <2>1. "instances" \in Names /\ "instances" \notin PoolTables
    BY DEF Names, PoolTables
  <2>2. PICK S : file["instances"] \in Seq(S)
    BY <2>1 DEF PaidFor
  <2>3. n \in Nat
    BY <1>1, <2>2, LenProperties
  <2>4. room["instances"] = n
    BY <1>1, <1>4, <2>1, <2>3 DEF Full, Reserved
  <2> QED
    BY <2>1, <2>3, <2>4 DEF Roomy
<1>6. n = n + Reserved(pc)
  BY <1>2, <1>5 DEF PoolTables, Reserved
<1> QED
  BY <1>2, <1>3, <1>5, <1>6, Resized

LEMMA RoomyEntry ==
    ASSUME PaidFor, Roomy, ReadEntry
    PROVE  Roomy'
<1>1. PICK f, t, turns, v, sizes, inside :
        /\ f = file /\ t = pc /\ turns = left /\ v = Entry(pc, at).val
        /\ sizes = room /\ inside = sized
  OBVIOUS
<1>2. PICK g : g = [f EXCEPT ![t] = Append(f[t], v)]
  OBVIOUS
<1>3. /\ t \in Names /\ inside /\ turns # 0 /\ file' = g /\ room' = sizes
      /\ left' = turns - 1 /\ pc' = t /\ sized' = inside
  BY <1>1, <1>2, TablesAre DEF ReadEntry, Keep
<1>4. Sizes(f, sizes, t, inside, turns)
  BY <1>1 DEF Roomy
<1>5. PICK k \in 1..13 : t = TableOrder[k] /\ Around(f, sizes, k) /\ Lacks(f, sizes, t, turns)
  BY <1>3, <1>4, SizesAt
<1>6. PICK S : f[t] \in Seq(S)
  BY <1>1, <1>3 DEF PaidFor
<1>7. g[t] = Append(f[t], v) /\ \A x \in Names : x # t => g[x] = f[x]
  BY <1>1, <1>2, <1>3 DEF PaidFor
<1>8. Len(g[t]) = Len(f[t]) + 1 /\ Len(f[t]) \in Nat
  BY <1>6, <1>7, SequenceOfMore
<1>9. Around(g, sizes, k)
  BY <1>5, <1>7, AroundStays
<1>10. Lacks(g, sizes, t, turns - 1)
  <2>1. turns \in Nat /\ sizes[t] = Reserved(t) + Len(f[t]) + turns
    BY <1>5 DEF Lacks
  <2>2. Reserved(t) \in Nat
    BY DEF Reserved
  <2> QED
    BY <1>3, <1>8, <2>1, <2>2 DEF Lacks
<1>11. Sizes(g, sizes, t, inside, turns - 1)
  BY <1>3, <1>5, <1>9, <1>10 DEF Sizes
<1>12. Sizes(file', room', pc', sized', left')
  BY <1>3, <1>11
<1> QED
  BY <1>1, <1>3, <1>12 DEF Roomy

LEMMA RoomyLoop ==
    ASSUME PaidFor, Roomy, LeaveLoop, pc \in Names
    PROVE  Roomy'
<1>1. PICK f, t, sizes, inside, turns :
        f = file /\ t = pc /\ sizes = room /\ inside = sized /\ turns = left
  OBVIOUS
<1>2. inside /\ turns = 0 /\ ~sized' /\ pc' = Following(t) /\ file' = f /\ room' = sizes /\ left' = 0
  BY <1>1 DEF LeaveLoop
<1>3. Sizes(f, sizes, t, inside, turns) /\ t \in Names
  BY <1>1 DEF Roomy
<1>4. PICK k \in 1..13 : t = TableOrder[k] /\ Around(f, sizes, k) /\ Lacks(f, sizes, t, turns)
  BY <1>2, <1>3, SizesAt
<1>5. Full(f, sizes, t)
  <2>1. PICK S : f[t] \in Seq(S)
    BY <1>1, <1>3 DEF PaidFor
  <2>2. PICK one, much : one = Reserved(t) /\ much = Len(f[t])
    OBVIOUS
  <2>3. one \in Nat /\ much \in Nat
    BY <2>1, <2>2, LenProperties DEF Reserved
  <2>4. sizes[t] = one + much + turns
    BY <1>4, <2>2 DEF Lacks
  <2>5. sizes[t] = one + much
    BY <1>2, <2>3, <2>4
  <2> QED
    BY <2>2, <2>5 DEF Full
<1>6. \A i \in 1..13 : i <= k => Full(f, sizes, TableOrder[i])
  BY <1>4, <1>5, AroundIsFull
<1>7. pc' = IF k = 13 THEN "returned" ELSE TableOrder[k + 1]
  BY <1>2, <1>4, FollowingIs
<1>8. Sizes(f, sizes, pc', FALSE, 0)
  <2>1. CASE k = 13
    <3>1. \A i \in 1..13 : Full(f, sizes, TableOrder[i])
      BY <1>6, <2>1
    <3> QED
      BY <1>7, <2>1, <3>1 DEF Sizes
  <2>2. CASE k # 13
    <3>1. PICK m \in 1..13 : m = k + 1
      BY <2>2
    <3>2. Fresh(f, sizes, TableOrder[m])
      BY <1>4, <3>1 DEF Around
    <3>3. Around(f, sizes, m)
      <4>1. \A i \in 1..(m - 1) : i \in 1..13 /\ i <= k
        BY <3>1
      <4>2. \A i \in (m + 1)..13 : i \in (k + 1)..13
        BY <3>1
      <4> QED
        BY <1>4, <1>6, <4>1, <4>2 DEF Around
    <3>4. pc' = TableOrder[m]
      BY <1>7, <2>2, <3>1
    <3> QED
      BY <3>2, <3>3, <3>4 DEF Sizes
  <2> QED
    BY <2>1, <2>2
<1>9. Sizes(file', room', pc', sized', left')
  BY <1>2, <1>8 DEF Sizes
<1> QED
  BY <1>1, <1>2, <1>9 DEF Roomy

LEMMA RoomyOver ==
    ASSUME Roomy, Throw \/ NoMemory
    PROVE  Roomy'
<1>1. PICK f, t, sizes, inside, turns :
        f = file /\ t = pc /\ sizes = room /\ inside = sized /\ turns = left
  OBVIOUS
<1>2. pc' \in {"thrown", "noMemory"} /\ sized' = inside /\ left' = turns /\ file' = f /\ room' = sizes
  BY <1>1 DEF Throw, NoMemory
<1>3. t \in Names \cup {"version"} /\ (t # "version" => ~(inside /\ turns = 0))
  <2>1. CASE Throw
    <3>1. t # "version" => t \in Names
      BY <1>1, <2>1, TablesAre, Zenon DEF Throw
    <3>2. t # "version" => ~inside \/ turns # 0
      BY <1>1, <2>1, Zenon DEF Throw
    <3> QED
      BY <3>1, <3>2
  <2>2. CASE NoMemory
    <3>1. t # "version" => t \in Names
      <4>1. "classes" \in Names
        BY DEF Names
      <4> QED
        BY <1>1, <2>2, <4>1, TablesAre, Zenon DEF NoMemory
    <3>2. t # "version" => ~inside \/ turns # 0
      BY <1>1, <2>2, Zenon DEF NoMemory
    <3> QED
      BY <3>1, <3>2
  <2> QED
    BY <2>1, <2>2
<1>4. Sizes(f, sizes, t, inside, turns)
  BY <1>1 DEF Roomy
<1>5. ~(inside /\ turns = 0) /\ AllButOneFull(f, sizes)
  <2>1. CASE t = "version"
    <3>1. ~inside /\ \A i \in 1..13 : Fresh(f, sizes, TableOrder[i])
      BY <1>4, <2>1, NotTables, Zenon DEF Sizes
    <3>2. 1 \in 1..13
      OBVIOUS
    <3> QED
      BY <3>1, <3>2, FreshIsFull DEF AllButOneFull
  <2>2. CASE t # "version"
    <3>1. t \in Names
      BY <1>3, <2>2
    <3>2. PICK k \in 1..13 : /\ t = TableOrder[k] /\ Around(f, sizes, k)
                             /\ ~inside => Fresh(f, sizes, t)
                             /\ inside => Lacks(f, sizes, t, turns)
      BY <1>4, <3>1, SizesAt
    <3>3. \E n : Lacks(f, sizes, t, n)
      BY <3>2, FreshIsFull
    <3>4. \A i \in 1..13 : i # k => Full(f, sizes, TableOrder[i])
      BY <3>2, AroundIsFull
    <3> QED
      BY <1>3, <2>2, <3>2, <3>3, <3>4 DEF AllButOneFull
  <2> QED
    BY <2>1, <2>2
<1>6. Sizes(f, sizes, pc', inside, turns)
  BY <1>2, <1>5 DEF Sizes
<1>7. Sizes(file', room', pc', sized', left')
  BY <1>2, <1>6
<1> QED
  BY <1>1, <1>2, <1>7 DEF Roomy

\* Control is in the loop of a table.
LEMMA InALoop ==
    ASSUME Roomy, LeaveLoop, LaidNow, PaidFor
    PROVE  pc \in Names
<1>1. sized /\ left = 0
  BY DEF LeaveLoop
<1>2. Laid(file, pc, sized, left, at)
  BY DEF LaidNow, PaidFor, ParseType
<1> QED
  BY <1>1, <1>2, OrderIs DEF Laid

LEMMA RoomyStep ==
    ASSUME PaidFor, LaidNow, Roomy, [Next]_(vars)
    PROVE  Roomy'
<1>1. CASE ReadVersion
  BY <1>1, RoomyVersion
<1>2. CASE ReadCount
  BY <1>2, RoomyCount
<1>3. CASE SizeClasses
  BY <1>3, RoomyClasses
<1>4. CASE ReadEntry
  BY <1>4, RoomyEntry
<1>5. CASE LeaveLoop
  BY <1>5, InALoop, RoomyLoop
<1>6. CASE Throw \/ NoMemory
  BY <1>6, RoomyOver
<1>7. CASE UNCHANGED vars
  BY <1>7 DEF vars, Roomy
<1> QED
  BY <1>1, <1>2, <1>3, <1>4, <1>5, <1>6, <1>7 DEF Next, Ended

\* All tables but one are full, at least.
LEMMA OneAtMost ==
    ASSUME Roomy
    PROVE  /\ AllButOneFull(file, room)
           /\ pc = "returned" => \A i \in 1..13 : Full(file, room, TableOrder[i])
<1>1. PICK f, t, sizes, inside, turns :
        f = file /\ t = pc /\ sizes = room /\ inside = sized /\ turns = left
  OBVIOUS
<1>2. Sizes(f, sizes, t, inside, turns) /\ DOMAIN sizes = Names /\ \A x \in Names : sizes[x] \in Nat
  BY <1>1 DEF Roomy
<1>3. PICK one \in 1..13 : one = 1
  OBVIOUS
<1>4. ASSUME \A i \in 1..13 : Full(f, sizes, TableOrder[i]) /\ Lacks(f, sizes, TableOrder[i], 0)
      PROVE  AllButOneFull(f, sizes)
  BY <1>3, <1>4 DEF AllButOneFull
<1>5. CASE t = "version" /\ \A i \in 1..13 : Fresh(f, sizes, TableOrder[i])
  BY <1>1, <1>4, <1>5, FreshIsFull
<1>6. ASSUME NEW k \in 1..13, t = TableOrder[k], Around(f, sizes, k),
             ~inside => Fresh(f, sizes, t), inside => Lacks(f, sizes, t, turns)
      PROVE  AllButOneFull(f, sizes) /\ t # "returned"
  <2>1. \E n : Lacks(f, sizes, t, n)
    BY <1>6, FreshIsFull
  <2>2. \A i \in 1..13 : i # k => Full(f, sizes, TableOrder[i])
    BY <1>6, AroundIsFull
  <2> QED
    BY <1>6, <2>1, <2>2, NotTables DEF AllButOneFull
<1>7. CASE t = "returned" /\ \A i \in 1..13 : Full(f, sizes, TableOrder[i])
  <2>1. ASSUME NEW i \in 1..13
        PROVE  Lacks(f, sizes, TableOrder[i], 0)
    <3>1. sizes[TableOrder[i]] \in Nat /\ Full(f, sizes, TableOrder[i])
      BY <1>2, <1>7, OrderIs
    <3> QED
      BY <3>1 DEF Full, Lacks
  <2> QED
    BY <1>1, <1>4, <1>7, <2>1
<1>8. CASE t \in {"thrown", "noMemory"} /\ AllButOneFull(f, sizes)
  BY <1>1, <1>8
<1> QED
  BY <1>1, <1>2, <1>5, <1>6, <1>7, <1>8 DEF Sizes

LEMMA AheadWhenRoomy ==
    ASSUME PaidFor, Roomy
    PROVE  OnlyOneTableAhead
<1> DEFINE reserved(t) == IF t \in PoolTables THEN 1 ELSE 0
           filled(t)   == reserved(t) + Len(file[t])
           ahead       == {t \in AllTables : room[t] # filled(t)}
<1>1. AllTables = Names
  BY TablesAre
<1>2. \A t \in Names : Full(file, room, t) <=> room[t] = filled(t)
  BY DEF Full, Reserved
<1>3. SumFunctionOnSet([t \in AllTables |-> Len(file[t])], AllTables) <= at
  <2>1. SumFunctionOnSet(Entries, Names) <= at
    BY DEF PaidFor
  <2>2. Entries = [t \in Names |-> Len(file[t])]
    BY DEF Entries
  <2> QED
    BY <1>1, <2>1, <2>2
<1>4. PICK k \in 1..13 : /\ \E n : Lacks(file, room, TableOrder[k], n)
                         /\ \A i \in 1..13 : i # k => Full(file, room, TableOrder[i])
  BY OneAtMost DEF AllButOneFull
<1>5. \A t \in ahead : t = TableOrder[k]
  <2> TAKE t \in ahead
  <2>1. t \in Names /\ ~Full(file, room, t)
    BY <1>1, <1>2
  <2>2. PICK i \in 1..13 : TableOrder[i] = t
    BY <2>1, OrderIs
  <2> QED
    BY <1>4, <2>1, <2>2
<1>6. \A t \in ahead : filled(t) < room[t] /\ room[t] < 2^30
  <2> SUFFICES ASSUME NEW t \in ahead
               PROVE  filled(t) < room[t] /\ room[t] < 2^30
    OBVIOUS
  <2>1. t \in Names /\ room[t] # filled(t)
    BY <1>1
  <2>2. PICK n : Lacks(file, room, t, n)
    BY <1>4, <1>5
  <2>3. n \in Nat /\ room[t] = filled(t) + n
    BY <2>2 DEF Lacks, Reserved
  <2>4. filled(t) \in Nat
    <3>1. PICK S : file[t] \in Seq(S)
      BY <2>1 DEF PaidFor
    <3>2. PICK much : much = Len(file[t])
      OBVIOUS
    <3>3. much \in Nat
      BY <3>1, <3>2, LenProperties
    <3>4. reserved(t) = 0 \/ reserved(t) = 1
      OBVIOUS
    <3> HIDE DEF reserved
    <3> QED
      BY <3>2, <3>3, <3>4
  <2>5. room[t] < 2^30
    BY <2>1 DEF Roomy
  <2> HIDE DEF filled
  <2> QED
    BY <2>1, <2>3, <2>4, <2>5
<1>7. pc = "returned" => ahead = {}
  <2> SUFFICES ASSUME pc = "returned", NEW t \in ahead
               PROVE  FALSE
    OBVIOUS
  <2>1. t \in Names /\ ~Full(file, room, t)
    BY <1>1, <1>2
  <2>2. PICK i \in 1..13 : TableOrder[i] = t
    BY <2>1, OrderIs
  <2> QED
    BY <2>1, <2>2, OneAtMost
<1>8. at <= Len(data)
  BY DEF PaidFor
<1>9. \A s, t \in ahead : s = t
  BY <1>5
<1> HIDE DEF ahead, filled
<1> QED
  BY <1>3, <1>6, <1>7, <1>8, <1>9 DEF OnlyOneTableAhead, ahead, filled

\* OnlyOneTableAhead (ABCReader::read): whatever the counts of an ABC file claim,
\* the entries that were read are no more in all than the bytes that were, no
\* byte is read that is not there, and at most one table, of fewer than 2^30
\* entries, has been resized for more than that; none when read returns.
THEOREM WorkIsBounded == Spec => []OnlyOneTableAhead
<1>1. Init => PaidFor /\ LaidNow /\ Roomy
  BY PaidForInit, LaidInit, RoomyInit
<1>2. PaidFor /\ LaidNow /\ Roomy /\ [Next]_(vars) => PaidFor' /\ LaidNow' /\ Roomy'
  BY PaidForStep, LaidStep, RoomyStep
<1>3. PaidFor /\ Roomy => OnlyOneTableAhead
  BY AheadWhenRoomy
<1> QED
  BY <1>1, <1>2, <1>3, PTL DEF Spec

=============================================================================

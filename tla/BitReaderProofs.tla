--------------------------- MODULE BitReaderProofs ---------------------------
(***************************************************************************)
(* Theorems on class DataReader, for every buffer, every place in it and   *)
(* every order of reads: where a read leaves the reader and what it gives. *)
(* Most of the lemmas are about the reads as operators, from any place, so *)
(* that they also serve a rectangle, which is five fields, and a client.   *)
(***************************************************************************)
EXTENDS BitReader, DataFacts, SequenceTheorems

\* The memory a reader looks at.
MemoryType ==
    /\ buf \in Seq(0..255)
    /\ behind \in 0..255
    /\ signed \in BOOLEAN

LEMMA ByteAtType ==
    ASSUME MemoryType, NEW p \in Nat
    PROVE  ByteAt(p) \in 0..255
<1>1. CASE p < Len(buf)
  <2>1. p + 1 \in 1..Len(buf)
    BY <1>1, LenProperties DEF MemoryType
  <2> QED
    BY <1>1, <2>1, ElementOfSeq DEF MemoryType, ByteAt
<1>2. CASE ~(p < Len(buf))
  BY <1>2 DEF MemoryType, ByteAt
<1> QED
  BY <1>1, <1>2

\* A char is its byte, and copies of the sign above it.
LEMMA CharType ==
    ASSUME MemoryType, NEW p \in Nat
    PROVE  /\ BitsOf[ByteAt(p)] \subseteq 0..7
           /\ Char(p) \subseteq WordBits
           /\ Char(p) \cap (0..7) = BitsOf[ByteAt(p)]
           /\ \A k \in Char(p) : k >= 8 => 7 \in Char(p)
           /\ 7 \in Char(p) <=> ByteAt(p) >= 128
           /\ ~signed \/ ByteAt(p) < 128 => Char(p) = BitsOf[ByteAt(p)]
<1>1. BitsOf[ByteAt(p)] \subseteq 0..7 /\ (7 \in BitsOf[ByteAt(p)] <=> ByteAt(p) >= 128)
  BY ByteAtType, BitsOfType
<1>2. ByteAt(p) \in Int
  BY ByteAtType
<1>3. Char(p) = IF signed /\ 7 \in BitsOf[ByteAt(p)] THEN BitsOf[ByteAt(p)] \cup (8..31)
                ELSE BitsOf[ByteAt(p)]
  <2>1. 8 - 1 = 7
    OBVIOUS
  <2> QED
    BY <2>1 DEF Char, SignExtend
<1> HIDE DEF Char
<1> QED
  BY <1>1, <1>2, <1>3 DEF WordBits

-----------------------------------------------------------------------------
(***************************************************************************)
(* The place behind a read.                                                *)
(***************************************************************************)
Bit(place) == 8 * place.cur + place.bit

IsPlace(place) == place.cur \in Nat /\ place.bit \in 0..7

\* A field of n bits ends n bits further, and is a word.
LEMMA UBPlace ==
    ASSUME MemoryType, NEW c \in Nat, NEW b \in 0..7, NEW n \in Nat
    PROVE  /\ IsPlace(UB(c, b, n))
           /\ Bit(UB(c, b, n)) = 8 * c + b + n
           /\ UB(c, b, n).val \subseteq WordBits
<1>1. CASE b + n > 8
  <2> DEFINE r == n - (8 - b)
             whole == r \div 8
             tail == r % 8
             high == Char(c + whole + 1)
  <2>1. r \in Nat
    BY <1>1
  <2> HIDE DEF r
  <2>2. whole \in Nat /\ tail \in 0..7 /\ 8 * whole + tail = r
    BY <2>1
  <2> HIDE DEF whole, tail
  <2>3. UB(c, b, n) = Got(Shl(Whole(c, b)[whole], tail) \cup Sar(high, 8 - tail),
                          c + whole + 1, tail)
    BY <1>1 DEF UB, Crossing, whole, tail, r
  <2>4. 8 * (c + whole + 1) + tail = 8 * c + b + n
    BY <2>2 DEF r
  <2>5. Sar(high, 8 - tail) \subseteq WordBits
    <3>1. high \subseteq WordBits
      BY <2>2, CharType
    <3>2. 8 - tail \in Nat /\ 8 - tail <= 32
      BY <2>2
    <3> HIDE DEF high
    <3> QED
      BY <3>1, <3>2, ShiftType
  <2>6. Shl(Whole(c, b)[whole], tail) \subseteq WordBits
    BY DEF Shl
  <2> HIDE DEF high
  <2> QED
    BY <2>2, <2>3, <2>4, <2>5, <2>6 DEF Got, IsPlace, Bit
<1>2. CASE ~(b + n > 8)
  <2> DEFINE byte == BitsOf[ByteAt(c)] \cap (0..(7 - b))
  <2>1. UB(c, b, n) = Got(Shr(byte, 8 - b - n), c + (b + n) \div 8, (b + n) % 8)
    BY <1>2 DEF UB
  <2>2. byte \subseteq WordBits
    <3>1. c \in Nat /\ 0..7 \subseteq WordBits
      BY DEF WordBits
    <3>2. BitsOf[ByteAt(c)] \subseteq 0..7
      BY <3>1, CharType
    <3> QED
      BY <3>1, <3>2
  <2>3. 8 - b - n \in Nat
    BY <1>2
  <2>4. Shr(byte, 8 - b - n) \subseteq WordBits
    <3> HIDE DEF byte
    <3> QED
      BY <2>2, <2>3, ShiftType
  <2> DEFINE q == (b + n) \div 8
             r == (b + n) % 8
  <2>5. q \in Nat /\ r \in 0..7 /\ 8 * q + r = b + n
    BY <1>2
  <2> HIDE DEF byte, q, r
  <2>6. UB(c, b, n) = Got(Shr(byte, 8 - b - n), c + q, r)
    BY <2>1 DEF q, r
  <2>7. c + q \in Nat /\ 8 * (c + q) + r = 8 * c + b + n
    BY <2>5
  <2> QED
    BY <2>4, <2>5, <2>6, <2>7 DEF Got, IsPlace, Bit
<1> QED
  BY <1>1, <1>2

\* A signed field, too.
LEMMA SBPlace ==
    ASSUME MemoryType, NEW c \in Nat, NEW b \in 0..7, NEW n \in Nat
    PROVE  /\ IsPlace(SB(c, b, n))
           /\ Bit(SB(c, b, n)) = 8 * c + b + n
           /\ SB(c, b, n).val \subseteq WordBits
<1> DEFINE v == UB(c, b, n)
<1>1. /\ IsPlace(v)
      /\ Bit(v) = 8 * c + b + n
      /\ v.val \subseteq WordBits
  BY UBPlace
<1>2. v = [val |-> v.val, cur |-> v.cur, bit |-> v.bit]
  BY DEF UB, Crossing, Got
<1> HIDE DEF v
<1>3. \/ SB(c, b, n) = v
      \/ SB(c, b, n) = [val |-> ((n % 32)..31) \cup v.val, cur |-> v.cur, bit |-> v.bit]
  BY <1>2 DEF SB, v
<1>4. ((n % 32)..31) \cup v.val \subseteq WordBits
  <2>1. n % 32 \in Nat
    OBVIOUS
  <2> QED
    BY <1>1, <2>1 DEF WordBits
<1> QED
  BY <1>1, <1>3, <1>4 DEF IsPlace, Bit

\* The number a word spells.
LEMMA NumberType ==
    ASSUME NEW w \in SUBSET WordBits
    PROVE  Number(w) \in Nat
BY WordSum, Zenon DEF Number

-----------------------------------------------------------------------------
(***************************************************************************)
(* The value of a field: the buffer is one string of bits.                 *)
(***************************************************************************)
LEMMA InField ==
    ASSUME NEW from \in Nat, NEW n \in Nat, NEW k
    PROVE  k \in Field(from, n) <=> k \in 0..(n - 1) /\ StreamBit(from + (n - 1 - k))
<1> DEFINE J == {j \in 0..(n - 1) : StreamBit(from + j)}
<1>1. k \in Field(from, n) <=> \E i \in J : k = n - 1 - i
  BY DEF Field
<1>2. ASSUME NEW i \in J, k = n - 1 - i
      PROVE  k \in 0..(n - 1) /\ StreamBit(from + (n - 1 - k))
  <2>1. i \in 0..(n - 1) /\ StreamBit(from + i)
    OBVIOUS
  <2> HIDE DEF J
  <2>2. k \in 0..(n - 1) /\ n - 1 - k = i
    BY <1>2, <2>1
  <2> QED
    BY <2>1, <2>2
<1>3. ASSUME k \in 0..(n - 1), StreamBit(from + (n - 1 - k))
      PROVE  \E i \in J : k = n - 1 - i
  <2> DEFINE i == n - 1 - k
  <2>1. i \in 0..(n - 1) /\ k = n - 1 - i
    BY <1>3
  <2>2. i \in J
    BY <1>3, <2>1
  <2> QED
    BY <2>1, <2>2
<1> QED
  BY <1>1, <1>2, <1>3

\* The bits of a byte, the highest first.
LEMMA StreamOfByte ==
    ASSUME NEW p \in Nat, NEW r \in 0..7
    PROVE  StreamBit(8 * p + r) <=> 7 - r \in BitsOf[ByteAt(p)]
<1>1. (8 * p + r) % 8 = r /\ (8 * p + r) \div 8 = p
  OBVIOUS
<1> QED
  BY <1>1 DEF StreamBit

\* A field that grows by t bits of the byte it ends at.
LEMMA FieldMore ==
    ASSUME NEW from \in Nat, NEW m \in Nat, NEW q \in Nat, from + m = 8 * q,
           NEW t \in 0..8, NEW k \in Int
    PROVE  k \in Field(from, m + t) <=>
             \/ k >= t /\ k - t \in Field(from, m)
             \/ k \in 0..(t - 1) /\ k + (8 - t) \in BitsOf[ByteAt(q)]
<1>1. k \in Field(from, m + t) <=> k \in 0..(m + t - 1) /\ StreamBit(from + (m + t - 1 - k))
  BY InField
<1>2. k - t \in Field(from, m) <=> k - t \in 0..(m - 1) /\ StreamBit(from + (m - 1 - (k - t)))
  BY InField
<1>3. CASE k >= t
  <2>1. m + t - 1 - k = m - 1 - (k - t)
    OBVIOUS
  <2>2. k \in 0..(m + t - 1) <=> k - t \in 0..(m - 1)
    BY <1>3
  <2>3. k \notin 0..(t - 1)
    BY <1>3
  <2> QED
    BY <1>1, <1>2, <1>3, <2>1, <2>2, <2>3
<1>4. CASE k < t /\ k >= 0
  <2> DEFINE r == t - 1 - k
  <2>1. r \in 0..7 /\ from + (m + t - 1 - k) = 8 * q + r /\ 7 - r = k + (8 - t)
    BY <1>4
  <2>2. k \in 0..(m + t - 1) /\ k \in 0..(t - 1)
    BY <1>4
  <2>3. StreamBit(8 * q + r) <=> 7 - r \in BitsOf[ByteAt(q)]
    BY <2>1, StreamOfByte
  <2> HIDE DEF r
  <2> QED
    BY <1>1, <1>4, <2>1, <2>2, <2>3
<1>5. CASE k < 0
  BY <1>1, <1>5
<1> QED
  BY <1>3, <1>4, <1>5

\* A field within one byte.
LEMMA UBNear ==
    ASSUME MemoryType, NEW c \in Nat, NEW b \in 0..7, NEW n \in Nat, b + n <= 8
    PROVE  UB(c, b, n).val = Field(8 * c + b, n)
<1> DEFINE byte == BitsOf[ByteAt(c)]
           v == UB(c, b, n).val
<1>1. v = Shr(byte \cap (0..(7 - b)), 8 - b - n)
  BY DEF UB, Got
<1>2. byte \subseteq 0..7
  BY CharType
<1>3. ASSUME NEW k \in Int
      PROVE  k \in Field(8 * c + b, n) <=> k \in 0..(n - 1) /\ k + (8 - b - n) \in byte
  <2>1. k \in Field(8 * c + b, n) <=> k \in 0..(n - 1) /\ StreamBit(8 * c + b + (n - 1 - k))
    BY InField
  <2>2. CASE k \in 0..(n - 1)
    <3> DEFINE r == b + (n - 1 - k)
    <3>1. r \in 0..7 /\ 8 * c + b + (n - 1 - k) = 8 * c + r /\ 7 - r = k + (8 - b - n)
      BY <2>2
    <3>2. StreamBit(8 * c + r) <=> 7 - r \in byte
      BY <3>1, StreamOfByte
    <3> HIDE DEF r, byte
    <3> QED
      BY <2>1, <2>2, <3>1, <3>2
  <2> QED
    BY <2>1, <2>2
<1>4. ASSUME NEW k
      PROVE  k \in v <=> k \in 0..(n - 1) /\ k + (8 - b - n) \in byte
  <2> DEFINE s == 8 - b - n
             low == byte \cap (0..(7 - b))
  <2>1. s \in Nat /\ 7 - b - s = n - 1
    OBVIOUS
  <2>2. \A i \in low : i \in Nat /\ i <= 7 - b /\ i \in byte
    BY <1>2
  <2> HIDE DEF v, byte, low
  <2>3. k \in v <=> \E i \in low : i >= s /\ k = i - s
    BY <1>1 DEF Shr, low
  <2> HIDE DEF s
  <2>4. ASSUME NEW i \in low, i >= s, k = i - s
        PROVE  k \in 0..(n - 1) /\ k + s \in byte
    <3>1. k + s = i
      BY <2>1, <2>2, <2>4
    <3> QED
      BY <2>1, <2>2, <2>4, <3>1
  <2>5. ASSUME k \in 0..(n - 1), k + s \in byte
        PROVE  \E i \in low : i >= s /\ k = i - s
    <3>1. k + s \in 0..(7 - b) /\ k + s >= s /\ k = (k + s) - s
      BY <2>1, <2>5
    <3>2. k + s \in low
      BY <2>5, <3>1 DEF low
    <3> QED
      BY <3>1, <3>2
  <2> QED
    BY <2>3, <2>4, <2>5 DEF s
<1>5. \A k \in Field(8 * c + b, n) : k \in 0..(n - 1)
  BY InField
<1> HIDE DEF v, byte
<1>6. \A k : k \in v <=> k \in Field(8 * c + b, n)
  BY <1>3, <1>4, <1>5
<1> QED
  BY <1>6 DEF v

\* The word of the whole bytes of a field.
LEMMA WholeUnfolds ==
    ASSUME NEW c \in Nat, NEW b \in 0..7, MemoryType
    PROVE  /\ Whole(c, b)[0] = BitsOf[ByteAt(c)] \cap (0..(7 - b))
           /\ \A n \in Nat : Whole(c, b)[n + 1] = Shl(Whole(c, b)[n], 8) \cup Char(c + (n + 1))
<1> DEFINE V == SUBSET WordBits
           first == BitsOf[ByteAt(c)] \cap (0..(7 - b))
           G == [x \in Nat \X V |-> Shl(x[2], 8) \cup Char(c + x[1])]
           body(f) == [i \in Nat |-> IF i = 0 THEN first ELSE Shl(f[i - 1], 8) \cup Char(c + i)]
<1>1. first \in V
  BY CharType DEF WordBits
<1>2. G \in StepsIn(V)
  <2>1. ASSUME NEW x \in Nat \X V
        PROVE  Shl(x[2], 8) \cup Char(c + x[1]) \in V
    <3>1. c + x[1] \in Nat
      OBVIOUS
    <3>2. Char(c + x[1]) \subseteq WordBits
      BY <3>1, CharType
    <3>3. Shl(x[2], 8) \subseteq WordBits
      BY DEF Shl
    <3> QED
      BY <3>2, <3>3
  <2> HIDE DEF V
  <2> QED
    BY <2>1 DEF StepsIn
<1>3. PICK f \in [Nat -> V] : Unfolds(f, first, G)
  <2> HIDE DEF V, first, G
  <2> QED
    BY <1>1, <1>2, NatRecursive
<1>4. f = body(f)
  <2>1. ASSUME NEW i \in Nat
        PROVE  f[i] = body(f)[i]
    <3>1. CASE i = 0
      <4> HIDE DEF first, G, V
      <4> QED
        BY <1>3, <3>1 DEF Unfolds
    <3>2. CASE i # 0
      <4>1. <<i, f[i - 1]>> \in Nat \X V
        BY <3>2
      <4>2. f[i] = G[<<i, f[i - 1]>>]
        <5> HIDE DEF first, G, V
        <5> QED
          BY <1>3, <3>2 DEF Unfolds
      <4> HIDE DEF V, first
      <4>3. G[<<i, f[i - 1]>>] = Shl(f[i - 1], 8) \cup Char(c + i)
        BY <4>1
      <4> QED
        BY <3>2, <4>2, <4>3
    <3> QED
      BY <3>1, <3>2
  <2> HIDE DEF first, V
  <2> QED
    BY <2>1
<1> DEFINE w == CHOOSE g : g = body(g)
<1>5. w = body(w)
  BY <1>4
<1>6. Whole(c, b) = w
  BY Zenon DEF Whole
<1> HIDE DEF w, first
<1>7. w[0] = first
  BY <1>5
<1>8. ASSUME NEW n \in Nat
      PROVE  w[n + 1] = Shl(w[n], 8) \cup Char(c + (n + 1))
  <2> DEFINE q == n + 1
  <2>1. q \in Nat /\ q # 0 /\ q - 1 = n
    OBVIOUS
  <2> HIDE DEF q
  <2>2. w[q] = IF q = 0 THEN first ELSE Shl(w[q - 1], 8) \cup Char(c + q)
    BY <1>5, <2>1
  <2>3. w[q] = Shl(w[n], 8) \cup Char(c + q)
    BY Zenon, <2>1, <2>2
  <2> QED
    BY <2>3 DEF q
<1> QED
  BY <1>6, <1>7, <1>8 DEF first

\* While no char has a sign, the word holds the bits of the field so far.
LEMMA WholeExact ==
    ASSUME NEW c \in Nat, NEW b \in 0..7, MemoryType,
           NEW N \in Nat, 8 - b + 8 * N <= 32,
           \A p \in (c + 1)..(c + N) : Char(p) = BitsOf[ByteAt(p)]
    PROVE  Whole(c, b)[N] = Field(8 * c + b, 8 - b + 8 * N)
<1> DEFINE from == 8 * c + b
           w == Whole(c, b)
           S == {n \in Nat : n <= N => w[n] = Field(from, 8 - b + 8 * n)}
<1>0. from \in Nat
  OBVIOUS
<1>1. 0 \in S
  <2>1. w[0] = BitsOf[ByteAt(c)] \cap (0..(7 - b))
    BY WholeUnfolds
  <2>2. w[0] = Field(from, 8 - b)
    <3>1. 8 - b \in Nat /\ b + (8 - b) <= 8 /\ 8 - b - (8 - b) = 0
      OBVIOUS
    <3>2. UB(c, b, 8 - b).val = Field(from, 8 - b)
      BY <3>1, UBNear
    <3>3. UB(c, b, 8 - b).val = Shr(w[0], 0)
      BY <2>1, <3>1 DEF UB, Got
    <3>4. Shr(w[0], 0) = w[0]
      <4>1. \A i \in w[0] : i \in Nat /\ i - 0 = i
        BY <2>1
      <4> HIDE DEF w
      <4> QED
        BY <4>1 DEF Shr
    <3> QED
      BY <3>2, <3>3, <3>4
  <2>3. 8 - b + 8 * 0 = 8 - b
    OBVIOUS
  <2> HIDE DEF w, from
  <2> QED
    BY <2>2, <2>3
<1>2. ASSUME NEW n \in Nat, n \in S
      PROVE  n + 1 \in S
  <2> SUFFICES ASSUME n + 1 <= N
               PROVE  w[n + 1] = Field(from, 8 - b + 8 * (n + 1))
    OBVIOUS
  <2> DEFINE m == 8 - b + 8 * n
             q == c + (n + 1)
             byte == BitsOf[ByteAt(q)]
  <2>1. w[n] = Field(from, m)
    <3>1. n <= N
      OBVIOUS
    <3> HIDE DEF w, from, m
    <3> QED
      BY <1>2, <3>1 DEF m
  <2>2. /\ m \in Nat /\ m + 8 <= 32 /\ from + m = 8 * q /\ 8 - b + 8 * (n + 1) = m + 8
        /\ q \in Nat /\ q \in (c + 1)..(c + N)
    OBVIOUS
  <2>3. w[n + 1] = Shl(w[n], 8) \cup byte
    <3>1. w[n + 1] = Shl(w[n], 8) \cup Char(q)
      BY WholeUnfolds
    <3> HIDE DEF w, q
    <3> QED
      BY <2>2, <3>1
  <2>4. byte \subseteq 0..7
    <3> HIDE DEF q
    <3> QED
      BY <2>2, CharType
  <2> HIDE DEF w, m, q, S, from
  <2>5. \A k \in Int : k \in Field(from, m + 8) <=>
            \/ k >= 8 /\ k - 8 \in Field(from, m)
            \/ k \in 0..(8 - 1) /\ k + (8 - 8) \in byte
    <3>1. 8 \in 0..8
      OBVIOUS
    <3> QED
      BY <1>0, <2>2, <3>1, FieldMore
  <2>6. \A k : k \in Shl(Field(from, m), 8) <=> k \in WordBits /\ k - 8 \in Field(from, m)
    <3>1. \A i \in Field(from, m) : i \in 0..(m - 1)
      BY <1>0, <2>2, InField
    <3>2. ASSUME NEW k \in WordBits, k - 8 \in Field(from, m)
          PROVE  k \in Shl(Field(from, m), 8)
      <4>1. (k - 8) + 8 = k
        BY DEF WordBits
      <4> QED
        BY <3>2, <4>1 DEF Shl
    <3>3. ASSUME NEW k \in Shl(Field(from, m), 8)
          PROVE  k \in WordBits /\ k - 8 \in Field(from, m)
      <4>1. k \in WordBits /\ \E i \in Field(from, m) : k = i + 8
        BY DEF Shl
      <4>2. PICK i \in Field(from, m) : k = i + 8
        BY <4>1
      <4>3. k - 8 = i
        BY <2>2, <3>1, <4>2
      <4> QED
        BY Zenon, <4>1, <4>2, <4>3
    <3> QED
      BY <3>2, <3>3
  <2>7. \A k : k \in w[n + 1] <=> k \in Field(from, m + 8)
    <3>1. \A k \in Field(from, m + 8) : k \in WordBits
      <4>1. PICK l \in Nat : l = m + 8 /\ l <= 32
        BY <2>2
      <4>2. \A k \in Field(from, l) : k \in 0..(l - 1)
        BY <1>0, InField
      <4>3. \A k \in Field(from, l) : k \in WordBits
        BY <4>1, <4>2 DEF WordBits
      <4> QED
        BY Zenon, <4>1, <4>3
    <3>2. \A k \in w[n + 1] : k \in WordBits
      BY <2>1, <2>3, <2>4, <2>6 DEF WordBits
    <3>3. ASSUME NEW k \in WordBits
          PROVE  k \in w[n + 1] <=> k \in Field(from, m + 8)
      <4>1. k \in Int /\ k >= 0
        BY DEF WordBits
      <4>2. k \in byte <=> k \in 0..(8 - 1) /\ k + (8 - 8) \in byte
        BY <2>4, <4>1
      <4>3. k - 8 \in Field(from, m) => k >= 8
        <5>1. k - 8 \in Field(from, m) => k - 8 \in 0..(m - 1)
          BY <1>0, <2>2, InField
        <5> QED
          BY <2>2, <4>1, <5>1
      <4> HIDE DEF byte
      <4> QED
        BY <2>1, <2>3, <2>5, <2>6, <4>1, <4>2, <4>3
    <3> QED
      BY <3>1, <3>2, <3>3
  <2> QED
    BY <2>2, <2>7
<1> HIDE DEF S
<1>3. Nat \subseteq S
  BY <1>1, <1>2, NatInductive
<1>4. N \in S
  BY <1>3
<1> HIDE DEF w, from
<1>5. w[N] = Field(from, 8 - b + 8 * N)
  BY <1>4 DEF S
<1> QED
  BY <1>5 DEF w, from

\* A field is the number its bits spell, if no char behind its first byte has
\* a sign.
LEMMA UBExact ==
    ASSUME MemoryType, NEW c \in Nat, NEW b \in 0..7, NEW n \in 0..32,
           ~signed \/ NoSigns(8 * c + b, 8 * c + b + n)
    PROVE  UB(c, b, n).val = Field(8 * c + b, n)
<1>1. CASE b + n <= 8
  <2>1. n \in Nat
    OBVIOUS
  <2> QED
    BY <1>1, <2>1, UBNear
<1>2. CASE b + n > 8
  <2> DEFINE from == 8 * c + b
             r == n - (8 - b)
             whole == r \div 8
             tail == r % 8
             last8 == c + whole + 1
             m == 8 - b + 8 * whole
             byte == BitsOf[ByteAt(last8)]
             v == UB(c, b, n).val
  <2>1. r \in Nat
    BY <1>2
  <2>2. whole \in Nat /\ tail \in 0..7 /\ 8 * whole + tail = r
    BY <2>1
  <2>3. v = Shl(Whole(c, b)[whole], tail) \cup Sar(Char(last8), 8 - tail)
    BY <1>2 DEF UB, Crossing, Got
  <2> HIDE DEF whole, tail, v
  <2>4. /\ m \in Nat /\ m <= 32 /\ m + tail = n /\ from + m = 8 * last8 /\ last8 \in Nat
        /\ from \in Nat
        /\ from \div 8 = c /\ (from + n) \div 8 = last8
    BY <2>2
  <2>5. \A p \in (c + 1)..last8 : Char(p) = BitsOf[ByteAt(p)]
    <3>1. ASSUME NEW p \in (c + 1)..last8
          PROVE  Char(p) = BitsOf[ByteAt(p)]
      <4>1. p \in Nat
        BY <2>2
      <4>2. ~signed \/ ByteAt(p) < 128
        BY <2>4 DEF NoSigns
      <4> QED
        BY <4>1, <4>2, CharType
    <3> QED
      BY <3>1
  <2>6. Whole(c, b)[whole] = Field(from, m)
    <3>1. \A p \in (c + 1)..(c + whole) : Char(p) = BitsOf[ByteAt(p)]
      BY <2>2, <2>5
    <3> QED
      BY <2>2, <2>4, <3>1, WholeExact
  <2>7. byte \subseteq 0..7 /\ Char(last8) = byte
    <3>1. last8 \in (c + 1)..last8
      BY <2>2
    <3> HIDE DEF last8
    <3> QED
      BY <2>4, <2>5, <3>1, CharType
  <2>8. Sar(Char(last8), 8 - tail) = Shr(byte, 8 - tail)
    <3>1. 31 \notin byte
      BY <2>7
    <3> HIDE DEF byte, last8
    <3> QED
      BY <2>7, <3>1 DEF Sar
  <2> HIDE DEF from, m, byte, last8
  <2>9. \A k : k \in Shr(byte, 8 - tail) <=> k \in 0..(tail - 1) /\ k + (8 - tail) \in byte
    <3> DEFINE s == 8 - tail
    <3>1. s \in Nat /\ 7 - s = tail - 1
      BY <2>2
    <3> HIDE DEF s
    <3>2. ASSUME NEW k
          PROVE  k \in Shr(byte, s) <=> \E i \in byte : i >= s /\ k = i - s
      BY DEF Shr
    <3>3. ASSUME NEW k, NEW i \in byte, i >= s, k = i - s
          PROVE  k \in 0..(tail - 1) /\ k + s \in byte
      <4>1. k + s = i
        BY <2>7, <3>1, <3>3
      <4> QED
        BY <2>2, <2>7, <3>1, <3>3, <4>1
    <3>4. ASSUME NEW k \in 0..(tail - 1), k + s \in byte
          PROVE  \E i \in byte : i >= s /\ k = i - s
      <4>1. k + s >= s /\ k = (k + s) - s
        BY <2>2, <3>1
      <4> QED
        BY <3>4, <4>1
    <3>5. \A k : k \in Shr(byte, s) <=> k \in 0..(tail - 1) /\ k + s \in byte
      BY <3>2, <3>3, <3>4
    <3> QED
      BY <3>5 DEF s
  <2>10. \A k : k \in Shl(Field(from, m), tail) <=> k \in WordBits /\ k - tail \in Field(from, m)
    <3>1. \A i \in Field(from, m) : i \in 0..(m - 1)
      BY <2>4, InField
    <3>2. ASSUME NEW k \in WordBits, k - tail \in Field(from, m)
          PROVE  k \in Shl(Field(from, m), tail)
      <4>1. (k - tail) + tail = k
        BY <2>2 DEF WordBits
      <4> QED
        BY <3>2, <4>1 DEF Shl
    <3>3. ASSUME NEW k \in Shl(Field(from, m), tail)
          PROVE  k \in WordBits /\ k - tail \in Field(from, m)
      <4>1. k \in WordBits /\ \E i \in Field(from, m) : k = i + tail
        BY DEF Shl
      <4>2. PICK i \in Field(from, m) : k = i + tail
        BY <4>1
      <4>3. k - tail = i
        BY <2>2, <2>4, <3>1, <4>2
      <4> QED
        BY Zenon, <4>1, <4>2, <4>3
    <3> QED
      BY <3>2, <3>3
  <2>11. ASSUME NEW k \in Int
         PROVE  k \in Field(from, n) <=>
                  \/ k >= tail /\ k - tail \in Field(from, m)
                  \/ k \in 0..(tail - 1) /\ k + (8 - tail) \in byte
    <3>1. tail \in 0..8
      BY <2>2
    <3>2. k \in Field(from, m + tail) <=>
                  \/ k >= tail /\ k - tail \in Field(from, m)
                  \/ k \in 0..(tail - 1) /\ k + (8 - tail) \in BitsOf[ByteAt(last8)]
      BY <2>4, <3>1, FieldMore
    <3> QED
      BY <2>4, <3>2 DEF byte
  <2>12. \A k : k \in v <=> k \in Shl(Field(from, m), tail) \/ k \in Shr(byte, 8 - tail)
    BY <2>3, <2>6, <2>8
  <2>13. \A k : k \in v <=> k \in Field(from, n)
    <3>1. \A k \in Field(from, n) : k \in WordBits
      <4>1. \A k \in Field(from, n) : k \in 0..(n - 1)
        BY <2>4, InField
      <4> QED
        BY <4>1 DEF WordBits
    <3>2. \A k \in v : k \in WordBits
      <4>1. \A k \in 0..(tail - 1) : k \in WordBits
        BY <2>2 DEF WordBits
      <4> QED
        BY <2>9, <2>10, <2>12, <4>1
    <3>3. ASSUME NEW k \in WordBits
          PROVE  k \in v <=> k \in Field(from, n)
      <4>1. k \in Int /\ k >= 0
        BY DEF WordBits
      <4>2. k - tail \in Field(from, m) => k >= tail
        <5>1. k - tail \in Field(from, m) => k - tail \in 0..(m - 1)
          BY <2>4, InField
        <5> QED
          BY <2>2, <2>4, <4>1, <5>1
      <4> QED
        BY <2>9, <2>10, <2>11, <2>12, <4>1, <4>2
    <3> QED
      BY <3>1, <3>2, <3>3
  <2> QED
    BY <2>13 DEF v, from
<1> QED
  BY <1>1, <1>2

\* A signed field: its highest bit, if it has any, fills what is above it;
\* with 32 bits only if it is not set.
LEMMA SBExact ==
    ASSUME MemoryType, NEW c \in Nat, NEW b \in 0..7, NEW n \in 0..32,
           n < 32 \/ ~StreamBit(8 * c + b),
           ~signed \/ NoSigns(8 * c + b, 8 * c + b + n)
    PROVE  SB(c, b, n).val = SignedField(8 * c + b, n)
<1> DEFINE from == 8 * c + b
           v == UB(c, b, n)
           f == Field(from, n)
<1>1. v.val = f
  BY UBExact
<1>2. v = [val |-> v.val, cur |-> v.cur, bit |-> v.bit]
  BY DEF UB, Crossing, Got
<1>3. /\ \A k \in f : k \in 0..(n - 1)
      /\ n = 32 => n - 1 \notin f
  <2>1. from \in Nat /\ n \in Nat /\ (n = 32 => ~StreamBit(from))
    OBVIOUS
  <2> HIDE DEF from
  <2>2. \A k : k \in f <=> k \in 0..(n - 1) /\ StreamBit(from + (n - 1 - k))
    BY <2>1, InField
  <2>3. n - 1 \in f => StreamBit(from + (n - 1 - (n - 1)))
    BY <2>2
  <2>4. from + (n - 1 - (n - 1)) = from
    BY <2>1
  <2> QED
    BY <2>1, <2>2, <2>3, <2>4
<1>7. n = 32 \/ n % 32 = n
  OBVIOUS
<1> HIDE DEF v, f, from
<1>4. Shr(f, n - 1) # {} <=> n - 1 \in f
  <2>1. Shr(f, n - 1) # {} <=> \E i \in f : i >= n - 1
    BY DEF Shr
  <2>2. \A i \in f : i >= n - 1 <=> i = n - 1
    BY <1>3
  <2> QED
    BY <2>1, <2>2
<1>5. SB(c, b, n).val = IF n - 1 \in f THEN (n..31) \cup f ELSE f
  <2>1. SB(c, b, n).val = IF n - 1 \in f THEN ((n % 32)..31) \cup f ELSE f
    BY <1>1, <1>2, <1>4 DEF SB, v
  <2> QED
    BY <1>3, <1>7, <2>1
<1>6. SignedField(from, n) = IF n - 1 \in f THEN f \cup (n..31) ELSE f
  BY DEF SignedField, SignExtend, f
<1> QED
  BY <1>5, <1>6 DEF from

\* Five bits spell a number below 32.
LEMMA WidthBound ==
    ASSUME NEW w \in SUBSET (0..4)
    PROVE  Number(w) \in 0..31
<1> DEFINE S == 0..4
           h == [i \in S |-> 2^i]
           g == [i \in w |-> 2^i]
<1>1. IsFiniteSet(S) /\ IsFiniteSet(w)
  <2>1. 0 \in Int /\ 4 \in Int
    OBVIOUS
  <2>2. IsFiniteSet(0..4)
    BY <2>1, FS_Interval, Zenon
  <2> QED
    BY <2>2, FS_Subset
<1>2. h[0] = 1 /\ h[1] = 2 /\ h[2] = 4 /\ h[3] = 8 /\ h[4] = 16
  <2>1. 2^0 = 1 /\ 2^1 = 2 /\ 2^2 = 4 /\ 2^3 = 8 /\ 2^4 = 16
    OBVIOUS
  <2> QED
    BY <2>1
<1>3. \A i \in S : h[i] \in Nat
  BY PowerType
<1>4. w \subseteq S /\ \A i \in w : g[i] = h[i] /\ g[i] \in Nat
  BY <1>3
<1>5. Number(w) = SumFunctionOnSet(g, w)
  <2>1. DOMAIN g = w
    OBVIOUS
  <2>2. Number(w) = SumFunction(g)
    BY Zenon DEF Number
  <2> HIDE DEF g
  <2> QED
    BY <2>1, <2>2, Zenon DEF SumFunction
<1> HIDE DEF h, g, S
<1>6. PICK it \in [SUBSET S -> Nat] : SumsUp(it, S, h)
  BY <1>1, <1>3, SumExists
<1>7. PICK jt \in [SUBSET w -> Nat] : SumsUp(jt, w, g) /\ SumFunctionOnSet(g, w) = jt[w]
  BY <1>1, <1>4, SumByFunction
<1>8. it[w] = jt[w]
  <2>1. /\ IsFiniteSet(w) /\ w \subseteq S /\ AgreeOn(g, h, w)
        /\ SumsUp(jt, w, g) /\ SumsUp(it, S, h)
    BY <1>1, <1>4, <1>6, <1>7 DEF AgreeOn
  <2>2. AgreeOn(jt, it, SUBSET w)
    BY <2>1, SumUnique
  <2> QED
    BY <2>2 DEF AgreeOn
<1>9. BeginsAnywhere(it, S, h)
  <2>1. it \in [SUBSET S -> Int] /\ \A i \in S : h[i] \in Int
    BY <1>3, <1>6
  <2> QED
    BY <1>1, <1>6, <2>1, SumAny
<1>10. ASSUME NEW s \in SUBSET S, NEW x \in S
       PROVE  it[s] <= h[x] + it[s \ {x}] /\ it[s \ {x}] \in Nat
  <2>1. s \ {x} \in SUBSET S
    OBVIOUS
  <2>2. it[s] \in Nat /\ it[s \ {x}] \in Nat /\ h[x] \in Nat
    BY <1>3, <1>6, <2>1
  <2>3. CASE x \in s
    <3>1. it[s] = h[x] + it[s \ {x}]
      BY <1>9, <2>3 DEF BeginsAnywhere
    <3> QED
      BY <2>2, <3>1
  <2>4. CASE x \notin s
    <3>1. s \ {x} = s
      BY <2>4
    <3>2. it[s \ {x}] = it[s]
      BY Zenon, <3>1
    <3> QED
      BY <2>2, <3>2
  <2> QED
    BY <2>3, <2>4
<1> DEFINE w3 == w \ {4}
           w2 == w3 \ {3}
           w1 == w2 \ {2}
           w0 == w1 \ {1}
           e == w0 \ {0}
<1>11. /\ w3 \in SUBSET S /\ w2 \in SUBSET S /\ w1 \in SUBSET S /\ w0 \in SUBSET S
       /\ 0 \in S /\ 1 \in S /\ 2 \in S /\ 3 \in S /\ 4 \in S
  BY <1>4 DEF S
<1>12. e = {}
  BY DEF S
<1>13. it[{}] = 0
  BY <1>6 DEF SumsUp
<1>14. /\ it[w] <= 16 + it[w3] /\ it[w3] \in Nat
       /\ it[w3] <= 8 + it[w2] /\ it[w2] \in Nat
       /\ it[w2] <= 4 + it[w1] /\ it[w1] \in Nat
       /\ it[w1] <= 2 + it[w0] /\ it[w0] \in Nat
       /\ it[w0] <= 1 + it[e] /\ it[e] \in Nat
  BY <1>2, <1>4, <1>10, <1>11
<1>15. it[w] \in Nat
  BY <1>4, <1>6
<1> HIDE DEF w3, w2, w1, w0, e
<1> QED
  BY <1>5, <1>7, <1>8, <1>12, <1>13, <1>14, <1>15

\* A place is a record, which EXCEPT can change.
LEMMA SBRecord ==
    ASSUME NEW c, NEW b, NEW n
    PROVE  SB(c, b, n) = [val |-> SB(c, b, n).val, cur |-> SB(c, b, n).cur,
                          bit |-> SB(c, b, n).bit]
<1> DEFINE v == UB(c, b, n)
<1>1. v = [val |-> v.val, cur |-> v.cur, bit |-> v.bit]
  BY DEF UB, Crossing, Got
<1>2. SB(c, b, n) = IF Shr(v.val, n - 1) # {} THEN [v EXCEPT !.val = ((n % 32)..31) \cup @] ELSE v
  BY DEF SB
<1> HIDE DEF v
<1> QED
  BY <1>1, <1>2

\* The bits of several fields are those of one field that are not beyond it.
LEMMA NoSignsWithin ==
    ASSUME NEW f \in Nat, NEW t \in Nat, NoSigns(f, t),
           NEW g \in Nat, NEW u \in Nat, f <= g, u <= t
    PROVE  NoSigns(g, u)
<1>1. f \div 8 <= g \div 8 /\ u \div 8 <= t \div 8
  OBVIOUS
<1> DEFINE fd == f \div 8
           gd == g \div 8
           ud == u \div 8
           td == t \div 8
<1>2. fd \in Int /\ gd \in Int /\ ud \in Int /\ td \in Int /\ fd <= gd /\ ud <= td
  BY <1>1
<1>3. \A p \in (fd + 1)..td : ByteAt(p) < 128
  BY DEF NoSigns
<1> HIDE DEF fd, gd, ud, td
<1>4. \A p \in (gd + 1)..ud : ByteAt(p) < 128
  BY <1>2, <1>3
<1> QED
  BY <1>4 DEF NoSigns, gd, ud

\* A rectangle at the beginning of a byte: where it ends, and what it gives.
LEMMA RECTExact ==
    ASSUME MemoryType, NEW c \in Nat
    PROVE  /\ IsPlace(RECT(c, 0))
           /\ Bit(RECT(c, 0)) = 8 * c + 5 + 4 * Width(8 * c)
           /\ ~signed \/ NoSigns(8 * c, 8 * c + 5 + 4 * Width(8 * c)) =>
                RECT(c, 0).val = [i \in 1..4 |-> SignedField(8 * c + 5 + (i - 1) * Width(8 * c),
                                                             Width(8 * c))]
<1> DEFINE head == UB(c, 0, 5)
           n == Width(8 * c)
           start == 8 * c + 5
           one == SB(head.cur, head.bit, n)
           two == SB(one.cur, one.bit, n)
           three == SB(two.cur, two.bit, n)
           four == SB(three.cur, three.bit, n)
<1>1. IsPlace(head) /\ Bit(head) = start /\ head.val = Field(8 * c, 5)
  <2>1. 0 \in 0..7 /\ 5 \in Nat /\ 0 + 5 <= 8 /\ 8 * c + 0 = 8 * c
    OBVIOUS
  <2> HIDE DEF head
  <2>2. IsPlace(head) /\ Bit(head) = 8 * c + 0 + 5
    BY <2>1, UBPlace DEF head
  <2>3. head.val = Field(8 * c + 0, 5)
    BY <2>1, UBNear DEF head
  <2> QED
    BY <2>1, <2>2, <2>3
<1>2. n \in 0..31 /\ Number(head.val) = n
  <2>1. \A k \in Field(8 * c, 5) : k \in 0..4
    <3>1. 8 * c \in Nat /\ 5 \in Nat
      OBVIOUS
    <3>2. \A k \in Field(8 * c, 5) : k \in 0..(5 - 1)
      BY <3>1, InField
    <3> QED
      BY <3>2
  <2>2. Number(Field(8 * c, 5)) \in 0..31
    BY <2>1, WidthBound
  <2> HIDE DEF head
  <2> QED
    BY <1>1, <2>2 DEF Width
<1>s. start \in Nat
  OBVIOUS
<1>r. RECT(c, 0) = [four EXCEPT !.val = <<one.val, two.val, three.val, four.val>>]
  <2> HIDE DEF head, n
  <2> QED
    BY <1>2 DEF RECT, head
<1> HIDE DEF n, head, start
<1>3. ASSUME NEW v, IsPlace(v)
      PROVE  /\ IsPlace(SB(v.cur, v.bit, n))
             /\ Bit(SB(v.cur, v.bit, n)) = Bit(v) + n
             /\ Bit(v) \in Nat
             /\ ~signed \/ NoSigns(Bit(v), Bit(v) + n) =>
                  SB(v.cur, v.bit, n).val = SignedField(Bit(v), n)
  <2>1. v.cur \in Nat /\ v.bit \in 0..7 /\ n \in Nat /\ n \in 0..32 /\ n < 32
    BY <1>2, <1>3 DEF IsPlace
  <2>2. /\ IsPlace(SB(v.cur, v.bit, n))
        /\ Bit(SB(v.cur, v.bit, n)) = 8 * v.cur + v.bit + n
    BY <2>1, SBPlace
  <2>3. ~signed \/ NoSigns(8 * v.cur + v.bit, 8 * v.cur + v.bit + n) =>
          SB(v.cur, v.bit, n).val = SignedField(8 * v.cur + v.bit, n)
    BY <2>1, SBExact
  <2> QED
    BY <2>1, <2>2, <2>3 DEF Bit
<1>4. IsPlace(one) /\ Bit(one) = start + n
  BY <1>1, <1>3
<1> HIDE DEF one
<1>5. IsPlace(two) /\ Bit(two) = start + n + n
  BY <1>3, <1>4
<1> HIDE DEF two
<1>6. IsPlace(three) /\ Bit(three) = start + n + n + n
  BY <1>3, <1>5
<1> HIDE DEF three
<1>7. IsPlace(four) /\ Bit(four) = start + n + n + n + n
  BY <1>3, <1>6
<1>8. four = [val |-> four.val, cur |-> four.cur, bit |-> four.bit]
  BY SBRecord
<1> HIDE DEF four
<1>9. /\ RECT(c, 0).cur = four.cur /\ RECT(c, 0).bit = four.bit
      /\ RECT(c, 0).val = <<one.val, two.val, three.val, four.val>>
  BY <1>r, <1>8
<1>10. IsPlace(RECT(c, 0)) /\ Bit(RECT(c, 0)) = start + 4 * n
  <2>1. start + n + n + n + n = start + 4 * n
    BY <1>2, <1>s
  <2> QED
    BY <1>7, <1>9, <2>1 DEF IsPlace, Bit
<1>11. ASSUME ~signed \/ NoSigns(8 * c, start + 4 * n)
       PROVE  RECT(c, 0).val = [i \in 1..4 |-> SignedField(start + (i - 1) * n, n)]
  <2>1. ASSUME NEW g \in Nat, NEW u \in Nat, start <= g, u <= start + 4 * n
        PROVE  ~signed \/ NoSigns(g, u)
    <3>1. 8 * c \in Nat /\ start + 4 * n \in Nat /\ 8 * c <= g
      BY <1>2, <1>s, <2>1 DEF start
    <3> QED
      BY <1>11, <2>1, <3>1, NoSignsWithin
  <2>2. one.val = SignedField(start, n)
    <3>1. start + n \in Nat /\ start <= start /\ start + n <= start + 4 * n
      BY <1>2, <1>s
    <3>2. ~signed \/ NoSigns(start, start + n)
      BY <1>s, <2>1, <3>1
    <3> QED
      BY <1>1, <1>3, <3>2 DEF one
  <2>3. two.val = SignedField(start + n, n)
    <3>1. start + n \in Nat /\ start + n + n \in Nat /\ start <= start + n
          /\ start + n + n <= start + 4 * n
      BY <1>2, <1>s
    <3>2. ~signed \/ NoSigns(start + n, start + n + n)
      BY <2>1, <3>1
    <3> QED
      BY <1>3, <1>4, <3>2 DEF two
  <2>4. three.val = SignedField(start + n + n, n)
    <3>1. start + n + n \in Nat /\ start + n + n + n \in Nat /\ start <= start + n + n
          /\ start + n + n + n <= start + 4 * n
      BY <1>2, <1>s
    <3>2. ~signed \/ NoSigns(start + n + n, start + n + n + n)
      BY <2>1, <3>1
    <3> QED
      BY <1>3, <1>5, <3>2 DEF three
  <2>5. four.val = SignedField(start + n + n + n, n)
    <3>1. start + n + n + n \in Nat /\ start + n + n + n + n \in Nat
          /\ start <= start + n + n + n /\ start + n + n + n + n <= start + 4 * n
      BY <1>2, <1>s
    <3>2. ~signed \/ NoSigns(start + n + n + n, start + n + n + n + n)
      BY <2>1, <3>1
    <3> QED
      BY <1>3, <1>6, <3>2 DEF four
  <2>6. /\ start + (1 - 1) * n = start /\ start + (2 - 1) * n = start + n
        /\ start + (3 - 1) * n = start + n + n /\ start + (4 - 1) * n = start + n + n + n
    BY <1>2, <1>s
  <2> DEFINE F(i) == SignedField(start + (i - 1) * n, n)
  <2>7. one.val = F(1) /\ two.val = F(2) /\ three.val = F(3) /\ four.val = F(4)
    BY <2>2, <2>3, <2>4, <2>5, <2>6
  <2> HIDE DEF F
  <2>8. <<F(1), F(2), F(3), F(4)>> = [i \in 1..4 |-> F(i)]
    OBVIOUS
  <2> QED
    BY <1>9, <2>7, <2>8 DEF F
<1> QED
  BY <1>10, <1>11 DEF n, start

-----------------------------------------------------------------------------
(***************************************************************************)
(* Integers of variable length.                                            *)
(***************************************************************************)

\* The chars from c on.
CharsFrom(c) == [i \in Nat |-> Char(c + i)]

\* The words of the chars are collected from them.
LEMMA CharsCollect ==
    ASSUME NEW c \in Nat, MemoryType
    PROVE  Collects(Chars(c), CharsFrom(c))
<1> DEFINE C == CharsFrom(c)
           body(f) == [n \in Nat |-> IF n = 0 THEN Char(c)
                                     ELSE (f[n - 1] \cap (0..(7 * n - 1))) \cup Shl(Char(c + n), 7 * n)]
           w == CHOOSE g : g = body(g)
<1>1. C[0] = Char(c) /\ \A n \in Nat : C[n] = Char(c + n)
  <2>1. c + 0 = c
    OBVIOUS
  <2> QED
    BY <2>1 DEF CharsFrom
<1>2. C[0] \subseteq WordBits
  BY <1>1, CharType
<1> HIDE DEF C
<1>3. \A f : body(f) = Taken(C, f)
  BY <1>1 DEF Taken
<1>4. PICK f : f = Taken(C, f)
  BY <1>2, Collectable
<1>5. w = body(w)
  <2>1. f = body(f)
    BY <1>3, <1>4
  <2> HIDE DEF body
  <2> QED
    BY <2>1
<1>6. Chars(c) = w
  BY Zenon DEF Chars
<1> HIDE DEF w, body
<1>7. w = Taken(C, w)
  BY <1>3, <1>5
<1> QED
  BY <1>6, <1>7, TakenCollects DEF C

\* Each of them is a byte and its sign.
LEMMA CharsFromType ==
    ASSUME NEW c \in Nat, MemoryType, NEW n \in Nat
    PROVE  /\ CharsFrom(c)[n] \subseteq WordBits
           /\ SignOnly(CharsFrom(c), n)
           /\ 7 \in CharsFrom(c)[n] <=> ByteAt(c + n) >= 128
<1>1. c + n \in Nat /\ CharsFrom(c)[n] = Char(c + n)
  BY DEF CharsFrom
<1> QED
  BY <1>1, CharType DEF SignOnly

\* What the byte at c + i brings to the integer encoded at c.
Seven(c, i) == {7 * i + j : j \in BitsOf[ByteAt(c + i)] \cap (0..6)}

\* The bits of the integer encoded at c.
LEMMA EncodedIsGroups ==
    ASSUME NEW c \in Nat, MemoryType, EncodedLength(c) \in 1..5
    PROVE  Encoded(c) = Groups(CharsFrom(c), EncodedLength(c) - 1)
<1> DEFINE L == EncodedLength(c)
           C == CharsFrom(c)
<1>1. ASSUME NEW i \in 0..(L - 1)
      PROVE  C[i] \cap (0..6) = BitsOf[ByteAt(c + i)] \cap (0..6)
  <2>1. i \in Nat /\ c + i \in Nat
    OBVIOUS
  <2>2. C[i] = Char(c + i)
    BY <2>1 DEF CharsFrom
  <2>3. Char(c + i) \cap (0..7) = BitsOf[ByteAt(c + i)]
    BY <2>1, CharType
  <2>4. \A x \in 0..6 : x \in 0..7
    OBVIOUS
  <2> HIDE DEF C, L
  <2> QED
    BY <2>2, <2>3, <2>4
<1> HIDE DEF C
<1>2. \A k : k \in Encoded(c) <=>
        k \in WordBits /\ \E i \in 0..(L - 1) : \E j \in BitsOf[ByteAt(c + i)] \cap (0..6) :
                               k = 7 * i + j
  <2>1. Encoded(c) = (UNION {Seven(c, i) : i \in 0..(L - 1)}) \cap WordBits
    BY Zenon DEF Encoded, Seven
  <2> HIDE DEF L
  <2>2. \A k : k \in Encoded(c) <=> k \in WordBits /\ \E i \in 0..(L - 1) : k \in Seven(c, i)
    BY <2>1
  <2>3. \A k, i : k \in Seven(c, i) <=> \E j \in BitsOf[ByteAt(c + i)] \cap (0..6) : k = 7 * i + j
    BY DEF Seven
  <2> QED
    BY Zenon, <2>2, <2>3
<1> HIDE DEF L
<1>3. \A k : k \in Encoded(c) <=> k \in Groups(C, L - 1)
  <2>1. ASSUME NEW k
        PROVE  k \in Groups(C, L - 1) <=>
                 k \in WordBits /\ \E i \in 0..(L - 1) : \E j \in C[i] \cap (0..6) : k = 7 * i + j
    BY InGroups
  <2>2. ASSUME NEW k
        PROVE  (\E i \in 0..(L - 1) : \E j \in C[i] \cap (0..6) : k = 7 * i + j) <=>
               \E i \in 0..(L - 1) : \E j \in BitsOf[ByteAt(c + i)] \cap (0..6) : k = 7 * i + j
    BY <1>1
  <2> QED
    BY <1>2, <2>1, <2>2
<1> QED
  BY <1>3 DEF L, C

\* Where the encoding at c ends: Min is a choice that can be made.
LEMMA EncodedLengthType ==
    ASSUME NEW c \in Nat, MemoryType
    PROVE  /\ EncodedLength(c) \in 1..5
           /\ EncodedLength(c) = 5 \/ ByteAt(c + EncodedLength(c) - 1) < 128
<1> DEFINE T == {n \in 1..5 : n = 5 \/ ByteAt(c + n - 1) < 128}
<1>1. T \subseteq Nat /\ 5 \in T
  OBVIOUS
<1>2. \E n \in T : \A m \in T : n <= m
  <2> HIDE DEF T
  <2> QED
    BY <1>1, NatMinimum
<1>3. EncodedLength(c) = CHOOSE n \in T : \A m \in T : n <= m
  BY Zenon DEF EncodedLength, Min
<1>4. EncodedLength(c) \in T
  <2> HIDE DEF T
  <2> QED
    BY <1>2, <1>3
<1> HIDE DEF EncodedLength
<1> QED
  BY <1>4

\* The word after n bytes goes on, whichever way it is asked, if the last of
\* these bytes does.
LEMMA WordGoesOn ==
    ASSUME NEW c \in Nat, MemoryType, NEW n \in 1..4
    PROVE  /\ Shr(Chars(c)[n - 1], 7 * n) # {} <=> ByteAt(c + n - 1) >= 128
           /\ 7 * n \in Chars(c)[n - 1] <=> ByteAt(c + n - 1) >= 128
<1> DEFINE w == Chars(c)[n - 1]
<1>1. n - 1 \in Nat /\ c + (n - 1) = c + n - 1
  OBVIOUS
<1>2. 7 \in CharsFrom(c)[n - 1] <=> ByteAt(c + n - 1) >= 128
  BY <1>1, CharsFromType
<1>3. /\ (\E k \in w : k >= 7 * n) <=> 7 \in CharsFrom(c)[n - 1]
      /\ 7 * n \in w <=> 7 \in CharsFrom(c)[n - 1]
  <2>1. \A i \in 0..(n - 1) : CharsFrom(c)[i] \subseteq WordBits
    BY CharsFromType
  <2>2. SignOnly(CharsFrom(c), n - 1)
    BY <1>1, CharsFromType
  <2> QED
    BY <2>1, <2>2, CharsCollect, WordAsksOn
<1>4. Shr(w, 7 * n) # {} <=> \E k \in w : k >= 7 * n
  BY DEF Shr
<1> QED
  BY <1>2, <1>3, <1>4

\* Both ways to read an integer read what is encoded.
LEMMA VarintReads ==
    ASSUME NEW c \in Nat, MemoryType
    PROVE  /\ UI29(c) = Got(Encoded(c), c + EncodedLength(c), bit)
           /\ U32(c) = Got(Encoded(c), c + EncodedLength(c), bit)
<1> DEFINE L == EncodedLength(c)
           w == Chars(c)
           T == {n \in 1..5 : n = 5 \/ ByteAt(c + n - 1) < 128}
           A == {n \in 1..5 : n = 5 \/ ~(Shr(w[n - 1], 7 * n) # {})}
           B == {n \in 1..5 : n = 5 \/ ~(7 * n \in w[n - 1])}
<1>1. A = T /\ B = T
  <2>1. ASSUME NEW n \in 1..5, n # 5
        PROVE  /\ ~(Shr(w[n - 1], 7 * n) # {}) <=> ByteAt(c + n - 1) < 128
               /\ ~(7 * n \in w[n - 1]) <=> ByteAt(c + n - 1) < 128
    <3>1. n \in 1..4 /\ c + n - 1 \in Nat
      BY <2>1
    <3>2. ByteAt(c + n - 1) \in Int
      BY <3>1, ByteAtType
    <3>3. ByteAt(c + n - 1) < 128 <=> ~(ByteAt(c + n - 1) >= 128)
      BY <3>2
    <3> QED
      BY <3>1, <3>3, WordGoesOn
  <2> HIDE DEF w
  <2> QED
    BY <2>1
<1>2. Min(T) = L
  BY Zenon DEF EncodedLength
<1>3. UI29(c) = Got(w[Min(A) - 1], c + Min(A), bit)
  BY Zenon DEF UI29, Varint
<1>4. U32(c) = Got(w[Min(B) - 1], c + Min(B), bit)
  BY Zenon DEF U32, Varint
<1>5. UI29(c) = Got(w[L - 1], c + L, bit) /\ U32(c) = Got(w[L - 1], c + L, bit)
  <2> HIDE DEF A, B, T, w, L
  <2> QED
    BY <1>1, <1>2, <1>3, <1>4
<1>6. L \in 1..5 /\ (L = 5 \/ ByteAt(c + L - 1) < 128)
  BY EncodedLengthType
<1>7. w[L - 1] = Encoded(c)
  <2> DEFINE N == L - 1
  <2>1. N \in Nat /\ N \in 0..4 /\ (N = 4 \/ ByteAt(c + N) < 128)
    <3>1. L - 1 \in 0..4 /\ c + L - 1 = c + (L - 1)
      <4> HIDE DEF L
      <4> QED
        BY <1>6
    <3> HIDE DEF L
    <3> QED
      BY <1>6, <3>1
  <2> HIDE DEF N, w
  <2>2. \A i \in 0..N : CharsFrom(c)[i] \subseteq WordBits
    BY <2>1, CharsFromType
  <2>3. N = 4 \/ 7 \notin CharsFrom(c)[N]
    <3>1. c + N \in Nat
      BY <2>1
    <3>2. ByteAt(c + N) < 128 => ~(ByteAt(c + N) >= 128)
      BY <3>1, ByteAtType
    <3> QED
      BY <2>1, <3>2, CharsFromType
  <2>4. SignOnly(CharsFrom(c), N)
    BY <2>1, CharsFromType
  <2>5. w[N] = Groups(CharsFrom(c), N)
    BY <2>1, <2>2, <2>3, <2>4, CharsCollect, WordEnds DEF w
  <2>6. Encoded(c) = Groups(CharsFrom(c), L - 1)
    BY <1>6, EncodedIsGroups
  <2> QED
    BY <2>5, <2>6 DEF N
<1> QED
  BY <1>5, <1>7

-----------------------------------------------------------------------------
(***************************************************************************)
(* The client: reads in any order.                                         *)
(***************************************************************************)

ReaderType ==
    /\ MemoryType
    /\ cur \in Nat
    /\ bit \in 0..7

\* A read that looks from here leaves the reader at its place, and the memory
\* as it was.
LEMMA DoType ==
    ASSUME ReaderType, NEW read, NEW size, NEW vals, NEW got, IsPlace(got),
           Do(read, size, vals, got)
    PROVE  ReaderType'
BY DEF ReaderType, MemoryType, IsPlace, Do

\* Each read looks for a place it can be left at.
LEMMA Places ==
    ASSUME ReaderType
    PROVE  /\ \A n \in Sizes : IsPlace(UB(cur, bit, n)) /\ IsPlace(SB(cur, bit, n))
           /\ IsPlace(RECT(cur, 0))
           /\ IsPlace(Got({}, Aligned(cur, bit), 0))
           /\ \A n \in Nat : IsPlace(Load(Aligned(cur, bit), n))
           /\ IsPlace(UI29(cur)) /\ IsPlace(U32(cur)) /\ IsPlace(U30(cur))
           /\ \A n \in Nat : IsPlace(Got({}, cur + n, bit))
           /\ U30(cur).cur + Number(U30(cur).val) \in Nat
<1>1. MemoryType /\ cur \in Nat /\ bit \in 0..7
  BY DEF ReaderType
<1>2. ASSUME NEW n \in Sizes
      PROVE  IsPlace(UB(cur, bit, n)) /\ IsPlace(SB(cur, bit, n))
  <2>1. n \in Nat
    BY SizesAssumption
  <2> QED
    BY <1>1, <2>1, UBPlace, SBPlace
<1>3. IsPlace(RECT(cur, 0))
  BY <1>1, RECTExact
<1>4. Aligned(cur, bit) \in Nat
  BY <1>1 DEF Aligned
<1>5. \A n \in Nat : IsPlace(Load(Aligned(cur, bit), n))
  BY <1>4 DEF IsPlace, Load, Got
<1>6. EncodedLength(cur) \in Nat
  BY <1>1, EncodedLengthType
<1> DEFINE e == Encoded(cur)
           f == cur + EncodedLength(cur)
<1>7. e \subseteq WordBits
  BY Zenon DEF Encoded
<1>8. f \in Nat
  BY <1>1, <1>6
<1>9. UI29(cur) = Got(e, f, bit) /\ U32(cur) = Got(e, f, bit)
  BY <1>1, VarintReads
<1> HIDE DEF e, f
<1>10. U30(cur) = Got(e \cap (0..29), f, bit)
  BY <1>9 DEF U30, Got
<1>11. Number(e \cap (0..29)) \in Nat
  BY <1>7, NumberType
<1> QED
  BY <1>1, <1>2, <1>3, <1>4, <1>5, <1>8, <1>9, <1>10, <1>11 DEF IsPlace, Got

\* A reader is always at a bit of a byte, and never changes the file.
THEOREM ReaderTyped == Spec => []ReaderType
<1>1. Init => ReaderType
  BY BuffersAssumption, BehindAssumption DEF Init, ReaderType, MemoryType
<1>2. ReaderType /\ [Next]_vars => ReaderType'
  <2> SUFFICES ASSUME ReaderType, [Next]_vars
               PROVE  ReaderType'
    OBVIOUS
  <2>1. CASE Align
    BY <2>1, Places, DoType DEF Align
  <2>2. ASSUME NEW n \in Sizes, ReadUB(n)
        PROVE  ReaderType'
    BY <2>2, Places, DoType DEF ReadUB
  <2>3. ASSUME NEW n \in Sizes, ReadSB(n)
        PROVE  ReaderType'
    BY <2>3, Places, DoType DEF ReadSB
  <2>4. CASE ReadRECT
    BY <2>4, Places, DoType DEF ReadRECT
  <2>5. CASE ReadUI16
    BY <2>5, Places, DoType DEF ReadUI16
  <2>6. CASE ReadUI32
    BY <2>6, Places, DoType DEF ReadUI32
  <2>7. CASE ReadUI29
    BY <2>7, Places, DoType DEF ReadUI29
  <2>8. CASE ReadU32
    BY <2>8, Places, DoType DEF ReadU32
  <2>9. CASE ReadU30
    BY <2>9, Places, DoType DEF ReadU30
  <2>10. CASE ReadU8
    BY <2>10, Places, DoType DEF ReadU8
  <2>11. CASE ReadD64
    BY <2>11, Places, DoType DEF ReadD64
  <2>12. ASSUME NEW length \in Lengths, Read(length)
         PROVE  ReaderType'
    BY <2>12, Places, DoType, LengthsAssumption DEF Read
  <2>13. CASE ReadString
    <3>1. IsPlace(Got({}, U30(cur).cur + Number(U30(cur).val), bit))
      BY Places DEF IsPlace, Got, ReaderType
    <3> QED
      BY <2>13, <3>1, DoType DEF ReadString
  <2>14. CASE UNCHANGED vars
    BY <2>14 DEF vars, ReaderType, MemoryType
  <2> QED
    BY <2>1, <2>2, <2>3, <2>4, <2>5, <2>6, <2>7, <2>8, <2>9, <2>10, <2>11,
       <2>12, <2>13, <2>14 DEF Next
<1> QED
  BY <1>1, <1>2, PTL DEF Spec

\* What the properties say of a file does not change with the cursor.
LEMMA FileStays ==
    ASSUME UNCHANGED <<buf, behind, signed>>, NEW from, NEW n, NEW to
    PROVE  /\ Field(from, n)' = Field(from, n)
           /\ SignedField(from, n)' = SignedField(from, n)
           /\ StreamBit(from)' = StreamBit(from)
           /\ Width(from)' = Width(from)
           /\ NoSigns(from, to)' = NoSigns(from, to)
           /\ EncodedLength(from)' = EncodedLength(from)
           /\ Encoded(from)' = Encoded(from)
BY DEF Field, SignedField, Width, NoSigns, EncodedLength, Encoded, StreamBit, ByteAt

\* Where a byte aligned read begins.
LEMMA AlignedIsNext ==
    ASSUME NEW c \in Nat, NEW b \in 0..7
    PROVE  /\ Aligned(c, b) \in Nat
           /\ Aligned(c, b) = NextByte(8 * c + b)
           /\ (8 * c + b) % 8 = b
           /\ (8 * c + b) \div 8 = c
BY DEF Aligned, NextByte

\* A read of bytes leaves the bit alone.
LEMMA BytesKeepBit ==
    ASSUME ReaderType, NEW size, NEW vals, NEW got, got.bit = bit,
           NEW read \in {"UI29", "U32", "U30", "U8", "D64", "read", "string"},
           Do(read, size, vals, got)
    PROVE  CursorExact'
<1>1. bit' = bit /\ last'.read = read /\ last'.from = 8 * cur + bit
  BY DEF Do
<1>2. bit' = last'.from % 8
  BY <1>1, AlignedIsNext DEF ReaderType
<1>3. /\ read \notin {"UB", "SB"}
      /\ read # "RECT"
      /\ read \notin {"align", "UI16", "UI32"}
  OBVIOUS
<1> QED
  BY <1>1, <1>2, <1>3 DEF CursorExact

\* A reader moves by what it reads: nothing is left out, nothing is taken
\* twice, by fields that cross any number of bytes, by the five fields of a
\* rectangle, and by aligned reads (DataReader, every read; see CursorExact).
THEOREM NothingIsSkipped == Spec => []CursorExact
<1>1. Init => CursorExact
  <2> SUFFICES ASSUME Init
               PROVE  CursorExact
    OBVIOUS
  <2>1. bit = 0 /\ last.read = "none" /\ last.from = 0
    BY DEF Init
  <2>2. 0 % 8 = 0
    OBVIOUS
  <2> QED
    BY <2>1, <2>2 DEF CursorExact
<1>2. ReaderType /\ CursorExact /\ [Next]_vars => CursorExact'
  <2> SUFFICES ASSUME ReaderType, CursorExact, [Next]_vars
               PROVE  CursorExact'
    OBVIOUS
  <2> USE DEF ReaderType
  <2>1. CASE Align
    <3>1. /\ last'.read = "align" /\ last'.size = 0 /\ last'.from = 8 * cur + bit
          /\ cur' = Aligned(cur, bit) /\ bit' = 0
      BY <2>1 DEF Align, Do, Got
    <3>2. Here' = 8 * NextByte(8 * cur + bit) + 0
      BY <3>1, AlignedIsNext DEF Here
    <3> QED
      BY <3>1, <3>2 DEF CursorExact, NextByte
  <2>2. ASSUME NEW n \in Sizes, ReadUB(n)
        PROVE  CursorExact'
    <3>1. /\ last'.read = "UB" /\ last'.size = n /\ last'.from = 8 * cur + bit
          /\ cur' = UB(cur, bit, n).cur /\ bit' = UB(cur, bit, n).bit
      BY <2>2 DEF ReadUB, Do
    <3>2. n \in Nat
      BY SizesAssumption
    <3>3. Here' = 8 * cur + bit + n
      BY <3>1, <3>2, UBPlace DEF Here, Bit
    <3> QED
      BY <3>1, <3>3 DEF CursorExact
  <2>3. ASSUME NEW n \in Sizes, ReadSB(n)
        PROVE  CursorExact'
    <3>1. /\ last'.read = "SB" /\ last'.size = n /\ last'.from = 8 * cur + bit
          /\ cur' = SB(cur, bit, n).cur /\ bit' = SB(cur, bit, n).bit
      BY <2>3 DEF ReadSB, Do
    <3>2. n \in Nat
      BY SizesAssumption
    <3>3. Here' = 8 * cur + bit + n
      BY <3>1, <3>2, SBPlace DEF Here, Bit
    <3> QED
      BY <3>1, <3>3 DEF CursorExact
  <2>4. CASE ReadRECT
    <3>1. PICK from : from = 8 * cur
      OBVIOUS
    <3>2. /\ last'.read = "RECT" /\ last'.from = from
          /\ cur' = RECT(cur, 0).cur /\ bit' = RECT(cur, 0).bit
      BY <2>4, <3>1 DEF ReadRECT, Do
    <3>3. Here' = from + 5 + 4 * Width(from)
      BY <3>1, <3>2, RECTExact DEF Here, Bit
    <3>4. Width(last.from)' = Width(from)
      BY <2>4, <3>2, FileStays DEF ReadRECT, Do
    <3> QED
      BY <3>2, <3>3, <3>4 DEF CursorExact
  <2>5. CASE ReadUI16
    <3>1. /\ last'.read = "UI16" /\ last'.size = 16 /\ last'.from = 8 * cur + bit
          /\ cur' = Aligned(cur, bit) + 2 /\ bit' = 0
      BY <2>5 DEF ReadUI16, Do, Load, Got
    <3>2. Here' = 8 * NextByte(8 * cur + bit) + 16
      <4>1. PICK next \in Nat : next = Aligned(cur, bit) /\ next = NextByte(8 * cur + bit)
        BY AlignedIsNext
      <4>2. Here' = 8 * (next + 2)
        BY <3>1, <4>1 DEF Here
      <4> QED
        BY <4>1, <4>2
    <3> QED
      BY <3>1, <3>2 DEF CursorExact, NextByte
  <2>6. CASE ReadUI32
    <3>1. /\ last'.read = "UI32" /\ last'.size = 32 /\ last'.from = 8 * cur + bit
          /\ cur' = Aligned(cur, bit) + 4 /\ bit' = 0
      BY <2>6 DEF ReadUI32, Do, Load, Got
    <3>2. Here' = 8 * NextByte(8 * cur + bit) + 32
      <4>1. PICK next \in Nat : next = Aligned(cur, bit) /\ next = NextByte(8 * cur + bit)
        BY AlignedIsNext
      <4>2. Here' = 8 * (next + 4)
        BY <3>1, <4>1 DEF Here
      <4> QED
        BY <4>1, <4>2
    <3> QED
      BY <3>1, <3>2 DEF CursorExact, NextByte
  <2>7. CASE ReadUI29
    <3>1. UI29(cur).bit = bit
      BY VarintReads DEF Got
    <3> QED
      BY <2>7, <3>1, BytesKeepBit DEF ReadUI29
  <2>8. CASE ReadU32
    <3>1. U32(cur).bit = bit
      BY VarintReads DEF Got
    <3> QED
      BY <2>8, <3>1, BytesKeepBit DEF ReadU32
  <2>9. CASE ReadU30
    <3>1. U30(cur).bit = bit
      BY VarintReads DEF Got, U30
    <3> QED
      BY <2>9, <3>1, BytesKeepBit DEF ReadU30
  <2>11. CASE ReadU8
    <3>1. Got({}, cur + 1, bit).bit = bit
      BY DEF Got
    <3> QED
      BY <2>11, <3>1, BytesKeepBit DEF ReadU8
  <2>12. CASE ReadD64
    <3>1. Got({}, cur + 8, bit).bit = bit
      BY DEF Got
    <3> QED
      BY <2>12, <3>1, BytesKeepBit DEF ReadD64
  <2>13. ASSUME NEW length \in Lengths, Read(length)
         PROVE  CursorExact'
    <3>1. Got({}, cur + length, bit).bit = bit
      BY DEF Got
    <3> QED
      BY <2>13, <3>1, BytesKeepBit DEF Read
  <2>14. CASE ReadString
    <3>1. Got({}, U30(cur).cur + Number(U30(cur).val), bit).bit = bit
      BY DEF Got
    <3> QED
      BY <2>14, <3>1, BytesKeepBit DEF ReadString
  <2>15. CASE UNCHANGED vars
    BY <2>15 DEF vars, CursorExact, Here, Width, Field, StreamBit, ByteAt
  <2> QED
    BY <2>1, <2>2, <2>3, <2>4, <2>5, <2>6, <2>7, <2>8, <2>9, <2>11,
       <2>12, <2>13, <2>14, <2>15 DEF Next
<1> QED
  BY <1>1, <1>2, ReaderTyped, PTL DEF Spec

\* An unsigned field of at most 32 bits, a signed one of at most 31, or of 32
\* if it is not negative, and each coordinate of a rectangle, is what its bits
\* spell, wherever it begins and however many bytes it crosses, unless a char
\* that it crosses has a sign (readUB, readSB, readRECT).
THEOREM FieldsAreExact == Spec => []FieldExact
<1>1. Init => FieldExact
  BY DEF Init, FieldExact
<1>2. ReaderType /\ FieldExact /\ [Next]_vars => FieldExact'
  <2> SUFFICES ASSUME ReaderType, FieldExact, [Next]_vars
               PROVE  FieldExact'
    OBVIOUS
  <2> USE DEF ReaderType
  <2> DEFINE Fields == {"UB", "SB", "RECT"}
  <2>1. ASSUME NEW n \in Sizes, ReadUB(n)
        PROVE  FieldExact'
    <3>1. PICK from : from = 8 * cur + bit
      OBVIOUS
    <3>2. PICK to : to = 8 * cur + bit + n
      OBVIOUS
    <3>3. /\ last'.read = "UB" /\ last'.size = n /\ last'.from = from
          /\ last'.vals = <<UB(cur, bit, n).val>>
          /\ cur' = UB(cur, bit, n).cur /\ bit' = UB(cur, bit, n).bit
          /\ UNCHANGED <<buf, behind, signed>>
      BY <2>1, <3>1 DEF ReadUB, Do
    <3>4. n \in 0..32 /\ n \in Nat
      BY SizesAssumption
    <3>5. Here' = to
      BY <3>2, <3>3, <3>4, UBPlace DEF Here, Bit
    <3>6. /\ Field(last.from, last.size)' = Field(from, n)
          /\ NoSigns(last.from, Here)' = NoSigns(from, to)
      BY <3>3, <3>5, FileStays
    <3>7. ~signed \/ NoSigns(from, to) => UB(cur, bit, n).val = Field(from, n)
      BY <3>1, <3>2, <3>4, UBExact
    <3> QED
      BY <3>3, <3>6, <3>7 DEF FieldExact
  <2>2. ASSUME NEW n \in Sizes, ReadSB(n)
        PROVE  FieldExact'
    <3>1. PICK from : from = 8 * cur + bit
      OBVIOUS
    <3>2. PICK to : to = 8 * cur + bit + n
      OBVIOUS
    <3>3. /\ last'.read = "SB" /\ last'.size = n /\ last'.from = from
          /\ last'.vals = <<SB(cur, bit, n).val>>
          /\ cur' = SB(cur, bit, n).cur /\ bit' = SB(cur, bit, n).bit
          /\ UNCHANGED <<buf, behind, signed>>
      BY <2>2, <3>1 DEF ReadSB, Do
    <3>4. n \in 0..32 /\ n \in Nat
      BY SizesAssumption
    <3>5. Here' = to
      BY <3>2, <3>3, <3>4, SBPlace DEF Here, Bit
    <3>6. /\ SignedField(last.from, last.size)' = SignedField(from, n)
          /\ NoSigns(last.from, Here)' = NoSigns(from, to)
          /\ StreamBit(last.from)' = StreamBit(from)
      BY <3>3, <3>5, FileStays
    <3>7. (n < 32 \/ ~StreamBit(from)) /\ (~signed \/ NoSigns(from, to)) =>
             SB(cur, bit, n).val = SignedField(from, n)
      BY <3>1, <3>2, <3>4, SBExact
    <3> QED
      BY <3>3, <3>6, <3>7 DEF FieldExact
  <2>3. CASE ReadRECT
    <3>1. PICK from : from = 8 * cur
      OBVIOUS
    <3>2. PICK n : n = Width(from)
      OBVIOUS
    <3>3. PICK to : to = from + 5 + 4 * n
      OBVIOUS
    <3>4. /\ last'.read = "RECT" /\ last'.from = from
          /\ last'.vals = RECT(cur, 0).val
          /\ cur' = RECT(cur, 0).cur /\ bit' = RECT(cur, 0).bit
          /\ UNCHANGED <<buf, behind, signed>>
      BY <2>3, <3>1 DEF ReadRECT, Do
    <3>5. /\ Here' = to
          /\ ~signed \/ NoSigns(from, to) =>
               RECT(cur, 0).val = [i \in 1..4 |-> SignedField(from + 5 + (i - 1) * n, n)]
      BY <3>1, <3>2, <3>3, <3>4, RECTExact DEF Here, Bit
    <3>6. /\ Width(last.from)' = n
          /\ NoSigns(last.from, Here)' = NoSigns(from, to)
      BY <3>2, <3>4, <3>5, FileStays
    <3>7. ASSUME NEW i \in 1..4
          PROVE  SignedField(last.from + 5 + (i - 1) * Width(last.from), Width(last.from))'
                   = SignedField(from + 5 + (i - 1) * n, n)
      <4>1. PICK g : g = from + 5 + (i - 1) * n
        OBVIOUS
      <4>2. (last.from + 5 + (i - 1) * Width(last.from))' = g
        BY <3>4, <3>6, <4>1
      <4> QED
        BY <3>4, <3>6, <4>1, <4>2, FileStays
    <3> QED
      BY <3>4, <3>5, <3>6, <3>7 DEF FieldExact
  <2>4. CASE last'.read \notin Fields
    BY <2>4 DEF FieldExact
  <2>5. \/ Align \/ ReadUI16 \/ ReadUI32 \/ ReadUI29 \/ ReadU32 \/ ReadU30 \/ ReadU8 \/ ReadD64
        \/ \E length \in Lengths : Read(length)
        \/ ReadString
        => last'.read \notin Fields
    BY DEF Align, ReadUI16, ReadUI32, ReadUI29, ReadU32, ReadU30, ReadU8, ReadD64, Read,
           ReadString, Do
  <2>6. CASE UNCHANGED vars
    <3>1. PICK l : l = last
      OBVIOUS
    <3>2. PICK to : to = Here
      OBVIOUS
    <3>3. PICK n : n = Width(l.from)
      OBVIOUS
    <3>4. last' = l /\ Here' = to /\ signed' = signed /\ UNCHANGED <<buf, behind, signed>>
      BY <2>6, <3>1, <3>2 DEF vars, Here
    <3>5. /\ Field(last.from, last.size)' = Field(l.from, l.size)
          /\ SignedField(last.from, last.size)' = SignedField(l.from, l.size)
          /\ NoSigns(last.from, Here)' = NoSigns(l.from, to)
          /\ StreamBit(last.from)' = StreamBit(l.from)
          /\ Width(last.from)' = n
      BY <3>3, <3>4, FileStays
    <3>6. ASSUME NEW i \in 1..4
          PROVE  SignedField(last.from + 5 + (i - 1) * Width(last.from), Width(last.from))'
                   = SignedField(l.from + 5 + (i - 1) * n, n)
      <4>1. PICK g : g = l.from + 5 + (i - 1) * n
        OBVIOUS
      <4>2. (last.from + 5 + (i - 1) * Width(last.from))' = g
        BY <3>4, <3>5, <4>1
      <4> QED
        BY <3>4, <3>5, <4>1, <4>2, FileStays
    <3>7. CASE l.read = "UB"
      BY <3>1, <3>2, <3>4, <3>5, <3>7 DEF FieldExact
    <3>8. CASE l.read = "SB"
      BY <3>1, <3>2, <3>4, <3>5, <3>8 DEF FieldExact
    <3>9. CASE l.read = "RECT"
      <4>1. ~signed \/ NoSigns(l.from, to) =>
              l.vals = [i \in 1..4 |-> SignedField(l.from + 5 + (i - 1) * n, n)]
        BY <3>1, <3>2, <3>3, <3>9 DEF FieldExact
      <4>2. ~signed' \/ NoSigns(last.from, Here)' =>
              last'.vals = [i \in 1..4 |-> SignedField(last.from + 5 + (i - 1) * Width(last.from),
                                                       Width(last.from))']
        BY <3>4, <3>5, <3>6, <4>1
      <4> QED
        BY <3>4, <3>9, <4>2 DEF FieldExact
    <3>10. CASE l.read \notin Fields
      BY <3>4, <3>10 DEF FieldExact
    <3> QED
      BY <3>7, <3>8, <3>9, <3>10
  <2> QED
    BY <2>1, <2>2, <2>3, <2>4, <2>5, <2>6 DEF Next
<1> QED
  BY <1>1, <1>2, ReaderTyped, PTL DEF Spec

\* An integer of variable length is what its bytes encode, however it is read
\* and whether char is signed or not; the reader ends behind its last byte
\* (readUI29, readU32, readU30).
THEOREM VarintsAreExact == Spec => []VarintExact
<1>1. Init => VarintExact
  BY DEF Init, VarintExact
<1>2. ReaderType /\ VarintExact /\ [Next]_vars => VarintExact'
  <2> SUFFICES ASSUME ReaderType, VarintExact, [Next]_vars
               PROVE  VarintExact'
    OBVIOUS
  <2> DEFINE Ints == {"UI29", "U32", "U30"}
  <2>0. PICK p : p = cur
    OBVIOUS
  <2>1. ASSUME UNCHANGED <<buf, behind, signed>>,
               NEW read \in Ints, NEW top, top = IF read = "U30" THEN 29 ELSE 31,
               last'.read = read, last'.from = 8 * cur + bit,
               last'.vals = <<Encoded(p) \cap (0..top)>>,
               cur' = p + EncodedLength(p)
        PROVE  VarintExact'
    <3>1. (last.from \div 8)' = p
      BY <2>0, <2>1, AlignedIsNext DEF ReaderType
    <3>2. Encoded(last.from \div 8)' = Encoded(p) /\ EncodedLength(last.from \div 8)' = EncodedLength(p)
      BY <2>1, <3>1, FileStays
    <3> QED
      BY <2>1, <3>1, <3>2 DEF VarintExact
  <2>2. /\ UI29(cur) = Got(Encoded(cur), cur + EncodedLength(cur), bit)
        /\ U32(cur) = Got(Encoded(cur), cur + EncodedLength(cur), bit)
    BY VarintReads DEF ReaderType
  <2>3. U30(cur) = Got(Encoded(cur) \cap (0..29), cur + EncodedLength(cur), bit)
    BY <2>2 DEF U30, Got
  <2>4. Encoded(cur) \cap (0..31) = Encoded(cur)
    <3>1. Encoded(cur) \subseteq WordBits
      BY Zenon DEF Encoded
    <3> QED
      BY <3>1 DEF WordBits
  <2>5. CASE ReadUI29
    <3>1. /\ UNCHANGED <<buf, behind, signed>>
          /\ last'.read = "UI29" /\ last'.from = 8 * cur + bit
          /\ last'.vals = <<Encoded(p) \cap (0..31)>>
          /\ cur' = p + EncodedLength(p)
      BY <2>0, <2>2, <2>4, <2>5 DEF ReadUI29, Do, Got
    <3>2. "UI29" \in Ints /\ 31 = IF "UI29" = "U30" THEN 29 ELSE 31
      OBVIOUS
    <3> QED
      BY <2>1, <3>1, <3>2
  <2>6. CASE ReadU32
    <3>1. /\ UNCHANGED <<buf, behind, signed>>
          /\ last'.read = "U32" /\ last'.from = 8 * cur + bit
          /\ last'.vals = <<Encoded(p) \cap (0..31)>>
          /\ cur' = p + EncodedLength(p)
      BY <2>0, <2>2, <2>4, <2>6 DEF ReadU32, Do, Got
    <3>2. "U32" \in Ints /\ 31 = IF "U32" = "U30" THEN 29 ELSE 31
      OBVIOUS
    <3> QED
      BY <2>1, <3>1, <3>2
  <2>7. CASE ReadU30
    <3>1. /\ UNCHANGED <<buf, behind, signed>>
          /\ last'.read = "U30" /\ last'.from = 8 * cur + bit
          /\ last'.vals = <<Encoded(p) \cap (0..29)>>
          /\ cur' = p + EncodedLength(p)
      BY <2>0, <2>3, <2>7 DEF ReadU30, Do, Got
    <3>2. "U30" \in Ints /\ 29 = IF "U30" = "U30" THEN 29 ELSE 31
      OBVIOUS
    <3> QED
      BY <2>1, <3>1, <3>2
  <2>8. CASE last'.read \notin Ints
    BY <2>8 DEF VarintExact
  <2>9. \/ Align \/ (\E n \in Sizes : ReadUB(n) \/ ReadSB(n)) \/ ReadRECT \/ ReadUI16 \/ ReadUI32
        \/ ReadU8 \/ ReadD64
        \/ \E length \in Lengths : Read(length)
        \/ ReadString
        => last'.read \notin Ints
    BY DEF Align, ReadUB, ReadSB, ReadRECT, ReadUI16, ReadUI32, ReadU8, ReadD64, Read, ReadString, Do
  <2>10. CASE UNCHANGED vars
    <3>1. PICK l : l = last
      OBVIOUS
    <3>2. PICK q : q = l.from \div 8
      OBVIOUS
    <3>3. last' = l /\ cur' = cur /\ UNCHANGED <<buf, behind, signed>>
      BY <2>10, <3>1 DEF vars
    <3>4. (last.from \div 8)' = q
      BY <3>2, <3>3
    <3>5. Encoded(last.from \div 8)' = Encoded(q) /\ EncodedLength(last.from \div 8)' = EncodedLength(q)
      BY <3>3, <3>4, FileStays
    <3> QED
      BY <3>1, <3>2, <3>3, <3>4, <3>5 DEF VarintExact
  <2> QED
    BY <2>5, <2>6, <2>7, <2>8, <2>9, <2>10 DEF Next
<1> QED
  BY <1>1, <1>2, ReaderTyped, PTL DEF Spec

=============================================================================

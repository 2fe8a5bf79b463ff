------------------------- MODULE DisassemblerProofs -------------------------
(***************************************************************************)
(* Theorems on ABCVM::disassemble, for every code, every constant pool and *)
(* every sequence of calls.                                                *)
(*                                                                         *)
(* They all follow from one inductive invariant, IInv, which is kept by an *)
(* iteration that lists an instruction (LemmaListInsn), by one that gives  *)
(* up (LemmaGiveUp) and by the few other steps (LemmaNext).  The lemmas on *)
(* decoding come first: for every byte string, what a read and an          *)
(* instruction can be, and where their cursors can get.                    *)
(***************************************************************************)
EXTENDS Disassembler, DataFacts, SequenceTheorems, FiniteSetTheorems, TLAPS

Shapes == StraightShapes \cup TransferShapes \cup {"unknown"}

(***************************************************************************)
(* Arithmetic, stated apart from byte strings.                             *)
(***************************************************************************)
LEMMA GroupSum ==
    ASSUME NEW buf, NEW p, \A i \in 0..4 : Group(buf, p, i) \in Nat
    PROVE  U30At(buf, p) \in Nat
<1>1. /\ Group(buf, p, 0) \in Nat
      /\ Group(buf, p, 1) \in Nat
      /\ Group(buf, p, 2) \in Nat
      /\ Group(buf, p, 3) \in Nat
      /\ Group(buf, p, 4) \in Nat
  OBVIOUS
<1> QED
  BY <1>1, SMT DEF U30At

LEMMA ModType ==
    ASSUME NEW n \in Int, NEW m \in Nat \ {0}
    PROVE  n % m \in 0..(m - 1)
OBVIOUS

LEMMA SmallMod ==
    ASSUME NEW n \in 0..255
    PROVE  n % 4 \in Nat /\ n % 128 \in Nat
OBVIOUS

LEMMA ShortType ==
    ASSUME NEW a \in 0..255, NEW b \in 0..255
    PROVE  a + 256 * b \in Int
BY SMT

LEMMA SignedByteType ==
    ASSUME NEW a \in 0..255
    PROVE  SignedByte(a) \in Int
BY SMT DEF SignedByte

LEMMA SignedSum ==
    ASSUME NEW low \in Int, NEW high \in Int
    PROVE  (IF low >= 32768 THEN low - 65536 ELSE 65536 * high + low) \in Int
BY SMT

-----------------------------------------------------------------------------
(***************************************************************************)
(* Reads.                                                                  *)
(***************************************************************************)

\* A byte that is there is a byte.
LEMMA ByteAtType ==
    ASSUME NEW buf \in Seq(Byte), NEW p \in Nat, InRange(buf, p + 1)
    PROVE  ByteAt(buf, p) \in Byte
BY DEF InRange, ByteAt

\* A byte that asks for the next one has been asked for.
LEMMA ContinuesPrefix ==
    ASSUME NEW buf, NEW p, NEW i \in 0..4, Continues(buf, p, i), NEW j \in 0..i
    PROVE  Continues(buf, p, j)
BY DEF Continues

\* readU32 advances by one to five bytes, all those that are asked for.
LEMMA VarLenType ==
    ASSUME NEW buf, NEW p
    PROVE  /\ VarLen(buf, p) \in 1..5
           /\ \A i \in 0..4 : Continues(buf, p, i) => i < VarLen(buf, p)
<1>1. VarLen(buf, p) \in 1..5
  BY DEF VarLen
<1>2. ASSUME NEW i \in 0..4, Continues(buf, p, i)
      PROVE  i < VarLen(buf, p)
  <2>1. \A j \in 0..i : Continues(buf, p, j)
    BY <1>2, ContinuesPrefix
  <2> QED
    BY <2>1 DEF VarLen
<1> QED
  BY <1>1, <1>2

\* readU30 returns a natural number when it does not throw: all the bytes it
\* takes groups from are there.
LEMMA U30AtType ==
    ASSUME NEW buf \in Seq(Byte), NEW p \in Nat, InRange(buf, AfterU30(buf, p))
    PROVE  U30At(buf, p) \in Nat
<1>1. ASSUME NEW i \in 0..4
      PROVE  Group(buf, p, i) \in Nat
  <2>1. CASE Continues(buf, p, i)
    <3>1. p + i \in Nat /\ InRange(buf, (p + i) + 1)
      BY <2>1, VarLenType DEF InRange, AfterU30
    <3>2. ByteAt(buf, p + i) \in Byte
      BY <3>1, ByteAtType
    <3>3. /\ ByteAt(buf, p + i) % 4 \in Nat
          /\ ByteAt(buf, p + i) % 128 \in Nat
      BY <3>2, SmallMod DEF Byte
    <3> QED
      BY <2>1, <3>3 DEF Group
  <2>2. CASE ~Continues(buf, p, i)
    BY <2>2 DEF Group
  <2> QED
    BY <2>1, <2>2
<1> QED
  BY <1>1, GroupSum

\* readS24 returns an integer when it does not throw.
LEMMA S24AtType ==
    ASSUME NEW buf \in Seq(Byte), NEW p \in Nat, InRange(buf, AfterS24(p))
    PROVE  S24At(buf, p) \in Int
<1>1. ASSUME NEW i \in 0..2
      PROVE  ByteAt(buf, p + i) \in Byte
  <2>1. InRange(buf, (p + i) + 1)
    BY DEF InRange, AfterS24
  <2> QED
    BY <2>1, ByteAtType
<1>2. /\ ByteAt(buf, p) \in 0..255
      /\ ByteAt(buf, p + 1) \in 0..255
      /\ ByteAt(buf, p + 2) \in 0..255
  BY <1>1, p + 0 = p DEF Byte
<1> DEFINE low  == ByteAt(buf, p) + 256 * ByteAt(buf, p + 1)
           high == SignedByte(ByteAt(buf, p + 2))
<1>3. low \in Int
  BY <1>2, ShortType
<1>4. high \in Int
  BY <1>2, SignedByteType
<1>5. S24At(buf, p) = IF low >= 32768 THEN low - 65536 ELSE 65536 * high + low
  BY DEF S24At
<1> HIDE DEF low, high
<1> QED
  BY <1>3, <1>4, <1>5, SignedSum

\* uint32_t arithmetic yields a position.
LEMMA AddressType ==
    ASSUME NEW n \in Int
    PROVE  Address(n) \in Position
BY AddrSpaceAssumption, ModType DEF Address, Position

\* Every byte selects a case of the switch or its default.
LEMMA ShapeOfType ==
    ASSUME NEW b \in Byte
    PROVE  ShapeOf[b] \in Shapes
BY DEF ShapeOf, Byte, Shapes

-----------------------------------------------------------------------------
(***************************************************************************)
(* Instructions.                                                           *)
(***************************************************************************)

\* What the loop of disassemble relies on: targets are uint32_t, and unless a
\* read threw, the instruction has at least one byte and ends in the code.
WellDecoded(buf, from, d) ==
    /\ d.shape \in Shapes \cup {"truncated"}
    /\ d.targets \in Seq(Position)
    /\ d.shape # "truncated" => d.next \in (from + 1)..Len(buf)

LEMMA NothingDecoded ==
    ASSUME NEW buf, NEW from, NEW next
    PROVE  WellDecoded(buf, from, Insn("truncated", next, <<>>, 0))
BY DEF WellDecoded, Insn

\* Reading operands only moves the cursor on.
LEMMA AfterOperandsType ==
    ASSUME NEW buf, NEW p \in Nat, NEW kinds
    PROVE  AfterOperands(buf, p, kinds) \in Nat /\ AfterOperands(buf, p, kinds) >= p
<1>1. ASSUME NEW q, NEW i
      PROVE  OperandSize(buf, q, kinds, i) \in Nat
  BY VarLenType DEF OperandSize
<1> QED
  BY <1>1 DEF AfterOperands

LEMMA StraightDecoded ==
    ASSUME NEW buf \in Seq(Byte), NEW from \in Nat, NEW shape \in Shapes
    PROVE  WellDecoded(buf, from, DecodeStraight(buf, from, shape))
<1> DEFINE kinds == Forms[shape].operands
           next  == AfterOperands(buf, from + 1, kinds)
<1>1. next \in Nat /\ next >= from + 1
  BY AfterOperandsType
<1> HIDE DEF next
<1>2. CASE InRange(buf, next)
  <2>1. DecodeStraight(buf, from, shape)
          = Insn(shape, next, <<>>, IndexOperand(buf, from + 1, kinds))
    BY <1>2 DEF DecodeStraight, next
  <2>2. next \in (from + 1)..Len(buf)
    BY <1>1, <1>2 DEF InRange
  <2> QED
    BY <2>1, <2>2 DEF WellDecoded, Insn
<1>3. CASE ~InRange(buf, next)
  <2>1. DecodeStraight(buf, from, shape) = Insn("truncated", next, <<>>, 0)
    BY <1>3 DEF DecodeStraight, next
  <2> QED
    BY <2>1, NothingDecoded
<1> QED
  BY <1>2, <1>3

LEMMA JumpDecoded ==
    ASSUME NEW buf \in Seq(Byte), NEW from \in Nat, NEW shape \in Shapes
    PROVE  WellDecoded(buf, from, DecodeJump(buf, from, shape))
<1> DEFINE next   == AfterS24(from + 1)
           target == Address(next + S24At(buf, from + 1))
<1>1. next = from + 4
  BY DEF AfterS24
<1>2. CASE InRange(buf, next)
  <2>1. S24At(buf, from + 1) \in Int
    BY <1>2, S24AtType
  <2>2. target \in Position
    BY <1>1, <2>1, AddressType
  <2>3. DecodeJump(buf, from, shape) = Insn(shape, next, <<target>>, 0)
    BY <1>2 DEF DecodeJump
  <2>4. next \in (from + 1)..Len(buf)
    BY <1>1, <1>2 DEF InRange
  <2> HIDE DEF next, target
  <2>5. <<target>> \in Seq(Position)
    BY <2>2
  <2> QED
    BY <2>3, <2>4, <2>5 DEF WellDecoded, Insn
<1>3. CASE ~InRange(buf, next)
  BY <1>3, NothingDecoded DEF DecodeJump
<1> QED
  BY <1>2, <1>3

\* As long as the offsets are there, so are the targets.
LEMMA SwitchTargetsType ==
    ASSUME NEW buf \in Seq(Byte), NEW from \in Nat, NEW cases \in Nat, NEW n \in Nat,
           InRange(buf, from + 4), n > 1 => InRange(buf, cases + 3 * (n - 1))
    PROVE  SwitchTargets(buf, from, cases, n) \in Seq(Position)
<1> Len(buf) \in Nat
  OBVIOUS
<1>1. ASSUME NEW i \in 1..n
      PROVE  Address(from + S24At(buf, OffsetAt(from, cases, i))) \in Position
  <2> DEFINE offset == OffsetAt(from, cases, i)
  <2>1. offset \in Nat /\ InRange(buf, AfterS24(offset))
    BY DEF OffsetAt, InRange, AfterS24
  <2> HIDE DEF offset
  <2>2. S24At(buf, offset) \in Int
    BY <2>1, S24AtType
  <2>3. from + S24At(buf, offset) \in Int
    BY <2>2
  <2> QED
    BY <2>3, AddressType DEF offset
<1> QED
  BY <1>1 DEF SwitchTargets

LEMMA SwitchDecoded ==
    ASSUME NEW buf \in Seq(Byte), NEW from \in Nat
    PROVE  WellDecoded(buf, from, DecodeSwitch(buf, from))
<1> DEFINE count   == AfterS24(from + 1)
           cases   == AfterU30(buf, count)
           present == (Len(buf) - cases) \div 3
           wanted  == U30At(buf, count) + 1
           upTo(n) == SwitchTargets(buf, from, cases, n)
<1>1. Len(buf) \in Nat /\ count \in Nat /\ count = from + 4
  BY DEF AfterS24
<1>2. cases \in Nat /\ cases > count
  BY <1>1, VarLenType DEF AfterU30
<1>3. CASE ~InRange(buf, count)
  BY <1>3, NothingDecoded DEF DecodeSwitch
<1>4. CASE InRange(buf, count) /\ ~InRange(buf, cases)
  <2>1. DecodeSwitch(buf, from) = Insn("truncated", cases, upTo(1), 0)
    BY <1>4 DEF DecodeSwitch
  <2>2. upTo(1) \in Seq(Position)
    BY <1>1, <1>2, <1>4, SwitchTargetsType
  <2> QED
    BY <2>1, <2>2 DEF WellDecoded, Insn
<1>5. CASE InRange(buf, count) /\ InRange(buf, cases) /\ wanted > present
  <2>1. DecodeSwitch(buf, from) = Insn("truncated", Len(buf) + 1, upTo(1 + present), 0)
    BY <1>5 DEF DecodeSwitch
  <2>2. present \in Nat /\ cases + 3 * present <= Len(buf)
    BY <1>1, <1>2, <1>5 DEF InRange
  <2>3. upTo(1 + present) \in Seq(Position)
    <3> DEFINE n == 1 + present
    <3>1. n \in Nat /\ n - 1 = present
      BY <2>2
    <3> HIDE DEF n
    <3>2. InRange(buf, from + 4) /\ InRange(buf, cases + 3 * (n - 1))
      BY <1>1, <1>2, <1>5, <2>2, <3>1 DEF InRange
    <3>3. upTo(n) \in Seq(Position)
      BY <1>2, <3>1, <3>2, SwitchTargetsType
    <3> QED
      BY <3>3 DEF n
  <2> QED
    BY <2>1, <2>3 DEF WellDecoded, Insn
<1>6. CASE InRange(buf, count) /\ InRange(buf, cases) /\ ~(wanted > present)
  <2>1. DecodeSwitch(buf, from) = Insn("switch", cases + 3 * wanted, upTo(1 + wanted), 0)
    BY <1>6 DEF DecodeSwitch
  <2>2. wanted \in Nat /\ wanted >= 1
    BY <1>1, <1>6, U30AtType
  <2>3. present \in Nat /\ cases + 3 * present <= Len(buf)
    BY <1>1, <1>2, <1>6 DEF InRange
  <2>4. cases + 3 * wanted \in (from + 1)..Len(buf)
    BY <1>1, <1>2, <1>6, <2>2, <2>3
  <2>5. upTo(1 + wanted) \in Seq(Position)
    <3> DEFINE n == 1 + wanted
    <3>1. n \in Nat /\ n - 1 = wanted
      BY <2>2
    <3> HIDE DEF n
    <3>2. InRange(buf, from + 4) /\ InRange(buf, cases + 3 * (n - 1))
      BY <1>1, <1>2, <1>6, <2>2, <2>4, <3>1 DEF InRange
    <3>3. upTo(n) \in Seq(Position)
      BY <1>2, <3>1, <3>2, SwitchTargetsType
    <3> QED
      BY <3>3 DEF n
  <2>6. "switch" \in Shapes
    BY DEF Shapes, TransferShapes
  <2> QED
    BY <2>1, <2>4, <2>5, <2>6 DEF WellDecoded, Insn
<1> QED
  BY <1>3, <1>4, <1>5, <1>6

LEMMA DecodeType ==
    ASSUME NEW buf \in Seq(Byte), NEW from \in Nat
    PROVE  WellDecoded(buf, from, Decode(buf, from))
<1> DEFINE shape == ShapeOf[ByteAt(buf, from)]
<1> HIDE DEF shape
<1>1. CASE ~InRange(buf, AfterU8(from))
  BY <1>1, NothingDecoded DEF Decode
<1>2. CASE InRange(buf, AfterU8(from))
  <2>1. shape \in Shapes
    BY <1>2, ByteAtType, ShapeOfType DEF AfterU8, shape
  <2>2. CASE shape \in {"unknown", "exit"}
    <3>1. Decode(buf, from) = Insn(shape, AfterU8(from), <<>>, 0)
      BY <1>2, <2>2 DEF Decode, shape
    <3>2. AfterU8(from) \in (from + 1)..Len(buf)
      BY <1>2 DEF AfterU8, InRange
    <3> QED
      BY <2>1, <3>1, <3>2 DEF WellDecoded, Insn
  <2>3. CASE shape \in {"branch", "jump"}
    <3>1. Decode(buf, from) = DecodeJump(buf, from, shape)
      BY <1>2, <2>3 DEF Decode, shape
    <3> QED
      BY <2>1, <3>1, JumpDecoded
  <2>4. CASE shape = "switch"
    <3>1. Decode(buf, from) = DecodeSwitch(buf, from)
      BY <1>2, <2>4 DEF Decode, shape
    <3> QED
      BY <3>1, SwitchDecoded
  <2>5. CASE shape \notin {"unknown", "exit", "branch", "jump", "switch"}
    <3>1. Decode(buf, from) = DecodeStraight(buf, from, shape)
      BY <1>2, <2>5 DEF Decode, shape
    <3> QED
      BY <2>1, <3>1, StraightDecoded
  <2> QED
    BY <2>2, <2>3, <2>4, <2>5
<1> QED
  BY <1>1, <1>2

-----------------------------------------------------------------------------
(***************************************************************************)
(* Reachability.                                                           *)
(***************************************************************************)

\* Steps over a graph whose edges all begin in a set of at most size nodes:
\* after size + 1 of them there is nowhere left to go.
LEMMA StepsExhaust ==
    ASSUME NEW V, NEW succ \in [V -> SUBSET V],
           NEW C, IsFiniteSet(C), NEW size \in Nat, Cardinality(C) <= size,
           \A p \in V \ C : succ[p] = {},
           NEW W \in [Nat -> SUBSET V],
           \A n \in Nat : W[n + 1] = W[n] \cup UNION {succ[p] : p \in W[n]}
    PROVE  \A p \in W[size + 1] : succ[p] \subseteq W[size + 1]
<1> DEFINE Inner(n) == W[n] \cap C
<1>1. \A n \in Nat : IsFiniteSet(Inner(n)) /\ Cardinality(Inner(n)) <= Cardinality(C)
  BY FS_Subset
<1>2. \A n \in Nat : Cardinality(Inner(n)) \in Nat
  BY <1>1, FS_CardinalityType
<1>3. \A n \in Nat : Inner(n) \subseteq Inner(n + 1)
  OBVIOUS
<1> HIDE DEF Inner
<1>4. \E k \in 0..size : Inner(k + 1) = Inner(k)
  <2> SUFFICES ASSUME \A k \in 0..size : Inner(k + 1) # Inner(k)
               PROVE  FALSE
    OBVIOUS
  <2> DEFINE S == {n \in Nat : n <= size + 1 => n <= Cardinality(Inner(n))}
  <2>1. 0 \in S
    BY <1>2
  <2>2. ASSUME NEW n \in Nat, n \in S
        PROVE  n + 1 \in S
    <3> SUFFICES ASSUME n + 1 <= size + 1
                 PROVE  n + 1 <= Cardinality(Inner(n + 1))
      OBVIOUS
    <3>1. n \in 0..size /\ n <= Cardinality(Inner(n))
      BY <2>2
    <3>2. Inner(n) \in SUBSET Inner(n + 1) /\ Inner(n + 1) # Inner(n)
      BY <1>3, <3>1
    <3>3. /\ Cardinality(Inner(n)) <= Cardinality(Inner(n + 1))
          /\ Cardinality(Inner(n + 1)) # Cardinality(Inner(n))
      BY <1>1, <3>2, FS_Subset
    <3>4. Cardinality(Inner(n)) \in Nat /\ Cardinality(Inner(n + 1)) \in Nat
      BY <1>2
    <3> QED
      BY <3>1, <3>3, <3>4
  <2> HIDE DEF S
  <2>3. size + 1 \in S
    BY <2>1, <2>2, NatInductive
  <2>4. size + 1 <= Cardinality(Inner(size + 1))
    BY <2>3 DEF S
  <2>5. /\ Cardinality(Inner(size + 1)) <= Cardinality(C)
        /\ Cardinality(C) \in Nat
        /\ Cardinality(Inner(size + 1)) \in Nat
    BY <1>1, <1>2, FS_CardinalityType
  <2> QED
    BY <2>4, <2>5
<1>5. PICK k \in 0..size : Inner(k + 1) = Inner(k)
  BY <1>4
<1>6. \A p \in W[k + 1] : succ[p] \subseteq W[k + 1]
  <2> SUFFICES ASSUME NEW p \in W[k + 1], p \in C
               PROVE  succ[p] \subseteq W[k + 1]
    OBVIOUS
  <2>1. p \in W[k]
    BY <1>5 DEF Inner
  <2> QED
    BY <2>1
<1>n. ASSUME NEW m \in Nat, W[m] = W[k + 1]
      PROVE  W[m + 1] = W[k + 1]
  <2>1. W[m + 1] = W[k + 1] \cup UNION {succ[p] : p \in W[k + 1]}
    BY <1>n
  <2>2. UNION {succ[p] : p \in W[k + 1]} \subseteq W[k + 1]
    BY <1>6
  <2> QED
    BY <2>1, <2>2
<1> DEFINE S == {n \in Nat : W[k + 1 + n] = W[k + 1]}
<1>7. 0 \in S
  OBVIOUS
<1>8. ASSUME NEW n \in Nat, n \in S
      PROVE  n + 1 \in S
  <2>1. /\ W[k + 1 + n] = W[k + 1]
        /\ k + 1 + n \in Nat
        /\ k + 1 + (n + 1) = (k + 1 + n) + 1
    BY <1>8
  <2>2. W[(k + 1 + n) + 1] = W[k + 1]
    BY <1>n, <2>1
  <2> QED
    BY <2>1, <2>2
<1> HIDE DEF S
<1>9. size - k \in S
  BY <1>7, <1>8, NatInductive
<1>10. W[size + 1] = W[k + 1]
  <2>1. k + 1 + (size - k) = size + 1
    OBVIOUS
  <2> QED
    BY <1>9, <2>1 DEF S
<1> QED
  BY <1>6, <1>10

\* Where control may go from a position is in the range of uint32_t, and it
\* goes nowhere from behind the code.
LEMMA SuccessorsType ==
    ASSUME NEW buf \in Seq(Byte), Len(buf) < AddrSpace, NEW p \in Position
    PROVE  /\ Successors(buf, p) \subseteq Position
           /\ p >= Len(buf) => Successors(buf, p) = {}
<1> DEFINE d == Decode(buf, p)
<1>1. p \in Nat
  BY DEF Position
<1>2. WellDecoded(buf, p, d)
  BY <1>1, DecodeType
<1>3. p >= Len(buf) => d = Insn("truncated", AfterU8(p), <<>>, 0)
  BY <1>1 DEF Decode, InRange, AfterU8
<1> HIDE DEF d
<1>4. \A i \in DOMAIN d.targets : d.targets[i] \in Position
  BY <1>2 DEF WellDecoded
<1>5. d.shape \in FallsThrough => d.next \in Position
  <2> SUFFICES ASSUME d.shape \in FallsThrough
               PROVE  d.next \in Position
    OBVIOUS
  <2>1. d.shape # "truncated"
    BY DEF FallsThrough, StraightShapes, Forms
  <2>2. d.next \in (p + 1)..Len(buf)
    BY <1>2, <2>1 DEF WellDecoded
  <2>3. Len(buf) \in Nat
    OBVIOUS
  <2> QED
    BY <1>1, <2>2, <2>3, AddrSpaceAssumption DEF Position
<1>6. Successors(buf, p) \subseteq Position
  BY <1>4, <1>5 DEF Successors, Targets, d
<1>7. ASSUME p >= Len(buf)
      PROVE  Successors(buf, p) = {}
  <2>1. d.shape = "truncated" /\ d.targets = <<>>
    BY <1>3, <1>7 DEF Insn
  <2>2. d.shape \notin FallsThrough
    BY <2>1 DEF FallsThrough, StraightShapes, Forms
  <2>3. DOMAIN d.targets = {}
    BY <2>1
  <2> QED
    BY <2>2, <2>3 DEF Successors, Targets, d
<1> QED
  BY <1>6, <1>7

(***************************************************************************)
(* The reference Reachable is the least set that holds the seeds and     *)
(* that control cannot leave.                                              *)
(***************************************************************************)
LEMMA ReachableIsLeast ==
    ASSUME NEW buf \in Seq(Byte), Len(buf) < AddrSpace, NEW seeds \in SUBSET Position
    PROVE  /\ seeds \subseteq Reachable(buf, seeds)
           /\ \A p \in Reachable(buf, seeds) :
                Successors(buf, p) \subseteq Reachable(buf, seeds)
           /\ \A S : seeds \subseteq S /\ (\A p \in S : Successors(buf, p) \subseteq S)
                => Reachable(buf, seeds) \subseteq S
<1> DEFINE succ == [p \in Position |-> Successors(buf, p)]
           Step(near) == near \cup UNION {Successors(buf, p) : p \in near}
           G == [x \in Nat \X SUBSET Position |-> Step(x[2])]
           Within == CHOOSE W : W = [n \in Nat |-> IF n = 0 THEN seeds ELSE Step(W[n - 1])]
<1>1. succ \in [Position -> SUBSET Position]
  BY SuccessorsType
<1>2. \A near \in SUBSET Position : Step(near) \in SUBSET Position
  BY SuccessorsType
<1>3. G \in [Nat \X SUBSET Position -> SUBSET Position]
  BY <1>2
<1>4. PICK f \in [Nat -> SUBSET Position] :
        \A n \in Nat : f[n] = IF n = 0 THEN seeds ELSE G[<<n, f[n - 1]>>]
  <2> DEFINE V == SUBSET Position
  <2>1. seeds \in V /\ G \in StepsIn(V)
    BY <1>3 DEF StepsIn
  <2> HIDE DEF G, V
  <2>2. \E f \in [Nat -> V] : Unfolds(f, seeds, G)
    BY <2>1, NatRecursive
  <2> QED
    BY <2>2 DEF Unfolds, V
<1>5. f = [n \in Nat |-> IF n = 0 THEN seeds ELSE Step(f[n - 1])]
  <2>1. \A n \in Nat, near \in SUBSET Position : G[<<n, near>>] = Step(near)
    OBVIOUS
  <2> HIDE DEF G, Step
  <2>2. ASSUME NEW n \in Nat
        PROVE  f[n] = IF n = 0 THEN seeds ELSE Step(f[n - 1])
    <3>1. n # 0 => n - 1 \in Nat
      OBVIOUS
    <3>2. n # 0 => f[n] = G[<<n, f[n - 1]>>]
      BY <1>4
    <3>3. n # 0 => G[<<n, f[n - 1]>>] = Step(f[n - 1])
      BY <1>4, <2>1, <3>1
    <3>4. n = 0 => f[n] = seeds
      BY <1>4
    <3> QED
      BY <3>2, <3>3, <3>4
  <2> QED
    BY <1>4, <2>2
<1>6. Within = [n \in Nat |-> IF n = 0 THEN seeds ELSE Step(Within[n - 1])]
  BY <1>5
<1>7. Reachable(buf, seeds) = Within[Len(buf) + 1]
  BY DEF Reachable
<1> HIDE DEF Within
<1>8. Within[0] = seeds /\ \A n \in Nat : Within[n + 1] = Step(Within[n])
  <2> HIDE DEF Step
  <2> QED
    BY <1>6
<1> DEFINE Typed == {n \in Nat : Within[n] \in SUBSET Position}
<1>9. Nat \subseteq Typed
  <2>1. 0 \in Typed
    BY <1>8
  <2>2. \A n \in Nat : n \in Typed => n + 1 \in Typed
    BY <1>2, <1>8
  <2> HIDE DEF Typed
  <2> QED
    BY <2>1, <2>2, NatInductive
<1>10. Within \in [Nat -> SUBSET Position]
  BY <1>6, <1>9
<1> DEFINE From == {n \in Nat : seeds \subseteq Within[n]}
<1>11. Nat \subseteq From
  <2>1. 0 \in From
    BY <1>8
  <2>2. \A n \in Nat : n \in From => n + 1 \in From
    BY <1>8
  <2> HIDE DEF From
  <2> QED
    BY <2>1, <2>2, NatInductive
<1>12. ASSUME NEW S, seeds \subseteq S, \A p \in S : Successors(buf, p) \subseteq S
       PROVE  \A n \in Nat : Within[n] \subseteq S
  <2> DEFINE Inside == {n \in Nat : Within[n] \subseteq S}
  <2>1. 0 \in Inside
    BY <1>8, <1>12
  <2>2. \A n \in Nat : n \in Inside => n + 1 \in Inside
    BY <1>8, <1>12
  <2> HIDE DEF Inside
  <2>3. Nat \subseteq Inside
    BY <2>1, <2>2, NatInductive
  <2> QED
    BY <2>3 DEF Inside
<1>13. Len(buf) \in Nat
  OBVIOUS
<1>14. \A p \in Within[Len(buf) + 1] : Successors(buf, p) \subseteq Within[Len(buf) + 1]
  <2> DEFINE C == 0..(Len(buf) - 1)
  <2>1. IsFiniteSet(C) /\ Cardinality(C) <= Len(buf)
    <3>1. 0 \in Int /\ Len(buf) - 1 \in Int
      BY <1>13
    <3>2. IsFiniteSet(C) /\ Cardinality(C) = IF 0 > Len(buf) - 1 THEN 0 ELSE Len(buf) - 1 - 0 + 1
      BY <3>1, FS_Interval
    <3> HIDE DEF C
    <3> QED
      BY <1>13, <3>2
  <2>2. \A p \in Position \ C : succ[p] = {}
    BY <1>13, SuccessorsType DEF Position
  <2>3. \A n \in Nat : Within[n + 1] = Within[n] \cup UNION {succ[p] : p \in Within[n]}
    <3>1. ASSUME NEW n \in Nat
          PROVE  {succ[p] : p \in Within[n]} = {Successors(buf, p) : p \in Within[n]}
      <4>1. Within[n] \subseteq Position
        BY <1>10
      <4>2. \A p \in Within[n] : succ[p] = Successors(buf, p)
        BY <4>1
      <4> HIDE DEF succ
      <4> QED
        BY <4>2
    <3> HIDE DEF succ
    <3> QED
      BY <1>8, <3>1
  <2> HIDE DEF C, succ
  <2>4. \A p \in Within[Len(buf) + 1] : succ[p] \subseteq Within[Len(buf) + 1]
    BY <1>1, <1>10, <1>13, <2>1, <2>2, <2>3, StepsExhaust
  <2>5. Within[Len(buf) + 1] \subseteq Position
    BY <1>10, <1>13
  <2>6. \A p \in Position : succ[p] = Successors(buf, p)
    BY DEF succ
  <2> QED
    BY <2>4, <2>5, <2>6
<1>15. Len(buf) + 1 \in Nat
  BY <1>13
<1>16. seeds \subseteq Within[Len(buf) + 1]
  BY <1>11, <1>15
<1>17. \A S : seeds \subseteq S /\ (\A p \in S : Successors(buf, p) \subseteq S)
         => Within[Len(buf) + 1] \subseteq S
  BY <1>12, <1>15
<1> QED
  BY <1>7, <1>14, <1>16, <1>17

-----------------------------------------------------------------------------
(***************************************************************************)
(* Sequences used as stacks.                                               *)
(***************************************************************************)
LEMMA PopType ==
    ASSUME NEW S, NEW s \in Seq(S), s # <<>>
    PROVE  /\ s[Len(s)] \in S
           /\ SubSeq(s, 1, Len(s) - 1) \in Seq(S)
           /\ Range(s) = Range(SubSeq(s, 1, Len(s) - 1)) \cup {s[Len(s)]}
<1> DEFINE t == SubSeq(s, 1, Len(s) - 1)
<1>1. Len(s) \in Nat \ {0}
  BY EmptySeq
<1>2. \A i \in 1..(Len(s) - 1) : s[i] \in S
  BY <1>1, ElementOfSeq
<1>n. Len(s) - 1 \in Int /\ 1 \in Int
  BY <1>1
<1>s. /\ t \in Seq(S)
      /\ Len(t) = IF 1 <= Len(s) - 1 THEN Len(s) - 1 - 1 + 1 ELSE 0
      /\ \A i \in 1..(Len(s) - 1 - 1 + 1) : t[i] = s[1 + i - 1]
  BY <1>n, <1>2, SubSeqProperties
<1> HIDE DEF t
<1>3. /\ t \in Seq(S)
      /\ Len(t) = Len(s) - 1
      /\ \A i \in 1..Len(t) : t[i] = s[i]
  <2>0. \A n \in Nat \ {0} : (IF 1 <= n - 1 THEN n - 1 - 1 + 1 ELSE 0) = n - 1
    OBVIOUS
  <2>1. Len(t) = Len(s) - 1
    BY <1>1, <1>s, <2>0
  <2>2. ASSUME NEW i \in 1..Len(t)
        PROVE  t[i] = s[i]
    <3>1. i \in 1..(Len(s) - 1 - 1 + 1) /\ 1 + i - 1 = i
      BY <1>1, <2>1, <2>2
    <3> QED
      BY <1>s, <3>1
  <2> QED
    BY <1>s, <2>1, <2>2
<1>4. DOMAIN t = 1..(Len(s) - 1) /\ DOMAIN s = 1..Len(s)
  BY <1>3, LenProperties
<1>5. s[Len(s)] \in S
  BY <1>1, ElementOfSeq
<1>6. Range(s) = Range(t) \cup {s[Len(s)]}
  <2>1. 1..Len(s) = 1..(Len(s) - 1) \cup {Len(s)}
    BY <1>1
  <2> QED
    BY <1>3, <1>4, <2>1 DEF Range
<1> QED
  BY <1>3, <1>5, <1>6 DEF t

LEMMA PushType ==
    ASSUME NEW S, NEW s \in Seq(S), NEW t \in Seq(S)
    PROVE  /\ s \o t \in Seq(S)
           /\ Range(s \o t) = Range(s) \cup Range(t)
<1>1. Len(s) \in Nat /\ Len(t) \in Nat /\ DOMAIN s = 1..Len(s) /\ DOMAIN t = 1..Len(t)
  BY LenProperties
<1>2. /\ s \o t \in Seq(S)
      /\ Len(s \o t) = Len(s) + Len(t)
      /\ \A i \in 1..(Len(s) + Len(t)) :
            (s \o t)[i] = IF i <= Len(s) THEN s[i] ELSE t[i - Len(s)]
  BY ConcatProperties
<1>3. DOMAIN (s \o t) = 1..(Len(s) + Len(t))
  BY <1>2, LenProperties
<1>4. ASSUME NEW i \in 1..(Len(s) + Len(t))
      PROVE  (s \o t)[i] \in Range(s) \cup Range(t)
  <2>1. CASE i <= Len(s)
    BY <1>1, <1>2, <2>1 DEF Range
  <2>2. CASE ~(i <= Len(s))
    <3>1. i - Len(s) \in DOMAIN t /\ (s \o t)[i] = t[i - Len(s)]
      BY <1>1, <1>2, <2>2
    <3> QED
      BY <3>1 DEF Range
  <2> QED
    BY <2>1, <2>2
<1>5. ASSUME NEW i \in 1..Len(s)
      PROVE  s[i] \in Range(s \o t)
  <2>1. i \in DOMAIN (s \o t) /\ (s \o t)[i] = s[i]
    BY <1>1, <1>2, <1>3
  <2> QED
    BY <2>1 DEF Range
<1>6. ASSUME NEW i \in 1..Len(t)
      PROVE  t[i] \in Range(s \o t)
  <2>1. Len(s) + i \in DOMAIN (s \o t) /\ (s \o t)[Len(s) + i] = t[i]
    BY <1>1, <1>2, <1>3
  <2> QED
    BY <2>1 DEF Range
<1> QED
  BY <1>1, <1>2, <1>3, <1>4, <1>5, <1>6 DEF Range

-----------------------------------------------------------------------------
(***************************************************************************)
(* The inductive invariant.                                                *)
(***************************************************************************)

\* The worklist is local to a call: nothing of it survives the return.
IdleIsDone == pc = "idle" => ep = <<>>

\* Only known instructions that could be read, all of their bytes, are listed.
ListedIsRead == \A p \in Listed : Decode(code, p).shape \notin {"truncated", "unknown"}

\* Where the labels come from: listed instructions, or a failed call.
LabelsKnown ==
    /\ \A p \in Listed : Targets(code, p) \subseteq jumps
    /\ ~failed => jumps \subseteq UNION {Targets(code, p) : p \in Listed}

\* What is listed or pending can be reached, by any number of steps: this does
\* not follow from NothingInvented, which a cycle nobody enters satisfies too.
StaysReachable == Listed \cup Pending \subseteq Reachable(code, entries)

\* The first iteration of a call settles its start: it has a line, or an
\* opcode nobody knows.
EntriesSettled ==
    \A e \in entries : Seen(e) \/ Decode(code, e).shape = "unknown" \/ ep = <<e>>

\* A call that failed has left a message, or met an opcode nobody knows.
FailureShows ==
    failed => \/ DOMAIN output # Listed
              \/ \E p \in Frontier : Decode(code, p).shape = "unknown"

IInv ==
    /\ TypeOK
    /\ IdleIsDone
    /\ ErrorsMeanFailure
    /\ NothingLost
    /\ NothingInvented
    /\ UsedIsListed
    /\ ListedIsRead
    /\ LabelsKnown
    /\ StaysReachable
    /\ EntriesSettled
    /\ FailureShows

\* The positions and the code of every state: what the lemmas on decoding and
\* on stacks need.
LEMMA CodeType ==
    ASSUME TypeOK
    PROVE  code \in Seq(Byte) /\ Len(code) \in Nat /\ Len(code) < AddrSpace
BY CodesAssumption DEF TypeOK

\* What ReachableIsLeast says of the code and the entries of a state.
LEMMA ReachableType ==
    ASSUME TypeOK
    PROVE  /\ entries \subseteq Reachable(code, entries)
           /\ \A p \in Reachable(code, entries) :
                Successors(code, p) \subseteq Reachable(code, entries)
           /\ \A S : entries \subseteq S /\ (\A p \in S : Successors(code, p) \subseteq S)
                => Reachable(code, entries) \subseteq S
BY CodeType, ReachableIsLeast DEF TypeOK

\* The same of the state after a step.
LEMMA ReachableLater ==
    ASSUME TypeOK'
    PROVE  /\ entries' \subseteq Reachable(code', entries')
           /\ \A p \in Reachable(code', entries') :
                Successors(code', p) \subseteq Reachable(code', entries')
<1>1. code' \in Seq(Byte) /\ Len(code') < AddrSpace /\ entries' \in SUBSET Position
  BY CodesAssumption DEF TypeOK
<1> QED
  BY <1>1, ReachableIsLeast

LEMMA TopType ==
    ASSUME TypeOK, InLoop
    PROVE  /\ ip \in Position
           /\ rest \in Seq(Position)
           /\ Pending = Range(rest) \cup {ip}
           /\ WellDecoded(code, ip, insn)
<1>1. ep \in Seq(Position) /\ ep # <<>>
  BY DEF TypeOK, InLoop
<1>2. /\ ip \in Position
      /\ rest \in Seq(Position)
      /\ Pending = Range(rest) \cup {ip}
  BY <1>1, PopType DEF ip, rest, Pending
<1>3. ip \in Nat
  BY <1>2 DEF Position
<1>4. WellDecoded(code, ip, insn)
  BY <1>3, CodeType, DecodeType DEF insn
<1> QED
  BY <1>2, <1>4

\* A listed instruction pushes positions, and they are its successors.
LEMMA PushedType ==
    ASSUME TypeOK, InLoop, insn.shape # "truncated"
    PROVE  /\ Pushed \in Seq(Position)
           /\ Range(Pushed) = Successors(code, ip)
<1>1. WellDecoded(code, ip, insn) /\ ip \in Position
  BY TopType
<1>2. insn.targets \in Seq(Position) /\ Range(insn.targets) = Targets(code, ip)
  BY <1>1 DEF WellDecoded, Targets, insn, Range
<1>3. insn.next \in Position
  <2>1. insn.next \in (ip + 1)..Len(code)
    BY <1>1 DEF WellDecoded
  <2>2. ip \in Nat /\ Len(code) \in Nat /\ Len(code) < AddrSpace
    BY <1>1, CodeType DEF Position
  <2> HIDE DEF ip, insn
  <2>3. ASSUME NEW i \in Nat, NEW l \in Nat, l < AddrSpace, NEW n \in (i + 1)..l
        PROVE  n \in Position
    BY <2>3, AddrSpaceAssumption DEF Position
  <2> QED
    BY <2>1, <2>2, <2>3
<1> DEFINE after == IF insn.shape \in FallsThrough THEN <<insn.next>> ELSE <<>>
<1>4. /\ after \in Seq(Position)
      /\ Range(after) = IF insn.shape \in FallsThrough THEN {insn.next} ELSE {}
  <2>1. CASE insn.shape \in FallsThrough
    <3>1. after = <<insn.next>>
      BY <2>1
    <3> HIDE DEF after
    <3>2. after \in Seq(Position)
      BY <1>3, <3>1
    <3>3. Range(after) = {insn.next}
      BY <3>1 DEF Range
    <3> QED
      BY <2>1, <3>2, <3>3
  <2>2. CASE insn.shape \notin FallsThrough
    <3>1. after = <<>>
      BY <2>2
    <3> HIDE DEF after
    <3> QED
      BY <2>2, <3>1 DEF Range
  <2> QED
    BY <2>1, <2>2
<1> HIDE DEF after
<1>5. Pushed = insn.targets \o after
  BY DEF Pushed, after
<1>6. /\ Pushed \in Seq(Position)
      /\ Range(Pushed) = Range(insn.targets) \cup Range(after)
  BY <1>2, <1>4, <1>5, PushType
<1> QED
  BY <1>2, <1>4, <1>6 DEF Successors, insn

-----------------------------------------------------------------------------
(***************************************************************************)
(* Lines added to the listing.                                             *)
(***************************************************************************)
LEMMA LineAdded ==
    ASSUME TypeOK, NEW p \in Position, p \notin DOMAIN output, NEW line \in Line,
           output' = WithLine(p, line)
    PROVE  /\ DOMAIN output' = DOMAIN output \cup {p}
           /\ DOMAIN output' \subseteq Position
           /\ output' \in [DOMAIN output' -> Line]
           /\ \A q \in DOMAIN output : output'[q] = output[q]
           /\ Listed' = IF line = "insn" THEN Listed \cup {p} ELSE Listed
<1>1. /\ DOMAIN output' = DOMAIN output \cup {p}
      /\ output'[p] = line
      /\ \A q \in DOMAIN output : output'[q] = output[q]
  BY DEF WithLine
<1>2. DOMAIN output' \subseteq Position
  BY <1>1 DEF TypeOK
<1>3. output' \in [DOMAIN output' -> Line]
  BY DEF WithLine, TypeOK
<1>4. Listed' = IF line = "insn" THEN Listed \cup {p} ELSE Listed
  BY <1>1 DEF Listed
<1> QED
  BY <1>1, <1>2, <1>3, <1>4

\* An iteration that lists the instruction at ip.
LEMMA LemmaListInsn ==
    ASSUME IInv, Fresh, insn.shape \in StraightShapes \cup TransferShapes, ListInsn
    PROVE  IInv'
<1>1. /\ TypeOK
      /\ InLoop
      /\ ip \notin DOMAIN output
      /\ insn.shape \notin {"truncated", "unknown"}
  BY DEF IInv, Fresh, Seen, StraightShapes, TransferShapes, Forms
<1>2. /\ ip \in Position
      /\ rest \in Seq(Position)
      /\ Pending = Range(rest) \cup {ip}
      /\ WellDecoded(code, ip, insn)
      /\ Pushed \in Seq(Position)
      /\ Range(Pushed) = Successors(code, ip)
  BY <1>1, TopType, PushedType
<1>3. /\ DOMAIN output' = DOMAIN output \cup {ip}
      /\ DOMAIN output' \subseteq Position
      /\ output' \in [DOMAIN output' -> Line]
      /\ Listed' = Listed \cup {ip}
  BY <1>1, <1>2, LineAdded DEF ListInsn, Line
<1>4. /\ ep' = rest \o Pushed
      /\ used' = used \cup Span(code, ip)
      /\ jumps' = jumps \cup Targets(code, ip)
      /\ UNCHANGED <<code, pc, entries, failed, calls>>
  BY DEF ListInsn
<1>5. /\ ep' \in Seq(Position)
      /\ Pending' = Range(rest) \cup Successors(code, ip)
  BY <1>2, <1>4, PushType DEF Pending
<1>6. Targets(code, ip) \subseteq Position
  BY <1>2, ElementOfSeq DEF WellDecoded, Targets, insn
<1>7. Frontier' = Frontier \cup Successors(code, ip)
  BY <1>3, <1>4 DEF Frontier
<1> HIDE DEF ip, insn, rest
<1>8. TypeOK'
  <2>1. Span(code, ip) \subseteq Nat
    BY <1>2 DEF Span, Position
  <2> QED
    BY <1>1, <1>3, <1>4, <1>5, <1>6, <2>1 DEF TypeOK
<1>9. IdleIsDone'
  BY <1>1, <1>4 DEF IdleIsDone, InLoop
<1>10. ErrorsMeanFailure'
  BY <1>3, <1>4 DEF IInv, ErrorsMeanFailure
<1>11. NothingLost'
  BY <1>2, <1>3, <1>4, <1>5, <1>7 DEF IInv, NothingLost
<1>12. NothingInvented'
  BY <1>2, <1>3, <1>5, <1>7 DEF IInv, NothingInvented
<1>13. UsedIsListed'
  BY <1>3, <1>4 DEF IInv, UsedIsListed, Span
<1>14. ListedIsRead'
  BY <1>1, <1>3, <1>4 DEF IInv, ListedIsRead, insn
<1>15. LabelsKnown'
  BY <1>3, <1>4 DEF IInv, LabelsKnown
<1>16. StaysReachable'
  <2>1. ip \in Reachable(code, entries)
    BY <1>2 DEF IInv, StaysReachable
  <2>2. Successors(code, ip) \subseteq Reachable(code, entries)
    BY <1>1, <2>1, ReachableType
  <2> QED
    BY <1>2, <1>3, <1>4, <1>5, <2>1, <2>2 DEF IInv, StaysReachable
<1>17. EntriesSettled'
  <2> SUFFICES ASSUME NEW e \in entries
               PROVE  e \in DOMAIN output' \/ Decode(code, e).shape = "unknown"
    BY <1>4 DEF EntriesSettled, Seen
  <2>1. CASE ep = <<e>>
    BY <1>3, <2>1 DEF ip
  <2>2. CASE ep # <<e>>
    BY <1>3, <2>2 DEF IInv, EntriesSettled, Seen
  <2> QED
    BY <2>1, <2>2
<1>18. FailureShows'
  <2> SUFFICES ASSUME failed, DOMAIN output' = Listed'
               PROVE  \E p \in Frontier : Decode(code, p).shape = "unknown"
    BY <1>4, <1>7 DEF FailureShows
  <2>1. DOMAIN output = Listed
    BY <1>1, <1>3 DEF Listed
  <2> QED
    BY <2>1 DEF IInv, FailureShows
<1> QED
  BY <1>8, <1>9, <1>10, <1>11, <1>12, <1>13, <1>14, <1>15, <1>16, <1>17, <1>18 DEF IInv

\* An iteration that gives up: the listing gets at most a line that is not an
\* instruction, and the labels a switch had pushed.
LEMMA LemmaGiveUp ==
    ASSUME IInv, Fresh, GiveUp,
           \/ output' = output /\ insn.shape = "unknown"
           \/ \E line \in Line \ {"insn"} : output' = WithLine(ip, line),
           \/ jumps' = jumps
           \/ jumps' = jumps \cup Targets(code, ip)
    PROVE  IInv'
<1>1. TypeOK /\ InLoop /\ ip \notin DOMAIN output
  BY DEF IInv, Fresh, Seen
<1>2. ip \in Position /\ WellDecoded(code, ip, insn)
  BY <1>1, TopType
<1>3. Targets(code, ip) \subseteq Position
  BY <1>2, ElementOfSeq DEF WellDecoded, Targets, insn
<1>p. ip \in Frontier
  BY <1>1, TopType DEF IInv, NothingInvented
<1>u. insn.shape = "unknown" => Decode(code, ip).shape = "unknown"
  BY DEF insn
<1> HIDE DEF ip, insn
<1>4. /\ DOMAIN output' \subseteq Position
      /\ output' \in [DOMAIN output' -> Line]
      /\ Listed' = Listed
      /\ DOMAIN output \subseteq DOMAIN output'
      /\ output' = output \/ (DOMAIN output' = DOMAIN output \cup {ip})
  <2>1. CASE output' = output
    BY <1>1, <2>1 DEF TypeOK, Listed
  <2>2. ASSUME NEW line \in Line \ {"insn"}, output' = WithLine(ip, line)
        PROVE  /\ DOMAIN output' \subseteq Position
               /\ output' \in [DOMAIN output' -> Line]
               /\ Listed' = Listed
               /\ DOMAIN output' = DOMAIN output \cup {ip}
    BY <1>1, <1>2, <2>2, LineAdded
  <2> QED
    BY <2>1, <2>2
<1>5. /\ ep' = <<>> /\ pc' = "idle" /\ failed' = TRUE
      /\ UNCHANGED <<code, used, entries, calls>>
  BY DEF GiveUp
<1>6. Pending' = {} /\ Frontier' = Frontier
  BY <1>4, <1>5 DEF Pending, Range, Frontier
<1>7. jumps \subseteq jumps' /\ jumps' \subseteq Position
  BY <1>1, <1>3 DEF TypeOK
<1>8. TypeOK'
  BY <1>1, <1>4, <1>5, <1>7 DEF TypeOK
<1>9. IdleIsDone' /\ ErrorsMeanFailure' /\ NothingLost'
  BY <1>5 DEF IdleIsDone, ErrorsMeanFailure, NothingLost
<1>10. NothingInvented'
  BY <1>4, <1>6 DEF IInv, NothingInvented
<1>11. UsedIsListed' /\ ListedIsRead'
  BY <1>4, <1>5 DEF IInv, UsedIsListed, ListedIsRead
<1>12. LabelsKnown'
  BY <1>4, <1>5, <1>7 DEF IInv, LabelsKnown
<1>13. StaysReachable'
  BY <1>4, <1>5, <1>6 DEF IInv, StaysReachable
<1>14. EntriesSettled'
  <2> SUFFICES ASSUME NEW e \in entries
               PROVE  e \in DOMAIN output' \/ Decode(code, e).shape = "unknown"
    BY <1>5 DEF EntriesSettled, Seen
  <2>1. CASE ep = <<e>>
    <3>1. e = ip
      BY <2>1 DEF ip
    <3>2. CASE output' = output
      <4>1. output' \in [DOMAIN output' -> Line]
        BY <1>4
      <4>2. \A line \in Line \ {"insn"} : output' = WithLine(ip, line) => ip \in DOMAIN output'
        BY DEF WithLine
      <4> QED
        BY <1>u, <3>1, <4>2
    <3>3. CASE DOMAIN output' = DOMAIN output \cup {ip}
      BY <3>1, <3>3
    <3> QED
      BY <1>4, <3>2, <3>3
  <2>2. CASE ep # <<e>>
    BY <1>4, <2>2 DEF IInv, EntriesSettled, Seen
  <2> QED
    BY <2>1, <2>2
<1>15. FailureShows'
  <2>1. CASE output' = output
    <3>1. CASE insn.shape = "unknown"
      BY <1>p, <1>u, <1>5, <1>6, <3>1 DEF FailureShows
    <3>2. ASSUME NEW line \in Line \ {"insn"}, output' = WithLine(ip, line)
          PROVE  FALSE
      <4>1. ip \in DOMAIN output'
        BY <3>2 DEF WithLine
      <4> QED
        BY <1>1, <2>1, <4>1
    <3> QED
      BY <3>1, <3>2
  <2>2. CASE DOMAIN output' = DOMAIN output \cup {ip}
    <3>1. ip \notin Listed'
      BY <1>1, <1>4 DEF Listed
    <3> QED
      BY <2>2, <3>1 DEF FailureShows
  <2> QED
    BY <1>4, <2>1, <2>2
<1> QED
  BY <1>8, <1>9, <1>10, <1>11, <1>12, <1>13, <1>14, <1>15 DEF IInv

-----------------------------------------------------------------------------
LEMMA LemmaInit == Init => IInv
<1> SUFFICES ASSUME Init PROVE IInv
  OBVIOUS
<1>1. Listed = {} /\ DOMAIN output = {} /\ Pending = {}
  BY DEF Init, Listed, Pending, Range
<1>2. TypeOK
  <2>1. ep \in Seq(Position)
    BY EmptySeq DEF Init
  <2>2. output \in [DOMAIN output -> Line] /\ DOMAIN output \subseteq Position
    BY DEF Init
  <2> QED
    BY <2>1, <2>2 DEF Init, TypeOK
<1>3. StaysReachable /\ EntriesSettled /\ FailureShows
  BY <1>1 DEF Init, StaysReachable, EntriesSettled, FailureShows
<1> QED
  BY <1>1, <1>2, <1>3 DEF Init, IInv, IdleIsDone, ErrorsMeanFailure, NothingLost,
       NothingInvented, Frontier, UsedIsListed, ListedIsRead, LabelsKnown

\* A call puts its start on the empty worklist.
LEMMA LemmaCall ==
    ASSUME IInv, NEW start \in Position, Call(start)
    PROVE  IInv'
<1>1. TypeOK /\ ep = <<>>
  BY DEF IInv, IdleIsDone, Call
<1>2. /\ ep' = <<start>> /\ pc' = "running"
      /\ entries' = entries \cup {start}
      /\ calls' = calls + 1
      /\ UNCHANGED <<code, output, used, jumps, failed>>
  BY DEF Call
<1>3. Pending = {} /\ Pending' = {start}
  BY <1>1, <1>2 DEF Pending, Range
<1>4. Listed' = Listed /\ Frontier' = Frontier \cup {start}
  BY <1>2 DEF Listed, Frontier
<1>5. TypeOK'
  BY <1>1, <1>2 DEF TypeOK
<1>6. IdleIsDone' /\ ErrorsMeanFailure'
  BY <1>2, <1>4 DEF IInv, IdleIsDone, ErrorsMeanFailure
<1>7. NothingLost' /\ NothingInvented'
  BY <1>2, <1>3, <1>4 DEF IInv, NothingLost, NothingInvented
<1>8. UsedIsListed' /\ ListedIsRead' /\ LabelsKnown'
  BY <1>2, <1>4 DEF IInv, UsedIsListed, ListedIsRead, LabelsKnown
<1>9. StaysReachable'
  <2>1. TypeOK /\ TypeOK' /\ code' = code
    BY <1>1, <1>2, <1>5
  <2>2. Reachable(code, entries) \subseteq Reachable(code', entries')
    <3>1. \A p \in Reachable(code', entries') :
             Successors(code', p) \subseteq Reachable(code', entries')
      BY <2>1, ReachableLater
    <3>2. entries \subseteq Reachable(code', entries')
      BY <1>2, <2>1, ReachableLater
    <3> QED
      BY <2>1, <3>1, <3>2, ReachableType
  <2>3. start \in Reachable(code', entries')
    BY <1>2, <2>1, ReachableLater
  <2> QED
    BY <1>3, <1>4, <2>2, <2>3 DEF IInv, StaysReachable
<1>10. EntriesSettled'
  BY <1>1, <1>2 DEF IInv, EntriesSettled, Seen
<1>11. FailureShows'
  BY <1>2, <1>4 DEF IInv, FailureShows
<1> QED
  BY <1>5, <1>6, <1>7, <1>8, <1>9, <1>10, <1>11 DEF IInv

\* A call that begins with a fresh listing satisfies the invariant.
LEMMA LemmaEnter ==
    ASSUME code' \in Codes, NEW start \in Position, ep' = <<start>>,
           output' = [p \in {} |-> "insn"], used' = {}, jumps' = {},
           pc' = "running", entries' = {start}, failed' = FALSE, calls' = 1
    PROVE  IInv'
<1>1. Listed' = {} /\ DOMAIN output' = {} /\ Pending' = {start} /\ Frontier' = {start}
  BY DEF Listed, Pending, Range, Frontier
<1>2. TypeOK'
  <2>1. output' \in [DOMAIN output' -> Line] /\ DOMAIN output' \subseteq Position
    OBVIOUS
  <2>2. ep' \in Seq(Position)
    OBVIOUS
  <2> QED
    BY <2>1, <2>2 DEF TypeOK
<1>3. IdleIsDone' /\ ErrorsMeanFailure' /\ NothingLost' /\ NothingInvented'
  BY <1>1 DEF IdleIsDone, ErrorsMeanFailure, NothingLost, NothingInvented
<1>4. UsedIsListed' /\ ListedIsRead' /\ LabelsKnown'
  BY <1>1 DEF UsedIsListed, ListedIsRead, LabelsKnown
<1>5. StaysReachable' /\ EntriesSettled' /\ FailureShows'
  BY <1>1, <1>2, ReachableLater DEF StaysReachable, EntriesSettled, FailureShows
<1> QED
  BY <1>2, <1>3, <1>4, <1>5 DEF IInv

\* An entry point that has its line already leaves the worklist.  Unless a
\* call has failed, the line is an instruction.
LEMMA LemmaSkipSeen ==
    ASSUME IInv, SkipSeen
    PROVE  IInv'
<1>1. TypeOK /\ InLoop /\ ip \in DOMAIN output
  BY DEF IInv, SkipSeen, Seen
<1>2. rest \in Seq(Position) /\ Pending = Range(rest) \cup {ip}
  BY <1>1, TopType
<1>3. ep' = rest /\ UNCHANGED <<code, output, used, jumps, pc, entries, failed, calls>>
  BY DEF SkipSeen
<1>4. Listed' = Listed /\ Frontier' = Frontier /\ Pending' = Range(rest)
  BY <1>3 DEF Listed, Frontier, Pending
<1>9. EntriesSettled'
  BY <1>1, <1>3 DEF IInv, EntriesSettled, Seen, ip
<1> HIDE DEF ip, rest
<1>5. TypeOK'
  BY <1>1, <1>2, <1>3 DEF TypeOK
<1>6. IdleIsDone' /\ ErrorsMeanFailure'
  BY <1>1, <1>3, <1>4 DEF IInv, IdleIsDone, ErrorsMeanFailure, InLoop
<1>7. NothingLost' /\ NothingInvented'
  BY <1>1, <1>2, <1>3, <1>4
     DEF IInv, NothingLost, NothingInvented, ErrorsMeanFailure
<1>8. UsedIsListed' /\ ListedIsRead' /\ LabelsKnown'
  BY <1>3, <1>4 DEF IInv, UsedIsListed, ListedIsRead, LabelsKnown
<1>10. StaysReachable' /\ FailureShows'
  BY <1>2, <1>3, <1>4 DEF IInv, StaysReachable, FailureShows
<1> QED
  BY <1>5, <1>6, <1>7, <1>8, <1>9, <1>10 DEF IInv

\* Steps that leave the worklist, the listing and the marks alone.
LEMMA LemmaQuiet ==
    ASSUME IInv, UNCHANGED <<code, ep, output, used, jumps, entries, failed, calls>>,
           pc' \in {"idle", "running", "crashed"}, pc' = "idle" => ep = <<>>
    PROVE  IInv'
<1>1. Listed' = Listed /\ Frontier' = Frontier /\ Pending' = Pending
  BY DEF Listed, Frontier, Pending
<1>2. TypeOK'
  BY DEF IInv, TypeOK
<1>3. IdleIsDone' /\ ErrorsMeanFailure'
  BY <1>1 DEF IInv, IdleIsDone, ErrorsMeanFailure
<1>4. NothingLost' /\ NothingInvented'
  BY <1>1 DEF IInv, NothingLost, NothingInvented
<1>5. UsedIsListed' /\ ListedIsRead' /\ LabelsKnown'
  BY <1>1 DEF IInv, UsedIsListed, ListedIsRead, LabelsKnown
<1>6. StaysReachable' /\ EntriesSettled' /\ FailureShows'
  BY <1>1 DEF IInv, StaysReachable, EntriesSettled, FailureShows, Seen
<1> QED
  BY <1>2, <1>3, <1>4, <1>5, <1>6 DEF IInv

\* Every iteration of the loop keeps the invariant, and so does its end.
LEMMA LemmaIterate == IInv /\ Iterate => IInv'
<1> SUFFICES ASSUME IInv, Iterate PROVE IInv'
  OBVIOUS
<1>2. CASE SkipSeen
  BY <1>2, LemmaSkipSeen
<1>3. CASE Straight
  BY <1>3, LemmaListInsn DEF Straight
<1>4. CASE Branch
  BY <1>4, LemmaListInsn DEF Branch, TransferShapes
<1>5. CASE Jump
  BY <1>5, LemmaListInsn DEF Jump, TransferShapes
<1>6. CASE Switch
  BY <1>6, LemmaListInsn DEF Switch, TransferShapes
<1>7. CASE Exit
  BY <1>7, LemmaListInsn DEF Exit, TransferShapes
<1>8. CASE UnknownOp
  BY <1>8, LemmaGiveUp DEF UnknownOp
<1>9. CASE ReadThrows
  <2>1. "exception" \in Line \ {"insn"}
    BY DEF Line
  <2> QED
    BY <1>9, <2>1, LemmaGiveUp DEF ReadThrows
<1>10. CASE LookupThrows
  <2>1. "unknown exception" \in Line \ {"insn"}
    BY DEF Line
  <2> QED
    BY <1>10, <2>1, LemmaGiveUp DEF LookupThrows
<1>11. CASE LookupCrashes
  BY <1>11, LemmaQuiet DEF LookupCrashes
<1>12. CASE Return
  BY <1>12, LemmaQuiet DEF Return
<1> QED
  BY <1>2, <1>3, <1>4, <1>5, <1>6, <1>7, <1>8, <1>9, <1>10, <1>11, <1>12 DEF Iterate

\* The loop changes neither the code nor what was passed as start.
LEMMA IterateKeeps == Iterate => UNCHANGED <<code, entries>>
BY DEF Iterate, SkipSeen, Straight, Branch, Jump, Switch, Exit, UnknownOp, ReadThrows,
       LookupThrows, LookupCrashes, Return, ListInsn, GiveUp

LEMMA LemmaNext == IInv /\ [Next]_vars => IInv'
<1> SUFFICES ASSUME IInv, [Next]_vars PROVE IInv'
  OBVIOUS
<1>1. ASSUME NEW start \in Starts, Call(start)
      PROVE  IInv'
  BY <1>1, StartsAssumption, LemmaCall
<1>2. CASE Iterate
  BY <1>2, LemmaIterate
<1>3. CASE UNCHANGED vars
  BY <1>3, LemmaQuiet DEF vars, IInv, TypeOK, IdleIsDone
<1> QED
  BY <1>1, <1>2, <1>3 DEF Next

\* IInv is an invariant of the disassembler.
THEOREM Invariance == Spec => []IInv
BY LemmaInit, LemmaNext, PTL DEF Spec

-----------------------------------------------------------------------------
(***************************************************************************)
(* What follows from it.                                                   *)
(***************************************************************************)

\* The variables of disassemble always have their types: no jump, however
\* far, takes a position out of uint32_t.
THEOREM TypeCorrect == Spec => []TypeOK
<1>1. IInv => TypeOK
  BY DEF IInv
<1> QED
  BY <1>1, Invariance, PTL

\* No store to used is outside the vector, whatever the bytes of the code.
THEOREM UsedStaysInBounds == Spec => []UsedInBounds
<1>1. IInv => UsedInBounds
  <2> SUFFICES ASSUME IInv, NEW i \in used
               PROVE  i \in 0..(Len(code) - 1)
    BY DEF UsedInBounds
  <2>1. PICK p \in Listed : i \in p..(Decode(code, p).next - 1)
    BY DEF IInv, UsedIsListed
  <2>2. p \in Nat
    BY <2>1 DEF IInv, TypeOK, Listed, Position
  <2>3. WellDecoded(code, p, Decode(code, p))
    BY <2>2, CodeType, DecodeType DEF IInv
  <2>4. Decode(code, p).next \in (p + 1)..Len(code)
    BY <2>1, <2>3 DEF IInv, ListedIsRead, WellDecoded
  <2>5. Len(code) \in Nat
    BY CodeType DEF IInv
  <2> QED
    BY <2>1, <2>2, <2>4, <2>5
<1> QED
  BY <1>1, Invariance, PTL

\* used marks exactly the bytes of the listed instructions.
THEOREM CoverageIsExact == Spec => []UsedIsListed
<1>1. IInv => UsedIsListed
  BY DEF IInv
<1> QED
  BY <1>1, Invariance, PTL

\* As long as no call has failed, the loop forgets no position.
THEOREM LosesNothing == Spec => []NothingLost
<1>1. IInv => NothingLost
  BY DEF IInv
<1> QED
  BY <1>1, Invariance, PTL

\* The loop never follows a position control cannot get to.
THEOREM InventsNothing == Spec => []NothingInvented
<1>1. IInv => NothingInvented
  BY DEF IInv
<1> QED
  BY <1>1, Invariance, PTL

\* Between calls, unless one has failed, the listing is what can be reached.
LEMMA IdleListing ==
    ASSUME IInv, pc = "idle", ~failed
    PROVE  Listed = Reachable(code, entries)
<1>1. Listed = Frontier
  <2>1. Pending = {}
    BY DEF IInv, IdleIsDone, Pending, Range
  <2> QED
    BY <2>1 DEF IInv, NothingLost, NothingInvented
<1>2. Listed \subseteq Reachable(code, entries)
  BY DEF IInv, StaysReachable
<1>3. Reachable(code, entries) \subseteq Listed
  <2>1. entries \subseteq Listed /\ \A p \in Listed : Successors(code, p) \subseteq Listed
    BY <1>1 DEF Frontier
  <2> QED
    BY <2>1, ReachableType DEF IInv
<1> QED
  BY <1>2, <1>3

\* Between calls, if none has failed, the listing is what can be reached from
\* the entries, computed without a worklist: all of it, and nothing else.
THEOREM ListsExactly == Spec => []ListingIsExact
<1>1. IInv => ListingIsExact
  BY IdleListing DEF ListingIsExact
<1> QED
  BY <1>1, Invariance, PTL

\* Lines that are not instructions mean that a call has failed.
THEOREM ErrorsAreReported == Spec => []ErrorsMeanFailure
<1>1. IInv => ErrorsMeanFailure
  BY DEF IInv
<1> QED
  BY <1>1, Invariance, PTL

\* Labels and the lines they label belong together.
THEOREM EveryLabelResolves == Spec => []LabelsResolve
<1>1. IInv => LabelsResolve
  <2> SUFFICES ASSUME IInv
               PROVE  LabelsResolve
    OBVIOUS
  <2>1. ASSUME pc = "idle", ~failed
        PROVE  jumps \subseteq Listed
    <3>1. Pending = {}
      BY <2>1 DEF IInv, IdleIsDone, Pending, Range
    <3>2. Frontier \subseteq Listed
      BY <2>1, <3>1 DEF IInv, NothingLost
    <3>3. jumps \subseteq Frontier
      BY <2>1 DEF IInv, LabelsKnown, Frontier, Successors
    <3> QED
      BY <3>2, <3>3
  <2> QED
    BY <2>1 DEF IInv, LabelsKnown, LabelsResolve
<1> QED
  BY <1>1, Invariance, PTL

\* In a stretch of the table, only lookupswitch has the opcode 27.
Selects(stretch) == \A sh \in DOMAIN stretch : 27 \in stretch[sh] => sh = "switch"

LEMMA SwitchOpcode == ShapeOf[27] = "switch"
<1>1. Selects(OpsMisc)
  BY DEF Selects, OpsMisc
<1>2. Selects(OpsBranch)
  BY DEF Selects, OpsBranch
<1>3. Selects(OpsPush)
  BY DEF Selects, OpsPush
<1>4. Selects(OpsCall)
  BY DEF Selects, OpsCall
<1>5. Selects(OpsProperty)
  BY DEF Selects, OpsProperty
<1>6. Selects(OpsConvert)
  BY DEF Selects, OpsConvert
<1>7. Selects(OpsArith)
  BY DEF Selects, OpsArith
<1>8. Selects(OpsLocal)
  BY DEF Selects, OpsLocal
<1>9. Selects(OpsSwitch) /\ "switch" \in DOMAIN OpsSwitch /\ 27 \in OpsSwitch["switch"]
  BY DEF Selects, OpsSwitch
<1>10. \A s \in Stretches : Selects(s)
  BY <1>1, <1>2, <1>3, <1>4, <1>5, <1>6, <1>7, <1>8, <1>9, Zenon DEF Stretches
<1> DEFINE named == {sh \in StraightShapes \cup TransferShapes :
                       \E s \in Stretches : sh \in DOMAIN s /\ 27 \in s[sh]}
<1>11. named = {"switch"}
  <2>1. \A sh \in named : sh = "switch"
    BY <1>10, Zenon DEF Selects
  <2>2. "switch" \in named
    BY <1>9, Zenon DEF Stretches, TransferShapes
  <2> QED
    BY <2>1, <2>2, Zenon
<1>12. ShapeOf[27] = IF named = {} THEN "unknown" ELSE CHOOSE sh \in named : TRUE
  <2>1. 27 \in 0..255
    OBVIOUS
  <2> QED
    BY <2>1 DEF ShapeOf
<1> HIDE DEF named
<1> QED
  BY <1>11, <1>12

\* A lookupswitch that is read to its end.
LEMMA SwitchRead ==
    ASSUME NEW buf \in Seq(Byte), NEW p \in Nat, ByteAt(buf, p) = 27,
           Decode(buf, p).shape # "truncated",
           NEW first, first = p + 4 + VarLen(buf, p + 4),
           NEW n, n = U30At(buf, p + 4)
    PROVE  /\ first \in Nat /\ n \in Nat /\ p < first
           /\ Decode(buf, p).next = first + 3 * (n + 1)
           /\ Decode(buf, p).next <= Len(buf)
           /\ (p + S24At(buf, p + 1)) % AddrSpace \in Targets(buf, p)
           /\ \A i \in 0..n : (p + S24At(buf, first + 3 * i)) % AddrSpace \in Targets(buf, p)
<1>1. AfterS24(p + 1) = p + 4 /\ AfterU30(buf, p + 4) = first /\ Len(buf) \in Nat
  BY LenProperties DEF AfterS24, AfterU30
<1>2. InRange(buf, AfterU8(p))
  BY DEF Decode, Insn
<1>3. Decode(buf, p) = DecodeSwitch(buf, p)
  BY <1>2, SwitchOpcode DEF Decode
<1> DEFINE present == (Len(buf) - first) \div 3
<1>4. /\ InRange(buf, p + 4) /\ InRange(buf, first) /\ ~(n + 1 > present)
      /\ Decode(buf, p) = Insn("switch", first + 3 * (n + 1), SwitchTargets(buf, p, first, 1 + (n + 1)), 0)
  BY <1>1, <1>3 DEF DecodeSwitch, Insn
<1>5. first \in Nat /\ p < first /\ n \in Nat
  <2>1. p + 4 \in Nat
    OBVIOUS
  <2>2. VarLen(buf, p + 4) \in 1..5
    BY <2>1, VarLenType
  <2>3. first \in Nat /\ p < first
    BY <2>2
  <2> QED
    BY <1>1, <1>4, <2>1, <2>3, U30AtType
<1>6. first + 3 * (n + 1) <= Len(buf)
  BY <1>1, <1>4, <1>5 DEF InRange
<1>7. PICK t : t = SwitchTargets(buf, p, first, n + 2)
  OBVIOUS
<1>8. Decode(buf, p).targets = t /\ Decode(buf, p).next = first + 3 * (n + 1)
  <2>1. 1 + (n + 1) = n + 2
    BY <1>5
  <2> QED
    BY <1>4, <1>7, <2>1 DEF Insn
<1>9. /\ DOMAIN t = 1..(n + 2)
      /\ \A i \in 1..(n + 2) : t[i] = (p + S24At(buf, OffsetAt(p, first, i))) % AddrSpace
  BY <1>7, Zenon DEF SwitchTargets, Address
<1>10. \A i \in 1..(n + 2) : t[i] \in Targets(buf, p)
  BY <1>8, <1>9, Zenon DEF Targets
<1>11. (p + S24At(buf, p + 1)) % AddrSpace \in Targets(buf, p)
  <2>1. 1 \in 1..(n + 2) /\ OffsetAt(p, first, 1) = p + 1
    BY <1>5 DEF OffsetAt
  <2> QED
    BY <1>9, <1>10, <2>1
<1>12. ASSUME NEW i \in 0..n
       PROVE  (p + S24At(buf, first + 3 * i)) % AddrSpace \in Targets(buf, p)
  <2>1. i + 2 \in 1..(n + 2) /\ OffsetAt(p, first, i + 2) = first + 3 * i
    BY <1>5 DEF OffsetAt
  <2> QED
    BY <1>9, <1>10, <2>1
<1> QED
  BY <1>5, <1>6, <1>8, <1>11, <1>12

\* Every listed lookupswitch is there to the last of its cases: covered,
\* inside the code, each target with a label.
THEOREM SwitchesAreWhole == Spec => []SwitchIsWhole
<1>1. ASSUME IInv, NEW p \in Listed, ByteAt(code, p) = 27,
             NEW first, first = p + 4 + VarLen(code, p + 4),
             NEW n, n = U30At(code, p + 4),
             NEW o \in {first + 3 * i : i \in 0..n} \cup {p + 1}
      PROVE  /\ (p + S24At(code, o)) % AddrSpace \in jumps
             /\ p..(o + 2) \subseteq used \cap 0..(Len(code) - 1)
  <2>1. code \in Seq(Byte) /\ Len(code) \in Nat /\ p \in Nat
    BY <1>1, CodeType DEF IInv, TypeOK, Listed, Position
  <2>2. Decode(code, p).shape # "truncated"
    BY <1>1 DEF IInv, ListedIsRead
  <2>3. PICK next : next = Decode(code, p).next
    OBVIOUS
  <2>4. /\ first \in Nat /\ n \in Nat /\ p < first /\ next = first + 3 * (n + 1) /\ next <= Len(code)
        /\ (p + S24At(code, p + 1)) % AddrSpace \in Targets(code, p)
        /\ \A i \in 0..n : (p + S24At(code, first + 3 * i)) % AddrSpace \in Targets(code, p)
    BY <1>1, <2>1, <2>2, <2>3, SwitchRead
  <2>5. (p + S24At(code, o)) % AddrSpace \in Targets(code, p)
    BY <2>4
  <2>6. Targets(code, p) \subseteq jumps
    BY <1>1 DEF IInv, LabelsKnown
  <2>7. o + 2 <= next - 1
    <3>1. CASE o = p + 1
      BY <2>1, <2>4, <3>1
    <3>2. CASE \E i \in 0..n : o = first + 3 * i
      BY <2>4, <3>2
    <3> QED
      BY <3>1, <3>2
  <2>8. o \in Nat /\ next \in Nat
    BY <2>1, <2>4
  <2>9. p..(next - 1) \subseteq used
    BY <1>1, <2>3 DEF IInv, UsedIsListed
  <2>10. p..(o + 2) \subseteq p..(next - 1) /\ p..(next - 1) \subseteq 0..(Len(code) - 1)
    BY <2>1, <2>4, <2>7, <2>8
  <2> QED
    BY <2>5, <2>6, <2>9, <2>10
<1>2. IInv => SwitchIsWhole
  BY <1>1 DEF SwitchIsWhole
<1> QED
  BY <1>2, Invariance, PTL

\* No step changes or removes a line, a mark or a label.
THEOREM KeepsListing == Spec => ListingKept
<1> DEFINE Kept ==
      /\ \A p \in DOMAIN output : p \in DOMAIN output' /\ output'[p] = output[p]
      /\ used \subseteq used'
      /\ jumps \subseteq jumps'
<1>1. IInv /\ [Next]_vars => [Kept]_vars
  <2> SUFFICES ASSUME IInv, Next PROVE Kept
    OBVIOUS
  <2>1. ASSUME NEW line \in Line, Fresh, output' = WithLine(ip, line)
        PROVE  \A p \in DOMAIN output : p \in DOMAIN output' /\ output'[p] = output[p]
    <3>1. TypeOK /\ InLoop /\ ip \notin DOMAIN output
      BY <2>1 DEF IInv, Fresh, Seen
    <3>2. ip \in Position
      BY <3>1, TopType
    <3> HIDE DEF ip
    <3> QED
      BY <2>1, <3>1, <3>2, LineAdded
  <2>2. ASSUME Fresh, ListInsn PROVE Kept
    <3>1. output' = WithLine(ip, "insn") /\ "insn" \in Line
      BY <2>2 DEF ListInsn, Line
    <3> QED
      BY <2>1, <2>2, <3>1 DEF ListInsn
  <2>3. ASSUME NEW start \in Starts, Call(start) PROVE Kept
    BY <2>3 DEF Call
  <2>4. CASE SkipSeen \/ LookupCrashes \/ Return
    BY <2>4 DEF SkipSeen, LookupCrashes, Return
  <2>5. CASE Straight \/ Branch \/ Jump \/ Switch \/ Exit
    BY <2>2, <2>5 DEF Straight, Branch, Jump, Switch, Exit
  <2>6. CASE UnknownOp
    BY <2>6 DEF UnknownOp, GiveUp
  <2>7. CASE ReadThrows
    <3>1. Fresh /\ output' = WithLine(ip, "exception") /\ "exception" \in Line
      BY <2>7 DEF ReadThrows, Line
    <3> QED
      BY <2>1, <2>7, <3>1 DEF ReadThrows, GiveUp
  <2>8. CASE LookupThrows
    <3>1. /\ Fresh /\ output' = WithLine(ip, "unknown exception")
          /\ "unknown exception" \in Line
      BY <2>8 DEF LookupThrows, Line
    <3> QED
      BY <2>1, <2>8, <3>1 DEF LookupThrows, GiveUp
  <2> QED
    BY <2>3, <2>4, <2>5, <2>6, <2>7, <2>8 DEF Next, Iterate
<1> QED
  BY <1>1, Invariance, PTL DEF Spec, ListingKept

-----------------------------------------------------------------------------
(***************************************************************************)
(* The bound of the worklist: an iteration takes one position off it, and  *)
(* one that puts positions on it adds as many and one to the sum.          *)
(***************************************************************************)
Weight == [p \in Listed |-> Len(Decode(code, p).targets) + 1]

Bounded == IsFiniteSet(Listed) /\ WorklistBounded

\* Weights are natural numbers.
LEMMA WeightType ==
    ASSUME NEW c \in Seq(Byte), NEW p \in Position
    PROVE  Len(Decode(c, p).targets) + 1 \in Nat
<1>1. WellDecoded(c, p, Decode(c, p))
  BY DecodeType DEF Position
<1>2. Decode(c, p).targets \in Seq(Position)
  BY <1>1 DEF WellDecoded
<1>3. Len(Decode(c, p).targets) \in Nat
  BY <1>2, LenProperties
<1> QED
  BY <1>3

\* The sum that WorklistBounded speaks of.
LEMMA BoundIsSum == WorklistBounded <=> Len(ep) <= 1 + SumFunctionOnSet(Weight, Listed)
<1>1. DOMAIN Weight = Listed
  BY DEF Weight
<1>2. SumFunction(Weight) = SumFunctionOnSet(Weight, Listed)
  BY <1>1 DEF SumFunction
<1> QED
  BY <1>2 DEF WorklistBounded, Weight

\* A step that lists nothing keeps the bound, if it leaves no more on the
\* worklist than there was, or one position.
LEMMA BoundedQuiet ==
    ASSUME IInv, Bounded, code' = code, Listed' = Listed,
           Len(ep') \in Nat, Len(ep') <= 1 \/ Len(ep') <= Len(ep)
    PROVE  Bounded'
<1> DEFINE sum == SumFunctionOnSet(Weight, Listed)
<1>1. Weight' = Weight
  BY DEF Weight
<1>2. sum' = sum
  BY <1>1
<1>3. sum \in Nat
  <2>1. \A p \in Listed : Weight[p] \in Nat
    <3>1. \A p \in Listed : p \in Position
      BY DEF IInv, TypeOK, Listed
    <3>2. \A p \in Listed : Weight[p] = Len(Decode(code, p).targets) + 1
      BY DEF Weight
    <3>3. code \in Seq(Byte)
      BY CodeType DEF IInv
    <3> QED
      BY <3>1, <3>2, <3>3, WeightType
  <2>2. IsFiniteSet(Listed)
    BY DEF Bounded
  <2> QED
    BY <2>1, <2>2, SumType
<1>4. Len(ep) \in Nat /\ Len(ep) <= 1 + sum
  <2>1. Len(ep) \in Nat
    BY LenProperties DEF IInv, TypeOK
  <2> QED
    BY <2>1, BoundIsSum DEF Bounded
<1> HIDE DEF sum
<1>5. Len(ep') <= 1 + sum'
  BY <1>2, <1>3, <1>4
<1>6. WorklistBounded'
  <2>1. SumFunction(Weight') = SumFunctionOnSet(Weight', Listed')
    BY DEF SumFunction, Weight
  <2> QED
    BY <1>5, <2>1 DEF WorklistBounded, Weight, sum
<1> QED
  BY <1>6 DEF Bounded

\* Listing an instruction adds its weight to the bound.
LEMMA BoundedList ==
    ASSUME IInv, Bounded, Fresh, insn.shape \in StraightShapes \cup TransferShapes, ListInsn
    PROVE  Bounded'
<1>1. /\ TypeOK
      /\ InLoop
      /\ ip \notin DOMAIN output
      /\ insn.shape # "truncated"
  BY DEF IInv, Fresh, Seen, StraightShapes, TransferShapes, Forms
<1>2. /\ ip \in Position
      /\ rest \in Seq(Position)
      /\ WellDecoded(code, ip, insn)
      /\ Pushed \in Seq(Position)
  BY <1>1, TopType, PushedType
<1>3. Listed' = Listed \cup {ip}
  BY <1>1, <1>2, LineAdded DEF ListInsn, Line
<1>4. code' = code /\ ep' = rest \o Pushed /\ ip \notin Listed
  BY <1>1 DEF ListInsn, Listed
<1> DEFINE w == Len(insn.targets) + 1
           sum == SumFunctionOnSet(Weight, Listed)
<1>5. insn.targets \in Seq(Position) /\ w \in Nat \ {0}
  <2>1. insn.targets \in Seq(Position)
    BY <1>2 DEF WellDecoded
  <2>2. Len(insn.targets) \in Nat
    BY <2>1, LenProperties
  <2> QED
    BY <2>1, <2>2
<1>6. Len(ep') <= Len(ep) - 1 + w /\ Len(ep) \in Nat
  <2>1. ep \in Seq(Position) /\ ep # <<>>
    BY <1>1 DEF TypeOK, InLoop
  <2>2. Len(ep) \in Nat \ {0}
    BY <2>1, EmptySeq, LenProperties
  <2>3. Len(rest) = Len(ep) - 1
    <3>1. \A i \in 1..(Len(ep) - 1) : ep[i] \in Position
      BY <2>1, <2>2, ElementOfSeq
    <3>2. 1 \in Int /\ Len(ep) - 1 \in Int
      BY <2>2
    <3>3. Len(rest) = IF 1 <= Len(ep) - 1 THEN Len(ep) - 1 - 1 + 1 ELSE 0
      BY <3>1, <3>2, SubSeqProperties DEF rest
    <3>4. \A n \in Nat \ {0} : (IF 1 <= n - 1 THEN n - 1 - 1 + 1 ELSE 0) = n - 1
      OBVIOUS
    <3> QED
      BY <2>2, <3>3, <3>4
  <2>4. Len(Pushed) <= w /\ Len(Pushed) \in Nat
    <3>1. CASE insn.shape \in FallsThrough
      <4>1. Pushed = insn.targets \o <<insn.next>>
        BY <3>1 DEF Pushed
      <4> HIDE DEF insn
      <4>2. Len(Pushed) = Len(insn.targets) + 1
        BY <1>5, <4>1
      <4> QED
        BY <1>5, <4>2
    <3>2. CASE insn.shape \notin FallsThrough
      <4>1. Pushed = insn.targets \o << >>
        BY <3>2 DEF Pushed
      <4> HIDE DEF insn
      <4>2. Pushed = insn.targets
        BY <1>5, <4>1
      <4>3. Len(Pushed) = Len(insn.targets) /\ Len(insn.targets) \in Nat
        BY <1>5, <4>2, LenProperties
      <4> QED
        BY <4>3
    <3> QED
      BY <3>1, <3>2
  <2>5. Len(ep') = Len(rest) + Len(Pushed)
    <3> HIDE DEF rest, Pushed
    <3> QED
      BY <1>2, <1>4, ConcatProperties
  <2> HIDE DEF rest, Pushed, w
  <2> QED
    BY <1>5, <2>2, <2>3, <2>4, <2>5
<1>7. \A p \in Listed : Weight[p] \in Nat /\ Weight'[p] = Weight[p]
  <2>1. \A p \in Listed : p \in Position
    BY <1>1 DEF TypeOK, Listed
  <2>2. ASSUME NEW p \in Listed
        PROVE  Weight[p] = Len(Decode(code, p).targets) + 1 /\ Weight'[p] = Weight[p]
    <3> HIDE DEF ip
    <3>1. Weight' = [q \in Listed' |-> Len(Decode(code, q).targets) + 1]
      BY <1>4 DEF Weight
    <3>2. p \in Listed'
      BY <1>3
    <3> QED
      BY <3>1, <3>2 DEF Weight
  <2>3. code \in Seq(Byte)
    BY <1>1, CodeType
  <2> QED
    BY <2>1, <2>2, <2>3, WeightType
<1>8. Weight'[ip] = w
  <2>1. ip \in Listed'
    BY <1>3
  <2>2. Weight' = [q \in Listed' |-> Len(Decode(code, q).targets) + 1]
    BY <1>4 DEF Weight
  <2>3. insn = Decode(code, ip)
    BY DEF insn
  <2> HIDE DEF ip, insn
  <2> QED
    BY <2>1, <2>2, <2>3
<1>9. IsFiniteSet(Listed) /\ Len(ep) <= 1 + sum
  BY BoundIsSum DEF Bounded
<1> DEFINE x == ip
           W == Weight'
<1>10. SumFunctionOnSet(W, Listed \cup {x}) = W[x] + SumFunctionOnSet(Weight, Listed)
  <2>1. x \notin Listed
    BY <1>4
  <2>2. \A p \in Listed \cup {x} : W[p] \in Int
    BY <1>5, <1>7, <1>8
  <2>3. \A p \in Listed : Weight[p] = W[p]
    BY <1>7
  <2> HIDE DEF x, W
  <2> QED
    BY <1>9, <2>1, <2>2, <2>3, SumMore
<1>11. sum \in Nat
  BY <1>7, <1>9, SumType
<1>12. SumFunctionOnSet(Weight', Listed') = w + sum
  <2> HIDE DEF ip, w
  <2> QED
    BY <1>3, <1>8, <1>10
<1>13. Len(ep') <= 1 + SumFunctionOnSet(Weight', Listed')
  <2>1. Len(ep') \in Nat
    <3> HIDE DEF rest, Pushed
    <3> QED
      BY <1>2, <1>4, ConcatProperties, LenProperties
  <2> HIDE DEF sum, w
  <2>2. \A a, b, l, k \in Int : a <= l - 1 + b /\ l <= 1 + k => a <= 1 + (b + k)
    OBVIOUS
  <2> QED
    BY <1>5, <1>6, <1>9, <1>11, <1>12, <2>1, <2>2
<1>14. WorklistBounded'
  <2>1. SumFunction(Weight') = SumFunctionOnSet(Weight', Listed')
    BY DEF SumFunction, Weight
  <2> QED
    BY <1>13, <2>1 DEF WorklistBounded, Weight
<1>15. IsFiniteSet(Listed')
  <2> HIDE DEF ip
  <2> QED
    BY <1>3, <1>9, FS_AddElement
<1> QED
  BY <1>14, <1>15 DEF Bounded

\* Giving up clears the worklist and lists nothing.
LEMMA BoundedGiveUp ==
    ASSUME IInv, Bounded, Fresh, GiveUp,
           \/ output' = output
           \/ \E line \in Line \ {"insn"} : output' = WithLine(ip, line)
    PROVE  Bounded'
<1>1. TypeOK /\ InLoop /\ ip \notin DOMAIN output
  BY DEF IInv, Fresh, Seen
<1>2. ip \in Position
  BY <1>1, TopType
<1> HIDE DEF ip
<1>3. Listed' = Listed
  <2>1. CASE output' = output
    BY <2>1 DEF Listed
  <2>2. ASSUME NEW line \in Line \ {"insn"}, output' = WithLine(ip, line)
        PROVE  Listed' = Listed
    BY <1>1, <1>2, <2>2, LineAdded
  <2> QED
    BY <2>1, <2>2
<1>4. code' = code /\ Len(ep') = 0
  BY DEF GiveUp
<1> QED
  BY <1>3, <1>4, BoundedQuiet

\* Every step keeps the bound.
LEMMA BoundedNext == IInv /\ Bounded /\ [Next]_vars => Bounded'
<1> SUFFICES ASSUME IInv, Bounded, [Next]_vars PROVE Bounded'
  OBVIOUS
<1>e. ep \in Seq(Position) /\ Len(ep) \in Nat
  BY LenProperties DEF IInv, TypeOK
<1>1. ASSUME NEW start \in Starts, Call(start)
      PROVE  Bounded'
  <2>1. code' = code /\ Listed' = Listed /\ Len(ep') = 1
    BY <1>1 DEF Call, Listed
  <2> QED
    BY <2>1, BoundedQuiet
<1>2. CASE SkipSeen
  <2>1. code' = code /\ Listed' = Listed /\ ep' = rest
    BY <1>2 DEF SkipSeen, Listed
  <2>2. ep # <<>> /\ Len(ep) \in Nat \ {0}
    BY <1>2, <1>e, EmptySeq DEF SkipSeen, InLoop
  <2>3. \A i \in 1..(Len(ep) - 1) : ep[i] \in Position
    BY <1>e, <2>2, ElementOfSeq
  <2>4. 1 \in Int /\ Len(ep) - 1 \in Int
    BY <2>2
  <2>5. Len(rest) = IF 1 <= Len(ep) - 1 THEN Len(ep) - 1 - 1 + 1 ELSE 0
    BY <2>3, <2>4, SubSeqProperties DEF rest
  <2>6. \A n \in Nat \ {0} : (IF 1 <= n - 1 THEN n - 1 - 1 + 1 ELSE 0) = n - 1
    OBVIOUS
  <2>7. Len(ep') = Len(ep) - 1
    BY <2>1, <2>2, <2>5, <2>6
  <2> QED
    BY <2>1, <2>2, <2>7, BoundedQuiet
<1>3. CASE Straight \/ Branch \/ Jump \/ Switch \/ Exit
  BY <1>3, BoundedList DEF Straight, Branch, Jump, Switch, Exit, TransferShapes
<1>4. CASE UnknownOp
  BY <1>4, BoundedGiveUp DEF UnknownOp
<1>5. CASE ReadThrows
  <2>1. "exception" \in Line \ {"insn"}
    BY DEF Line
  <2> QED
    BY <1>5, <2>1, BoundedGiveUp DEF ReadThrows
<1>6. CASE LookupThrows
  <2>1. "unknown exception" \in Line \ {"insn"}
    BY DEF Line
  <2> QED
    BY <1>6, <2>1, BoundedGiveUp DEF LookupThrows
<1>7. CASE LookupCrashes \/ Return \/ UNCHANGED vars
  <2>1. code' = code /\ Listed' = Listed /\ ep' = ep
    BY <1>7 DEF LookupCrashes, Return, vars, Listed
  <2> QED
    BY <1>e, <2>1, BoundedQuiet
<1> QED
  BY <1>1, <1>2, <1>3, <1>4, <1>5, <1>6, <1>7 DEF Next, Iterate

\* Nothing is listed and nothing pending at first.
LEMMA BoundedInit == Init => Bounded
<1> SUFFICES ASSUME Init PROVE Bounded
  OBVIOUS
<1>1. Listed = {} /\ Len(ep) = 0
  BY DEF Init, Listed
<1>2. SumFunctionOnSet(Weight, Listed) = 0
  BY <1>1, SumNone
<1>3. IsFiniteSet(Listed)
  BY <1>1, FS_EmptySet
<1> QED
  BY <1>1, <1>2, <1>3, BoundIsSum DEF Bounded

\* However the code jumps, the worklist never holds more positions than one
\* visit of every listed instruction can push.
THEOREM WorklistStaysBounded == Spec => []WorklistBounded
<1>1. Bounded => WorklistBounded
  BY DEF Bounded
<1> QED
  BY <1>1, BoundedInit, BoundedNext, Invariance, PTL DEF Spec

-----------------------------------------------------------------------------
(***************************************************************************)
(* The worklist implements Listing: every step is a step of Listing, or    *)
(* changes nothing that Listing sees.                                      *)
(***************************************************************************)
LEMMA PromiseInit == Init => Promise!Init
BY DEF Init, Promise!Init, Listed

LEMMA PromiseList ==
    ASSUME IInv, Fresh, insn.shape \in StraightShapes \cup TransferShapes, ListInsn
    PROVE  Promise!Next
<1>1. TypeOK /\ InLoop /\ ip \notin DOMAIN output
  BY DEF IInv, Fresh, Seen
<1>2. ip \in Position /\ ip \in Pending
  BY <1>1, TopType
<1>3. Listed' = Listed \cup {ip}
  BY <1>1, <1>2, LineAdded DEF ListInsn, Line
<1> HIDE DEF ip
<1>4. ip \in Promise!Frontier /\ ip \notin Listed
  BY <1>1, <1>2 DEF IInv, NothingInvented, Frontier, Promise!Frontier, Listed
<1>5. Promise!List(ip)
  BY <1>1, <1>3, <1>4 DEF InLoop, ListInsn, Promise!List
<1> QED
  BY <1>4, <1>5 DEF Promise!Next

LEMMA PromiseFail ==
    ASSUME IInv, Fresh, GiveUp,
           \/ output' = output
           \/ \E line \in Line \ {"insn"} : output' = WithLine(ip, line)
    PROVE  Promise!Next
<1>1. TypeOK /\ InLoop /\ ip \notin DOMAIN output
  BY DEF IInv, Fresh, Seen
<1>2. ip \in Position
  BY <1>1, TopType
<1> HIDE DEF ip
<1>3. Listed' = Listed
  <2>1. CASE output' = output
    BY <2>1 DEF Listed
  <2>2. ASSUME NEW line \in Line \ {"insn"}, output' = WithLine(ip, line)
        PROVE  Listed' = Listed
    BY <1>1, <1>2, <2>2, LineAdded
  <2> QED
    BY <2>1, <2>2
<1>4. Promise!Fail
  BY <1>1, <1>3 DEF InLoop, GiveUp, Promise!Fail
<1> QED
  BY <1>4 DEF Promise!Next

LEMMA PromiseStep == IInv /\ [Next]_vars => [Promise!Next]_(Promise!vars)
<1> SUFFICES ASSUME IInv, [Next]_vars, ~UNCHANGED Promise!vars
             PROVE  Promise!Next
  OBVIOUS
<1>1. ASSUME NEW start \in Starts, Call(start)
      PROVE  Promise!Next
  <2>1. Listed' = Listed
    BY <1>1 DEF Call, Listed
  <2>2. Promise!Enter(start)
    BY <1>1, <2>1 DEF Call, Promise!Enter
  <2> QED
    BY <2>2 DEF Promise!Next
<1>2. CASE SkipSeen \/ UNCHANGED vars
  BY <1>2 DEF SkipSeen, vars, Promise!vars, Listed
<1>3. CASE Straight \/ Branch \/ Jump \/ Switch \/ Exit
  BY <1>3, PromiseList DEF Straight, Branch, Jump, Switch, Exit, TransferShapes
<1>4. CASE UnknownOp
  BY <1>4, PromiseFail DEF UnknownOp
<1>5. CASE ReadThrows
  <2>1. "exception" \in Line \ {"insn"}
    BY DEF Line
  <2> QED
    BY <1>5, <2>1, PromiseFail DEF ReadThrows
<1>6. CASE LookupThrows
  <2>1. "unknown exception" \in Line \ {"insn"}
    BY DEF Line
  <2> QED
    BY <1>6, <2>1, PromiseFail DEF LookupThrows
<1>7. CASE LookupCrashes
  <2>1. Listed' = Listed
    BY <1>7 DEF LookupCrashes, Listed
  <2> QED
    BY <1>7, <2>1 DEF LookupCrashes, Fresh, InLoop, Promise!Next, Promise!Crash
<1>8. CASE Return
  <2>1. Listed' = Listed /\ Pending = {}
    BY <1>8 DEF Return, Listed, Pending, Range
  <2>2. ~failed => Promise!Frontier \subseteq Listed
    BY <2>1 DEF IInv, NothingLost, Frontier, Promise!Frontier
  <2> QED
    BY <1>8, <2>1, <2>2 DEF Return, Promise!Next, Promise!Succeed
<1> QED
  BY <1>1, <1>2, <1>3, <1>4, <1>5, <1>6, <1>7, <1>8 DEF Next, Iterate

\* The disassembler keeps the promise of Listing.
THEOREM KeepsPromise == Spec => PromiseKept
BY PromiseInit, PromiseStep, Invariance, PTL DEF Spec, PromiseKept, Promise!Spec

-----------------------------------------------------------------------------
(***************************************************************************)
(* And so what every implementation of Listing does.  Together: when no    *)
(* call has failed and none is running, the listing is the smallest set of *)
(* positions that holds the entries and that control cannot leave.         *)
(***************************************************************************)
LEMMA PromiseStaysInside == Promise!Spec => []Promise!OnlyReachable
<1>1. Promise!Init => Promise!OnlyReachable
  BY DEF Promise!Init, Promise!OnlyReachable
<1>2. Promise!OnlyReachable /\ [Promise!Next]_(Promise!vars) => Promise!OnlyReachable'
  <2> SUFFICES ASSUME Promise!OnlyReachable, [Promise!Next]_(Promise!vars),
                      NEW S, Promise!ClosedSet(S)'
               PROVE  Listed' \subseteq S
    BY DEF Promise!OnlyReachable
  <2>1. code' = code /\ entries \subseteq entries'
    BY DEF Promise!Next, Promise!vars, Promise!Enter, Promise!List, Promise!Succeed,
           Promise!Fail, Promise!Crash
  <2>2. Promise!ClosedSet(S)
    BY <2>1 DEF Promise!ClosedSet, Successors
  <2>3. Listed \subseteq S
    BY <2>2 DEF Promise!OnlyReachable
  <2>4. ASSUME NEW p \in Promise!Frontier, Promise!List(p)
        PROVE  Listed' \subseteq S
    <3>1. p \in S
      BY <2>2, <2>3, <2>4 DEF Promise!Frontier, Promise!ClosedSet
    <3> QED
      BY <2>3, <2>4, <3>1 DEF Promise!List
  <2>5. CASE Listed' = Listed
    BY <2>3, <2>5
  <2> QED
    BY <2>4, <2>5 DEF Promise!Next, Promise!vars, Promise!Enter, Promise!Succeed, Promise!Fail,
                      Promise!Crash
<1> QED
  BY <1>1, <1>2, PTL DEF Promise!Spec

LEMMA PromiseLeavesNothing == Promise!Spec => []Promise!AllReachable
<1>1. Promise!Init => Promise!AllReachable
  BY DEF Promise!Init, Promise!AllReachable, Promise!ClosedSet
<1>2. Promise!AllReachable /\ [Promise!Next]_(Promise!vars) => Promise!AllReachable'
  <2> SUFFICES ASSUME Promise!AllReachable, [Promise!Next]_(Promise!vars), pc' = "idle", ~failed'
               PROVE  Promise!ClosedSet(Listed)'
    BY DEF Promise!AllReachable
  <2>1. CASE Promise!Succeed
    BY <2>1 DEF Promise!Succeed, Promise!Frontier, Promise!ClosedSet, Successors
  <2>2. CASE UNCHANGED Promise!vars
    BY <2>2 DEF Promise!vars, Promise!AllReachable, Promise!ClosedSet, Successors
  <2>3. ~\E s \in Starts : Promise!Enter(s)
    BY DEF Promise!Enter
  <2>4. ~\E p \in Promise!Frontier : Promise!List(p)
    BY DEF Promise!List
  <2>5. ~Promise!Fail /\ ~Promise!Crash
    BY DEF Promise!Fail, Promise!Crash
  <2> QED
    BY <2>1, <2>2, <2>3, <2>4, <2>5 DEF Promise!Next
<1> QED
  BY <1>1, <1>2, PTL DEF Promise!Spec

\* Only instructions that control can get to are ever listed.
THEOREM ListsOnlyReachable == Spec => []Promise!OnlyReachable
BY KeepsPromise, PromiseStaysInside DEF PromiseKept

\* Between calls, unless one has failed, all of them are.
THEOREM ListsAllReachable == Spec => []Promise!AllReachable
BY KeepsPromise, PromiseLeavesNothing DEF PromiseKept

=============================================================================

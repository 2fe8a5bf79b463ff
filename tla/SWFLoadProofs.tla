--------------------------- MODULE SWFLoadProofs ---------------------------
(***************************************************************************)
(* Theorems on SWFFile::load, for every file, every content of the memory  *)
(* behind it and any number of loads: what it holds when it returns, what  *)
(* it has done to the object when it returns false, which tags can hold    *)
(* what was not in the file, and that an undamaged file is read as it is.  *)
(***************************************************************************)
EXTENDS SWFLoad, DataFacts, SequenceTheorems

(***************************************************************************)
(* The invariant: what is held at each place of load, and that nothing but *)
(* the parsing of a buffer that was filled touches frame data and tags.    *)
(***************************************************************************)
Members == DOMAIN obj = {"version", "compression", "frame", "tags"}

Holds(descriptor, buffers) == fd = descriptor /\ heap = buffers

Ownership ==
    /\ pc \in {"idle", "open"} => Holds("closed", {})
    /\ pc \in {"stat", "header", "signature", "allocate"} => Holds("open", {})
    /\ pc \in {"payload", "close"} => Holds("open", {"buf"})
    /\ pc = "inflate" => Holds("open", {"buf", "buf_c"})
    /\ pc \in {"frame", "tags", "free"} => Holds("closed", {"buf"})

SameContent == obj.tags = before.tags /\ obj.frame = before.frame

Untouched ==
    /\ pc \in {"open", "stat", "header", "signature", "allocate", "payload", "inflate", "close"}
         => SameContent
    /\ pc \in {"frame", "tags"} => result = TRUE
    /\ pc \in {"idle", "free"} /\ ~result => SameContent

IInv == Members /\ Ownership /\ Untouched

-----------------------------------------------------------------------------
LEMMA LemmaInit == Init => IInv
BY DEF Init, IInv, Members, Ownership, Holds, Untouched, SameContent

\* The ways load takes to the end of a phase, and what they leave alone.
LEMMA LemmaRefuse ==
    ASSUME IInv, pc \in {"stat", "header", "signature"}, NEW why, Refuse(why), UNCHANGED obj
    PROVE  IInv'
BY DEF Refuse, IInv, Members, Ownership, Holds, Untouched, SameContent

LEMMA LemmaUntilFile ==
    ASSUME IInv, (\E f \in Files : Call(f)) \/ Open \/ Stat
    PROVE  IInv'
<1>1. CASE \E f \in Files : Call(f)
  BY <1>1 DEF Call, IInv, Members, Ownership, Holds, Untouched, SameContent
<1>2. CASE Open
  BY <1>2 DEF Open, IInv, Members, Ownership, Holds, Untouched, SameContent
<1>3. CASE Stat
  <2>1. CASE Go("header") /\ UNCHANGED <<fd, heap, result, trouble>>
    BY <1>3, <2>1 DEF Stat, Go, IInv, Members, Ownership, Holds, Untouched, SameContent
  <2>2. CASE Refuse(TRUE)
    BY <1>3, <2>2, LemmaRefuse DEF Stat
  <2> QED
    BY <1>3, <2>1, <2>2 DEF Stat
<1> QED
  BY <1>1, <1>2, <1>3

LEMMA LemmaHeader ==
    ASSUME IInv, ReadHeader \/ CheckSignature \/ Allocate
    PROVE  IInv'
<1>1. CASE ReadHeader
  <2>1. CASE /\ obj' = [obj EXCEPT !.version = file.version]
             /\ Go("signature")
             /\ UNCHANGED <<fd, heap, result, trouble>>
    BY <1>1, <2>1 DEF ReadHeader, Go, IInv, Members, Ownership, Holds, Untouched, SameContent
  <2>2. CASE Refuse(file.size >= HeaderSize) /\ UNCHANGED obj
    BY <1>1, <2>2, LemmaRefuse DEF ReadHeader
  <2> QED
    BY <1>1, <2>1, <2>2 DEF ReadHeader
<1>2. CASE CheckSignature
  <2>1. CASE Go("allocate") /\ UNCHANGED <<fd, heap, result, trouble>>
    BY <1>2, <2>1
    DEF CheckSignature, Go, IInv, Members, Ownership, Holds, Untouched, SameContent
  <2>2. CASE Refuse(FALSE)
    BY <1>2, <2>2, LemmaRefuse DEF CheckSignature
  <2> QED
    BY <1>2, <2>1, <2>2 DEF CheckSignature
<1>3. CASE Allocate
  BY <1>3 DEF Allocate, Go, IInv, Members, Ownership, Holds, Untouched, SameContent
<1> QED
  BY <1>1, <1>2, <1>3

LEMMA LemmaPayload ==
    ASSUME IInv, ReadPlain \/ AllocatePacked \/ Inflate \/ NotSupported \/ CloseFile
    PROVE  IInv'
<1> USE DEF Go, IInv, Members, Ownership, Holds, Untouched, SameContent
<1>1. CASE ReadPlain
  BY <1>1 DEF ReadPlain, Packed
<1>2. CASE AllocatePacked
  BY <1>2 DEF AllocatePacked, Packed
<1>3. CASE Inflate
  BY <1>3 DEF Inflate
<1>4. CASE NotSupported
  BY <1>4 DEF NotSupported
<1>5. CASE CloseFile
  BY <1>5 DEF CloseFile
<1> QED
  BY <1>1, <1>2, <1>3, <1>4, <1>5

\* A step of the parser: the buffer is still there, the result still true.
LEMMA LemmaParsing ==
    ASSUME IInv, pc \in {"frame", "tags"}, NEW to \in {"tags", "free", "threw", "crashed"},
           Parsing(to), DOMAIN obj' = DOMAIN obj
    PROVE  IInv'
BY DEF Parsing, IInv, Members, Ownership, Holds, Untouched, SameContent

LEMMA LemmaParse ==
    ASSUME IInv, ReadFrame \/ ReadTag \/ LeaveTags
    PROVE  IInv'
<1>1. ASSUME NEW end, NEW ways \in SUBSET {"threw", "crashed"},
             pc \in {"frame", "tags"}, DiesBehind(end, ways)
      PROVE  IInv'
  <2>1. PICK way \in ways : Parsing(way)
    BY <1>1 DEF DiesBehind
  <2>2. way \in {"tags", "free", "threw", "crashed"} /\ DOMAIN obj' = DOMAIN obj
    BY <1>1 DEF DiesBehind
  <2> QED
    BY <1>1, <2>1, <2>2, LemmaParsing
<1>2. CASE ReadFrame
  <2>1. PICK c, v : \/ obj' = [obj EXCEPT !.frame = v] /\ Parsing("tags")
                    \/ DiesBehind(c, {"crashed"})
    BY <1>2 DEF ReadFrame
  <2>2. pc \in {"frame", "tags"}
    BY <1>2 DEF ReadFrame
  <2>3. CASE obj' = [obj EXCEPT !.frame = v] /\ Parsing("tags")
    BY <2>2, <2>3, LemmaParsing
  <2>4. CASE DiesBehind(c, {"crashed"})
    BY <1>1, <2>2, <2>4
  <2> QED
    BY <2>1, <2>3, <2>4
<1>3. CASE ReadTag
  <2>1. PICK c, v : \/ obj' = [obj EXCEPT !.tags = v] /\ Parsing("tags")
                    \/ DiesBehind(c, {"crashed", "threw"})
    BY <1>3 DEF ReadTag
  <2>2. pc \in {"frame", "tags"}
    BY <1>3 DEF ReadTag
  <2>3. CASE obj' = [obj EXCEPT !.tags = v] /\ Parsing("tags")
    BY <2>2, <2>3, LemmaParsing
  <2>4. CASE DiesBehind(c, {"crashed", "threw"})
    BY <1>1, <2>2, <2>4
  <2> QED
    BY <2>1, <2>3, <2>4
<1>4. CASE LeaveTags
  BY <1>4, LemmaParsing DEF LeaveTags
<1> QED
  BY <1>2, <1>3, <1>4

LEMMA LemmaNext == IInv /\ [Next]_vars => IInv'
<1> SUFFICES ASSUME IInv, [Next]_vars
             PROVE  IInv'
  OBVIOUS
<1>1. CASE Free
  BY <1>1 DEF Free, Go, IInv, Members, Ownership, Holds, Untouched, SameContent
<1>2. CASE Destroy
  BY <1>2 DEF Destroy, IInv, Members, Ownership, Holds, Untouched, SameContent
<1>3. CASE Ended \/ UNCHANGED vars
  BY <1>3 DEF Ended, vars, IInv, Members, Ownership, Holds, Untouched, SameContent
<1> QED
  BY <1>1, <1>2, <1>3, LemmaUntilFile, LemmaHeader, LemmaPayload, LemmaParse
  DEF Next, Loading

\* The invariant holds of every file and any number of loads.
THEOREM Invariance == Spec => []IInv
BY LemmaInit, LemmaNext, PTL DEF Spec

-----------------------------------------------------------------------------
\* load closes the descriptor and frees both buffers on each of its ways out
\* (but for an exception, after which it does not return).
THEOREM ReturnsEverything == Spec => []NothingLeaks
<1>1. IInv => NothingLeaks
  BY DEF IInv, Ownership, Holds, NothingLeaks
<1> QED
  BY <1>1, Invariance, PTL

\* A load that returns false leaves the tags and the frame data of earlier
\* loads as they were.
THEOREM FailsCleanly == Spec => []FailureKeepsContent
<1>1. IInv => FailureKeepsContent
  BY DEF IInv, Untouched, SameContent, FailureKeepsContent
<1> QED
  BY <1>1, Invariance, PTL

-----------------------------------------------------------------------------
(***************************************************************************)
(* The reader on the buffer: its places are places, its words are words.   *)
(***************************************************************************)
IsPlace(place) == place.cur \in Nat /\ place.bit \in 0..7

\* Counted in bits from the beginning of the buffer.
InBits(place) == 8 * place.cur + place.bit

\* A field, signed or not, ends at a place, as many bits ahead as it has.
LEMMA FieldPlace ==
    ASSUME NEW c \in Nat, NEW b \in 0..7, NEW n \in Nat
    PROVE  /\ IsPlace(D!UB(c, b, n)) /\ InBits(D!UB(c, b, n)) = 8 * c + b + n
           /\ IsPlace(D!SB(c, b, n)) /\ InBits(D!SB(c, b, n)) = 8 * c + b + n
<1> DEFINE v == D!UB(c, b, n)
<1>r. v = [val |-> v.val, cur |-> v.cur, bit |-> v.bit]
  BY DEF D!UB, D!Crossing, D!Got
<1>1. IsPlace(v) /\ InBits(v) = 8 * c + b + n
  <2>1. CASE b + n > 8
    <3> DEFINE r == n - (8 - b)
               whole == r \div 8
               tail == r % 8
               val == D!Shl(D!Whole(c, b)[whole], tail) \cup D!Sar(D!Char(c + whole + 1), 8 - tail)
    <3>1. r \in Nat
      BY <2>1
    <3> HIDE DEF r
    <3>2. whole \in Nat /\ tail \in 0..7 /\ r = 8 * whole + tail
      <4>1. r \in Nat
        BY <3>1
      <4> QED
        BY ONLY <4>1
    <3>5. r = n - (8 - b)
      BY DEF r
    <3>3. v = D!Got(val, c + whole + 1, tail)
      BY <2>1 DEF D!UB, D!Crossing, r
    <3> HIDE DEF v, val
    <3>4. v.cur = c + whole + 1 /\ v.bit = tail
      BY <3>3 DEF D!Got
    <3> HIDE DEF whole, tail
    <3>6. 8 * (c + whole + 1) + tail = 8 * c + b + n
      BY <3>2, <3>5
    <3> QED
      BY <3>2, <3>4, <3>6 DEF IsPlace, InBits
  <2>2. CASE ~(b + n > 8)
    <3> DEFINE q == (b + n) \div 8
               r == (b + n) % 8
               val == D!Shr(D!BitsOf[D!ByteAt(c)] \cap (0..(7 - b)), 8 - b - n)
    <3>1. q \in Nat /\ r \in 0..7 /\ 8 * q + r = b + n
      <4>1. b + n \in Nat
        OBVIOUS
      <4>2. PICK z \in Nat : z = b + n
        BY <4>1
      <4>3. z \div 8 \in Nat /\ z % 8 \in 0..7 /\ 8 * (z \div 8) + (z % 8) = z
        OBVIOUS
      <4> QED
        BY <4>2, <4>3
    <3>2. v = D!Got(val, c + q, r)
      BY <2>2 DEF D!UB
    <3> HIDE DEF v, val
    <3>3. v.cur = c + q /\ v.bit = r
      BY <3>2 DEF D!Got
    <3> HIDE DEF q, r
    <3>4. 8 * (c + q) + r = 8 * c + b + n
      BY <3>1
    <3> QED
      BY <3>1, <3>3, <3>4 DEF IsPlace, InBits
  <2> QED
    BY <2>1, <2>2
<1>2. D!SB(c, b, n) = IF D!Shr(v.val, n - 1) # {} THEN [v EXCEPT !.val = ((n % 32)..31) \cup @] ELSE v
  BY DEF D!SB
<1> HIDE DEF v
<1>3. D!SB(c, b, n).cur = v.cur /\ D!SB(c, b, n).bit = v.bit
  BY <1>r, <1>2
<1> QED
  BY <1>1, <1>3 DEF IsPlace, InBits, v

\* A word spells a number.  (The sum of an instance is the sum.)
LEMMA WordNumber ==
    ASSUME NEW w \in SUBSET (0..31)
    PROVE  D!Number(w) \in Nat
<1>1. \A f : D!SumFunction(f) = SumFunction(f)
  BY Zenon DEF D!SumFunction, D!SumFunctionOnSet, D!FoldFunctionOnSet, D!MapThenFoldSet,
               SumFunction, SumFunctionOnSet, FoldFunctionOnSet, MapThenFoldSet
<1>2. w \in SUBSET WordBits
  BY DEF WordBits
<1>3. SumFunction([i \in w |-> 2^i]) \in Nat
  BY <1>2, WordSum
<1> QED
  BY Zenon, <1>1, <1>3 DEF D!Number

\* A load of bytes: a word, and the place behind them.
LEMMA LoadPlace ==
    ASSUME NEW c \in Nat, NEW n \in Nat
    PROVE  /\ D!Load(c, n).cur = c + n
           /\ D!Load(c, n).val \subseteq 0..31
<1> DEFINE parts == {D!Shl(D!BitsOf[D!ByteAt(c + i)], 8 * i) : i \in 0..(n - 1)}
<1>1. D!Load(c, n) = [val |-> UNION parts, cur |-> c + n, bit |-> 0]
  BY DEF D!Load, D!Got
<1>2. \A p \in parts : p \subseteq 0..31
  BY DEF D!Shl, D!WordBits
<1> HIDE DEF parts
<1> QED
  BY <1>1, <1>2

\* A place is a record, which EXCEPT can change.
LEMMA FieldRecord ==
    ASSUME NEW c, NEW b, NEW n
    PROVE  D!SB(c, b, n) = [val |-> D!SB(c, b, n).val, cur |-> D!SB(c, b, n).cur,
                            bit |-> D!SB(c, b, n).bit]
<1> DEFINE v == D!UB(c, b, n)
<1>1. v = [val |-> v.val, cur |-> v.cur, bit |-> v.bit]
  BY DEF D!UB, D!Crossing, D!Got
<1>2. D!SB(c, b, n) = IF D!Shr(v.val, n - 1) # {} THEN [v EXCEPT !.val = ((n % 32)..31) \cup @] ELSE v
  BY DEF D!SB
<1> HIDE DEF v
<1> QED
  BY <1>1, <1>2

\* The frame size at the beginning of the buffer ends behind four fields.
LEMMA FrameEnds ==
    /\ IsPlace(D!RECT(0, 0))
    /\ D!Number(D!UB(0, 0, 5).val) \in Nat
    /\ InBits(D!RECT(0, 0)) = 5 + 4 * D!Number(D!UB(0, 0, 5).val)
<1> DEFINE head == D!UB(0, 0, 5)
           n == D!Number(head.val)
           xmin == D!SB(head.cur, head.bit, n)
           xmax == D!SB(xmin.cur, xmin.bit, n)
           ymin == D!SB(xmax.cur, xmax.bit, n)
           ymax == D!SB(ymin.cur, ymin.bit, n)
           vals == <<xmin.val, xmax.val, ymin.val, ymax.val>>
<1>1. IsPlace(head) /\ InBits(head) = 5
  <2>1. 0 \in Nat /\ 0 \in 0..7 /\ 5 \in Nat /\ 8 * 0 + 0 + 5 = 5
    OBVIOUS
  <2> HIDE DEF head
  <2> QED
    BY <2>1, FieldPlace DEF head
<1>2. head.val \subseteq 0..31
  <2> DEFINE byte == D!BitsOf[D!ByteAt(0)] \cap (0..7)
  <2>1. head = D!Got(D!Shr(byte, 3), 0, 5)
    BY DEF D!UB
  <2>2. byte \subseteq 0..7
    OBVIOUS
  <2>3. D!Shr(byte, 3) \subseteq 0..31
    <3> HIDE DEF byte
    <3> QED
      BY <2>2 DEF D!Shr
  <2> HIDE DEF byte, head
  <2> QED
    BY <2>1, <2>3 DEF D!Got
<1>3. n \in Nat
  BY <1>2, WordNumber
<1>w. D!Number(head.val) = n
  OBVIOUS
<1>r. D!RECT(0, 0) = [ymax EXCEPT !.val = vals]
  <2> HIDE DEF head, n
  <2> QED
    BY <1>w DEF D!RECT, head
<1> HIDE DEF head, n
<1>4. IsPlace(xmin) /\ InBits(xmin) = InBits(head) + n
  BY <1>1, <1>3, FieldPlace DEF IsPlace, InBits
<1> HIDE DEF xmin
<1>5. IsPlace(xmax) /\ InBits(xmax) = InBits(xmin) + n
  BY <1>4, <1>3, FieldPlace DEF IsPlace, InBits
<1> HIDE DEF xmax
<1>6. IsPlace(ymin) /\ InBits(ymin) = InBits(xmax) + n
  BY <1>5, <1>3, FieldPlace DEF IsPlace, InBits
<1> HIDE DEF ymin
<1>7. IsPlace(ymax) /\ InBits(ymax) = InBits(ymin) + n
  BY <1>6, <1>3, FieldPlace DEF IsPlace, InBits
<1>8. ymax = [val |-> ymax.val, cur |-> ymax.cur, bit |-> ymax.bit]
  BY FieldRecord
<1> HIDE DEF ymax, vals
<1>9. InBits(ymax) = 5 + 4 * n
  <2>1. InBits(xmin) = 5 + n
    BY <1>1, <1>4
  <2>2. InBits(xmax) = 5 + 2 * n
    BY <1>3, <1>5, <2>1
  <2>3. InBits(ymin) = 5 + 3 * n
    BY <1>3, <1>6, <2>2
  <2> QED
    BY <1>3, <1>7, <2>3
<1>10. IsPlace(D!RECT(0, 0)) /\ InBits(D!RECT(0, 0)) = InBits(ymax)
  BY <1>r, <1>7, <1>8 DEF IsPlace, InBits
<1> QED
  BY <1>3, <1>9, <1>10 DEF n, head

-----------------------------------------------------------------------------
(***************************************************************************)
(* The invariant of the tags: which of those that this load has added can  *)
(* hold foreign memory, and where the reader is then.                      *)
(***************************************************************************)
SomeTag == [type : Int, content : Seq((-2)..255)]

TagsType ==
    /\ file.data \in Seq(0..255)
    /\ Size \in Int
    /\ at \in Nat
    /\ obj.tags \in Seq(SomeTag)
    /\ before.tags \in Seq(SomeTag)

\* Until it parses tags, a load adds none; and it never takes one away.
TagsGrow ==
    /\ pc # "gone" => Len(before.tags) <= Len(obj.tags)
    /\ pc \in {"open", "stat", "header", "signature", "allocate", "payload", "inflate",
               "close", "frame"} => obj.tags = before.tags

OverrunIsLast ==
    \A i \in (Len(before.tags) + 1)..Len(obj.tags) :
      obj.tags[i].content = Foreign =>
        i = Len(obj.tags) /\ (pc = "tags" => at > Size)

TInv == TagsType /\ TagsGrow /\ OverrunIsLast

Early == {"open", "stat", "header", "signature", "allocate", "payload", "inflate", "close", "frame"}

\* Most steps leave the tags, the file and the reader alone.
LEMMA LemmaQuiet ==
    ASSUME TInv, UNCHANGED <<file, before, at>>, obj'.tags = obj.tags,
           pc # "gone", pc' # "gone", pc' \in Early => pc \in Early, pc' = "tags" => pc = "tags"
    PROVE  TInv'
<1>1. TagsType'
  BY DEF TInv, TagsType, Size
<1>2. TagsGrow'
  BY DEF TInv, TagsGrow, Early
<1>3. OverrunIsLast'
  BY DEF TInv, OverrunIsLast, Size
<1> QED
  BY <1>1, <1>2, <1>3 DEF TInv

\* What a tag holds: bytes of the file, or foreign ones if it ends behind the
\* buffer.
LEMMA TagContent ==
    ASSUME file.data \in Seq(0..255), Size \in Int, NEW code \in Nat, NEW from \in Nat, NEW to \in Nat
    PROVE  /\ Tag(code, from, to) \in SomeTag
           /\ Tag(code, from, to).content = Foreign => to > Size
<1> DEFINE data == file.data
           part == SubSeq(data, from + 1, to)
<1>1. Len(data) \in Nat
  BY LenProperties
<1>2. TagType(code) \in Int
  BY DEF TagType
<1>3. CASE to <= Len(data)
  <2>1. ASSUME NEW i \in (from + 1)..to
        PROVE  data[i] \in 0..255
    <3>1. i \in 1..Len(data)
      BY <1>1, <1>3
    <3> QED
      BY <3>1, ElementOfSeq
  <2>2. \A i \in (from + 1)..to : data[i] \in (-2)..255
    BY <2>1
  <2>3. from + 1 \in Int /\ to \in Int
    OBVIOUS
  <2>4. /\ part \in Seq((-2)..255)
        /\ Len(part) = IF from + 1 <= to THEN to - (from + 1) + 1 ELSE 0
        /\ \A i \in 1..(to - (from + 1) + 1) : part[i] = data[(from + 1) + i - 1]
    <3> DEFINE B == (-2)..255
               first == from + 1
    <3>1. first \in Int /\ to \in Int /\ \A i \in first..to : data[i] \in B
      BY <2>2, <2>3
    <3> HIDE DEF data, B, first
    <3>2. /\ SubSeq(data, first, to) \in Seq(B)
          /\ Len(SubSeq(data, first, to)) = IF first <= to THEN to - first + 1 ELSE 0
          /\ \A i \in 1..(to - first + 1) : SubSeq(data, first, to)[i] = data[first + i - 1]
      BY <3>1, SubSeqProperties
    <3> QED
      BY <3>2 DEF B, first
  <2> HIDE DEF part
  <2>5. part # Foreign
    <3> SUFFICES ASSUME part = Foreign
                 PROVE  FALSE
      OBVIOUS
    <3>1. Len(part) = 1 /\ part[1] \notin 0..255
      BY DEF Foreign
    <3>2. to - (from + 1) + 1 = 1
      <4>1. 1 = IF from + 1 <= to THEN to - (from + 1) + 1 ELSE 0
        BY Zenon, <2>4, <3>1
      <4> QED
        BY <4>1
    <3>3. part[1] = data[from + 1]
      <4>1. 1 \in 1..(to - (from + 1) + 1) /\ (from + 1) + 1 - 1 = from + 1
        BY <3>2
      <4> HIDE DEF data
      <4> QED
        BY <2>4, <4>1
    <3>4. from + 1 \in (from + 1)..to
      BY <3>2
    <3> QED
      BY <2>1, <3>1, <3>3, <3>4
  <2>6. Tag(code, from, to) = [type |-> TagType(code), content |-> part]
    BY <1>3 DEF Tag, part
  <2> QED
    BY <1>2, <2>4, <2>5, <2>6 DEF SomeTag
<1>4. CASE ~(to <= Len(data)) /\ to <= Size
  <2>1. Tag(code, from, to) = [type |-> TagType(code), content |-> Uninitialised]
    BY <1>4 DEF Tag
  <2>2. Uninitialised \in Seq((-2)..255) /\ Uninitialised # Foreign
    <3>1. Uninitialised[1] = -2 /\ Foreign[1] = -1 /\ -2 \in (-2)..255
      BY DEF Uninitialised, Foreign
    <3>2. Uninitialised \in Seq((-2)..255)
      BY DEF Uninitialised
    <3> QED
      BY <3>1, <3>2
  <2> QED
    BY <1>2, <2>1, <2>2 DEF SomeTag
<1>5. CASE ~(to <= Len(data)) /\ ~(to <= Size)
  <2>1. Tag(code, from, to) = [type |-> TagType(code), content |-> Foreign]
    BY <1>5 DEF Tag
  <2>2. Foreign \in Seq((-2)..255)
    BY DEF Foreign
  <2>3. to > Size
    BY <1>5
  <2> QED
    BY <1>2, <2>1, <2>2, <2>3 DEF SomeTag
<1> QED
  BY <1>3, <1>4, <1>5

LEMMA LemmaTag ==
    ASSUME IInv, TInv, ReadTag
    PROVE  TInv'
<1> DEFINE head == D!Load(at, 2)
           code == D!Number(head.val)
           long == D!Load(head.cur, 4)
           from == IF LongForm(code) THEN long.cur ELSE head.cur
           to == from + (IF LongForm(code) THEN Length(long.val) ELSE code % 64)
           n == Len(obj.tags)
           tag == Tag(code, from, to)
<1>1. at \in Nat
  BY DEF TInv, TagsType
<1>2. head.cur \in Nat /\ code \in Nat
  <2>1. head.cur = at + 2 /\ head.val \subseteq 0..31
    BY <1>1, LoadPlace
  <2> HIDE DEF head
  <2> QED
    BY <1>1, <2>1, WordNumber
<1>3. long.cur \in Nat /\ long.val \subseteq 0..31
  <2> HIDE DEF head
  <2>1. long.cur = head.cur + 4 /\ long.val \subseteq 0..31
    BY <1>2, LoadPlace
  <2> HIDE DEF long
  <2> QED
    BY <1>2, <2>1
<1>4. Length(long.val) \in Nat
  <2> HIDE DEF long
  <2>1. Huge \in Nat
    BY DEF Huge
  <2>2. D!Number(long.val) \in Nat
    BY <1>3, WordNumber
  <2> QED
    BY <2>1, <2>2 DEF Length
<1>5. from \in Nat /\ to \in Nat
  <2> HIDE DEF head, long, code
  <2>1. code % 64 \in Nat
    BY <1>2
  <2> QED
    BY <1>2, <1>3, <1>4, <2>1
<1>6. pc = "tags" /\ ~Eof
  BY DEF ReadTag
<1>7. \/ /\ obj' = [obj EXCEPT !.tags = Append(@, tag)]
         /\ at' = to
         /\ Parsing("tags")
      \/ DiesBehind(to, {"crashed", "threw"})
  BY DEF ReadTag
<1> HIDE DEF head, long, code, from, to
<1>8. CASE /\ obj' = [obj EXCEPT !.tags = Append(@, tag)]
           /\ at' = to
           /\ Parsing("tags")
  <2>1. tag \in SomeTag /\ (tag.content = Foreign => to > Size)
    BY <1>2, <1>5, TagContent DEF TInv, TagsType
  <2> HIDE DEF tag
  <2>2. obj'.tags = Append(obj.tags, tag)
    BY <1>8 DEF IInv, Members
  <2>3. UNCHANGED <<file, before>> /\ pc' = "tags"
    BY <1>8 DEF Parsing
  <2>4. /\ obj'.tags \in Seq(SomeTag)
        /\ Len(obj'.tags) = n + 1
        /\ \A i \in 1..n : obj'.tags[i] = obj.tags[i]
        /\ obj'.tags[n + 1] = tag
        /\ n \in Nat
    BY <2>1, <2>2, AppendProperties, LenProperties DEF TInv, TagsType
  <2>5. Len(before.tags) \in Nat /\ Len(before.tags) <= n
    BY <1>6, LenProperties DEF TInv, TagsType, TagsGrow
  <2>6. TagsType'
    BY <1>5, <1>8, <2>3, <2>4 DEF TInv, TagsType, Size
  <2>7. TagsGrow'
    BY <2>3, <2>4, <2>5 DEF TagsGrow
  <2>8. ASSUME NEW i \in (Len(before.tags) + 1)..(n + 1), obj'.tags[i].content = Foreign
        PROVE  i = n + 1 /\ to > Size
    <3>1. CASE i = n + 1
      BY <2>1, <2>4, <2>8, <3>1
    <3>2. CASE i # n + 1
      <4>1. i \in (Len(before.tags) + 1)..n /\ i \in 1..n
        BY <2>4, <2>5, <3>2
      <4>2. obj.tags[i].content = Foreign
        BY <2>4, <2>8, <4>1
      <4>3. at > Size
        BY <1>6, <4>1, <4>2 DEF TInv, OverrunIsLast
      <4>4. ~(at >= Size)
        BY <1>6 DEF Eof
      <4>5. Size \in Int
        BY DEF TInv, TagsType
      <4> QED
        BY <1>1, <4>3, <4>4, <4>5
    <3> QED
      BY <3>1, <3>2
  <2>9. OverrunIsLast'
    BY <1>8, <2>3, <2>4, <2>8 DEF OverrunIsLast, Size
  <2> QED
    BY <2>6, <2>7, <2>9 DEF TInv
<1>9. CASE DiesBehind(to, {"crashed", "threw"})
  <2>1. PICK way \in {"crashed", "threw"} : Parsing(way)
    BY <1>9 DEF DiesBehind
  <2>2. UNCHANGED <<file, before, at, obj>> /\ pc' = way
    BY <1>9, <2>1 DEF DiesBehind, Parsing
  <2> QED
    BY <1>6, <2>2, LemmaQuiet DEF Early
<1> QED
  BY <1>7, <1>8, <1>9

LEMMA LemmaFrame ==
    ASSUME IInv, TInv, ReadFrame
    PROVE  TInv'
<1> DEFINE rect == D!RECT(0, 0)
           rate == D!Load(D!Aligned(rect.cur, rect.bit), 2)
           count == D!Load(rate.cur, 2)
<1>1. count.cur \in Nat
  <2>1. IsPlace(rect)
    BY FrameEnds
  <2> HIDE DEF rect
  <2>2. D!Aligned(rect.cur, rect.bit) \in Nat
    BY <2>1 DEF IsPlace, D!Aligned
  <2>3. rate.cur \in Nat
    <3>1. rate.cur = D!Aligned(rect.cur, rect.bit) + 2
      BY <2>2, LoadPlace
    <3> HIDE DEF rate
    <3> QED
      BY <2>2, <3>1
  <2> HIDE DEF rate
  <2>4. count.cur = rate.cur + 2
    BY <2>3, LoadPlace
  <2> HIDE DEF count
  <2> QED
    BY <2>3, <2>4
<1> DEFINE frame == <<D!Number(rate.val), D!Number(count.val)>>
<1>2. /\ pc = "frame"
      /\ \/ /\ obj' = [obj EXCEPT !.frame = frame]
            /\ at' = count.cur
            /\ Parsing("tags")
         \/ DiesBehind(count.cur, {"crashed"})
  BY DEF ReadFrame
<1> HIDE DEF frame, count
<1>3. CASE /\ obj' = [obj EXCEPT !.frame = frame]
           /\ at' = count.cur
           /\ Parsing("tags")
  <2>1. obj'.tags = obj.tags
    BY <1>3 DEF IInv, Members
  <2>2. UNCHANGED <<file, before>> /\ pc' = "tags"
    BY <1>3 DEF Parsing
  <2>3. obj.tags = before.tags /\ Len(before.tags) \in Nat
    BY <1>2, LenProperties DEF TInv, TagsType, TagsGrow
  <2>4. TagsType'
    BY <1>1, <1>3, <2>1, <2>2 DEF TInv, TagsType, Size
  <2>5. TagsGrow'
    BY <2>1, <2>2, <2>3 DEF TagsGrow
  <2>6. OverrunIsLast'
    BY <2>1, <2>2, <2>3 DEF OverrunIsLast
  <2> QED
    BY <2>4, <2>5, <2>6 DEF TInv
<1>4. CASE DiesBehind(count.cur, {"crashed"})
  <2>1. UNCHANGED <<file, before, at, obj>> /\ pc' = "crashed"
    BY <1>4 DEF DiesBehind, Parsing
  <2> QED
    BY <1>2, <2>1, LemmaQuiet DEF Early
<1> QED
  BY <1>2, <1>3, <1>4

LEMMA LemmaTagsNext == IInv /\ TInv /\ [Next]_vars => TInv'
<1> SUFFICES ASSUME IInv, TInv, [Next]_vars
             PROVE  TInv'
  OBVIOUS
<1>1. ASSUME NEW f \in Files, Call(f)
      PROVE  TInv'
  <2>1. /\ pc' = "open" /\ file' = f /\ before' = obj /\ obj' = obj /\ at' = 0
    BY <1>1 DEF Call
  <2>2. f.data \in Seq(0..255) /\ f.filesize \in Nat
    BY FilesAssumption
  <2>3. Len(obj.tags) \in Nat
    BY LenProperties DEF TInv, TagsType
  <2>4. TagsType'
    BY <2>1, <2>2 DEF TInv, TagsType, Size, HeaderSize
  <2>5. TagsGrow'
    BY <2>1, <2>3 DEF TagsGrow
  <2>6. OverrunIsLast'
    BY <2>1, <2>3 DEF OverrunIsLast
  <2> QED
    BY <2>4, <2>5, <2>6 DEF TInv
<1>2. CASE Open
  BY <1>2, LemmaQuiet DEF Open, Early
<1>3. CASE Stat
  BY <1>3, LemmaQuiet DEF Stat, Go, Refuse, Early
<1>4. CASE ReadHeader
  BY <1>4, LemmaQuiet DEF ReadHeader, Go, Refuse, Early, IInv, Members
<1>5. CASE CheckSignature
  BY <1>5, LemmaQuiet DEF CheckSignature, Go, Refuse, Early
<1>6. CASE Allocate
  BY <1>6, LemmaQuiet DEF Allocate, Go, Early
<1>7. CASE ReadPlain
  BY <1>7, LemmaQuiet DEF ReadPlain, Packed, Go, Early, IInv, Members
<1>8. CASE AllocatePacked
  BY <1>8, LemmaQuiet DEF AllocatePacked, Packed, Go, Early, IInv, Members
<1>9. CASE Inflate
  BY <1>9, LemmaQuiet DEF Inflate, Go, Early
<1>10. CASE NotSupported
  BY <1>10, LemmaQuiet DEF NotSupported, Go, Early
<1>11. CASE CloseFile
  BY <1>11, LemmaQuiet DEF CloseFile, Go, Early
<1>12. CASE LeaveTags
  BY <1>12, LemmaQuiet DEF LeaveTags, Parsing, Early
<1>13. CASE Free
  BY <1>13, LemmaQuiet DEF Free, Go, Early
<1>14. CASE Destroy
  <2>1. /\ pc' = "gone" /\ obj'.tags = <<>> /\ UNCHANGED <<file, before, at>>
    BY <1>14 DEF Destroy, IInv, Members
  <2>2. TagsType'
    BY <2>1, EmptySeq DEF TInv, TagsType, Size
  <2>3. TagsGrow'
    BY <2>1 DEF TagsGrow
  <2>4. Len(before.tags) \in Nat
    BY LenProperties DEF TInv, TagsType
  <2>5. OverrunIsLast'
    <3>1. Len(obj'.tags) = 0
      BY <2>1
    <3> QED
      BY <2>1, <2>4, <3>1 DEF OverrunIsLast
  <2> QED
    BY <2>2, <2>3, <2>5 DEF TInv
<1>15. CASE Ended \/ UNCHANGED vars
  BY <1>15 DEF Ended, vars, TInv, TagsType, TagsGrow, OverrunIsLast, Size
<1> QED
  BY <1>1, <1>2, <1>3, <1>4, <1>5, <1>6, <1>7, <1>8, <1>9, <1>10, <1>11, <1>12, <1>13, <1>14,
     <1>15, LemmaTag, LemmaFrame DEF Next, Loading

\* The invariant of the tags holds of every file and any number of loads.
THEOREM TagsInvariance == Spec => [](IInv /\ TInv)
<1>1. Init => TInv
  <2> SUFFICES ASSUME Init
               PROVE  TInv
    OBVIOUS
  <2>1. /\ pc = "idle" /\ obj.tags = <<>> /\ before.tags = <<>> /\ at = 0 /\ file.data = <<>>
        /\ file.filesize = 0
    BY DEF Init, Unreadable
  <2>2. TagsType
    BY <2>1, EmptySeq DEF TagsType, Size, HeaderSize
  <2>3. TagsGrow /\ OverrunIsLast
    BY <2>1 DEF TagsGrow, OverrunIsLast
  <2> QED
    BY <2>2, <2>3 DEF TInv
<1> QED
  BY <1>1, LemmaTagsNext, Invariance, PTL DEF Spec

\* A tag that was read from behind the buffer is the last one of its load: the
\* reader is then behind the end (Eof, ReadTag).
THEOREM OverrunsOnce == Spec => []OnlyLastOverruns
<1>1. TInv => OnlyLastOverruns
  <2> SUFFICES ASSUME TInv, NEW i \in 1..(Len(Added) - 1),
                      Added[i].content = Foreign
               PROVE  FALSE
    BY DEF OnlyLastOverruns
  <2> DEFINE b == Len(before.tags)
             n == Len(obj.tags)
  <2>1. b \in Nat /\ n \in Nat
    BY LenProperties DEF TInv, TagsType
  <2>2. \A k \in (b + 1)..n : obj.tags[k] \in SomeTag
    <3>1. ASSUME NEW k \in (b + 1)..n
          PROVE  k \in 1..n
      BY <2>1
    <3> QED
      BY <3>1, ElementOfSeq DEF TInv, TagsType
  <2>3. /\ Len(Added) = IF b + 1 <= n THEN n - (b + 1) + 1 ELSE 0
        /\ \A k \in 1..(n - (b + 1) + 1) : Added[k] = obj.tags[(b + 1) + k - 1]
    <3>1. b + 1 \in Int /\ n \in Int
      BY <2>1
    <3>2. Added = SubSeq(obj.tags, b + 1, n)
      BY DEF Added
    <3> HIDE DEF b, n
    <3> QED
      BY <2>2, <3>1, <3>2, SubSeqProperties
  <2> HIDE DEF b, n
  <2>4. i \in Int /\ 1 <= i /\ i <= n - b - 1 /\ b + 1 <= n
    BY <2>1, <2>3
  <2>5. Added[i] = obj.tags[b + i]
    <3>1. i \in 1..(n - (b + 1) + 1) /\ (b + 1) + i - 1 = b + i
      BY <2>1, <2>4
    <3> QED
      BY <2>3, <3>1
  <2>6. b + i \in (b + 1)..n /\ b + i # n
    BY <2>1, <2>4
  <2>7. b + i = n
    BY <2>5, <2>6 DEF TInv, OverrunIsLast, b, n
  <2> QED
    BY <2>6, <2>7
<1> QED
  BY <1>1, TagsInvariance, PTL

-----------------------------------------------------------------------------
(***************************************************************************)
(* The words of the buffer as numbers.                                     *)
(***************************************************************************)
\* A byte that is shifted into its place, bit by bit.
LEMMA ByteInPlace ==
    ASSUME NEW b \in 0..255, NEW s \in {0, 8, 16, 24}, NEW k \in 0..31
    PROVE  k \in D!Shl(D!BitsOf[b], s) <=> k >= s /\ k < s + 8 /\ OneAt(b, k - s)
<1>1. D!BitsOf[b] = {i \in 0..7 : OneAt(b, i)}
  BY DEF D!BitsOf, OneAt
<1>2. k \in D!Shl(D!BitsOf[b], s) <=> \E i \in 0..7 : OneAt(b, i) /\ k = i + s
  BY <1>1 DEF D!Shl, D!WordBits
<1>3. s \in Int /\ k \in Int
  OBVIOUS
<1>4. ASSUME NEW i \in 0..7, k = i + s
      PROVE  k >= s /\ k < s + 8 /\ k - s = i
  BY <1>3, <1>4
<1>5. ASSUME k >= s, k < s + 8
      PROVE  k - s \in 0..7 /\ k = (k - s) + s
  BY <1>3, <1>5
<1> QED
  BY <1>2, <1>4, <1>5

\* What bytes lie there.
TwoLie(c, b0, b1) == b0 = D!ByteAt(c) /\ b1 = D!ByteAt(c + 1)

FourLie(c, b0, b1, b2, b3) ==
    b0 = D!ByteAt(c) /\ b1 = D!ByteAt(c + 1) /\ b2 = D!ByteAt(c + 2) /\ b3 = D!ByteAt(c + 3)

\* A load of two bytes, and of four, bit by bit.
LEMMA LoadTwo ==
    ASSUME NEW c \in Nat, NEW b0 \in 0..255, NEW b1 \in 0..255,
           TwoLie(c, b0, b1), NEW k \in 0..31
    PROVE  k \in D!Load(c, 2).val <=> IF k < 8 THEN OneAt(b0, k) ELSE k < 16 /\ OneAt(b1, k - 8)
<1> DEFINE part(i) == D!Shl(D!BitsOf[D!ByteAt(c + i)], 8 * i)
<1>1. D!Load(c, 2).val = UNION {part(i) : i \in 0..(2 - 1)}
  BY DEF D!Load, D!Got
<1>2. k \in D!Load(c, 2).val <=> \E i \in 0..1 : k \in part(i)
  <2>1. \A i : i \in 0..(2 - 1) <=> i \in 0..1
    OBVIOUS
  <2> HIDE DEF part
  <2> QED
    BY <1>1, <2>1
<1>3. part(0) = D!Shl(D!BitsOf[b0], 0) /\ part(1) = D!Shl(D!BitsOf[b1], 8)
  <2>1. c + 0 = c /\ 8 * 0 = 0 /\ 8 * 1 = 8
    OBVIOUS
  <2> QED
    BY <2>1 DEF TwoLie
<1> HIDE DEF part
<1>4. k \in D!Load(c, 2).val <=> k \in D!Shl(D!BitsOf[b0], 0) \/ k \in D!Shl(D!BitsOf[b1], 8)
  <2>1. \A i : i \in 0..1 <=> i = 0 \/ i = 1
    OBVIOUS
  <2> QED
    BY <1>2, <1>3, <2>1
<1>5. k \in D!Shl(D!BitsOf[b0], 0) <=> k >= 0 /\ k < 0 + 8 /\ OneAt(b0, k - 0)
  BY ByteInPlace
<1>6. k \in D!Shl(D!BitsOf[b1], 8) <=> k >= 8 /\ k < 8 + 8 /\ OneAt(b1, k - 8)
  BY ByteInPlace
<1>7. k \in Nat /\ k >= 0 /\ k - 0 = k /\ 0 + 8 = 8 /\ 8 + 8 = 16 /\ (k < 8 <=> ~(k >= 8))
  OBVIOUS
<1> QED
  BY <1>4, <1>5, <1>6, <1>7

LEMMA LoadFour ==
    ASSUME NEW c \in Nat, NEW b0 \in 0..255, NEW b1 \in 0..255, NEW b2 \in 0..255, NEW b3 \in 0..255,
           FourLie(c, b0, b1, b2, b3),
           NEW k \in 0..31
    PROVE  k \in D!Load(c, 4).val <=> FourBits(b0, b1, b2, b3, k)
<1> DEFINE part(i) == D!Shl(D!BitsOf[D!ByteAt(c + i)], 8 * i)
<1>1. D!Load(c, 4).val = UNION {part(i) : i \in 0..(4 - 1)}
  BY DEF D!Load, D!Got
<1>2. k \in D!Load(c, 4).val <=> \E i \in 0..3 : k \in part(i)
  <2>1. \A i : i \in 0..(4 - 1) <=> i \in 0..3
    OBVIOUS
  <2> HIDE DEF part
  <2> QED
    BY <1>1, <2>1
<1>3. /\ part(0) = D!Shl(D!BitsOf[b0], 0) /\ part(1) = D!Shl(D!BitsOf[b1], 8)
      /\ part(2) = D!Shl(D!BitsOf[b2], 16) /\ part(3) = D!Shl(D!BitsOf[b3], 24)
  <2>1. c + 0 = c /\ 8 * 0 = 0 /\ 8 * 1 = 8 /\ 8 * 2 = 16 /\ 8 * 3 = 24
    OBVIOUS
  <2> QED
    BY <2>1 DEF FourLie
<1> HIDE DEF part
<1>4. k \in D!Load(c, 4).val <=> \/ k \in D!Shl(D!BitsOf[b0], 0) \/ k \in D!Shl(D!BitsOf[b1], 8)
                                 \/ k \in D!Shl(D!BitsOf[b2], 16) \/ k \in D!Shl(D!BitsOf[b3], 24)
  <2>1. \A i : i \in 0..3 <=> i = 0 \/ i = 1 \/ i = 2 \/ i = 3
    OBVIOUS
  <2> QED
    BY <1>2, <1>3, <2>1
<1>5. k \in D!Shl(D!BitsOf[b0], 0) <=> k >= 0 /\ k < 0 + 8 /\ OneAt(b0, k - 0)
  BY ByteInPlace
<1>6. k \in D!Shl(D!BitsOf[b1], 8) <=> k >= 8 /\ k < 8 + 8 /\ OneAt(b1, k - 8)
  BY ByteInPlace
<1>7. k \in D!Shl(D!BitsOf[b2], 16) <=> k >= 16 /\ k < 16 + 8 /\ OneAt(b2, k - 16)
  BY ByteInPlace
<1>8. k \in D!Shl(D!BitsOf[b3], 24) <=> k >= 24 /\ k < 24 + 8 /\ OneAt(b3, k - 24)
  BY ByteInPlace
<1>9. /\ k \in Nat /\ k >= 0 /\ k - 0 = k /\ 0 + 8 = 8 /\ 8 + 8 = 16 /\ 16 + 8 = 24 /\ 24 + 8 = 32
      /\ k < 8 <=> ~(k >= 8)
      /\ k < 16 <=> ~(k >= 16)
      /\ k < 24 <=> ~(k >= 24)
      /\ k < 8 => k < 16
      /\ k < 16 => k < 24
  OBVIOUS
<1> QED
  BY <1>4, <1>5, <1>6, <1>7, <1>8, <1>9 DEF FourBits

\* A word that has the bits of a number is that number.
LEMMA NumberSpelled ==
    ASSUME NEW N \in Nat, N <= 32, NEW v \in Nat, v < 2^N, NEW w \in SUBSET (0..31),
           \A k \in 0..31 : k \in w <=> OneAt(v, k)
    PROVE  D!Number(w) = v /\ w \subseteq 0..(N - 1)
<1>1. \A f : D!SumFunction(f) = SumFunction(f)
  BY Zenon DEF D!SumFunction, D!SumFunctionOnSet, D!FoldFunctionOnSet, D!MapThenFoldSet,
               SumFunction, SumFunctionOnSet, FoldFunctionOnSet, MapThenFoldSet
<1>2. ASSUME NEW k \in 0..31, k >= N
      PROVE  k \notin w
  <2>1. ~OneAt(v, k)
    BY <1>2, NoBitFrom
  <2> QED
    BY <2>1
<1>3. w \subseteq 0..(N - 1) /\ \A k \in 0..(N - 1) : k \in 0..31
  <2>1. \A k \in 0..31 : k \in 0..(N - 1) \/ k >= N
    OBVIOUS
  <2>2. \A k \in 0..(N - 1) : k \in 0..31
    OBVIOUS
  <2> QED
    BY <1>2, <2>1, <2>2
<1>4. SumFunction([i \in w |-> 2^i]) = v
  BY <1>3, Spelled
<1> QED
  BY Zenon, <1>1, <1>3, <1>4 DEF D!Number

LEMMA PowersOfBytes == 2^16 = 65536
<1>1. 2^(0 + 8) = 256 * 2^0
  BY PowerWord
<1>2. 2^(8 + 8) = 256 * 2^8
  BY PowerWord
<1>3. 2^0 = 1 /\ 0 + 8 = 8 /\ 8 + 8 = 16
  OBVIOUS
<1> QED
  BY SMT, <1>1, <1>2, <1>3

\* A word of the file: the lower byte comes first.
LEMMA WordIs ==
    ASSUME NEW c \in Nat, NEW b0 \in 0..255, NEW b1 \in 0..255,
           TwoLie(c, b0, b1)
    PROVE  D!Number(D!Load(c, 2).val) = b0 + 256 * b1
<1>1. PICK z \in 0..255 : z = 0
  OBVIOUS
<1>2. PICK v \in Nat : v = FourOver(b0, b1, z, z)
  BY FourBytes
<1>3. v = b0 + 256 * b1
  BY SMT, <1>1, <1>2 DEF FourOver, Over8
<1>4. v < 2^16
  BY SMT, <1>3, PowersOfBytes
<1> DEFINE w == D!Load(c, 2).val
<1>5. w \in SUBSET (0..31)
  BY LoadPlace
<1>6. ASSUME NEW k \in 0..31
      PROVE  k \in w <=> OneAt(v, k)
  <2>0. k \in Nat /\ (k >= 8 => k - 8 \in Nat) /\ (k >= 16 => k - 16 \in Nat) /\ (k >= 24 => k - 24 \in Nat)
        /\ (k < 16 \/ k >= 16) /\ (k < 24 \/ k >= 24) /\ (k < 8 => k < 16)
    OBVIOUS
  <2>1. OneAt(v, k) <=> FourBits(b0, b1, z, z, k)
    <3>1. k \in Nat
      OBVIOUS
    <3> QED
      BY <1>2, <3>1, FourBytes
  <2>2. k >= 16 => ~OneAt(z, k - 16)
    BY <1>1, <2>0, BitOfNone
  <2>3. k >= 24 => ~OneAt(z, k - 24)
    BY <1>1, <2>0, BitOfNone
  <2>4. k \in D!Load(c, 2).val <=> IF k < 8 THEN OneAt(b0, k) ELSE k < 16 /\ OneAt(b1, k - 8)
    BY LoadTwo
  <2> QED
    BY <2>0, <2>1, <2>2, <2>3, <2>4 DEF FourBits
<1> HIDE DEF w
<1>7. 16 \in Nat /\ 16 <= 32
  OBVIOUS
<1>8. D!Number(w) = v
  BY <1>4, <1>5, <1>6, <1>7, NumberSpelled
<1> QED
  BY <1>3, <1>8 DEF w

\* A word of twice the size, if the number is not a huge one.
LEMMA LengthIs ==
    ASSUME NEW c \in Nat, NEW b0 \in 0..255, NEW b1 \in 0..255, NEW b2 \in 0..255, NEW b3 \in 0..255,
           FourLie(c, b0, b1, b2, b3),
           NEW v \in Nat, v = FourOver(b0, b1, b2, b3), v < Huge
    PROVE  Length(D!Load(c, 4).val) = v
<1>3. v < 2^30
  BY DEF Huge
<1> DEFINE w == D!Load(c, 4).val
<1>5. w \in SUBSET (0..31)
  BY LoadPlace
<1>6. ASSUME NEW k \in 0..31
      PROVE  k \in w <=> OneAt(v, k)
  <2>0. k \in Nat
    OBVIOUS
  <2>1. OneAt(v, k) <=> FourBits(b0, b1, b2, b3, k)
    <3>1. OneAt(FourOver(b0, b1, b2, b3), k) <=> FourBits(b0, b1, b2, b3, k)
      BY <2>0, FourBytes
    <3> QED
      BY <3>1
  <2>2. k \in D!Load(c, 4).val <=> FourBits(b0, b1, b2, b3, k)
    BY LoadFour
  <2> QED
    BY <2>1, <2>2
<1> HIDE DEF w
<1>7. 30 \in Nat /\ 30 <= 32
  OBVIOUS
<1>8. D!Number(w) = v /\ w \subseteq 0..(30 - 1)
  BY <1>3, <1>5, <1>6, <1>7, NumberSpelled
<1>9. 30 \notin 0..(30 - 1) /\ 31 \notin 0..(30 - 1)
  OBVIOUS
<1>10. w \cap {30, 31} = {}
  BY <1>8, <1>9
<1>11. Length(w) = v
  BY <1>8, <1>10 DEF Length
<1> QED
  BY <1>11 DEF w

-----------------------------------------------------------------------------
(***************************************************************************)
(* The frame data: where the first tag begins.                             *)
(***************************************************************************)

\* The five bits that say how wide the coordinates are.
LEMMA WidthIs ==
    ASSUME NEW b \in 0..255, b = D!ByteAt(0)
    PROVE  D!Number(D!UB(0, 0, 5).val) = b \div 8
<1> DEFINE w == D!UB(0, 0, 5).val
<1>1. PICK v \in Nat : v = b \div 8 /\ v < 32
  <2>1. b \div 8 \in Nat /\ b \div 8 < 32
    OBVIOUS
  <2> QED
    BY <2>1
<1>2. \A k : k \in w <=> k \in 0..4 /\ OneAt(b, k + 3)
  <2>1. D!BitsOf[b] = {i \in 0..7 : OneAt(b, i)}
    BY DEF D!BitsOf, OneAt
  <2>2. w = D!Shr(D!BitsOf[b] \cap (0..7), 3)
    <3>1. w = D!Shr(D!BitsOf[D!ByteAt(0)] \cap (0..(7 - 0)), 8 - 0 - 5)
      BY DEF D!UB, D!Got
    <3>2. 7 - 0 = 7 /\ 8 - 0 - 5 = 3
      OBVIOUS
    <3> HIDE DEF w
    <3> QED
      BY <3>1, <3>2
  <2> HIDE DEF w
  <2>3. \A k : k \in w <=> \E i \in 0..7 : OneAt(b, i) /\ i >= 3 /\ k = i - 3
    BY <2>1, <2>2 DEF D!Shr
  <2>4. ASSUME NEW i \in 0..7, i >= 3
        PROVE  i - 3 \in 0..4 /\ (i - 3) + 3 = i
    BY <2>4
  <2>5. ASSUME NEW k \in 0..4
        PROVE  k + 3 \in 0..7 /\ k + 3 >= 3 /\ k = (k + 3) - 3
    OBVIOUS
  <2> QED
    BY <2>3, <2>4, <2>5
<1>3. \A k \in 0..4 : OneAt(b, k + 3) <=> OneAt(v, k)
  <2> TAKE k \in 0..4
  <2>1. b \in Nat /\ k \in Nat /\ k + 3 \in Nat
    OBVIOUS
  <2>2. PICK m \in Nat \ {0} : m = 2^k /\ 2^(k + 3) = 8 * m
    <3>1. 2^(k + 1) = 2 * 2^k /\ 2^k \in Nat \ {0}
      BY <2>1, PowerNext
    <3>2. 2^(k + 2) = 2 * 2^(k + 1)
      <4>1. k + 1 \in Nat /\ (k + 1) + 1 = k + 2
        BY <2>1
      <4> QED
        BY <4>1, PowerNext
    <3>3. 2^(k + 3) = 2 * 2^(k + 2)
      <4>1. k + 2 \in Nat /\ (k + 2) + 1 = k + 3
        BY <2>1
      <4> QED
        BY <4>1, PowerNext
    <3> QED
      BY <3>1, <3>2, <3>3
  <2>3. b \div (8 * m) = (b \div 8) \div m
    <3>1. b \in Nat /\ m \in Nat \ {0}
      BY <2>1
    <3> QED
      BY ONLY <3>1
  <2> QED
    BY <1>1, <2>2, <2>3 DEF OneAt
<1>4. v < 2^5
  <2>1. 2^(0 + 1) = 2 * 2^0
    BY PowerNext
  <2>2. 2^(1 + 1) = 2 * 2^1
    BY PowerNext
  <2>3. 2^(2 + 1) = 2 * 2^2
    BY PowerNext
  <2>4. 2^(3 + 1) = 2 * 2^3
    BY PowerNext
  <2>5. 2^(4 + 1) = 2 * 2^4
    BY PowerNext
  <2>6. 2^0 = 1
    OBVIOUS
  <2>7. 2^5 = 32
    BY SMT, <2>1, <2>2, <2>3, <2>4, <2>5, <2>6
  <2> QED
    BY <1>1, <2>7
<1>5. ASSUME NEW k \in 0..31
      PROVE  k \in w <=> OneAt(v, k)
  <2>1. k \in 0..4 \/ k >= 5
    OBVIOUS
  <2>2. CASE k \in 0..4
    BY <1>2, <1>3, <2>2
  <2>3. CASE k >= 5
    <3>1. k \notin 0..4 /\ k \in Nat /\ 5 \in Nat
      BY <2>3
    <3>2. ~OneAt(v, k)
      BY <1>4, <2>3, <3>1, NoBitFrom
    <3> HIDE DEF w
    <3> QED
      BY <1>2, <3>1, <3>2
  <2> QED
    BY <2>1, <2>2, <2>3
<1>6. w \in SUBSET (0..31)
  <2>1. \A k \in 0..4 : k \in 0..31
    OBVIOUS
  <2> HIDE DEF w
  <2> QED
    BY <1>2, <2>1
<1>7. 5 \in Nat /\ 5 <= 32
  OBVIOUS
<1> HIDE DEF w
<1>8. D!Number(w) = v
  BY <1>4, <1>5, <1>6, <1>7, NumberSpelled
<1> QED
  BY <1>1, <1>8 DEF w

\* A byte of the data.
LEMMA DataByte ==
    ASSUME file.data \in Seq(0..255), NEW p \in Nat, p < Len(file.data)
    PROVE  D!ByteAt(p) = file.data[p + 1] /\ file.data[p + 1] \in 0..255
<1>1. p + 1 \in 1..Len(file.data)
  BY LenProperties
<1> QED
  BY <1>1, ElementOfSeq DEF D!ByteAt

\* Rate and count lie behind the byte in which the frame size ends.
LEMMA FirstTagBegins ==
    ASSUME file.data \in Seq(0..255), file.data # <<>>
    PROVE  LET rect  == D!RECT(0, 0)
               rate  == D!Load(D!Aligned(rect.cur, rect.bit), 2)
               count == D!Load(rate.cur, 2)
           IN  count.cur = FrameEnd(file.data) /\ count.cur \in Nat
<1>1. PICK rect : rect = D!RECT(0, 0)
  OBVIOUS
<1>2. PICK rate : rate = D!Load(D!Aligned(rect.cur, rect.bit), 2)
  OBVIOUS
<1>3. PICK count : count = D!Load(rate.cur, 2)
  OBVIOUS
<1>4. PICK b \in 0..255 : b = D!ByteAt(0) /\ b = file.data[1]
  <2>1. 0 \in Nat /\ 0 < Len(file.data) /\ 0 + 1 = 1
    BY EmptySeq
  <2> QED
    BY <2>1, DataByte
<1>5. PICK v \in Nat : v = b \div 8
  OBVIOUS
<1>6. IsPlace(rect) /\ InBits(rect) = 5 + 4 * v
  BY <1>1, <1>4, <1>5, FrameEnds, WidthIs
<1>7. PICK c \in Nat, k \in 0..7 : c = rect.cur /\ k = rect.bit /\ 8 * c + k = 5 + 4 * v
  BY <1>6 DEF IsPlace, InBits
<1>8. PICK a \in Nat : a = D!Aligned(rect.cur, rect.bit) /\ a = IF k > 0 THEN c + 1 ELSE c
  BY <1>7 DEF D!Aligned
<1>9. a = (5 + 4 * v + 7) \div 8
  <2>1. (8 * c + k + 7) \div 8 = IF k > 0 THEN c + 1 ELSE c
    <3>1. CASE k = 0
      <4>1. (8 * c + 7) \div 8 = c
        OBVIOUS
      <4> QED
        BY <3>1, <4>1
    <3>2. CASE k \in 1..7
      <4>1. c \in Nat /\ k \in 1..7
        BY <3>2
      <4>2. (8 * c + k + 7) \div 8 = c + 1
        BY ONLY <4>1
      <4> QED
        BY <3>2, <4>2
    <3> QED
      BY <3>1, <3>2
  <2>2. 5 + 4 * v + 7 = 8 * c + k + 7
    BY <1>7
  <2> QED
    BY <1>8, <2>1, <2>2
<1>10. rate.cur = a + 2
  BY <1>2, <1>8, LoadPlace
<1>11. count.cur = (a + 2) + 2
  <2>1. a + 2 \in Nat
    OBVIOUS
  <2> QED
    BY <1>3, <1>10, <2>1, LoadPlace
<1>12. FrameEnd(file.data) = a + 4
  BY <1>4, <1>5, <1>9 DEF FrameEnd
<1>13. count.cur = FrameEnd(file.data) /\ count.cur \in Nat
  BY <1>11, <1>12
<1> QED
  BY <1>1, <1>2, <1>3, <1>13

-----------------------------------------------------------------------------
\* A record of the format is read for the tag that it is.
LEMMA RecordIsRead ==
    ASSUME file.data \in Seq(0..255), Len(file.data) < Huge, NEW c \in Nat, NEW end \in Nat, end <= Len(file.data),
           NEW tag \in [type : 0..255, content : Seq(0..255)], IsRecord(file.data, c, end, tag)
    PROVE  LET head  == D!Load(c, 2)
               code  == D!Number(head.val)
               long  == D!Load(head.cur, 4)
               from  == IF LongForm(code) THEN long.cur ELSE head.cur
               to    == from + (IF LongForm(code) THEN Length(long.val) ELSE code % 64)
           IN  to = end /\ Tag(code, from, to) = tag
<1> DEFINE data == file.data
<1>1. PICK n \in Nat : n = Len(data) /\ end <= n
  BY LenProperties
<1>2. PICK code : code = Word16(data, c)
  OBVIOUS
<1>3. PICK word : word = Word32(data, c + 2)
  OBVIOUS
<1> DEFINE Spans(length, begin) == IsContent(tag.content, data, begin, end, length)
<1>4. /\ code \div 64 = tag.type
      /\ \/ code % 64 < 63 /\ Spans(code % 64, c + 2)
         \/ code % 64 = 63 /\ c + 6 <= end /\ Spans(word, c + 6)
  <2>1. IsRecord(data, c, end, tag)
    OBVIOUS
  <2> QED
    BY <1>2, <1>3, <2>1 DEF IsRecord
<1>5. PICK size \in Nat : size = Len(tag.content)
  <2>1. tag.content \in Seq(0..255)
    OBVIOUS
  <2> QED
    BY <2>1, LenProperties
<1>6. c + 2 <= end
  BY <1>4, <1>5 DEF IsContent
<1>7. PICK b0 \in 0..255, b1 \in 0..255 : /\ b0 = D!ByteAt(c) /\ b1 = D!ByteAt(c + 1)
                                          /\ b0 = data[c + 1] /\ b1 = data[c + 2]
  <2>1. c \in Nat /\ c < Len(data) /\ c + 1 \in Nat /\ c + 1 < Len(data) /\ c + 1 + 1 = c + 2
    BY <1>1, <1>6
  <2> HIDE DEF data
  <2> QED
    BY <2>1, DataByte DEF data
<1>8. code \in Nat /\ code = b0 + 256 * b1
  <2>1. code = b0 + 256 * b1
    <3> HIDE DEF data
    <3> QED
      BY <1>2, <1>7 DEF Word16
  <2>2. b0 + 256 * b1 \in Nat
    OBVIOUS
  <2> QED
    BY <2>1, <2>2
<1>9. D!Number(D!Load(c, 2).val) = code
  <2>1. D!Number(D!Load(c, 2).val) = b0 + 256 * b1
    <3>1. TwoLie(c, b0, b1)
      BY <1>7 DEF TwoLie
    <3>2. c \in Nat /\ b0 \in 0..255 /\ b1 \in 0..255
      OBVIOUS
    <3> QED
      BY ZenonT(40), <3>1, <3>2, WordIs
  <2> QED
    BY <1>8, <2>1
<1>10. D!Load(c, 2).cur = c + 2
  <2>1. 2 \in Nat
    OBVIOUS
  <2> QED
    BY <2>1, LoadPlace
<1>11. TagType(code) = tag.type
  <2>1. PICK t \in 0..255 : t = tag.type
    OBVIOUS
  <2>2. code \div 64 = t
    <3>1. code \div 64 = tag.type
      BY Zenon, <1>4
    <3> QED
      BY Zenon, <2>1, <3>1
  <2>3. t % 256 = t
    <3>1. t \in Int /\ 0 <= t /\ t < 256
      OBVIOUS
    <3> QED
      BY ONLY <3>1
  <2> QED
    BY <2>1, <2>2, <2>3 DEF TagType
<1>12. ASSUME NEW begin \in Nat, tag.content = SubSeq(data, begin + 1, end)
       PROVE  Tag(code, begin, end) = tag
  <2>1. tag = [type |-> tag.type, content |-> tag.content]
    OBVIOUS
  <2>2. Tag(code, begin, end) = [type |-> TagType(code), content |-> SubSeq(data, begin + 1, end)]
    BY <1>1 DEF Tag
  <2> QED
    BY <1>11, <1>12, <2>1, <2>2
<1>13. D!Load(c + 2, 4).cur = c + 6
  <2>1. c + 2 \in Nat /\ 4 \in Nat /\ c + 2 + 4 = c + 6
    OBVIOUS
  <2> QED
    BY <2>1, LoadPlace
<1> DEFINE from == IF LongForm(code) THEN D!Load(c + 2, 4).cur ELSE c + 2
           to == from + (IF LongForm(code) THEN Length(D!Load(c + 2, 4).val) ELSE code % 64)
<1>14. to = end /\ Tag(code, from, to) = tag
  <2>1. CASE code % 64 < 63 /\ Spans(code % 64, c + 2)
    <3>1. ~LongForm(code)
      BY <1>8, <2>1 DEF LongForm
    <3>2. from = c + 2 /\ to = c + 2 + (code % 64)
      BY <3>1
    <3>3. to = end /\ tag.content = SubSeq(data, (c + 2) + 1, end)
      BY <2>1, <3>2 DEF IsContent
    <3>4. c + 2 \in Nat
      OBVIOUS
    <3>5. Tag(code, c + 2, end) = tag
      BY <1>12, <3>3, <3>4
    <3> HIDE DEF from, to
    <3> QED
      BY <3>2, <3>3, <3>5
  <2>2. CASE code % 64 = 63 /\ c + 6 <= end /\ Spans(word, c + 6)
    <3>1. LongForm(code)
      BY <2>2 DEF LongForm
    <3>2. PICK b2 \in 0..255, b3 \in 0..255, b4 \in 0..255, b5 \in 0..255 :
             /\ FourLie(c + 2, b2, b3, b4, b5)
             /\ b2 = data[c + 3] /\ b3 = data[c + 4] /\ b4 = data[c + 5] /\ b5 = data[c + 6]
      <4>1. /\ c + 2 \in Nat /\ c + 3 \in Nat /\ c + 4 \in Nat /\ c + 5 \in Nat
            /\ c + 2 < Len(data) /\ c + 3 < Len(data) /\ c + 4 < Len(data) /\ c + 5 < Len(data)
            /\ c + 2 + 1 = c + 3 /\ c + 3 + 1 = c + 4 /\ c + 4 + 1 = c + 5 /\ c + 5 + 1 = c + 6
            /\ c + 2 + 2 = c + 4 /\ c + 2 + 3 = c + 5
        BY <1>1, <2>2
      <4>2. /\ D!ByteAt(c + 2) = data[c + 3] /\ data[c + 3] \in 0..255
            /\ D!ByteAt(c + 3) = data[c + 4] /\ data[c + 4] \in 0..255
            /\ D!ByteAt(c + 4) = data[c + 5] /\ data[c + 5] \in 0..255
            /\ D!ByteAt(c + 5) = data[c + 6] /\ data[c + 6] \in 0..255
        <5> HIDE DEF data
        <5>1. D!ByteAt(c + 2) = data[c + 3] /\ data[c + 3] \in 0..255
          BY <4>1, DataByte DEF data
        <5>2. D!ByteAt(c + 3) = data[c + 4] /\ data[c + 4] \in 0..255
          BY <4>1, DataByte DEF data
        <5>3. D!ByteAt(c + 4) = data[c + 5] /\ data[c + 5] \in 0..255
          BY <4>1, DataByte DEF data
        <5>4. D!ByteAt(c + 5) = data[c + 6] /\ data[c + 6] \in 0..255
          BY <4>1, DataByte DEF data
        <5> QED
          BY <5>1, <5>2, <5>3, <5>4
      <4> HIDE DEF data
      <4>3. FourLie(c + 2, data[c + 3], data[c + 4], data[c + 5], data[c + 6])
        BY <4>1, <4>2 DEF FourLie
      <4> QED
        BY <4>2, <4>3
    <3>3. PICK v \in Nat : v = FourOver(b2, b3, b4, b5)
      BY FourBytes
    <3>4. v = word
      <4>1. word = data[c + 3] + 256 * data[c + 4] + 65536 * (data[c + 5] + 256 * data[c + 6])
        <5>1. c + 2 + 1 = c + 3 /\ c + 2 + 2 = c + 4 /\ c + 2 + 2 + 1 = c + 5 /\ c + 2 + 2 + 2 = c + 6
          OBVIOUS
        <5> HIDE DEF data
        <5> QED
          BY <1>3, <5>1 DEF Word16, Word32
      <4>2. word = b2 + 256 * b3 + 65536 * (b4 + 256 * b5)
        <5> HIDE DEF data
        <5> QED
          BY <3>2, <4>1
      <4>3. FourOver(b2, b3, b4, b5) = b2 + 256 * b3 + 65536 * (b4 + 256 * b5)
        BY SMT DEF FourOver, Over8
      <4> QED
        BY <3>3, <4>2, <4>3
    <3>5. v < Huge
      <4>1. v = size /\ (c + 6) + size = end
        BY <1>5, <2>2, <3>4 DEF IsContent
      <4>2. PICK h : h = Huge /\ n < h
        BY <1>1
      <4>3. h \in Int
        BY <4>2 DEF Huge
      <4> QED
        BY <1>1, <4>1, <4>2, <4>3
    <3>6. Length(D!Load(c + 2, 4).val) = v
      <4>1. c + 2 \in Nat
        OBVIOUS
      <4> QED
        BY <3>2, <3>3, <3>5, <4>1, LengthIs
    <3>7. from = c + 6 /\ to = c + 6 + v
      BY <1>13, <3>1, <3>6
    <3>8. to = end /\ tag.content = SubSeq(data, (c + 6) + 1, end)
      BY <2>2, <3>4, <3>7 DEF IsContent
    <3>9. c + 6 \in Nat
      OBVIOUS
    <3>10. Tag(code, c + 6, end) = tag
      BY <1>12, <3>8, <3>9
    <3> HIDE DEF from, to
    <3> QED
      BY <3>7, <3>8, <3>10
  <2> QED
    BY <1>4, <2>1, <2>2
<1> QED
  BY Zenon, <1>9, <1>10, <1>14

-----------------------------------------------------------------------------
(***************************************************************************)
(* The invariant of an undamaged file: how far load has come with it.      *)
(***************************************************************************)
RealTag == [type : 0..255, content : Seq(0..255)]

\* The file is what it is said to be.
Known == file.meant \in Seq(RealTag) /\ IsSound(file)

\* Nothing but the system and zlib has refused it so far.
Accepted ==
    /\ pc \notin {"threw", "crashed"}
    /\ pc = "inflate" => file.packing = "C"
    /\ pc \in {"close", "free", "idle"} /\ ~trouble => result

\* The reader is where a tag ends, and has read the tags up to that one.
TagsSoFar(k) ==
    /\ at = file.cuts[k + 1]
    /\ obj.tags = before.tags \o SubSeq(file.meant, 1, k)

Reading == \E k \in 0..Len(file.meant) : TagsSoFar(k)

AllTags == obj.tags = before.tags \o file.meant

UInv ==
    file.sound =>
      /\ Known
      /\ Accepted
      /\ pc = "tags" => Reading
      /\ pc \in {"idle", "free"} /\ result => AllTags

\* One tag more of those that are to be appended.
LEMMA OneMore ==
    ASSUME NEW S, NEW s \in Seq(S), NEW t \in Seq(S), NEW k \in 0..(Len(t) - 1)
    PROVE  Append(s \o SubSeq(t, 1, k), t[k + 1]) = s \o SubSeq(t, 1, k + 1)
<1>1. Len(t) \in Nat
  BY LenProperties
<1>2. k + 1 \in 1..Len(t) /\ 1 \in 1..Len(t) /\ k + 1 \in 1..Len(t) /\ (k + 1) - 1 = k
  BY <1>1
<1>3. SubSeq(t, 1, k + 1) = SubSeq(t, 1, k) \o <<t[k + 1]>>
  BY <1>2, SubSeqRecursiveSecond
<1>4. SubSeq(t, 1, k) \in Seq(S)
  <2>1. \A i \in 1..k : t[i] \in S
    <3>1. \A i \in 1..k : i \in 1..Len(t)
      BY <1>1
    <3> QED
      BY <3>1, ElementOfSeq
  <2>2. 1 \in Int /\ k \in Int
    OBVIOUS
  <2> QED
    BY <2>1, <2>2, SubSeqProperties
<1>5. t[k + 1] \in S /\ <<t[k + 1]>> \in Seq(S)
  BY <1>2, ElementOfSeq
<1>6. s \o SubSeq(t, 1, k) \in Seq(S)
  BY <1>4, ConcatProperties
<1>7. Append(s \o SubSeq(t, 1, k), t[k + 1]) = (s \o SubSeq(t, 1, k)) \o <<t[k + 1]>>
  BY <1>5, <1>6, AppendIsConcat
<1>8. (s \o SubSeq(t, 1, k)) \o <<t[k + 1]>> = s \o (SubSeq(t, 1, k) \o <<t[k + 1]>>)
  <2>1. PICK u \in Seq(S) : u = SubSeq(t, 1, k)
    BY <1>4
  <2>2. PICK e \in Seq(S) : e = <<t[k + 1]>>
    BY <1>5
  <2>3. (s \o u) \o e = s \o (u \o e)
    BY ConcatAssociative
  <2> QED
    BY <2>1, <2>2, <2>3
<1> QED
  BY <1>3, <1>7, <1>8

\* Where the cuts of an undamaged file are.
LEMMA Cuts ==
    ASSUME Known, file.data \in Seq(0..255)
    PROVE  /\ Size = Len(file.data) /\ file.data # <<>> /\ Len(file.data) < Huge
           /\ Len(file.meant) \in Nat
           /\ \A k \in 0..Len(file.meant) : file.cuts[k + 1] \in Nat /\ file.cuts[k + 1] <= Len(file.data)
           /\ file.cuts[1] = FrameEnd(file.data)
           /\ \A k \in 0..Len(file.meant) : k < Len(file.meant) <=> file.cuts[k + 1] < Len(file.data)
           /\ \A k \in 0..(Len(file.meant) - 1) :
                IsRecord(file.data, file.cuts[k + 1], file.cuts[k + 2], file.meant[k + 1])
<1> DEFINE n == Len(file.meant)
           m == Len(file.data)
<1>1. n \in Nat /\ DOMAIN file.meant = 1..n
  BY LenProperties DEF Known
<1>2. m \in Nat
  BY LenProperties
<1>3. IsLaidOut(file.data, file.cuts, file.meant)
  BY DEF Known, IsSound
<1>4. file.filesize = HeaderSize + m
  BY DEF Known, IsSound
<1>5. Size = m
  BY <1>2, <1>4 DEF Size, HeaderSize
<1>6. Len(file.data) < Huge
  BY DEF Known, IsSound
<1>7. /\ file.data # <<>>
      /\ file.cuts \in Seq(Nat)
      /\ Len(file.cuts) = n + 1
      /\ file.cuts[1] = FrameEnd(file.data)
      /\ file.cuts[n + 1] = m
      /\ \A i \in 1..n : /\ file.cuts[i] < m
                         /\ IsRecord(file.data, file.cuts[i], file.cuts[i + 1], file.meant[i])
  BY <1>1, <1>3 DEF IsLaidOut
<1> HIDE DEF n, m
<1>8. \A k \in 0..n : file.cuts[k + 1] \in Nat
  <2> TAKE k \in 0..n
  <2>1. k + 1 \in 1..Len(file.cuts)
    BY <1>1, <1>7
  <2> QED
    BY <1>7, <2>1, ElementOfSeq
<1>9. \A k \in 0..n : k < n <=> file.cuts[k + 1] < m
  <2> TAKE k \in 0..n
  <2>1. CASE k < n
    <3>1. k + 1 \in 1..n
      BY <1>1, <2>1
    <3> QED
      BY <1>7, <2>1, <3>1
  <2>2. CASE ~(k < n)
    <3>1. k = n
      BY <1>1, <2>2
    <3>2. ~(m < m)
      BY <1>2
    <3> QED
      BY <1>7, <2>2, <3>1, <3>2
  <2> QED
    BY <2>1, <2>2
<1>10. \A k \in 0..n : file.cuts[k + 1] <= m
  <2> TAKE k \in 0..n
  <2>1. k < n \/ k = n
    BY <1>1
  <2>2. CASE k = n
    BY <1>2, <1>7, <2>2
  <2>3. CASE k < n
    BY <1>2, <1>8, <1>9, <2>3
  <2> QED
    BY <2>1, <2>2, <2>3
<1>11. \A k \in 0..(n - 1) : IsRecord(file.data, file.cuts[k + 1], file.cuts[k + 2], file.meant[k + 1])
  <2> TAKE k \in 0..(n - 1)
  <2>1. k + 1 \in 1..n /\ (k + 1) + 1 = k + 2
    BY <1>1
  <2>2. IsRecord(file.data, file.cuts[k + 1], file.cuts[(k + 1) + 1], file.meant[k + 1])
    BY <1>7, <2>1
  <2> QED
    BY <2>1, <2>2
<1> QED
  BY <1>1, <1>5, <1>6, <1>7, <1>8, <1>9, <1>10, <1>11 DEF n, m

\* A step after which load is in none of the places that promise something
\* of the tags.
LEMMA LemmaOnTheWay ==
    ASSUME UInv, UNCHANGED file, pc' \notin {"tags", "idle", "free", "threw", "crashed"},
           file.sound => /\ pc' = "inflate" => file.packing = "C"
                         /\ pc' = "close" /\ ~trouble' => result'
    PROVE  UInv'
BY DEF UInv, Known, Accepted, IsSound

\* A step that refuses the file, with a reason.
LEMMA LemmaRefused ==
    ASSUME UInv, UNCHANGED file, pc' = "idle", result' = FALSE, file.sound => trouble'
    PROVE  UInv'
BY DEF UInv, Known, Accepted, IsSound

\* Until the buffer is filled.
LEMMA LemmaSoundOpened ==
    ASSUME UInv, TInv, Open \/ Stat \/ ReadHeader \/ CheckSignature \/ Allocate
    PROVE  UInv'
<1>1. CASE Open
  <2>1. file.sound => file.opens
    BY DEF UInv, Known, IsSound
  <2>2. CASE file.opens
    BY <1>1, <2>2, LemmaOnTheWay DEF Open
  <2>3. CASE ~file.opens
    BY <1>1, <2>1, <2>3, LemmaRefused DEF Open
  <2> QED
    BY <2>2, <2>3
<1>2. CASE Stat
  <2>1. CASE Go("header")
    BY <2>1, LemmaOnTheWay DEF Go
  <2>2. CASE Refuse(TRUE)
    BY <2>2, LemmaRefused DEF Refuse
  <2> QED
    BY <1>2, <2>1, <2>2 DEF Stat
<1>3. CASE ReadHeader
  <2>1. CASE Go("signature")
    BY <2>1, LemmaOnTheWay DEF Go
  <2>2. CASE Refuse(file.size >= HeaderSize)
    <3>1. file.sound => file.size >= HeaderSize
      <4> SUFFICES ASSUME file.sound
                   PROVE  file.size >= HeaderSize
        OBVIOUS
      <4>1. IsSound(file)
        BY DEF UInv, Known
      <4>2. Len(file.data) \in Nat
        BY LenProperties DEF TInv, TagsType
      <4> QED
        BY <4>1, <4>2, MemoryAssumption DEF IsSound, HeaderSize
    <3> QED
      BY <2>2, <3>1, LemmaRefused DEF Refuse
  <2> QED
    BY <1>3, <2>1, <2>2 DEF ReadHeader
<1>4. CASE CheckSignature
  <2>1. file.sound => file.signature
    BY DEF UInv, Known, IsSound
  <2>2. CASE Go("allocate") /\ file.signature
    BY <2>2, LemmaOnTheWay DEF Go
  <2>3. CASE Refuse(FALSE) /\ ~file.signature
    BY <2>1, <2>3, LemmaRefused DEF Refuse
  <2> QED
    BY <1>4, <2>2, <2>3 DEF CheckSignature
<1>5. CASE Allocate
  <2>1. CASE Go("payload")
    BY <2>1, LemmaOnTheWay DEF Go
  <2>2. CASE Size \notin 0..Memory /\ Go("threw")
    <3>1. ~file.sound
      <4> SUFFICES ASSUME file.sound
                   PROVE  Size \in 0..Memory
        BY <2>2
      <4>1. IsSound(file)
        BY DEF UInv, Known
      <4>2. Len(file.data) \in Nat
        BY LenProperties DEF TInv, TagsType
      <4> QED
        BY <4>1, <4>2, MemoryAssumption DEF IsSound, HeaderSize, Size
    <3> QED
      BY <2>2, <3>1 DEF UInv, Go
  <2> QED
    BY <1>5, <2>1, <2>2 DEF Allocate
<1> QED
  BY <1>1, <1>2, <1>3, <1>4, <1>5

\* Until the buffer is parsed.
LEMMA LemmaSoundFilled ==
    ASSUME UInv, TInv, ReadPlain \/ AllocatePacked \/ Inflate \/ NotSupported \/ CloseFile
    PROVE  UInv'
<1>1. CASE ReadPlain
  <2>1. pc' = "close" /\ UNCHANGED file /\ (~trouble' => result' = (file.size = file.filesize))
    BY <1>1 DEF ReadPlain, Go
  <2>2. file.sound => file.size = file.filesize
    BY <1>1 DEF UInv, Known, IsSound, ReadPlain, Packed
  <2> QED
    BY <2>1, <2>2, LemmaOnTheWay
<1>2. CASE AllocatePacked
  <2>1. CASE Go("inflate")
    BY <1>2, <2>1, LemmaOnTheWay DEF Go, AllocatePacked, Packed
  <2>2. CASE file.size - HeaderSize > Memory /\ Go("threw")
    <3>1. ~file.sound
      <4> SUFFICES ASSUME file.sound
                   PROVE  ~(file.size - HeaderSize > Memory)
        BY <2>2
      <4>1. file.size \in HeaderSize..(HeaderSize + Memory)
        BY <1>2 DEF UInv, Known, IsSound, AllocatePacked, Packed
      <4> QED
        BY <4>1, MemoryAssumption DEF HeaderSize
    <3> QED
      BY <2>2, <3>1 DEF UInv, Go
  <2> QED
    BY <1>2, <2>1, <2>2 DEF AllocatePacked
<1>3. CASE Inflate
  <2>1. pc' = "close" /\ UNCHANGED file /\ (~trouble' => result' = Inflates)
    BY <1>3 DEF Inflate, Go
  <2>2. file.sound => Inflates
    <3> SUFFICES ASSUME file.sound
                 PROVE  Inflates
      OBVIOUS
    <3>1. file.packing = "C" /\ Known
      BY <1>3 DEF UInv, Accepted, Inflate
    <3>2. file.intact
      BY <3>1 DEF Known, IsSound
    <3>3. Size = Len(file.data) /\ Len(file.data) \in Nat
      BY <3>1, Cuts, LenProperties DEF TInv, TagsType
    <3> QED
      BY <3>2, <3>3 DEF Inflates
  <2> QED
    BY <2>1, <2>2, LemmaOnTheWay
<1>4. CASE NotSupported
  <2>1. ~file.sound
    BY <1>4 DEF NotSupported, UInv, Known, IsSound
  <2> QED
    BY <1>4, <2>1 DEF NotSupported, UInv, Go
<1>5. CASE CloseFile
  <2>1. CASE result
    BY <1>5, <2>1, LemmaOnTheWay DEF CloseFile, Go
  <2>2. CASE ~result
    BY <1>5, <2>2 DEF CloseFile, Go, UInv, Known, Accepted, IsSound
  <2> QED
    BY <2>1, <2>2
<1> QED
  BY <1>1, <1>2, <1>3, <1>4, <1>5

\* The frame data end where the first tag begins, inside of the buffer.
LEMMA LemmaSoundFrame ==
    ASSUME IInv, TInv, UInv, ReadFrame
    PROVE  UInv'
<1> DEFINE rect == D!RECT(0, 0)
           rate == D!Load(D!Aligned(rect.cur, rect.bit), 2)
           count == D!Load(rate.cur, 2)
           frame == <<D!Number(rate.val), D!Number(count.val)>>
<1>1. /\ pc = "frame"
      /\ \/ /\ obj' = [obj EXCEPT !.frame = frame]
            /\ at' = count.cur
            /\ Parsing("tags")
         \/ DiesBehind(count.cur, {"crashed"})
  BY DEF ReadFrame
<1>2. UNCHANGED <<file, before>>
  BY <1>1 DEF DiesBehind, Parsing
<1> SUFFICES ASSUME file.sound
             PROVE  UInv'
  BY <1>2 DEF UInv
<1>3. Known /\ file.data \in Seq(0..255)
  BY DEF UInv, TInv, TagsType
<1>4. /\ Size = Len(file.data) /\ file.data # <<>>
      /\ Len(file.meant) \in Nat
      /\ file.cuts[1] = FrameEnd(file.data)
      /\ file.cuts[1] <= Len(file.data)
      /\ Len(file.data) \in Nat
      /\ file.cuts[1] \in Nat
  <2>1. Len(file.meant) \in Nat
    BY <1>3, Cuts
  <2>2. 0 \in 0..Len(file.meant) /\ 0 + 1 = 1
    BY <2>1
  <2>3. file.cuts[0 + 1] \in Nat /\ file.cuts[0 + 1] <= Len(file.data)
    BY <1>3, <2>2, Cuts
  <2>4. Len(file.data) \in Nat
    BY <1>3, LenProperties
  <2> QED
    BY <1>3, <2>1, <2>2, <2>3, <2>4, Cuts
<1>5. count.cur = FrameEnd(file.data)
  BY <1>3, <1>4, FirstTagBegins
<1> HIDE DEF count, frame
<1>6. ~DiesBehind(count.cur, {"crashed"})
  BY <1>4, <1>5 DEF DiesBehind
<1>7. obj'.tags = obj.tags /\ at' = file.cuts[1] /\ pc' = "tags"
  BY <1>1, <1>4, <1>5, <1>6 DEF Parsing, IInv, Members
<1>8. obj.tags = before.tags
  BY <1>1 DEF TInv, TagsGrow
<1>9. obj.tags = before.tags \o SubSeq(file.meant, 1, 0)
  <2>1. SubSeq(file.meant, 1, 0) = <<>>
    BY SubSeqEmpty
  <2>2. before.tags \o <<>> = before.tags
    BY ConcatEmptySeq DEF TInv, TagsType
  <2> QED
    BY <1>8, <2>1, <2>2
<1>10. TagsSoFar(0)'
  <2>1. 0 + 1 = 1
    OBVIOUS
  <2> QED
    BY <1>2, <1>7, <1>9, <2>1 DEF TagsSoFar
<1>11. Reading'
  <2>1. 0 \in 0..Len(file.meant)' 
    BY <1>2, <1>4
  <2> QED
    BY <1>10, <2>1 DEF Reading
<1>12. Known' /\ Accepted'
  BY <1>2, <1>3, <1>7 DEF Known, IsSound, Accepted
<1> QED
  BY <1>7, <1>11, <1>12 DEF UInv

\* A record of the file is one tag more, and the reader is at the next one.
LEMMA LemmaSoundTag ==
    ASSUME IInv, TInv, UInv, ReadTag
    PROVE  UInv'
<1> DEFINE head == D!Load(at, 2)
           code == D!Number(head.val)
           long == D!Load(head.cur, 4)
           from == IF LongForm(code) THEN long.cur ELSE head.cur
           to == from + (IF LongForm(code) THEN Length(long.val) ELSE code % 64)
           tag == Tag(code, from, to)
           n == Len(file.meant)
<1>1. pc = "tags" /\ ~Eof
  BY DEF ReadTag
<1>2. \/ /\ obj' = [obj EXCEPT !.tags = Append(@, tag)]
         /\ at' = to
         /\ Parsing("tags")
      \/ DiesBehind(to, {"crashed", "threw"})
  BY DEF ReadTag
<1>3. UNCHANGED <<file, before>>
  BY <1>2 DEF DiesBehind, Parsing
<1> SUFFICES ASSUME file.sound
             PROVE  UInv'
  BY <1>3 DEF UInv
<1>4. Known /\ file.data \in Seq(0..255)
  BY DEF UInv, TInv, TagsType
<1>5. Size = Len(file.data) /\ Len(file.data) \in Nat /\ n \in Nat /\ Len(file.data) < Huge
  BY <1>4, Cuts, LenProperties
<1>6. PICK k \in 0..n : TagsSoFar(k)
  BY <1>1 DEF UInv, Reading
<1>7. k \in 0..(n - 1) /\ k + 1 \in 0..n /\ (k + 1) + 1 = k + 2
  <2>1. file.cuts[k + 1] < Len(file.data)
    BY <1>1, <1>5, <1>6, Cuts, <1>4 DEF Eof, TagsSoFar
  <2>2. k < n
    BY <1>4, <1>6, <2>1, Cuts
  <2> QED
    BY <1>5, <2>2
<1>8. PICK end \in Nat : end = file.cuts[k + 2] /\ end <= Len(file.data)
  BY <1>4, <1>7, Cuts
<1>9. PICK c \in Nat : c = at /\ c = file.cuts[k + 1]
  BY <1>6 DEF TInv, TagsType, TagsSoFar
<1>10. PICK real \in RealTag : real = file.meant[k + 1]
  <2>1. k + 1 \in 1..Len(file.meant) /\ file.meant \in Seq(RealTag)
    BY <1>4, <1>5, <1>7 DEF Known
  <2> QED
    BY <2>1, ElementOfSeq
<1>11. IsRecord(file.data, c, end, real)
  BY <1>4, <1>7, <1>8, <1>9, <1>10, Cuts
<1>12. to = end /\ tag = real
  <2>1. real \in [type : 0..255, content : Seq(0..255)]
    BY DEF RealTag
  <2>2. at \in Nat /\ at = c
    BY <1>9
  <2>3. IsRecord(file.data, at, end, real)
    BY Zenon, <1>11, <2>2
  <2> QED
    BY ZenonT(60), <1>4, <1>5, <1>8, <2>1, <2>2, <2>3, RecordIsRead
<1> HIDE DEF to, tag
<1>13. ~DiesBehind(to, {"crashed", "threw"})
  BY <1>5, <1>8, <1>12 DEF DiesBehind
<1>14. obj'.tags = Append(obj.tags, real) /\ at' = end /\ pc' = "tags"
  BY <1>2, <1>12, <1>13 DEF Parsing, IInv, Members
<1>15. obj'.tags = before.tags \o SubSeq(file.meant, 1, k + 1)
  <2>1. before.tags \in Seq(SomeTag)
    BY DEF TInv, TagsType
  <2>2. file.meant \in Seq(SomeTag)
    <3>1. RealTag \subseteq SomeTag
      <4>1. Seq(0..255) \subseteq Seq((-2)..255)
        <5>1. 0..255 \subseteq (-1)..255
          OBVIOUS
        <5> QED
          BY <5>1, SeqMonotonic
      <4>2. 0..255 \subseteq Int
        OBVIOUS
      <4> QED
        BY <4>1, <4>2 DEF RealTag, SomeTag
    <3> QED
      BY <1>4, <3>1, SeqMonotonic DEF Known
  <2>3. Append(before.tags \o SubSeq(file.meant, 1, k), file.meant[k + 1])
          = before.tags \o SubSeq(file.meant, 1, k + 1)
    BY <1>7, <2>1, <2>2, OneMore
  <2>4. obj.tags = before.tags \o SubSeq(file.meant, 1, k)
    BY <1>6 DEF TagsSoFar
  <2> QED
    BY <1>10, <1>14, <2>3, <2>4
<1>16. TagsSoFar(k + 1)'
  BY <1>3, <1>7, <1>8, <1>14, <1>15 DEF TagsSoFar
<1>17. Reading'
  <2>1. k + 1 \in 0..Len(file.meant)'
    BY <1>3, <1>7
  <2> QED
    BY <1>16, <2>1 DEF Reading
<1>18. Known' /\ Accepted'
  BY <1>3, <1>4, <1>14 DEF Known, IsSound, Accepted
<1> QED
  BY <1>14, <1>17, <1>18 DEF UInv

\* At the end of the data no tag is left.
LEMMA LemmaSoundLeave ==
    ASSUME IInv, TInv, UInv, LeaveTags
    PROVE  UInv'
<1>1. pc = "tags" /\ Eof /\ pc' = "free" /\ UNCHANGED <<file, before, obj, at, result, trouble>>
  BY DEF LeaveTags, Parsing
<1> SUFFICES ASSUME file.sound
             PROVE  UInv'
  BY <1>1 DEF UInv
<1>2. Known /\ file.data \in Seq(0..255)
  BY DEF UInv, TInv, TagsType
<1>3. PICK k \in 0..Len(file.meant) : TagsSoFar(k)
  BY <1>1 DEF UInv, Reading
<1>4. k = Len(file.meant)
  <2>1. Size = Len(file.data) /\ Len(file.data) \in Nat /\ Len(file.meant) \in Nat
    BY <1>2, Cuts, LenProperties
  <2>2. at \in Nat /\ at = file.cuts[k + 1] /\ at >= Len(file.data)
    BY <1>1, <1>3, <2>1 DEF Eof, TagsSoFar, TInv, TagsType
  <2>3. ~(k < Len(file.meant))
    BY <1>2, <1>3, <2>1, <2>2, Cuts
  <2> QED
    BY <2>1, <2>3
<1>5. AllTags
  <2>1. SubSeq(file.meant, 1, Len(file.meant)) = file.meant
    BY <1>2, SubSeqFull DEF Known
  <2> QED
    BY <1>3, <1>4, <2>1 DEF TagsSoFar, AllTags
<1>6. result
  BY <1>1 DEF IInv, Untouched
<1> QED
  BY <1>1, <1>2, <1>5, <1>6 DEF UInv, Known, IsSound, Accepted, AllTags

LEMMA LemmaSoundNext == IInv /\ TInv /\ UInv /\ [Next]_vars => UInv'
<1> SUFFICES ASSUME IInv, TInv, UInv, [Next]_vars
             PROVE  UInv'
  OBVIOUS
<1>1. ASSUME NEW f \in Files, Call(f)
      PROVE  UInv'
  <2>1. file' = f /\ pc' = "open"
    BY <1>1 DEF Call
  <2>2. f.sound => f.meant \in Seq(RealTag) /\ IsSound(f)
    BY SoundAssumption DEF RealTag
  <2>3. (file.sound)' => Known'
    BY <2>1, <2>2 DEF Known, IsSound
  <2> QED
    BY <2>1, <2>3 DEF UInv, Accepted
<1>2. CASE Free
  BY <1>2 DEF Free, Go, UInv, Known, IsSound, Accepted, AllTags
<1>3. CASE Destroy
  BY <1>3 DEF Destroy, UInv, Known, IsSound, Accepted
<1>4. CASE Ended \/ UNCHANGED vars
  BY <1>4 DEF Ended, vars, UInv, Known, IsSound, Accepted, Reading, TagsSoFar, AllTags
<1> QED
  BY <1>1, <1>2, <1>3, <1>4, LemmaSoundOpened, LemmaSoundFilled, LemmaSoundFrame, LemmaSoundTag,
     LemmaSoundLeave DEF Next, Loading

\* An undamaged file, plain or compressed, whatever its tags are and in the
\* short or the long form, is refused only when the system or zlib refuses,
\* and otherwise load appends exactly its tags and reads nothing from outside
\* of the buffer.
THEOREM UndamagedLoads == Spec => []UndamagedIsLoaded
<1>1. Init => UInv
  BY DEF Init, Unreadable, UInv
<1>2. UInv => UndamagedIsLoaded
  BY DEF UInv, Accepted, AllTags, UndamagedIsLoaded
<1> QED
  BY <1>1, <1>2, LemmaSoundNext, TagsInvariance, PTL DEF Spec

=============================================================================

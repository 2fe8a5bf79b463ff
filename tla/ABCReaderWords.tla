--------------------------- MODULE ABCReaderWords ---------------------------
(***************************************************************************)
(* Class ABCReader (src/ABCReader.cpp) as the machine executes it: a       *)
(* client calls reads on one byte string, words have 32 bits, and a char   *)
(* may be signed.  The primitive reads dereference a const char pointer    *)
(* and shift the result, so whether the bits above the byte are copies of  *)
(* its sign matters.  Every read tests the bounds by itself.               *)
(*                                                                         *)
(* Left out: readD64's value (a load of eight bytes), the text readString  *)
(* assigns, and _used, which is sized and never read.                      *)
(***************************************************************************)
EXTENDS ABCReader, Words, FiniteSetsExt

CONSTANTS
    Buffers,    \* the byte strings a reader is opened on
    Seeks,      \* the positions a client passes to pos(value)
    MaxCalls    \* bound of the model: calls made on one reader

ASSUME BuffersAssumption == Buffers \subseteq Seq(Byte)

\* pos takes a uint32_t.
ASSUME SeeksAssumption == Seeks \subseteq Nat

ASSUME MaxCallsAssumption == MaxCalls \in Nat

VARIABLES
    buf,        \* the bytes from _start to _end
    signed,     \* char is a signed type in this build
    cur,        \* _cur - _start
    last,       \* history: the last call and what became of it
    calls       \* history: how many calls were made

readerVars == <<buf, signed, cur, last, calls>>

\* *_cur converted to a 32-bit integer.
Char(p) == LET bits == BitsOf[ByteAt(buf, p)]
           IN  IF signed THEN SignExtend(bits, 8) ELSE bits

Returned(read, val, end) ==
    [read |-> read, from |-> cur, end |-> end, ok |-> TRUE, val |-> val]
Threw(read, end) ==
    [read |-> read, from |-> cur, end |-> end, ok |-> FALSE, val |-> {}]

ReaderInit ==
    /\ buf \in Buffers
    /\ signed \in BOOLEAN
    /\ cur = 0
    /\ last = [read |-> "none", from |-> 0, end |-> 0, ok |-> TRUE, val |-> {}]
    /\ calls = 0

\* A reader is not used again after it has thrown: the callers catch outside
\* of its scope, or not at all.
Do(result) ==
    /\ last.ok
    /\ calls < MaxCalls
    /\ calls' = calls + 1
    /\ last' = result
    /\ cur' = result.end
    /\ UNCHANGED <<buf, signed>>

-----------------------------------------------------------------------------
(***************************************************************************)
(* Reads of a fixed number of bytes.                                       *)
(***************************************************************************)
Fixed(read, size, val) ==
    IF InRange(buf, cur + size) THEN Returned(read, val, cur + size)
                                ELSE Threw(read, cur)

ReadU8 == Do(Fixed("u8", 1, BitsOf[ByteAt(buf, cur)]))

\* *(uint16_t*) _cur, and the same load through int16_t.
Half == BitsOf[ByteAt(buf, cur)] \cup Shl(BitsOf[ByteAt(buf, cur + 1)], 8)
SignedHalf == SignExtend(Half, 16)

ReadU16 == Do(Fixed("u16", 2, Half))

\* r & 0x00800000 ? 0xff000000 | r : r
ReadS24 ==
    LET r == Shl(Char(cur + 2), 16) \cup SignedHalf
    IN  Do(Fixed("s24", 3, IF 23 \in r THEN r \cup (24..31) ELSE r))

ReadD64 == Do(Fixed("d64", 8, {}))

-----------------------------------------------------------------------------
(***************************************************************************)
(* readU32 after n + 1 bytes: the bits kept of the word so far, and the    *)
(* next char, shifted into place with all its sign bits.                   *)
(***************************************************************************)
\* Mutant of Word: r |= *_cur << 7 * n, without the mask.
WordUnmasked ==
    LET r[n \in Nat] ==
          IF n = 0 THEN Char(cur) ELSE r[n - 1] \cup Shl(Char(cur + n), 7 * n)
    IN  r

Word ==
    LET r[n \in Nat] ==
          IF n = 0 THEN Char(cur)
          ELSE (r[n - 1] \cap (0..(7 * n - 1))) \cup Shl(Char(cur + n), 7 * n)
    IN  r

\* After n bytes: the next one is not there, or the word has no bit that
\* asks for it (r >> 7 * n is 0), or n is 5.
Stops(n) ==
    \/ ~InRange(buf, cur + n)
    \/ Word[n - 1] \cap ((7 * n)..31) = {}
    \/ n = 5

Length == Min({n \in 1..5 : Stops(n)})

Varint(read, width) ==
    IF InRange(buf, cur + Length)
    THEN Returned(read, Word[Length - 1] \cap (0..(width - 1)), cur + Length)
    ELSE Threw(read, cur + Length - 1)

ReadU32 == Do(Varint("u32", 32))

\* Mutant of ReadU30: the two upper bits are kept.
ReadU30Unmasked == Do(Varint("u30", 32))

\* 0x3fffffff & readU32()
ReadU30 == Do(Varint("u30", 30))

\* Mutant of ReadString: the length is believed.
ReadStringUnchecked ==
    LET length == Varint("string", 30)
    IN  IF length.ok THEN Do(Returned("string", {}, length.end + U30At(buf, cur)))
                     ELSE Do(length)

\* A length, and as many bytes if they are all there.
ReadString ==
    LET length == Varint("string", 30)
        end    == length.end + U30At(buf, cur)
    IN  IF ~length.ok THEN Do(length)
        ELSE IF InRange(buf, end) THEN Do(Returned("string", {}, end))
        ELSE Do(Threw("string", length.end))

\* pos(value): no test; the next read will throw if there is nothing there.
Pos(value) == Do(Returned("pos", {}, value))

ReaderNext ==
    \/ ReadU8
    \/ ReadU16
    \/ ReadU32
    \/ ReadU30
    \/ ReadS24
    \/ ReadD64
    \/ ReadString
    \/ \E value \in Seeks : Pos(value)

ReaderSpec == ReaderInit /\ [][ReaderNext]_readerVars

-----------------------------------------------------------------------------
(***************************************************************************)
(* Properties.                                                             *)
(***************************************************************************)

\* Values are 32-bit words, cursors are offsets.
TypeOK ==
    /\ buf \in Buffers
    /\ signed \in BOOLEAN
    /\ cur \in Nat
    /\ last.val \subseteq WordBits
    /\ last.ok \in BOOLEAN
    /\ last.end = cur
    /\ calls \in 0..MaxCalls

IsRead == last.read \notin {"none", "pos"}

\* No read, whether it returns or throws, dereferences a byte that is not in
\* the buffer, wherever pos(value) has put the cursor.
ReadsInBounds ==
    IsRead => last.from..(last.end - 1) \subseteq 0..(Len(buf) - 1)

(***************************************************************************)
(* What readU32 should read: groups of seven bits, the lowest first, up to *)
(* the first byte below 128 or the fifth.                                  *)
(***************************************************************************)
Encoded(from) ==
    Min({n \in 1..5 : from + n > Len(buf) \/ n = 5 \/ ByteAt(buf, from + n - 1) < 128})

EncodedBits(from) ==
    UNION {{7 * i + j : j \in BitsOf[ByteAt(buf, from + i)] \cap (0..6)} :
              i \in 0..(Encoded(from) - 1)}

\* readU32 and readU30 decode every encoding, of one to five bytes, with a
\* signed char as with an unsigned one: the sign bits never get into the word
\* and never make the loop read on.
VarintExact ==
    last.ok /\ last.read \in {"u30", "u32"} =>
        /\ last.end = last.from + Encoded(last.from)
        /\ last.val = EncodedBits(last.from)
                        \cap (0..(IF last.read = "u30" THEN 29 ELSE 31))

\* The two's complement of an integer of less than 31 bits.
Complement(n) ==
    LET bits(k) == {i \in 0..30 : (k \div 2^i) % 2 = 1}
    IN  IF n >= 0 THEN bits(n) ELSE WordBits \ bits(-n - 1)

\* The operators of module ABCReader, on which the disassembler's model is
\* built, read the same values, move as far and throw in the same cases.
AgreesWithABCReader ==
    /\ last.read = "u30" =>
         /\ last.ok <=> InRange(buf, AfterU30(buf, last.from))
         /\ last.ok => last.end = AfterU30(buf, last.from)
         /\ last.ok => last.val = Complement(U30At(buf, last.from))
    /\ last.read = "s24" =>
         /\ last.ok <=> InRange(buf, AfterS24(last.from))
         /\ last.ok => last.val = Complement(S24At(buf, last.from))

\* ABCReader.h: readS24 reads a "3-byte fixed length signed integer".  (It
\* does not: the load of the lower two bytes is signed as well.)
S24IsSigned ==
    last.ok /\ last.read = "s24" =>
        last.val = SignExtend(
            UNION {Shl(BitsOf[ByteAt(buf, last.from + i)], 8 * i) : i \in 0..2}, 24)

=============================================================================

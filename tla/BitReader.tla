------------------------------ MODULE BitReader ------------------------------
(***************************************************************************)
(* Class DataReader (src/DataReader.cpp): fields of bits, which cross byte *)
(* boundaries, mixed with reads of bytes.  A client opens a reader on a    *)
(* buffer and calls reads, as many as it likes.                            *)
(*                                                                         *)
(* No read tests the end of the buffer; the memory behind it holds         *)
(* anything, here the same byte everywhere.  Left out: the value of        *)
(* readD64 and the text of a string.                                       *)
(***************************************************************************)
EXTENDS Words, Sequences, FiniteSetsExt

CONSTANTS
    Buffers,    \* the byte strings a reader is opened on
    Behind,     \* the bytes that may lie behind them
    Sizes,      \* the widths of the fields a client reads
    Lengths     \* the lengths a client passes to read

ASSUME BuffersAssumption == Buffers \subseteq Seq(0..255)

ASSUME BehindAssumption == Behind \subseteq 0..255

\* The result of a field is a uint32_t or an int.
ASSUME SizesAssumption == Sizes \subseteq 0..32

ASSUME LengthsAssumption == Lengths \subseteq Nat

VARIABLES
    buf,        \* the bytes from _cur, as it was at first, to _end
    behind,     \* the bytes from _end on
    signed,     \* char is a signed type in this build
    cur,        \* _cur, from the beginning of buf
    bit,        \* _bit
    last        \* history: the last read, where it began, what it gave

vars == <<buf, behind, signed, cur, bit, last>>

ByteAt(p) == IF p < Len(buf) THEN buf[p + 1] ELSE behind

\* *_cur, converted to an int.
Char(p) == LET bits == BitsOf[ByteAt(p)]
           IN  IF signed THEN SignExtend(bits, 8) ELSE bits

Init ==
    /\ buf \in Buffers
    /\ behind \in Behind
    /\ signed \in BOOLEAN
    /\ cur = 0
    /\ bit = 0
    /\ last = [read |-> "none", size |-> 0, from |-> 0, vals |-> <<>>]

-----------------------------------------------------------------------------
(***************************************************************************)
(* Reads as operators: from a place (a byte and a bit in it) to a value    *)
(* and the place behind.                                                   *)
(***************************************************************************)
Got(val, c, b) == [val |-> val, cur |-> c, bit |-> b]

\* The rest of the byte at c, from bit b on, and i whole bytes behind it.
Whole(c, b) ==
    LET word[i \in Nat] == IF i = 0 THEN BitsOf[ByteAt(c)] \cap (0..(7 - b))
                           ELSE Shl(word[i - 1], 8) \cup Char(c + i)
    IN  word

\* Mutant of Crossing: the last byte is only read if there are bits in it.
CrossingShort(c, b, n) ==
    LET rest  == n - (8 - b)
        whole == IF rest % 8 = 0 THEN rest \div 8 - 1 ELSE rest \div 8
        tail  == rest - 8 * whole
    IN  Got(Shl(Whole(c, b)[whole], tail) \cup Sar(Char(c + whole + 1), 8 - tail),
            c + whole + 1, tail)

\* readUB over a byte boundary: the rest of the first byte, whole bytes, and
\* the head of one more, which is looked at even if no bit of it is wanted.
Crossing(c, b, n) ==
    LET rest  == n - (8 - b)
        whole == rest \div 8
        tail  == rest % 8
    IN  Got(Shl(Whole(c, b)[whole], tail) \cup Sar(Char(c + whole + 1), 8 - tail),
            c + whole + 1, tail)

UB(c, b, n) ==
    IF b + n > 8 THEN Crossing(c, b, n)
    ELSE Got(Shr(BitsOf[ByteAt(c)] \cap (0..(7 - b)), 8 - b - n),
             c + (b + n) \div 8, (b + n) % 8)

\* For n = 0 the code shifts by -1; but then the word is 0 and stays it.  The
\* processor takes the count of a shift modulo 32 (x86): with n = 32 a word with
\* its sign bit set becomes -1.
SB(c, b, n) ==
    LET v == UB(c, b, n)
    IN  IF Shr(v.val, n - 1) # {} THEN [v EXCEPT !.val = ((n % 32)..31) \cup @] ELSE v

Number(word) == SumFunction([i \in word |-> 2^i])

\* Five bits say how wide the four coordinates are.
RECT(c, b) ==
    LET head == UB(c, b, 5)
        n    == Number(head.val)
        xmin == SB(head.cur, head.bit, n)
        xmax == SB(xmin.cur, xmin.bit, n)
        ymin == SB(xmax.cur, xmax.bit, n)
        ymax == SB(ymin.cur, ymin.bit, n)
    IN  [ymax EXCEPT !.val = <<xmin.val, xmax.val, ymin.val, ymax.val>>]

\* Mutant of Aligned: the next byte, even if no bit of this one is taken.
AlignedAlways(c, b) == c + 1

\* align(): the byte where the next aligned read begins.
Aligned(c, b) == IF b > 0 THEN c + 1 ELSE c

\* A load of size bytes, the lowest first.
Load(c, size) ==
    Got(UNION {Shl(BitsOf[ByteAt(c + i)], 8 * i) : i \in 0..(size - 1)},
        c + size, 0)

\* For the mutant of UI29: the word so far is not masked.
VarintUnmasked(c, Goes(_, _)) ==
    LET word[n \in Nat] ==
          IF n = 0 THEN Char(c) ELSE word[n - 1] \cup Shl(Char(c + n), 7 * n)
        length == Min({n \in 1..5 : n = 5 \/ ~Goes(word[n - 1], n)})
    IN  Got(word[length - 1], c + length, bit)

(***************************************************************************)
(* One to five bytes.  The word after n of them says whether it goes on;   *)
(* a char is shifted into place with all its sign bits, and the next step  *)
(* masks them.  These reads do not align: they leave _bit as it is.        *)
(***************************************************************************)
Chars(c) ==
    LET word[n \in Nat] ==
          IF n = 0 THEN Char(c)
          ELSE (word[n - 1] \cap (0..(7 * n - 1))) \cup Shl(Char(c + n), 7 * n)
    IN  word

Varint(c, Goes(_, _)) ==
    LET length == Min({n \in 1..5 : n = 5 \/ ~Goes(Chars(c)[n - 1], n)})
    IN  Got(Chars(c)[length - 1], c + length, bit)

\* Mutant of UI29: the sign bits of a char survive the next one.
UI29Unmasked(c) == LET Goes(word, n) == Shr(word, 7 * n) # {} IN VarintUnmasked(c, Goes)

\* readUI29 shifts the word, readU32 tests one bit of it.
UI29(c) == LET Goes(word, n) == Shr(word, 7 * n) # {} IN Varint(c, Goes)
U32(c)  == LET Goes(word, n) == 7 * n \in word IN Varint(c, Goes)
U30(c)  == LET v == U32(c) IN [v EXCEPT !.val = @ \cap (0..29)]

-----------------------------------------------------------------------------
\* Bound of the model: a client does not go on behind the end.
Do(read, size, vals, got) ==
    /\ cur <= Len(buf)
    /\ cur' = got.cur
    /\ bit' = got.bit
    /\ last' = [read |-> read, size |-> size, from |-> 8 * cur + bit,
                vals |-> vals]
    /\ UNCHANGED <<buf, behind, signed>>

Align == Do("align", 0, <<>>, Got({}, Aligned(cur, bit), 0))

ReadUB(n) == LET got == UB(cur, bit, n) IN Do("UB", n, <<got.val>>, got)
ReadSB(n) == LET got == SB(cur, bit, n) IN Do("SB", n, <<got.val>>, got)

\* Rectangles are byte aligned, and load, the only caller, reads one first.
ReadRECT  == bit = 0 /\ LET got == RECT(cur, bit) IN Do("RECT", 0, got.val, got)

ReadUI16 == LET got == Load(Aligned(cur, bit), 2) IN Do("UI16", 16, <<got.val>>, got)
ReadUI32 == LET got == Load(Aligned(cur, bit), 4) IN Do("UI32", 32, <<got.val>>, got)

ReadUI29 == LET got == UI29(cur) IN Do("UI29", 0, <<got.val>>, got)
ReadU32  == LET got == U32(cur)  IN Do("U32", 0, <<got.val>>, got)
ReadU30  == LET got == U30(cur)  IN Do("U30", 0, <<got.val>>, got)

\* Bytes, from _cur on, whatever _bit says.
ReadU8 == Do("U8", 8, <<BitsOf[ByteAt(cur)]>>, Got({}, cur + 1, bit))
ReadD64 == Do("D64", 64, <<>>, Got({}, cur + 8, bit))
Read(length) == Do("read", length, <<>>, Got({}, cur + length, bit))
ReadString ==
    LET length == U30(cur)
        end    == length.cur + Number(length.val)
    IN  Do("string", 0, <<>>, Got({}, end, bit))

Next ==
    \/ Align
    \/ \E n \in Sizes : ReadUB(n)
    \/ \E n \in Sizes : ReadSB(n)
    \/ ReadRECT
    \/ ReadUI16
    \/ ReadUI32
    \/ ReadUI29
    \/ ReadU32
    \/ ReadU30
    \/ ReadU8
    \/ ReadD64
    \/ \E length \in Lengths : Read(length)
    \/ ReadString

Spec == Init /\ [][Next]_vars

-----------------------------------------------------------------------------
(***************************************************************************)
(* Properties.                                                             *)
(***************************************************************************)

Here == 8 * cur + bit

\* The reference: the file as one string of bits, the highest of a byte first.
StreamBit(k) == 7 - (k % 8) \in BitsOf[ByteAt(k \div 8)]
Field(from, n) == {n - 1 - i : i \in {j \in 0..(n - 1) : StreamBit(from + j)}}
SignedField(from, n) == SignExtend(Field(from, n), n)

Width(from) == Number(Field(from, 5))
NextByte(k) == (k + 7) \div 8

\* Reads that follow each other leave nothing out and take nothing twice: a
\* field of n bits moves the reader by n bits, over any number of bytes, and a
\* rectangle by the fields it is made of; aligned reads begin at the next
\* whole byte.
CursorExact ==
    CASE last.read \in {"UB", "SB"} -> Here = last.from + last.size
      [] last.read = "RECT" -> Here = last.from + 5 + 4 * Width(last.from)
      [] last.read \in {"align", "UI16", "UI32"} ->
           Here = 8 * NextByte(last.from) + last.size
      [] OTHER -> bit = last.from % 8

\* Chars after the first one of a field, up to the one behind it, that are
\* not negative.  With them, or with an unsigned char, sign bits do no harm.
NoSigns(from, to) == \A p \in (from \div 8 + 1)..(to \div 8) : ByteAt(p) < 128

\* A field, signed or not, and each coordinate of a rectangle, is the number
\* its bits spell, wherever it begins and however many bytes it crosses; it
\* does not depend on what follows it.  (Not so with negative chars: see
\* UnsignedIsZeroExtended; nor of a negative number of 32 bits, see SB.)
FieldExact ==
    last.read \in {"UB", "SB", "RECT"} /\ (~signed \/ NoSigns(last.from, Here)) =>
      CASE last.read = "UB" -> last.vals = <<Field(last.from, last.size)>>
        [] last.read = "SB" ->
             last.size < 32 \/ ~StreamBit(last.from) =>
               last.vals = <<SignedField(last.from, last.size)>>
        [] last.read = "RECT" ->
             LET n == Width(last.from)
             IN  last.vals = [i \in 1..4 |-> SignedField(last.from + 5 + (i - 1) * n, n)]

\* Groups of seven bits, the lowest first, up to a byte below 128 or the fifth.
EncodedLength(p) == Min({n \in 1..5 : n = 5 \/ ByteAt(p + n - 1) < 128})
Encoded(p) ==
    (UNION {{7 * i + j : j \in BitsOf[ByteAt(p + i)] \cap (0..6)} :
              i \in 0..(EncodedLength(p) - 1)}) \cap WordBits

\* The two ways to decode an integer of variable length agree with each other
\* and with the encoding, also when char is signed.
VarintExact ==
    last.read \in {"UI29", "U32", "U30"} =>
      LET p == last.from \div 8
      IN  /\ cur = p + EncodedLength(p)
          /\ last.vals = <<Encoded(p) \cap (0..(IF last.read = "U30" THEN 29 ELSE 31))>>

\* SWF file format specification, "Bit values": "When an unsigned-bit value is
\* expanded into a larger word size, the leftmost bits are filled with zeros."
UnsignedIsZeroExtended ==
    last.read = "UB" => last.vals[1] \subseteq 0..(last.size - 1)

=============================================================================

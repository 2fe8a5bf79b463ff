------------------------------ MODULE ABCReader ------------------------------
(***************************************************************************)
(* The primitive reads of class ABCReader (src/ABCReader.cpp) as operators *)
(* on a byte string and a cursor.  A byte string is a sequence of 0..255;  *)
(* a cursor is an offset from _start, so the byte at offset p is buf[p+1]  *)
(* and _end is at offset Len(buf).                                         *)
(*                                                                         *)
(* A read at p has a value (U30At, S24At) and leaves the cursor behind it  *)
(* (AfterU30 and so on).  It throws OOR_EXCEPTION_MESSAGE ("data ptr out   *)
(* of range") exactly when that would be beyond _end.  As cursors only     *)
(* grow, a chain of reads has thrown exactly when the cursor computed for  *)
(* its end is not InRange.  ABCReaderWords.tla models the same reads bit   *)
(* by bit (signed char, 32-bit words) and checks that both agree.          *)
(***************************************************************************)
EXTENDS Integers, Sequences

Byte == 0..255

ByteAt(buf, p) == buf[p + 1]

InRange(buf, p) == p <= Len(buf)

AfterU8(p) == p + 1

-----------------------------------------------------------------------------
(***************************************************************************)
(* readU30: one to five bytes, seven bits each, the eighth bit announces   *)
(* another byte.  The code tests the bounds before every byte it reads.    *)
(***************************************************************************)

\* The first k bytes at p exist and each of them announces a next one.
Continues(buf, p, k) ==
    \A i \in 0..(k - 1) : InRange(buf, p + i + 1) /\ ByteAt(buf, p + i) >= 128

\* How many bytes readU32 reads (or tries to read) at p.
VarLen(buf, p) ==
    IF ~Continues(buf, p, 1) THEN 1
    ELSE IF ~Continues(buf, p, 2) THEN 2
    ELSE IF ~Continues(buf, p, 3) THEN 3
    ELSE IF ~Continues(buf, p, 4) THEN 4
    ELSE 5

AfterU30(buf, p) == p + VarLen(buf, p)

\* The i-th group of bits; 0x3fffffff keeps two bits of the fifth byte.
Group(buf, p, i) ==
    IF Continues(buf, p, i)
    THEN ByteAt(buf, p + i) % (IF i = 4 THEN 4 ELSE 128)
    ELSE 0

U30At(buf, p) ==
    Group(buf, p, 0) + 128 * Group(buf, p, 1) + 16384 * Group(buf, p, 2)
      + 2097152 * Group(buf, p, 3) + 268435456 * Group(buf, p, 4)

-----------------------------------------------------------------------------
(***************************************************************************)
(* readS24: the third byte shifted left by 16, or'ed with a load of the    *)
(* first two through an int16_t pointer.  That load is SIGNED: when bit 15 *)
(* is set, its sign fills the upper half of the word and the third byte is *)
(* lost.                                                                   *)
(***************************************************************************)
AfterS24(p) == p + 3

SignedByte(b) == IF b >= 128 THEN b - 256 ELSE b

S24At(buf, p) ==
    LET low == ByteAt(buf, p) + 256 * ByteAt(buf, p + 1)
    IN  IF low >= 32768 THEN low - 65536
        ELSE 65536 * SignedByte(ByteAt(buf, p + 2)) + low

=============================================================================

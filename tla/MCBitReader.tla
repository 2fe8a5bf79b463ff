----------------------------- MODULE MCBitReader -----------------------------
(***************************************************************************)
(* Buffers of three bytes out of four: 90 has bits on both sides of every  *)
(* boundary, 127 and 128 differ in the sign and in every other bit, 255    *)
(* has all of them.  The longer ones hold a rectangle: the header of       *)
(* src/examples (15 bits a coordinate), one of 11 bits, whose first field  *)
(* ends with a byte, and one of 31.                                        *)
(***************************************************************************)
EXTENDS BitReader

Short == [1..3 -> {90, 127, 128, 255}]

Rectangles == {<<120, 0, 6, 239, 0, 0, 10, 40, 0>>,
               <<88, 113, 128, 197, 64, 37, 153>>,
               <<250, 85, 90, 165, 15, 240, 51, 204, 102, 153, 60, 195, 17, 238, 119, 136, 1>>}

MCBuffers == Short \cup Rectangles

MCSizes == {0, 1, 5, 7, 8, 13, 16, 31, 32}

=============================================================================

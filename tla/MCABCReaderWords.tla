-------------------------- MODULE MCABCReaderWords --------------------------
(***************************************************************************)
(* Every byte string of up to five bytes that matter: 1 ends an encoding,  *)
(* 127 has all bits of a group, 128 announces another byte and adds        *)
(* nothing, 255 has all bits, the sign included.                           *)
(***************************************************************************)
EXTENDS ABCReaderWords

MCBuffers == UNION {[1..n -> {1, 127, 128, 255}] : n \in 0..5}

\* Long enough for a double and a string, and no more than that.
MCLong == {[i \in 1..n |-> i] : n \in 8..9}

MCAllBuffers == MCBuffers \cup MCLong

MCSeeks == {1, 4, 7}

=============================================================================

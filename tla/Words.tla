-------------------------------- MODULE Words --------------------------------
(***************************************************************************)
(* 32-bit words for the readers: a word is the set of its one bits, so     *)
(* that | is \cup and & is \cap.                                           *)
(***************************************************************************)
EXTENDS Integers

WordBits == 0..31
BitsOf == [b \in 0..255 |-> {i \in 0..7 : (b \div 2^i) % 2 = 1}]

\* Mutant of Shl: the word grows.
ShlWide(w, n) == {i + n : i \in w}

Shl(w, n) == {i + n : i \in w} \cap WordBits

\* >> of an unsigned word.
Shr(w, n) == {i - n : i \in {j \in w : j >= n}}

\* >> of an int: the sign moves in from the left.
Sar(w, n) == IF 31 \in w THEN Shr(w, n) \cup ((32 - n)..31) ELSE Shr(w, n)

\* Bits low..31 are copies of bit low - 1.
SignExtend(w, low) == IF low - 1 \in w THEN w \cup (low..31) ELSE w

=============================================================================

--------------------------- MODULE MCDisassembler ---------------------------
(***************************************************************************)
(* Small instances of Disassembler for TLC: every code that can be built   *)
(* by concatenating a few encodings from a menu, so that a jump can land   *)
(* on an instruction, inside one, on itself or outside the code.           *)
(***************************************************************************)
EXTENDS Disassembler, ConstantPool

\* A pool whose entries end in every way an access can.
MCPool ==
    [strings |-> <<"s">>, ints |-> <<1>>, uints |-> <<>>, doubles |-> <<>>,
     namespaces |-> <<[kind |-> 8, name |-> 1]>>, namespaceSets |-> <<>>,
     multinames |-> <<[kind |-> 7, name |-> 1, ns |-> 1],
                      [kind |-> 29, name |-> 1, params |-> <<2>>],
                      [kind |-> 7, name |-> 2, ns |-> 9]>>]

MCLookup(via, index) == PoolLookup(MCPool, via, index)

Plain   == {<<45, 1>>, <<71>>}               \* pushint 1, returnvoid
Names   == {<<96, 2>>, <<96, 3>>, <<96, 9>>} \* getlex: cyclic, bad string, none
Garbled == {<<255>>, <<36>>}                 \* no opcode, operand cut short

\* Offsets: over one byte, to itself, to its own offset, and one with bit 15
\* set, which lands far outside the code.
Jumps   == {<<16, 1, 0, 0>>, <<16, 252, 255, 255>>, <<16, 253, 255, 255>>,
            <<16, 0, 128, 0>>}
Tests   == {<<17, 1, 0, 0>>, <<17, 251, 255, 255>>}

\* Default and one case, default and two cases, and one that announces three
\* cases but has one: the next two are taken from what follows, if anything.
Switches == {<<27, 8, 0, 0, 0, 0, 0, 0>>, <<27, 1, 0, 0, 1, 11, 0, 0, 12, 0, 0>>,
             <<27, 1, 0, 0, 2, 8, 0, 0>>}

Menu == Plain \cup Names \cup Garbled \cup Jumps \cup Tests \cup Switches

Two   == {a \o b : a, b \in Menu}
Three == {a \o b : a \in Menu, b \in Two}

\* A smaller menu, for temporal properties; it begins with a debug.
Few == {<<239, 0, 1, 0, 1>>, <<71>>, <<96, 1>>, <<96, 9>>, <<96, 2>>, <<36>>, <<16, 252, 255, 255>>,
        <<17, 251, 255, 255>>, <<27, 8, 0, 0, 0, 0, 0, 0>>}
FewThree == {a \o b \o c : a, b, c \in Few}

MCStarts == {0, 1, 4}

=============================================================================

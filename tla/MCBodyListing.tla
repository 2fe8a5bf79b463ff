--------------------------- MODULE MCBodyListing ---------------------------
(***************************************************************************)
(* Instances of BodyListing for TLC: two bodies, the first of any three of *)
(* a few encodings, with handlers on, in and behind instructions.          *)
(***************************************************************************)
EXTENDS BodyListing, ConstantPool

MCPool ==
    [strings |-> <<"s">>, ints |-> <<>>, uints |-> <<>>, doubles |-> <<>>,
     namespaces |-> <<>>, namespaceSets |-> <<>>,
     multinames |-> <<[kind |-> 7, name |-> 1, ns |-> 0],
                      [kind |-> 29, name |-> 1, params |-> <<2>>]>>]

MCLookup(via, index) == PoolLookup(MCPool, via, index)

\* returnvoid, getlex of a name, of none, of a cycle; no opcode, one cut
\* short, a jump over a byte and a branch back to itself.
Few == {<<71>>, <<96, 1>>, <<96, 9>>, <<96, 2>>, <<255>>, <<36>>, <<16, 1, 0, 0>>, <<17, 252, 255, 255>>}
Three == {a \o b \o c : a, b, c \in Few}

Handler1(target, type) == [from |-> 0, to |-> 1, target |-> target, type |-> type, name |-> 0]

Handlers ==
    {<<>>, <<Handler1(1, 0)>>, <<Handler1(2, 1), Handler1(0, 0)>>,
     <<Handler1(4, 0), Handler1(1, 0)>>, <<Handler1(9, 0), Handler1(1, 0)>>, <<Handler1(1, 9)>>}

Body(c, handlers) == [code |-> c, exceptions |-> handlers]

MCBodyLists ==
    {<<Body(c, h), Body(<<71>>, <<Handler1(0, 0)>>)>> : c \in Three, h \in Handlers} \cup {<<>>}

=============================================================================

----------------------------- MODULE MCPoolText -----------------------------
(***************************************************************************)
(* Instances of PoolText for TLC: every pool of three multinames from a    *)
(* menu of plain names, bad references and TypeNames, and some long pools  *)
(* each name of which names the next, which the stack need not have room   *)
(* for; with one string, one namespace of a known kind and one of an       *)
(* unknown kind, and one set.                                              *)
(***************************************************************************)
EXTENDS PoolText

Name(kind, name, ns) == [kind |-> kind, name |-> name, ns |-> ns]
Multi(name, nsset)   == [kind |-> 9, name |-> name, nsset |-> nsset]
Type(name, params)   == [kind |-> TypeName, name |-> name, params |-> params]

Plain == {Name(7, 1, 1), Name(13, 1, 0), Name(7, 2, 3), Multi(1, 2), Multi(0, 1), [kind |-> 18]}
Types == {Type(n, p) : n \in {1, 3}, p \in {<<2>>, <<1, 2>>, <<0, 3>>}}

Pool(names) ==
    [strings |-> <<"s">>, ints |-> <<1>>, uints |-> <<>>, doubles |-> <<>>,
     namespaces |-> <<[kind |-> 8, name |-> 1], [kind |-> 99, name |-> 1]>>,
     namespaceSets |-> << <<1>> >>, multinames |-> names]

Chain(length, last, params) ==
    [i \in 1..length |-> IF i = length THEN last ELSE Type(i + 1, params)]

MCPools ==
    {Pool(<<a, b, c>>) : a, b, c \in Plain \cup Types} \cup
    {Pool(Chain(length, last, params)) :
       length \in 6..9, last \in Plain, params \in {<<>>, <<0>>, <<6>>}}

Option(kind, val) == [kind |-> kind, val |-> val]

MCQueries ==
    {Call(fn, i) : fn \in Recursive, i \in {0, 3, 4}} \cup
    {Call("getNamespace", i) : i \in {1, 2, 3}} \cup
    {Call("getMethodOptionHRF", o) :
       o \in {Option(1, 1), Option(1, 2), Option(1, 3), Option(3, 1), Option(4, 1), Option(6, 0),
              Option(12, 9), Option(8, 1)}}

=============================================================================

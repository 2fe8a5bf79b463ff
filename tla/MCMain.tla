------------------------------- MODULE MCMain -------------------------------
(***************************************************************************)
(* Instances of Main for TLC: lists of a FileAttributes, a DoABC2 and      *)
(* another tag, in two orders, with all that can be wrong in the first two.*)
(* A DoABC2 tag holds real bytes; that the reader returns what a file was  *)
(* written from, and nothing else, is what ABCParse is checked for.        *)
(***************************************************************************)
EXTENDS Main, ABCFormat

NoEntries == [t \in Range(TableOrder) |-> <<>>] @@ [version |-> [minor |-> 16, major |-> 46]]

\* Multinames: a QName, a QNameA, Vector.<1>, a cycle, a name with no string,
\* and one TypeName more than the stack has room for.
Base ==
    [NoEntries EXCEPT
       !.ints = << <<5>> >>,
       !.strings = << <<65>>, <<66>> >>,
       !.namespaces = << [kind |-> 8, name |-> 1], [kind |-> 9, name |-> 1] >>,
       !.multinames = << [kind |-> 7, ns |-> 1, name |-> 1], [kind |-> 13, ns |-> 2, name |-> 1],
                         [kind |-> 29, name |-> 1, params |-> <<1>>],
                         [kind |-> 29, name |-> 1, params |-> <<3, 4>>],
                         [kind |-> 7, ns |-> 1, name |-> 3],
                         [kind |-> 29, name |-> 1, params |-> <<3>>] >>]

Option(kind, val) == [val |-> val, kind |-> kind]
Param(type, name) == [type |-> type, name |-> name]

Method(params, flags, options) ==
    [params |-> params, returnType |-> 0, name |-> 2, flags |-> flags, options |-> options]

Two == <<Param(1, 0), Param(3, 0)>>
Null == Option(12, 7)

Methods ==
    {Method(<<Param(t, 0)>>, 0, <<>>) : t \in {1, 2, 4, 6, 9}} \cup
    {Method(<<Param(1, n)>>, 128, <<>>) : n \in {1, 2, 9}} \cup
    {Method(Two, 8, o) : o \in {<<>>, <<Null>>, <<Null, Null>>, <<Null, Null, Null>>}} \cup
    {Method(Two, 8, <<Option(k, v)>>) : k \in {1, 3, 4, 8}, v \in {1, 3}} \cup
    {[Method(Two, 0, <<>>) EXCEPT !.name = n] : n \in {3, 4}} \cup
    {[Method(<<>>, 0, <<>>) EXCEPT !.returnType = r] : r \in {1, 2}}

Instance(name, super, flags, ns, interfaces, traits) ==
    [name |-> name, super |-> super, flags |-> flags, protectedNS |-> ns,
     interfaces |-> interfaces, iinit |-> 1, traits |-> traits]

TraitOf(name) ==
    [name |-> name, kind |-> 17, data |-> [dispID |-> 1, method |-> 1], metadata |-> <<>>]

Instances ==
    {Instance(n, 0, 0, 0, <<>>, <<>>) : n \in {0, 1, 2, 5, 9}} \cup
    {Instance(1, s, 0, 0, <<>>, <<>>) : s \in {1, 3, 4, 6}} \cup
    {Instance(1, 0, 8, n, <<>>, <<>>) : n \in {0, 1, 2, 9}} \cup
    {Instance(1, 1, 8, 1, <<1, i>>, <<TraitOf(1), TraitOf(t)>>) : i \in {1, 5}, t \in {1, 2}}

Sane == Method(Two, 8, <<Null>>)
Class == [cinit |-> 1, traits |-> <<>>]

Abcs ==
    {[Base EXCEPT !.methods = <<m>>] : m \in Methods} \cup
    {[Base EXCEPT !.methods = <<Sane, m>>] : m \in Methods} \cup
    {[Base EXCEPT !.methods = <<Sane>>, !.instances = <<n>>, !.classes = <<Class>>] : n \in Instances} \cup
    {[Base EXCEPT !.instances = <<Instance(1, 0, 0, 0, <<>>, <<>>), n>>,
                  !.classes = <<Class, Class>>] : n \in Instances}

AbcBytes(f) == Spelling(WriteFile(f, {}))
AbcIn == [bytes \in {AbcBytes(f) : f \in Abcs} |-> CHOOSE f \in Abcs : AbcBytes(f) = bytes]

MCReadable(bytes) == bytes \in DOMAIN AbcIn
MCParsed(bytes) == AbcIn[bytes]

-----------------------------------------------------------------------------
TagOf(type, content) == [type |-> type, content |-> content]

AttributesTags ==
    {TagOf(69, <<b, 0, 0, 0>>) : b \in {0, 1, 8, 25, 96, 121, 128, 132, 2}} \cup
    {TagOf(69, <<8, 0, 1, 0>>), TagOf(69, <<>>), TagOf(69, <<9>>), TagOf(69, <<8, 0, 0>>)}

AbcTag(name, f) == TagOf(82, <<1, 0, 0, 0>> \o name \o <<0>> \o AbcBytes(f))

Bad == {TagOf(82, <<>>), TagOf(82, <<1, 0, 0, 0, 65>>), TagOf(82, <<1, 0, 0, 0, 65, 66, 67, 0, 16, 0>>)}

Attribute == TagOf(69, <<9, 0, 0, 0>>)
Other == TagOf(9, <<255>>)
SaneAbc == AbcTag(<<65, 66>>, [Base EXCEPT !.methods = <<Sane>>])

MCTagLists ==
    {<<a, SaneAbc, Other>> : a \in AttributesTags} \cup
    {<<a, Other, SaneAbc>> : a \in AttributesTags} \cup
    {<<Attribute, AbcTag(<<>>, f), Other>> : f \in Abcs} \cup
    {<<AbcTag(<<65>>, f), SaneAbc, Attribute>> : f \in Abcs} \cup
    {<<Other, b>> : b \in Bad}

=============================================================================

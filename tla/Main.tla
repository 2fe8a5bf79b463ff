-------------------------------- MODULE Main --------------------------------
(***************************************************************************)
(* main (src/main.cpp), after SWFFile::load has returned true: a loop over *)
(* the tags, which prints the attributes of the file, reads the ABC file   *)
(* of every DoABC2 tag and prints its methods, metadata and instances, and *)
(* names all other tags.  One action is the beginning of a tag, a printed  *)
(* line, or an exception or fault, which ends the process: main catches    *)
(* nothing.                                                                *)
(*                                                                         *)
(* A line is kept as what it is about; lines that look nothing up (counts, *)
(* headings, flags, the tables of numbers and strings) are left out.  The  *)
(* loop over the bodies, behind a continue, is module BodyListing.         *)
(***************************************************************************)
EXTENDS ConstantPool

CONSTANTS
    TagLists,      \* what load may have found in a file
    Junk,          \* the bytes that memory behind a content may hold
    Readable(_),   \* whether ABCReader::read returns, for given bytes,
    Parsed(_)      \* and what: see ABCParse

\* SWFTag: a uint8_t and a std::string.
ASSUME TagListsAssumption ==
    TagLists \subseteq Seq([type : 0..255, content : Seq(0..255)])

VARIABLES
    tags,     \* swf.tags
    tag,      \* the index of the iterator, Len(tags) + 1 at the end
    pc,       \* "tag" at the head of the loop, "dump" in an ABC file;
              \* "done" and "died" are final
    given,    \* the bytes handed to the reader for the last DoABC2 tag
    todo,     \* the lines of the ABC file that are still to be printed
    shown     \* history: what has been printed

vars == <<tags, tag, pc, given, todo, shown>>

Bit(byte, k) == (byte \div 2^k) % 2
HasBit(flags, k) == Bit(flags, k) = 1

-----------------------------------------------------------------------------
(***************************************************************************)
(* SWFTagFileAttributes::set, strict as main calls it.  It reads the first *)
(* four bytes of the content, which need not be there: a std::string ends  *)
(* with a 0, and what is behind that is any byte.                          *)
(***************************************************************************)
ContentByte(content, i) ==
    IF i < Len(content) THEN {content[i + 1]}
    ELSE IF i = Len(content) THEN {0}
    ELSE Junk

\* & 0x86
Reserved(byte) == \E k \in {1, 2, 7} : HasBit(byte, k)

\* Mutant of Attributes: the shifts begin one bit too high.
AttributesShifted(byte) ==
    [useDirectBlit |-> Bit(byte, 7), useGPU |-> Bit(byte, 6), hasMetadata |-> Bit(byte, 5),
     actionScript3 |-> Bit(byte, 4), useNetwork |-> Bit(byte, 0)]

Attributes(byte) ==
    [useDirectBlit |-> Bit(byte, 6), useGPU |-> Bit(byte, 5), hasMetadata |-> Bit(byte, 4),
     actionScript3 |-> Bit(byte, 3), useNetwork |-> Bit(byte, 0)]

-----------------------------------------------------------------------------
(***************************************************************************)
(* Lines of an ABC file.  "ends" holds the ways the lookups of the line    *)
(* can end; they are arguments of one call, made in any order.             *)
(***************************************************************************)
Printing(of, default, ways) ==
    [of |-> of, default |-> default,
     ends |-> ((UNION ways) \ Text) \cup {e \in Text : \A w \in ways : e \in w}]

Plain(of, ways) == Printing(of, 0, {ways})

\* Mutant of DefaultOf: defaults belong to the first parameters.
DefaultOfFirst(m, j) ==
    IF HasBit(m.flags, 3) /\ j <= Len(m.options) THEN j ELSE 0

\* The index of the default of the j-th parameter, from 1, or 0: size_t
\* arithmetic, which wraps if there are more defaults than parameters.
DefaultOf(m, j) ==
    LET first == Len(m.params) - Len(m.options)
    IN  IF HasBit(m.flags, 3) /\ first >= 0 /\ j > first THEN j - first ELSE 0

Unless0(index, ways) == IF index = 0 THEN Text ELSE ways

ParamLine(abc, m, i, j) ==
    LET p == m.params[j]
        d == DefaultOf(m, j)
    IN  Printing(<<"param", i, j>>, d,
                 {Unless0(p.name, GetMultinameHRF(abc, p.name)),
                  GetMultinameHRF(abc, p.type),
                  IF d = 0 THEN Text ELSE GetMethodOptionHRF(abc, m.options[d])})

MethodLines(abc, i) ==
    LET m == abc.methods[i]
    IN  <<Plain(<<"method", i>>, Unless0(m.name, GetString(abc, m.name)))>>
          \o [j \in DOMAIN m.params |-> ParamLine(abc, m, i, j)]
          \o <<Plain(<<"return", i>>, GetMultinameHRF(abc, m.returnType))>>

\* Mutant of NameIsQName: CONSTANT_QNameA.
NameIsQNameA(abc, index) ==
    IF index > Len(abc.multinames) THEN {"text", "throw", "crash"}
    ELSE IF index # 0 /\ abc.multinames[index].kind = 13 THEN Text
    ELSE Throw

\* multinames[instance->name].kind != 7, without a test of the index; entry 0
\* is zeroed, and so of another kind.
NameIsQName(abc, index) ==
    IF index > Len(abc.multinames) THEN {"text", "throw", "crash"}
    ELSE IF index # 0 /\ abc.multinames[index].kind = 7 THEN Text
    ELSE Throw

\* kindString throws for kinds that readTrait does not let through.
TraitLine(abc, of, t) ==
    Plain(of, Then(GetMultiname(abc, t.name), IF t.kind % 16 <= 6 THEN Text ELSE Throw))

InstanceLines(abc, i) ==
    LET n == abc.instances[i]
        when(cond, line) == IF cond THEN <<line>> ELSE <<>>
    IN  <<Plain(<<"name", i>>, Then(NameIsQName(abc, n.name), GetMultiname(abc, n.name)))>>
          \o when(n.super # 0, Plain(<<"super", i>>, GetMultiname(abc, n.super)))
          \o when(HasBit(n.flags, 3), Plain(<<"protected", i>>, GetNamespace(abc, n.protectedNS)))
          \o [k \in DOMAIN n.interfaces |->
                Plain(<<"interface", i, k>>, GetMultiname(abc, n.interfaces[k]))]
          \o [k \in DOMAIN n.traits |-> TraitLine(abc, <<"trait", i, k>>, n.traits[k])]

\* Mutant of Lines: the first entry of each table is taken for a reserved one.
LinesFromOne(abc) ==
    FlattenSeq([i \in DOMAIN abc.methods |-> IF i = 1 THEN <<>> ELSE MethodLines(abc, i)]) \o
    FlattenSeq([i \in DOMAIN abc.instances |-> IF i = 1 THEN <<>> ELSE InstanceLines(abc, i)])

\* Metadata is printed as numbers.
Lines(abc) ==
    FlattenSeq([i \in DOMAIN abc.methods |-> MethodLines(abc, i)]) \o
    FlattenSeq([i \in DOMAIN abc.instances |-> InstanceLines(abc, i)])

-----------------------------------------------------------------------------
(***************************************************************************)
(* find_first_of('\0', 4): the name of a DoABC2 tag is behind four bytes   *)
(* of flags and ends with a 0.  If there is none, p is -1, and the reader  *)
(* gets the whole content.                                                 *)
(***************************************************************************)
\* Mutant of AbcData: the search begins with the flags.
AbcDataFromFlags(content) ==
    LET zeros == {i \in DOMAIN content : content[i] = 0}
    IN  SubSeq(content, 1 + (IF zeros = {} THEN 0 ELSE Min(zeros)), Len(content))

AbcData(content) ==
    LET zeros == {i \in DOMAIN content : i > 4 /\ content[i] = 0}
    IN  SubSeq(content, 1 + (IF zeros = {} THEN 0 ELSE Min(zeros)), Len(content))

\* A multiname has a kind, and the members of that kind.
IsMultiname(m) ==
    /\ m.kind \in {7, 9} \cup (13..18) \cup (27..29)
    /\ m.kind \in {7, 9} \cup (13..16) => "name" \in DOMAIN m
    /\ m.kind \in {7, 13} => "ns" \in DOMAIN m /\ m.ns \in Nat
    /\ m.kind \in {9, 14, 27, 28} => "nsset" \in DOMAIN m /\ m.nsset \in Nat
    /\ m.kind = TypeName => IsSeq(m.params)

\* The tables of a file that are printed, as ABCParse reads them.
IsAbc(abc) ==
    /\ IsSeq(abc.methods) /\ IsSeq(abc.instances) /\ IsSeq(abc.multinames)
    /\ IsSeq(abc.namespaces) /\ IsSeq(abc.namespaceSets)
    /\ \A m \in Range(abc.multinames) : IsMultiname(m)
    /\ \A m \in Range(abc.methods) : IsSeq(m.params) /\ IsSeq(m.options)
    /\ \A n \in Range(abc.instances) :
         /\ IsSeq(n.interfaces) /\ IsSeq(n.traits)
         /\ HasBit(n.flags, 3) => n.protectedNS \in Nat
         /\ \A t \in Range(n.traits) : t.kind % 16 \in 0..6

ASSUME ParsedAssumption ==
    \A list \in TagLists : \A t \in Range(list) :
      t.type = 82 /\ Readable(AbcData(t.content)) => IsAbc(Parsed(AbcData(t.content)))

Content == tags[tag].content
Tag(type) == pc = "tag" /\ tag <= Len(tags) /\ tags[tag].type = type

Show(line) == shown' = Append(shown, line)

Init ==
    /\ tags \in TagLists
    /\ tag = 1
    /\ pc = "tag"
    /\ given = <<>>
    /\ todo = <<>>
    /\ shown = <<>>

FileAttributes ==
    /\ Tag(69)
    /\ \E b0 \in ContentByte(Content, 0), b1 \in ContentByte(Content, 1),
          b2 \in ContentByte(Content, 2), b3 \in ContentByte(Content, 3) :
         IF Reserved(b0) \/ b1 # 0 \/ b2 # 0 \/ b3 # 0
         THEN UNCHANGED shown
         ELSE Show([tag |-> tag, of |-> <<"attributes">>, attributes |-> Attributes(b0)])
    /\ tag' = tag + 1
    /\ UNCHANGED <<tags, pc, given, todo>>

ReadAbc ==
    /\ Tag(82)
    /\ given' = AbcData(Content)
    /\ IF Readable(given')
       THEN pc' = "dump" /\ todo' = Lines(Parsed(given'))
       ELSE pc' = "died" /\ UNCHANGED todo
    /\ UNCHANGED <<tags, tag, shown>>

PrintLine ==
    /\ pc = "dump"
    /\ todo # <<>>
    /\ "text" \in Head(todo).ends
    /\ Show([tag |-> tag, of |-> Head(todo).of, default |-> Head(todo).default])
    /\ todo' = Tail(todo)
    /\ UNCHANGED <<tags, tag, pc, given>>

\* An exception nobody catches, or a fault.
Die ==
    /\ pc = "dump"
    /\ todo # <<>>
    /\ Head(todo).ends \ Text # {}
    /\ pc' = "died"
    /\ UNCHANGED <<tags, tag, given, todo, shown>>

\* The continue at line 219.
LeaveAbc ==
    /\ pc = "dump"
    /\ todo = <<>>
    /\ pc' = "tag"
    /\ tag' = tag + 1
    /\ UNCHANGED <<tags, given, todo, shown>>

OtherTag ==
    /\ pc = "tag"
    /\ tag <= Len(tags)
    /\ tags[tag].type \notin {69, 82}
    /\ Show([tag |-> tag, of |-> <<"tag", tags[tag].type>>])
    /\ tag' = tag + 1
    /\ UNCHANGED <<tags, pc, given, todo>>

Finish ==
    /\ pc = "tag"
    /\ tag > Len(tags)
    /\ pc' = "done"
    /\ UNCHANGED <<tags, tag, given, todo, shown>>

\* main is over: with this step, a deadlock is a loop that is stuck.
Ended == pc \in {"done", "died"} /\ UNCHANGED vars

Next ==
    \/ FileAttributes
    \/ ReadAbc
    \/ PrintLine
    \/ Die
    \/ LeaveAbc
    \/ OtherTag
    \/ Finish
    \/ Ended

Spec == Init /\ [][Next]_vars

-----------------------------------------------------------------------------
(***************************************************************************)
(* Properties.                                                             *)
(***************************************************************************)

AbcOf(t) == Parsed(AbcData(tags[t].content))

\* A bit field as the format numbers it: bit 1 is the uppermost.
StreamBits(byte) == [k \in 1..8 |-> Bit(byte, 8 - k)]

\* All the fields that are reserved, and there, are 0.
ReservedIsZero(content) ==
    LET bits == StreamBits(content[1])
    IN  /\ bits[1] + bits[6] + bits[7] = 0
        /\ \A i \in 2..4 : i \in DOMAIN content => content[i] = 0

\* The attributes shown are those of the format's fields, in their order,
\* and only where nothing reserved is set.
AttributesExact ==
    \A s \in Range(shown) : s.of = <<"attributes">> =>
      LET content == tags[s.tag].content
          bits    == StreamBits(content[1])
      IN  content # <<>> =>
            /\ s.attributes = [useDirectBlit |-> bits[2], useGPU |-> bits[3],
                                hasMetadata |-> bits[4], actionScript3 |-> bits[5],
                                useNetwork |-> bits[8]]
            /\ ReservedIsZero(content)

\* The reader gets all that is behind the first 0 that is not in the flags.
FindsAbc ==
    pc \in {"dump", "died"} =>
      LET head == SubSeq(Content, 1, Len(Content) - Len(given))
          name == SubSeq(head, 5, Len(head) - 1)
      IN  /\ Content = head \o given
          /\ IF head = <<>> THEN \A i \in 5..Len(Content) : Content[i] # 0
             ELSE Len(head) > 4 /\ Last(head) = 0 /\ 0 \notin Range(name)

\* Defaults are those of the last parameters: a parameter is shown with the
\* default that is as far from the end of its list, if there is one.
DefaultsBelong ==
    \A s \in Range(shown) : s.of[1] = "param" =>
      LET m    == AbcOf(s.tag).methods[s.of[2]]
          same == {d \in DOMAIN m.options :
                     Len(m.options) - d = Len(m.params) - s.of[3]}
      IN  Len(m.options) <= Len(m.params) =>
            IF HasBit(m.flags, 3) THEN {s.default} \ {0} = same ELSE s.default = 0

-----------------------------------------------------------------------------
(***************************************************************************)
(* What a dump has to rely on, said without the accessors: every index is  *)
(* in range, every name has a kind the accessor knows, and no TypeName is  *)
(* nested deeper than the stack has room for, let alone in itself.         *)
(***************************************************************************)
StringOk(abc, i) == i <= Len(abc.strings)

NamespaceOk(abc, i) ==
    \/ i = 0
    \/ /\ i <= Len(abc.namespaces)
       /\ abc.namespaces[i].kind \in NamespaceKinds
       /\ StringOk(abc, abc.namespaces[i].name)

References(m) == ({m.name} \cup Range(m.params)) \ {0}

\* i and the names it is made of have a depth, each TypeName a greater one than
\* the names it is made of, and are good if they are no TypeName.
NameOk(abc, i, good) ==
    LET names == abc.multinames
        deep(depth) == {k \in DOMAIN names : depth[k] # 0}
    IN  \/ i = 0
        \/ \E depth \in [DOMAIN names -> 0..StackDepth] :
             /\ i \in deep(depth)
             /\ \A k \in deep(depth) :
                  IF names[k].kind = TypeName
                  THEN \A u \in References(names[k]) : u \in deep(depth) /\ depth[u] < depth[k]
                  ELSE k \in good

MultinameOk(abc, i) ==
    LET ok(m) == /\ "name" \in DOMAIN m => StringOk(abc, m.name)
                 /\ "ns" \in DOMAIN m => NamespaceOk(abc, m.ns)
                 /\ "nsset" \in DOMAIN m => m.nsset <= Len(abc.namespaceSets)
    IN  NameOk(abc, i, {k \in DOMAIN abc.multinames : ok(abc.multinames[k])})

PrintableOk(abc, i) ==
    LET ok(m) == m.kind = 7 /\ StringOk(abc, m.name)
    IN  NameOk(abc, i, {k \in DOMAIN abc.multinames : ok(abc.multinames[k])})

OptionOk(abc, o) ==
    LET in(table) == o.val <= Len(table)
    IN  CASE o.kind = 1 -> in(abc.strings)
          [] o.kind = 3 -> in(abc.ints)
          [] o.kind = 4 -> in(abc.uints)
          [] o.kind = 6 -> in(abc.doubles)
          [] OTHER -> o.kind \in {0, 10, 11, 12}

\* nameOk: what the name of a parameter is taken for.
Sound(abc, nameOk(_, _)) ==
    /\ \A m \in Range(abc.methods) :
         /\ StringOk(abc, m.name)
         /\ PrintableOk(abc, m.returnType)
         /\ \A p \in Range(m.params) : nameOk(abc, p.name) /\ PrintableOk(abc, p.type)
         /\ \A o \in Range(m.options) : OptionOk(abc, o)
    /\ \A n \in Range(abc.instances) :
         /\ n.name \in DOMAIN abc.multinames /\ abc.multinames[n.name].kind = 7
         /\ \A i \in {n.name, n.super} \cup Range(n.interfaces) : MultinameOk(abc, i)
         /\ HasBit(n.flags, 3) => NamespaceOk(abc, n.protectedNS)
         /\ \A t \in Range(n.traits) : MultinameOk(abc, t.name)

\* The process dies only where an ABC file cannot be read, or has an entry
\* that refers to what is not there or not to be printed, or too deep.
DiesForCause ==
    pc = "died" =>
      IF Readable(given) THEN ~Sound(Parsed(given), PrintableOk) ELSE todo = <<>>

\* The format has the names of parameters in the string array.  A file that
\* keeps to that is shown, to its end.
SoundIsShown ==
    pc = "died" /\ Readable(given) => ~Sound(Parsed(given), StringOk)

-----------------------------------------------------------------------------
\* What there is to be shown of a method and of an instance: a super class
\* unless it is 0, a namespace if the flag says that there is one.
OfMethod(abc, i) ==
    {<<"method", i>>, <<"return", i>>}
      \cup {<<"param", i, j>> : j \in DOMAIN abc.methods[i].params}

OfInstance(abc, i) ==
    LET n == abc.instances[i]
    IN  {<<"name", i>>}
          \cup (IF n.super # 0 THEN {<<"super", i>>} ELSE {})
          \cup (IF HasBit(n.flags, 3) THEN {<<"protected", i>>} ELSE {})
          \cup {<<"interface", i, k>> : k \in DOMAIN n.interfaces}
          \cup {<<"trait", i, k>> : k \in DOMAIN n.traits}

Expected(abc) ==
    (UNION {OfMethod(abc, i) : i \in DOMAIN abc.methods}) \cup
    (UNION {OfInstance(abc, i) : i \in DOMAIN abc.instances})

\* What may, and what must be shown of a tag.  Of a content of less than three
\* bytes, main tests some that are not there: it may show the attributes or not.
ShownOf(t, lines) ==
    LET content == tags[t].content
    IN  CASE tags[t].type = 69 ->
               /\ lines \subseteq {<<"attributes">>}
               /\ Len(content) >= 3 /\ ReservedIsZero(content) => lines # {}
          [] tags[t].type = 82 -> lines = Expected(AbcOf(t))
          [] OTHER -> lines = {<<"tag", tags[t].type>>}

\* At the end every tag has been shown, the attributes of a file if nothing
\* reserved is set in them, an ABC file with every member and nothing else,
\* each of them once and in the order of the tags.
AllShown ==
    pc = "done" =>
      /\ \A a, b \in DOMAIN shown : a < b =>
           shown[a].tag <= shown[b].tag /\ <<shown[a].tag, shown[a].of>> # <<shown[b].tag, shown[b].of>>
      /\ \A t \in DOMAIN tags : ShownOf(t, {s.of : s \in {r \in Range(shown) : r.tag = t}})

=============================================================================

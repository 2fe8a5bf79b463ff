------------------------------ MODULE ABCFormat ------------------------------
(***************************************************************************)
(* How an ABC file is laid out, as a WRITER: the text of a file given as a *)
(* record.  It follows the tables of the format ("AVM2 overview", chapter  *)
(* 4, kept in src/docs), not the reader, and is the reference ABCParse is  *)
(* compared with.                                                          *)
(*                                                                         *)
(* A text is a sequence of pieces, each a byte or a number.  A number may  *)
(* be spelled in more than one way, with groups it does not need or with   *)
(* bits that are dropped; Spelling takes the shortest one.                 *)
(*                                                                         *)
(* A file has a field "version" and one field per table, a sequence of     *)
(* entries.  The seven tables of the constant pool begin at index 1: their *)
(* entry 0 is reserved and not in the file, so that the counts 0 and 1     *)
(* both stand for an empty table.  "ones" holds the empty tables that are  *)
(* written with a 1.                                                       *)
(***************************************************************************)
EXTENDS Integers, SequencesExt

PoolTables == {"ints", "uints", "doubles", "strings", "namespaces",
               "namespaceSets", "multinames"}

TableOrder == <<"ints", "uints", "doubles", "strings", "namespaces",
                "namespaceSets", "multinames", "methods", "metadatas",
                "instances", "classes", "scripts", "bodies">>

\* Groups of seven bits, the lowest first, all but the last marked.
PlaceValue == <<1, 128, 16384, 2097152, 268435456>>

GroupsIn(n) ==
    IF n < 128 THEN 1 ELSE IF n < 16384 THEN 2 ELSE IF n < 2097152 THEN 3
    ELSE IF n < 268435456 THEN 4 ELSE 5

SevenBits(n) ==
    [i \in 1..GroupsIn(n) |->
       ((n \div PlaceValue[i]) % 128) + (IF i < GroupsIn(n) THEN 128 ELSE 0)]

Piece == [is : {"byte", "u30"}, num : Nat]

\* The bytes of a text.
Spelling(text) ==
    FlattenSeq([i \in DOMAIN text |->
      IF text[i].is = "u30" THEN SevenBits(text[i].num) ELSE <<text[i].num>>])

WriteBytes(bytes) == [i \in DOMAIN bytes |-> [is |-> "byte", num |-> bytes[i]]]
WriteU8(n)  == WriteBytes(<<n>>)
WriteU16(n) == WriteBytes(<<n % 256, n \div 256>>)
WriteU30(n) == <<[is |-> "u30", num |-> n]>>
WriteU30s(values) == FlattenSeq([i \in DOMAIN values |-> WriteU30(values[i])])
WriteList(Write(_), items) ==
    WriteU30(Len(items)) \o FlattenSeq([i \in DOMAIN items |-> Write(items[i])])
WriteString(bytes) == WriteU30(Len(bytes)) \o WriteBytes(bytes)
Flag(bits, mask) == (bits \div mask) % 2 = 1

-----------------------------------------------------------------------------
WriteNamespace(n) == WriteU8(n.kind) \o WriteU30(n.name)

WriteMultiname(m) ==
    WriteU8(m.kind) \o
      CASE m.kind \in {7, 13}  -> WriteU30s(<<m.ns, m.name>>)
        [] m.kind \in {15, 16} -> WriteU30(m.name)
        [] m.kind \in {17, 18} -> <<>>
        [] m.kind \in {9, 14}  -> WriteU30s(<<m.name, m.nsset>>)
        [] m.kind \in {27, 28} -> WriteU30(m.nsset)
        [] m.kind = 29         -> WriteU30(m.name) \o WriteList(WriteU30, m.params)

WriteOption(o) == WriteU30(o.val) \o WriteU8(o.kind)

WriteMethod(m) ==
    LET types == [i \in DOMAIN m.params |-> m.params[i].type]
        names == [i \in DOMAIN m.params |-> m.params[i].name]
    IN  WriteU30(Len(m.params)) \o WriteU30(m.returnType) \o WriteU30s(types)
          \o WriteU30(m.name) \o WriteU8(m.flags)
          \o (IF Flag(m.flags, 8) THEN WriteList(WriteOption, m.options) ELSE <<>>)
          \o (IF Flag(m.flags, 128) THEN WriteU30s(names) ELSE <<>>)

WriteItem(i) == WriteU30s(<<i.key, i.val>>)
WriteMetadata(m) == WriteU30(m.name) \o WriteList(WriteItem, m.items)

WriteTraitData(kind, d) ==
    CASE kind \in {0, 6}    -> WriteU30s(<<d.slotID, d.typeName, d.vindex>>)
                                \o (IF d.vindex = 0 THEN <<>> ELSE WriteU8(d.vkind))
      [] kind \in {1, 2, 3} -> WriteU30s(<<d.dispID, d.method>>)
      [] kind = 4           -> WriteU30s(<<d.slotID, d.classi>>)
      [] kind = 5           -> WriteU30s(<<d.slotID, d.functioni>>)

WriteTrait(t) ==
    WriteU30(t.name) \o WriteU8(t.kind) \o WriteTraitData(t.kind % 16, t.data)
      \o (IF Flag(t.kind, 64) THEN WriteList(WriteU30, t.metadata) ELSE <<>>)

WriteInstance(i) ==
    WriteU30s(<<i.name, i.super>>) \o WriteU8(i.flags)
      \o (IF Flag(i.flags, 8) THEN WriteU30(i.protectedNS) ELSE <<>>)
      \o WriteList(WriteU30, i.interfaces)
      \o WriteU30(i.iinit) \o WriteList(WriteTrait, i.traits)

WriteClass(c)  == WriteU30(c.cinit) \o WriteList(WriteTrait, c.traits)
WriteScript(s) == WriteU30(s.init) \o WriteList(WriteTrait, s.traits)

WriteException(e) == WriteU30s(<<e.from, e.to, e.target, e.type, e.name>>)
WriteBody(b) ==
    WriteU30s(<<b.method, b.maxStack, b.localCount, b.initScopeDepth, b.maxScopeDepth>>)
      \o WriteString(b.code) \o WriteList(WriteException, b.exceptions)
      \o WriteList(WriteTrait, b.traits)

-----------------------------------------------------------------------------
\* Integers and doubles stay the bytes that encode them.
WriteEntry(table, e) ==
    CASE table \in {"ints", "uints", "doubles"} -> WriteBytes(e)
      [] table = "strings"       -> WriteString(e)
      [] table = "namespaces"    -> WriteNamespace(e)
      [] table = "namespaceSets" -> WriteList(WriteU30, e)
      [] table = "multinames"    -> WriteMultiname(e)
      [] table = "methods"       -> WriteMethod(e)
      [] table = "metadatas"     -> WriteMetadata(e)
      [] table = "instances"     -> WriteInstance(e)
      [] table = "classes"       -> WriteClass(e)
      [] table = "scripts"       -> WriteScript(e)
      [] table = "bodies"        -> WriteBody(e)

\* Classes have no count of their own: there is one for every instance.
WriteCount(table, n, ones) ==
    CASE table = "classes"    -> <<>>
      [] table \in PoolTables -> WriteU30(IF n > 0 THEN n + 1
                                          ELSE IF table \in ones THEN 1 ELSE 0)
      [] OTHER                -> WriteU30(n)

WriteTable(table, entries, ones) ==
    WriteCount(table, Len(entries), ones)
      \o FlattenSeq([i \in DOMAIN entries |-> WriteEntry(table, entries[i])])

WriteFile(file, ones) ==
    WriteU16(file.version.minor) \o WriteU16(file.version.major)
      \o FlattenSeq([i \in DOMAIN TableOrder |->
                   WriteTable(TableOrder[i], file[TableOrder[i]], ones)])

=============================================================================

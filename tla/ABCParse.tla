------------------------------ MODULE ABCParse ------------------------------
(***************************************************************************)
(* ABCReader::read (src/ABCReader.cpp): an ABC file is turned into the     *)
(* tables of an ABCFile, one loop per table.  One action is one turn of a  *)
(* loop, the read of a count, or the end of a loop.                        *)
(*                                                                         *)
(* A table is the sequence of the entries read so far.  The vectors of the *)
(* constant pool have a reserved, zeroed entry 0, which is left out: their *)
(* index is the index here.  A vector is resized, with zeroed entries, as  *)
(* soon as its count is known: "room" is its size, and only what is read   *)
(* of it is kept.  An entry that is not yet read cannot be seen, because   *)
(* the file is handed out only at the end, and is leaked when a read       *)
(* throws.                                                                 *)
(***************************************************************************)
EXTENDS ABCReader, ABCFormat

CONSTANTS
    Inputs,     \* the byte strings handed to the reader
    Files       \* files as a writer would lay them out, all tables in order

ASSUME InputsAssumption == Inputs \subseteq Seq(Byte)

VARIABLES
    data,   \* _start.._end
    at,     \* _cur
    file,   \* *result
    room,   \* size() of each table's vector, its entry 0 included
    pc,     \* "version", the table being read, "returned", "thrown" (by the
            \* reader) or "noMemory" (by new)
    sized,  \* the table has been resized: control is in its loop
    left    \* turns left in that loop

vars == <<data, at, file, room, pc, sized, left>>

AllTables == Range(TableOrder)

-----------------------------------------------------------------------------
(***************************************************************************)
(* A read at p gives a value and the cursor behind it.  When that is not   *)
(* InRange the read has thrown, and so has everything read after it: the   *)
(* value is then arbitrary, and 0 here.                                    *)
(***************************************************************************)
Got(val, next) == [val |-> val, next |-> next]
Thrown == Got(0, Len(data) + 1)

Checked(val, next) == IF InRange(data, next) THEN Got(val, next) ELSE Thrown

U8(p)       == Checked(ByteAt(data, p), p + 1)
U16(p)      == Checked(ByteAt(data, p) + 256 * ByteAt(data, p + 1), p + 2)
U30(p)      == Checked(U30At(data, p), AfterU30(data, p))
Bytes(p, n) == Checked(SubSeq(data, p + 1, p + n), p + n)

\* readU32 of a number nobody calculates with, kept as its encoding.
U32(p) == Bytes(p, VarLen(data, p))

String(p) == LET length == U30(p) IN Bytes(length.next, length.val)

\* n times Item, one behind the other.
With(front, last) == Got(Append(front.val, last.val), last.next)
List(Item(_), n, p) ==
    LET R[i \in Nat] ==
          IF i = 0 THEN Got(<<>>, p)
          ELSE LET front == R[i - 1] IN With(front, Item(front.next))
    IN  R[n]

\* resize(readU30()) and a loop over the result.  No item is empty, so with
\* more of them than bytes are left the loop throws.
Times(Item(_), n) ==
    IF n.next + n.val > Len(data) THEN Thrown ELSE List(Item, n.val, n.next)
Counted(Item(_), p) == Times(Item, U30(p))

\* Members that are read in order, each as a u30.
Named(members, values) ==
    LET place(m) == CHOOSE i \in DOMAIN members : members[i] = m
    IN  Got([m \in Range(members) |-> values.val[place(m)]], values.next)
Struct(members, p) == Named(members, List(U30, Len(members), p))

\* One member more.
Set(val, member, to) ==
    [m \in DOMAIN val \cup {member} |-> IF m = member THEN to ELSE val[m]]

-----------------------------------------------------------------------------
Namespace(p) ==
    LET kind == U8(p)
        name == U30(kind.next)
    IN  Got([kind |-> kind.val, name |-> name.val], name.next)

NamespaceSet(p) == Counted(U30, p)

\* Mutant of MultinameMembers: every kind in the order of Multiname.
MultinameMembersSwapped(kind) ==
    CASE kind \in {7, 13}       -> <<"name", "ns">>
      [] kind \in {15, 16, 29}  -> <<"name">>
      [] kind \in {17, 18}      -> <<>>
      [] kind \in {9, 14}       -> <<"name", "nsset">>
      [] kind \in {27, 28}      -> <<"nsset">>

\* QName(A); RTQName(A), TypeName; RTQNameL(A); Multiname(A); MultinameL(A)
MultinameMembers(kind) ==
    CASE kind \in {7, 13}       -> <<"ns", "name">>
      [] kind \in {15, 16, 29}  -> <<"name">>
      [] kind \in {17, 18}      -> <<>>
      [] kind \in {9, 14}       -> <<"name", "nsset">>
      [] kind \in {27, 28}      -> <<"nsset">>

\* Any other kind throws invalid_argument.
MultinameKinds == {7, 9} \cup (13..18) \cup (27..29)

Multiname(p) ==
    LET kind    == U8(p)
        members == Struct(MultinameMembers(kind.val), kind.next)
        params  == Counted(U30, members.next)
        named   == Set(members.val, "kind", kind.val)
    IN  IF kind.val \notin MultinameKinds THEN Thrown
        ELSE IF kind.val = 29 THEN Got(Set(named, "params", params.val), params.next)
        ELSE Got(named, members.next)

Option(p) ==
    LET val  == U30(p)
        kind == U8(val.next)
    IN  Got([val |-> val.val, kind |-> kind.val], kind.next)

\* The types are where the return type is known but not yet the name; the
\* names of the parameters come last, and stay 0 if there are none.
Method(p) ==
    LET count   == U30(p)
        returns == U30(count.next)
        fits    == returns.next + count.val <= Len(data)
        types   == List(U30, count.val, returns.next)
        name    == U30(types.next)
        flags   == U8(name.next)
        options == IF Flag(flags.val, 8) THEN Counted(Option, flags.next)
                   ELSE Got(<<>>, flags.next)
        names   == IF Flag(flags.val, 128) THEN List(U30, count.val, options.next)
                   ELSE Got([i \in 1..count.val |-> 0], options.next)
    IN  IF ~fits THEN Thrown
        ELSE Got([params |-> [i \in 1..count.val |->
                               [type |-> types.val[i], name |-> names.val[i]]],
                  returnType |-> returns.val, name |-> name.val,
                  flags |-> flags.val, options |-> options.val], names.next)

MetadataItem(p) == Struct(<<"key", "val">>, p)
Metadata(p) ==
    LET name  == U30(p)
        items == Counted(MetadataItem, name.next)
    IN  Got([name |-> name.val, items |-> items.val], items.next)

-----------------------------------------------------------------------------
TraitMembers(kind) ==
    CASE kind \in {0, 6}    -> <<"slotID", "typeName", "vindex">>
      [] kind \in {1, 2, 3} -> <<"dispID", "method">>
      [] kind = 4           -> <<"slotID", "classi">>
      [] kind = 5           -> <<"slotID", "functioni">>

\* Mutant of HasValue: the kind of the value is read even if there is no value.
HasValueAlways(members) == "vindex" \in DOMAIN members

\* A slot or a constant with a value, whose kind follows its index.
HasValue(members) == "vindex" \in DOMAIN members /\ members.vindex # 0

TraitData(members) ==
    LET vkind == U8(members.next)
    IN  IF HasValue(members.val)
        THEN Got(Set(members.val, "vkind", vkind.val), vkind.next)
        ELSE members

\* Any other kind throws.
TraitKinds == 0..6

Trait(p) ==
    LET name     == U30(p)
        kind     == U8(name.next)
        body     == TraitData(Struct(TraitMembers(kind.val % 16), kind.next))
        metadata == IF Flag(kind.val, 64) THEN Counted(U30, body.next)
                    ELSE Got(<<>>, body.next)
    IN  IF kind.val % 16 \notin TraitKinds THEN Thrown
        ELSE Got([name |-> name.val, kind |-> kind.val, data |-> body.val,
                  metadata |-> metadata.val], metadata.next)

TraitList(p) == Counted(Trait, p)

Instance(p) ==
    LET names      == Struct(<<"name", "super">>, p)
        flags      == U8(names.next)
        protected  == IF Flag(flags.val, 8) THEN U30(flags.next) ELSE Got(0, flags.next)
        interfaces == Counted(U30, protected.next)
        iinit      == U30(interfaces.next)
        traits     == TraitList(iinit.next)
    IN  Got([name |-> names.val.name, super |-> names.val.super, flags |-> flags.val,
             protectedNS |-> protected.val, interfaces |-> interfaces.val,
             iinit |-> iinit.val, traits |-> traits.val], traits.next)

\* ABCClass and ABCScript: the initialiser, and the traits.
Initialised(member, p) ==
    LET init   == Struct(<<member>>, p)
        traits == TraitList(init.next)
    IN  Got(Set(init.val, "traits", traits.val), traits.next)

Exception(p) == Struct(<<"from", "to", "target", "type", "name">>, p)

Body(p) ==
    LET limits     == Struct(<<"method", "maxStack", "localCount",
                               "initScopeDepth", "maxScopeDepth">>, p)
        code       == String(limits.next)
        exceptions == Counted(Exception, code.next)
        traits     == TraitList(exceptions.next)
        named      == Set(Set(limits.val, "code", code.val), "exceptions", exceptions.val)
    IN  Got(Set(named, "traits", traits.val), traits.next)

Entry(table, p) ==
    CASE table \in {"ints", "uints"} -> U32(p)
      [] table = "doubles"       -> Bytes(p, 8)
      [] table = "strings"       -> String(p)
      [] table = "namespaces"    -> Namespace(p)
      [] table = "namespaceSets" -> NamespaceSet(p)
      [] table = "multinames"    -> Multiname(p)
      [] table = "methods"       -> Method(p)
      [] table = "metadatas"     -> Metadata(p)
      [] table = "instances"     -> Instance(p)
      [] table = "classes"       -> Initialised("cinit", p)
      [] table = "scripts"       -> Initialised("init", p)
      [] table = "bodies"        -> Body(p)

-----------------------------------------------------------------------------
Init ==
    /\ data \in Inputs
    /\ at = 0
    /\ file = [t \in AllTables \cup {"version"} |->
                 IF t = "version" THEN [minor |-> 0, major |-> 0] ELSE <<>>]
    /\ room = [t \in AllTables |-> IF t \in PoolTables THEN 1 ELSE 0]
    /\ pc = "version"
    /\ sized = FALSE
    /\ left = 0

ReadVersion ==
    /\ pc = "version"
    /\ LET minor == U16(at)
           major == U16(minor.next)
       IN  /\ InRange(data, major.next)
           /\ at' = major.next
           /\ file' = [file EXCEPT !.version = [minor |-> minor.val, major |-> major.val]]
    /\ pc' = TableOrder[1]
    /\ UNCHANGED <<data, room, sized, left>>

\* Tables of the pool have entry 0 from the beginning; it is not in the file.
Room(table, count) == IF table \in PoolTables /\ count = 0 THEN 1 ELSE count

Turns(table, count) ==
    IF table \notin PoolTables THEN count
    ELSE IF count = 0 THEN 0 ELSE count - 1

\* Mutant of ReadCount: at the end of the input, no count is taken for 0.
ReadCountOptional ==
    /\ pc \in AllTables \ {"classes"}
    /\ ~sized
    /\ LET count == U30(at)
           there == InRange(data, count.next)
       IN  /\ at' = IF there THEN count.next ELSE at
           /\ room' = [room EXCEPT ![pc] = Room(pc, count.val)]
           /\ left' = IF there THEN Turns(pc, count.val) ELSE 0
    /\ sized' = TRUE
    /\ UNCHANGED <<data, file, pc>>

ReadCount ==
    /\ pc \in AllTables \ {"classes"}
    /\ ~sized
    /\ LET count == U30(at)
       IN  /\ InRange(data, count.next)
           /\ at' = count.next
           /\ room' = [room EXCEPT ![pc] = Room(pc, count.val)]
           /\ left' = Turns(pc, count.val)
    /\ sized' = TRUE
    /\ UNCHANGED <<data, file, pc>>

\* class_count has been read once, before the instances.
SizeClasses ==
    /\ pc = "classes"
    /\ ~sized
    /\ sized' = TRUE
    /\ left' = Len(file.instances)
    /\ room' = [room EXCEPT !.classes = Len(file.instances)]
    /\ UNCHANGED <<data, at, file, pc>>

Keep(entry) ==
    /\ at' = entry.next
    /\ file' = [file EXCEPT ![pc] = Append(@, entry.val)]

ReadEntry ==
    /\ pc \in AllTables
    /\ sized
    /\ left # 0
    /\ InRange(data, Entry(pc, at).next)
    /\ Keep(Entry(pc, at))
    /\ left' = left - 1
    /\ UNCHANGED <<data, room, pc, sized>>

Following(table) ==
    IF table = Last(TableOrder) THEN "returned"
    ELSE TableOrder[1 + CHOOSE i \in DOMAIN TableOrder : TableOrder[i] = table]

\* Mutant of LeaveLoop: the loop over the classes begins again.
LeaveLoopBackToClasses ==
    /\ sized
    /\ left = 0
    /\ sized' = FALSE
    /\ pc' = IF pc = "classes" THEN pc ELSE Following(pc)
    /\ UNCHANGED <<data, at, file, room, left>>

\* Mutant of LeaveLoop: at the end of the input the rest of a table is dropped.
LeaveLoopAtEnd ==
    /\ pc \in AllTables
    /\ sized
    /\ left = 0 \/ at = Len(data)
    /\ sized' = FALSE
    /\ pc' = Following(pc)
    /\ UNCHANGED <<data, at, file, room, left>>

\* On to the next table; after the last, return result.
LeaveLoop ==
    /\ sized
    /\ left = 0
    /\ sized' = FALSE
    /\ pc' = Following(pc)
    /\ UNCHANGED <<data, at, file, room, left>>

\* OOR_EXCEPTION_MESSAGE, or an unknown kind: nobody catches them.
Throw ==
    /\ \/ pc = "version" /\ ~InRange(data, at + 4)
       \/ /\ pc \in AllTables \ {"classes"}
          /\ ~sized
          /\ ~InRange(data, U30(at).next)
       \/ /\ pc \in AllTables
          /\ sized
          /\ left # 0
          /\ ~InRange(data, Entry(pc, at).next)
    /\ pc' = "thrown"
    /\ UNCHANGED <<data, at, file, room, sized, left>>

\* Tables whose entries have neither text nor lists.
Plain == {"ints", "uints", "doubles", "namespaces"}

\* There is no memory for the file, for a table of the size that was read, or
\* for a text or a list in an entry: bad_alloc or length_error, not caught.
NoMemory ==
    /\ \/ pc = "version"
       \/ /\ pc \in AllTables \ {"classes"}
          /\ ~sized
          /\ InRange(data, U30(at).next)
          /\ Room(pc, U30(at).val) > room[pc]
       \/ pc = "classes" /\ ~sized /\ file.instances # <<>>
       \/ pc \in AllTables \ Plain /\ sized /\ left # 0
    /\ pc' = "noMemory"
    /\ UNCHANGED <<data, at, file, room, sized, left>>

Running == pc \notin {"returned", "thrown", "noMemory"}

\* read is over: with this step, a deadlock is a read that is stuck.
Ended == ~Running /\ UNCHANGED vars

Next ==
    \/ ReadVersion
    \/ ReadCount
    \/ SizeClasses
    \/ ReadEntry
    \/ LeaveLoop
    \/ Throw
    \/ NoMemory
    \/ Ended

\* Nothing waits in read: it takes steps until it returns or throws.  This is
\* WF_vars(Next), with Running for ENABLED <<Next>>_vars, which TLC is slow to
\* evaluate: that they are the same is what the check for deadlock shows.
Fairness == []<>~Running \/ []<><<Next>>_vars

Spec == Init /\ [][Next]_vars /\ Fairness

-----------------------------------------------------------------------------
(***************************************************************************)
(* Properties.                                                             *)
(***************************************************************************)

\* The cursor behind a piece of text, when that is what the file has at p.
Past(piece, p) ==
    LET read == IF piece.is = "u30" THEN U30(p) ELSE U8(p)
    IN  IF read.val = piece.num THEN read.next ELSE Thrown.next

\* The cursor behind a text, when that is what the file has at p.
PastAll(text, p) ==
    LET R[i \in 0..Len(text)] == IF i = 0 THEN p ELSE Past(text[i], R[i - 1])
    IN  R[Len(text)]

\* What read returns is what the file says: laid out by the rules of the
\* format it is the text of the bytes that were read, all of them and in
\* order.  No entry is dropped, made up, or read into another member or table.
RoundTrip ==
    pc = "returned" =>
      \E ones \in SUBSET {t \in PoolTables : file[t] = <<>>} :
        PastAll(WriteFile(file, ones), 0) = at

Written == [f \in Files |-> Spelling(WriteFile(f, {}))]

\* A file laid out by the rules is read, as it was meant.
WellFormedIsRead ==
    \A f \in Files : data = Written[f] =>
      /\ pc # "thrown"
      /\ pc = "returned" => file = f

\* A file that was cut off anywhere is never taken for a whole one.
TruncationThrows ==
    pc = "returned" => \A f \in Files : ~IsStrictPrefix(data, Written[f])

\* A table is resized to a count nobody has compared with the file, of up to
\* 2^30 - 1: that is the only room that is not yet paid for.  There is at most
\* one such table at a time, and none when read returns; every entry that was
\* read took a byte of the file at least.
OnlyOneTableAhead ==
    LET reserved(t) == IF t \in PoolTables THEN 1 ELSE 0
        filled(t)   == reserved(t) + Len(file[t])
        ahead       == {t \in AllTables : room[t] # filled(t)}
    IN  /\ SumFunctionOnSet([t \in AllTables |-> Len(file[t])], AllTables) <= at
        /\ at <= Len(data)
        /\ \A t \in ahead : filled(t) < room[t] /\ room[t] < 2^30
        /\ \A s, t \in ahead : s = t
        /\ pc = "returned" => ahead = {}

\* Whatever is in the file, read returns or throws.
Terminates == <>~Running

=============================================================================

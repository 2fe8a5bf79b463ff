---------------------------- MODULE ConstantPool ----------------------------
(***************************************************************************)
(* How an access to ABCConstantPool (src/ABCTypes.cpp) ends.  The text it  *)
(* returns does not matter to its callers, only whether there is one:      *)
(*   "text"   the access returns                                           *)
(*   "throw"  it throws a C++ exception                                    *)
(*   "crash"  the process dies                                             *)
(* Each operator returns the SET of the ways the access can end: an access *)
(* outside a vector is undefined behaviour and can end in several.         *)
(*                                                                         *)
(* A pool holds the seven tables of the constant pool as ABCParse reads    *)
(* them, from index 1 on.  Entry 0 of each vector is reserved and zeroed,  *)
(* so the size of the vector is Len(...) + 1.                              *)
(***************************************************************************)
EXTENDS Integers, SequencesExt

CONSTANT
    StackDepth    \* the nested names that the stack has room for, however they
                  \* are laid out; with more of them it may overflow

ASSUME StackDepthAssumption == StackDepth \in Nat \ {0}

\* A list: the entries of a vector.
IsSeq(s) == s \in Seq(Range(s))

Text  == {"text"}
Throw == {"throw"}
Crash == {"crash"}

\* Bytes that are no number or no char pointer: printed anyway, or a fault.
Garbage == {"text", "crash"}

\* Bytes that are no std::string, copied: also length_error or bad_alloc.
GarbageString == {"text", "throw", "crash"}

\* First a, then, if it returned, b.
Then(a, b) == (a \ Text) \cup (IF a \cap Text # {} THEN b ELSE {})

\* Two arguments of one call: the compiler may evaluate either one first.
Both(a, b) == Then(a, b) \cup Then(b, a)

\* Anything indexed with []: ints[index], doubles[index], strings[index].
Index(table, i) == IF i <= Len(table) THEN Text ELSE Garbage

\* The test is index > size(): the index just past the end gets through.
GetString(pool, i) ==
    IF i <= Len(pool.strings) THEN Text
    ELSE IF i = Len(pool.strings) + 1 THEN GarbageString
    ELSE Throw

\* CONSTANT_PrivateNs, _Namespace, _PackageNamespace .. _StaticProtectedNs
NamespaceKinds == {5, 8} \cup (22..26)

GetNamespace(pool, i) ==
    IF i > Len(pool.namespaces) THEN Throw
    ELSE IF i = 0 THEN Text
    ELSE IF pool.namespaces[i].kind \in NamespaceKinds
         THEN GetString(pool, pool.namespaces[i].name)
         ELSE Throw

\* The loop over the set compares its iterator with begin() and so ends
\* before its first turn: the namespaces of the set are never looked at.
GetNamespaceSet(pool, i) ==
    IF i > Len(pool.namespaceSets) THEN Throw ELSE Text

\* Calls one after the other, each of which ends in some of these ways: one is
\* made if all before it return.
InTurn(calls) ==
    LET returns(k) == calls[k] \cap Text # {}
        fails(k)   == calls[k] \ Text
        made       == {k \in DOMAIN calls : \A before \in 1..(k - 1) : returns(before)}
    IN  (UNION {fails(k) : k \in made}) \cup {e \in Text : \A k \in DOMAIN calls : returns(k)}

(***************************************************************************)
(* A TypeName names other multinames: first its parameters, in order, then *)
(* the generic type.  A chain of calls longer than the pool visits an      *)
(* entry twice and so never ends; the stack does.  A chain that is only    *)
(* longer than StackDepth may also reach the end of the stack.  Leaf says  *)
(* how entries of the other kinds end.                                     *)
(***************************************************************************)
TypeName == 29
NamesOf(m) == Append(m.params, m.name)

\* An entry by its index.
Entry(ends, i) ==
    IF i = 0 THEN Text
    ELSE IF i \in DOMAIN ends THEN ends[i]
    ELSE Throw

\* How the entries end, if those they name end as in inner.
Round(names, leaf, inner) ==
    [i \in DOMAIN names |->
       IF names[i].kind = TypeName
       THEN InTurn([k \in DOMAIN NamesOf(names[i]) |-> Entry(inner, NamesOf(names[i])[k])])
       ELSE leaf[i]]

Walk(pool, leaf, index) ==
    LET Ends[depth \in Nat] ==
          IF depth = 0 THEN [i \in DOMAIN pool.multinames |-> Crash]
          ELSE Round(pool.multinames, leaf, Ends[depth - 1])
    IN  Entry(Ends[Len(pool.multinames)], index)
          \cup (Entry(Ends[StackDepth], index) \cap Crash)

\* QName(A); RTQName(A); RTQNameL(A); Multiname(A); MultinameL(A)
MultinameEnds(pool, m) ==
    CASE m.kind \in {7, 13} ->
           Both(GetString(pool, m.name), GetNamespace(pool, m.ns))
      [] m.kind \in {15, 16} -> GetString(pool, m.name)
      [] m.kind \in {17, 18} -> Text
      [] m.kind \in {9, 14} ->
           Both(GetString(pool, m.name), GetNamespaceSet(pool, m.nsset))
      [] m.kind \in {27, 28} -> GetNamespaceSet(pool, m.nsset)
      [] OTHER -> Throw

GetMultiname(pool, index) ==
    Walk(pool, [i \in DOMAIN pool.multinames |-> MultinameEnds(pool, pool.multinames[i])], index)

\* Of the kinds that are no TypeName only QName is implemented.
MultinameEndsHRF(pool, m) == IF m.kind = 7 THEN GetString(pool, m.name) ELSE Throw

GetMultinameHRF(pool, index) ==
    Walk(pool, [i \in DOMAIN pool.multinames |-> MultinameEndsHRF(pool, pool.multinames[i])], index)

\* Undefined, False, True, Null; Utf8; Int, UInt and Double, with [].
GetMethodOptionHRF(pool, option) ==
    CASE option.kind \in {0, 10, 11, 12} -> Text
      [] option.kind = 1 -> GetString(pool, option.val)
      [] option.kind = 3 -> Index(pool.ints, option.val)
      [] option.kind = 4 -> Index(pool.uints, option.val)
      [] option.kind = 6 -> Index(pool.doubles, option.val)
      [] OTHER -> Throw

\* The accesses that ABCVM::disassemble makes, by the expression it uses.
PoolLookup(pool, via, index) ==
    CASE via = "none"         -> Text
      [] via = "getMultiname" -> GetMultiname(pool, index)
      [] via = "getString"    -> GetString(pool, index)
      [] via = "getNamespace" -> GetNamespace(pool, index)
      [] via = "ints"         -> Index(pool.ints, index)
      [] via = "doubles"      -> Index(pool.doubles, index)
      [] via = "strings"      -> Index(pool.strings, index)

=============================================================================

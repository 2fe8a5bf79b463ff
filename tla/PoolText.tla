------------------------------ MODULE PoolText ------------------------------
(***************************************************************************)
(* How an accessor of ABCConstantPool (src/ABCTypes.cpp) runs: it calls    *)
(* other accessors, and itself, on a stack that ends somewhere.  One       *)
(* action is a call, a return, an exception or a fault.                    *)
(*                                                                         *)
(* A call is a record: the accessor "fn", and the index or option it is    *)
(* given, "of".  A frame of the stack holds a call, and the calls it still *)
(* has to make before it returns.                                          *)
(***************************************************************************)
EXTENDS ConstantPool

CONSTANTS
    Pools,        \* the constant pools
    Queries       \* the calls a client makes

Accessors == {"getMultiname", "getMultinameHRF", "getNamespace", "getNamespaceSet",
              "getString", "getMethodOptionHRF"}

\* Tables, and the parameters of a TypeName, are vectors; a namespace is named
\* by a number.
ASSUME PoolsAssumption ==
    \A p \in Pools :
      /\ IsSeq(p.multinames)
      /\ \A m \in Range(p.multinames) : m.kind = TypeName => IsSeq(m.params)
      /\ \A m \in Range(p.multinames) : m.kind \in {7, 13} => m.ns \in Nat
      /\ IsSeq(p.namespaces)

ASSUME QueriesAssumption ==
    \A q \in Queries : q.fn \in Accessors /\ (q.fn = "getNamespace" => q.of \in Nat)

\* The frames that fit on the stack: those of the names there is room for, and
\* of a namespace and its string, which are called by the innermost of them.
StackLimit == StackDepth + 2

VARIABLES
    pool,     \* *this
    query,    \* the call the client has made
    stack,    \* the frames, the innermost last
    result    \* "none" until the client's call is over; then "text", or
              \* "throw" or "crash"

vars == <<pool, query, stack, result>>

Call(fn, of) == [fn |-> fn, of |-> of]

-----------------------------------------------------------------------------
Recursive == {"getMultiname", "getMultinameHRF"}

\* The entry a call is about, if it has one: index 0 is answered at once.
Known(c) == c.fn \in Recursive /\ c.of \in DOMAIN pool.multinames
Multiname(c) == pool.multinames[c.of]

\* Mutant of TypeNameCalls: the parameters are not those of the entry.
TypeNameCallsItself(c) == [i \in DOMAIN Multiname(c).params |-> c] \o <<Call(c.fn, Multiname(c).name)>>

\* The loop over the parameters, then the name.
TypeNameCalls(c) ==
    LET again(i) == Call(c.fn, i)
    IN  [k \in DOMAIN Multiname(c).params |-> again(Multiname(c).params[k])]
          \o <<again(Multiname(c).name)>>

\* Mutant of NameCalls: the name of a Multiname is taken for a set.
NameCallsSwapped(m) ==
    LET string == <<Call("getString", m.name)>>
    IN  CASE m.kind \in {7, 13}  -> string \o <<Call("getNamespace", m.ns)>>
          [] m.kind \in {15, 16} -> string
          [] m.kind \in {9, 14}  -> <<Call("getNamespaceSet", m.name), Call("getString", m.nsset)>>
          [] m.kind \in {27, 28} -> <<Call("getNamespaceSet", m.nsset)>>
          [] OTHER -> <<>>

NameCalls(m) ==
    LET string == <<Call("getString", m.name)>>
        set    == <<Call("getNamespaceSet", m.nsset)>>
    IN  CASE m.kind \in {7, 13}  -> string \o <<Call("getNamespace", m.ns)>>
          [] m.kind \in {15, 16} -> string
          [] m.kind \in {9, 14}  -> string \o set
          [] m.kind \in {27, 28} -> set
          [] OTHER -> <<>>

\* What a call calls, if it gets so far.
Calls(c) ==
    CASE Known(c) ->
           IF Multiname(c).kind = TypeName  THEN TypeNameCalls(c)
           ELSE IF c.fn = "getMultiname"    THEN NameCalls(Multiname(c))
           ELSE <<Call("getString", Multiname(c).name)>>
      [] c.fn = "getNamespace" /\ c.of \in DOMAIN pool.namespaces
           -> <<Call("getString", pool.namespaces[c.of].name)>>
      [] c.fn = "getMethodOptionHRF" /\ c.of.kind = 1 -> <<Call("getString", c.of.val)>>
      [] OTHER -> <<>>

\* The calls of a TypeName are statements; the others are arguments of one
\* call, and the compiler may evaluate them in any order.
InOrder(c) == Known(c) /\ Multiname(c).kind = TypeName

\* The kinds of multiname a function has a case for.
Implemented(fn) ==
    IF fn = "getMultiname" THEN {7, 9} \cup (13..18) \cup (27..29) ELSE {7, TypeName}

\* How a call ends, or goes on, by the tests and accesses of its own.
Own(c) ==
    CASE c.fn \in Recursive ->
           IF c.of = 0 \/ (Known(c) /\ Multiname(c).kind \in Implemented(c.fn))
           THEN Text ELSE Throw
      [] c.fn = "getNamespace" ->
           IF \/ c.of = 0
              \/ /\ c.of \in DOMAIN pool.namespaces
                 /\ pool.namespaces[c.of].kind \in NamespaceKinds
           THEN Text ELSE Throw
      [] c.fn = "getNamespaceSet" -> GetNamespaceSet(pool, c.of)
      [] c.fn = "getString" -> GetString(pool, c.of)
      [] c.fn = "getMethodOptionHRF" ->
           IF c.of.kind = 1 THEN Text ELSE GetMethodOptionHRF(pool, c.of)

-----------------------------------------------------------------------------
Top == Last(stack)

Init ==
    /\ pool \in Pools
    /\ query \in Queries
    /\ stack = <<>>
    /\ result = "none"

\* The frames when c has been called from those in below.
Entered(below, c) == Append(below, [call |-> c, todo |-> Calls(c)])

\* The call c, from a stack that then is below: it goes on, or ends badly.
Enter(c, below) ==
    \/ /\ Len(below) < StackLimit
       /\ "text" \in Own(c)
       /\ stack' = Entered(below, c)
       /\ UNCHANGED result
    \/ /\ "throw" \in Own(c)
       /\ stack' = <<>>
       /\ result' = "throw"
    \/ /\ \/ Len(below) = StackLimit
          \/ "crash" \in Own(c)
       /\ stack' = <<>>
       /\ result' = "crash"

Ask ==
    /\ result = "none"
    /\ stack = <<>>
    /\ Enter(query, <<>>)
    /\ UNCHANGED <<pool, query>>

Descend ==
    /\ stack # <<>>
    /\ Top.todo # <<>>
    /\ \E k \in DOMAIN Top.todo :
         /\ InOrder(Top.call) => k = 1
         /\ Enter(Top.todo[k],
                  [stack EXCEPT ![Len(stack)].todo = RemoveAt(@, k)])
    /\ UNCHANGED <<pool, query>>

Return ==
    /\ stack # <<>>
    /\ Top.todo = <<>>
    /\ stack' = Front(stack)
    /\ result' = IF Len(stack) = 1 THEN "text" ELSE result
    /\ UNCHANGED <<pool, query>>

\* The call is over: with this step, a deadlock is an access that is stuck.
Ended == result # "none" /\ UNCHANGED vars

Next == Ask \/ Descend \/ Return \/ Ended

Spec == Init /\ [][Next]_vars

-----------------------------------------------------------------------------
(***************************************************************************)
(* Properties.                                                             *)
(***************************************************************************)

\* The access as ConstantPool sees it, from outside.
Ends(c) ==
    CASE c.fn = "getMultiname"       -> GetMultiname(pool, c.of)
      [] c.fn = "getMultinameHRF"    -> GetMultinameHRF(pool, c.of)
      [] c.fn = "getNamespace"       -> GetNamespace(pool, c.of)
      [] c.fn = "getNamespaceSet"    -> GetNamespaceSet(pool, c.of)
      [] c.fn = "getString"          -> GetString(pool, c.of)
      [] c.fn = "getMethodOptionHRF" -> GetMethodOptionHRF(pool, c.of)

\* However its arguments are ordered, however deep it goes, the call ends in
\* one of the ways ConstantPool has for it.
EndsAsPromised == result # "none" => result \in Ends(query)

\* The entries a TypeName names, and a cycle among them.
Names(i) == {pool.multinames[i].name} \cup Range(pool.multinames[i].params)
TypeNames == {i \in DOMAIN pool.multinames : pool.multinames[i].kind = TypeName}

\* Without an entry in a set of TypeNames all of which name each other, the
\* recursion cannot come back to where it was.
Acyclic ==
    \A S \in (SUBSET TypeNames) \ {{}} : \E i \in S : Names(i) \cap S = {}

\* If the TypeNames form no cycle, the stack holds an entry at most once, and
\* at the end of the chain a namespace and its string: of a pool of up to
\* StackDepth names it is not exhausted.
DepthBounded ==
    Acyclic => Len(stack) <= Len(pool.multinames) + 2

=============================================================================

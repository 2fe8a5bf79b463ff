------------------------------- MODULE Listing -------------------------------
(***************************************************************************)
(* What ABCVM::disassemble promises its caller, without its worklist.      *)
(*                                                                         *)
(* A caller enters the code of a body at one position after another        *)
(* (main.cpp: at 0, then at the target of every exception handler), always *)
(* with the same listing.  A call lists positions one by one, and only     *)
(* positions control can get to; it may report success, after which - as   *)
(* long as no call has failed - everything control can get to is listed.   *)
(***************************************************************************)
CONSTANTS
    Codes,      \* the byte strings that can be the code of a body
    Starts,     \* the positions a caller may enter at
    Succ(_, _)  \* Succ(c, p): where control may go after position p of c

VARIABLES
    code,       \* the code of the body
    entries,    \* the positions entered so far
    listed,     \* the positions whose instruction is in the listing
    phase,      \* "idle" between calls, "running" in one, "crashed"
    whole       \* no call has failed

vars == <<code, entries, listed, phase, whole>>

\* Every position control can get to in at most one step from the listing.
Frontier == entries \cup UNION {Succ(code, p) : p \in listed}

Init ==
    /\ code \in Codes
    /\ entries = {}
    /\ listed = {}
    /\ phase = "idle"
    /\ whole = TRUE

Enter(s) ==
    /\ phase = "idle"
    /\ phase' = "running"
    /\ entries' = entries \cup {s}
    /\ UNCHANGED <<code, listed, whole>>

List(p) ==
    /\ phase = "running"
    /\ p \notin listed
    /\ listed' = listed \cup {p}
    /\ UNCHANGED <<code, entries, phase, whole>>

Succeed ==
    /\ phase = "running"
    /\ whole => Frontier \subseteq listed
    /\ phase' = "idle"
    /\ UNCHANGED <<code, entries, listed, whole>>

Fail ==
    /\ phase = "running"
    /\ phase' = "idle"
    /\ whole' = FALSE
    /\ UNCHANGED <<code, entries, listed>>

Crash ==
    /\ phase = "running"
    /\ phase' = "crashed"
    /\ UNCHANGED <<code, entries, listed, whole>>

Next ==
    \/ \E s \in Starts : Enter(s)
    \/ \E p \in Frontier : List(p)
    \/ Succeed
    \/ Fail
    \/ Crash

Spec == Init /\ [][Next]_vars

-----------------------------------------------------------------------------
\* A set that control never leaves once it has entered it.
ClosedSet(S) == entries \subseteq S /\ \A p \in S : Succ(code, p) \subseteq S

(***************************************************************************)
(* The listing never holds a position control cannot get to: it is inside  *)
(* every closed set.  (S ranges over every set; only the proofs use this.) *)
(***************************************************************************)
OnlyReachable == \A S : ClosedSet(S) => listed \subseteq S

(***************************************************************************)
(* Between calls, if none has failed, the listing is itself closed.  With  *)
(* OnlyReachable: it is exactly the set of reachable positions.            *)
(***************************************************************************)
AllReachable == phase = "idle" /\ whole => ClosedSet(listed)

=============================================================================

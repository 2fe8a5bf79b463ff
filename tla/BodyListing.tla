---------------------------- MODULE BodyListing ----------------------------
(***************************************************************************)
(* The loop of main.cpp over the bodies of an ABC file, on top of          *)
(* ABCVM::disassemble: for each body a fresh listing, coverage map and     *)
(* list of labels, a call of disassemble for the start of the code and one *)
(* for every exception handler, all into that listing, and its print.  The *)
(* results of the calls are ignored.                                       *)
(*                                                                         *)
(* At this commit a continue (line 219) stands before the loop, so that    *)
(* the program does not get here.                                          *)
(***************************************************************************)
EXTENDS Integers, SequencesExt

CONSTANTS
    BodyLists,       \* the tables of bodies: sequences of records with the
                     \* code and the exceptions of a body
    MaxHandlers,     \* bound of the model: exceptions of a body
    AddrSpace,       \* as in Instructions
    Lookup(_, _)     \* as in Disassembler

ASSUME AddrSpaceAssumption == AddrSpace \in Nat \ {0}

ASSUME MaxHandlersAssumption == MaxHandlers \in Nat

\* from, to, target, type and name of an exception are read with readU30.
ExceptionType ==
    [from : Nat, to : Nat, target : 0..(AddrSpace - 1), type : Nat, name : Nat]

BodyType == [code : Seq(0..255), exceptions : Seq(ExceptionType)]

\* The length of a code was read with readU30, too.
ASSUME BodiesAssumption ==
    /\ BodyLists \subseteq Seq(BodyType)
    /\ \A l \in BodyLists : \A i \in DOMAIN l : Len(l[i].code) < AddrSpace

VARIABLES
    bodies,    \* abc->bodies
    body,      \* the index of the body, from 1
    pc,        \* "body" at the head of the loop; "call" during a call of
               \* disassemble, and "handlers" between two; "done", "died"
    handler,   \* the next exception of the body
    bounds,    \* the labels main itself has put into jumps
    page,      \* the last listing printed
    code, ep, output, used, jumps, vm, entries, failed, calls

\* A call of disassemble.  (MaxCalls leaves room for all calls of a body.)
VM == INSTANCE Disassembler WITH
        Codes <- {b.code : b \in UNION {Range(l) : l \in BodyLists}},
        Starts <- {}, MaxCalls <- MaxHandlers + 1, pc <- vm

listing == <<code, ep, output, used, jumps, vm, entries, failed, calls>>
vars == <<bodies, body, pc, handler, bounds, page, listing>>

Exceptions == bodies[body].exceptions

\* Type and name of an exception, if not 0, are read with getMultiname, as
\* arguments of one call: in either order, and both must return.
NameEnds(e) ==
    LET ends(i) == IF i = 0 THEN {"text"} ELSE Lookup("getMultiname", i)
    IN  ((ends(e.type) \cup ends(e.name)) \ {"text"}) \cup (ends(e.type) \cap ends(e.name))

Init ==
    /\ bodies \in BodyLists
    /\ body = 1
    /\ pc = "body"
    /\ handler = 1
    /\ bounds = {}
    /\ page = [lines |-> {}, labelled |-> {}]
    /\ code = <<>>
    /\ ep = <<>>
    /\ output = [p \in {} |-> "insn"]
    /\ used = {}
    /\ jumps = {}
    /\ vm = "idle"
    /\ entries = {}
    /\ failed = FALSE
    /\ calls = 0

-----------------------------------------------------------------------------
\* ops, used and jumps are declared inside of the loop.
Fresh ==
    /\ output' = [p \in {} |-> "insn"]
    /\ used' = {}
    /\ jumps' = {}
    /\ bounds' = {}
    /\ failed' = FALSE

\* The head of the loop, up to disassemble(code, 0, ...).
BeginBody ==
    /\ pc = "body"
    /\ body <= Len(bodies)
    /\ code' = bodies[body].code
    /\ Fresh
    /\ ep' = <<0>>
    /\ vm' = "running"
    /\ entries' = {0}
    /\ calls' = 1
    /\ handler' = 1
    /\ pc' = "call"
    /\ UNCHANGED <<bodies, body, page>>

Disassemble ==
    /\ pc = "call"
    /\ VM!Iterate
    /\ pc' = CASE vm' = "running" -> "call"
               [] vm' = "idle"    -> "handlers"
               [] vm' = "crashed" -> "died"
    /\ UNCHANGED <<bodies, body, handler, bounds, page>>

\* Mutant of Handler: a handler that has a label is not visited.
HandlerIfNew ==
    /\ pc = "handlers"
    /\ handler <= Len(Exceptions)
    /\ LET e == Exceptions[handler]
       IN  /\ "text" \in NameEnds(e)
           /\ bounds' = bounds \cup {e.from, e.to, e.target}
           /\ IF e.target \in bounds \cup jumps
              THEN UNCHANGED <<listing, pc>>
              ELSE VM!Call(e.target) /\ pc' = "call"
    /\ handler' = handler + 1
    /\ UNCHANGED <<bodies, body, page>>

\* Mutant of Handler: only the range of the exception gets labels.
HandlerUnlabelled ==
    /\ pc = "handlers"
    /\ handler <= Len(Exceptions)
    /\ LET e == Exceptions[handler]
       IN  /\ "text" \in NameEnds(e)
           /\ bounds' = bounds \cup {e.from, e.to}
           /\ VM!Call(e.target)
    /\ handler' = handler + 1
    /\ pc' = "call"
    /\ UNCHANGED <<bodies, body, page>>

\* Mutant of Handler: after a failed call the handlers are skipped.
HandlerIfOk ==
    /\ pc = "handlers"
    /\ handler <= Len(Exceptions)
    /\ LET e == Exceptions[handler]
       IN  /\ "text" \in NameEnds(e)
           /\ bounds' = bounds \cup {e.from, e.to, e.target}
           /\ IF failed THEN UNCHANGED <<listing, pc>>
                        ELSE VM!Call(e.target) /\ pc' = "call"
    /\ handler' = handler + 1
    /\ UNCHANGED <<bodies, body, page>>

\* A turn of the loop over the exceptions.
Handler ==
    /\ pc = "handlers"
    /\ handler <= Len(Exceptions)
    /\ LET e == Exceptions[handler]
       IN  /\ "text" \in NameEnds(e)
           /\ bounds' = bounds \cup {e.from, e.to, e.target}
           /\ VM!Call(e.target)
    /\ handler' = handler + 1
    /\ pc' = "call"
    /\ UNCHANGED <<bodies, body, page>>

\* The type or the name of an exception cannot be read: nobody catches that.
HandlerDies ==
    /\ pc = "handlers"
    /\ handler <= Len(Exceptions)
    /\ NameEnds(Exceptions[handler]) \ {"text"} # {}
    /\ pc' = "died"
    /\ UNCHANGED <<bodies, body, handler, bounds, page, listing>>

\* The lines, in the order of their positions, with or without a label.
PrintPage ==
    /\ pc = "handlers"
    /\ handler > Len(Exceptions)
    /\ page' = [lines |-> DOMAIN output, labelled |-> DOMAIN output \cap (jumps \cup bounds)]
    /\ body' = body + 1
    /\ pc' = "body"
    /\ UNCHANGED <<bodies, handler, bounds, listing>>

Finish ==
    /\ pc = "body"
    /\ body > Len(bodies)
    /\ pc' = "done"
    /\ UNCHANGED <<bodies, body, handler, bounds, page, listing>>

\* main is over: with this step, a deadlock is a loop that is stuck.
Ended == pc \in {"done", "died"} /\ UNCHANGED vars

Next ==
    \/ BeginBody
    \/ Disassemble
    \/ Handler
    \/ HandlerDies
    \/ PrintPage
    \/ Finish
    \/ Ended

Spec == Init /\ [][Next]_vars

-----------------------------------------------------------------------------
(***************************************************************************)
(* Properties.                                                             *)
(***************************************************************************)

Printed == pc = "body" /\ body > 1
Last1 == bodies[body - 1]

\* Where control can enter the body that has just been printed.
Doors == {0} \cup {e.target : e \in Range(Last1.exceptions)}

Unknown(p) == VM!Decode(Last1.code, p).shape = "unknown"

\* Every handler has a line in the listing, whatever call has failed before
\* and left its entry points or a message behind; only an opcode nobody knows
\* has none.
HandlersAreListed ==
    Printed => \A p \in Doors : p \in page.lines \/ Unknown(p)

\* The results of the calls are ignored, and a call that succeeds may run into
\* the remains of one that failed; but a listing without a message is complete,
\* or it breaks off in view: a listed instruction leads to, or a handler or the
\* code begins with, an opcode nobody knows, which has no line.
GapsShow ==
    Printed /\ Range(output) \subseteq {"insn"} =>
      \/ page.lines = VM!Reachable(Last1.code, Doors)
      \/ \E p \in Doors \cup UNION {VM!Successors(Last1.code, q) : q \in page.lines} :
           Unknown(p) /\ p \notin page.lines

\* The line of a handler, and that of any target the listing names, has a
\* label.
TargetsAreLabelled ==
    Printed =>
      \A p \in page.lines :
        \/ p \in {e.target : e \in Range(Last1.exceptions)}
        \/ \E q \in page.lines : output[q] = "insn" /\ p \in VM!Targets(Last1.code, q)
        => p \in page.labelled

=============================================================================

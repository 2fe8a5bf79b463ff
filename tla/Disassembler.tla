---------------------------- MODULE Disassembler ----------------------------
(***************************************************************************)
(* ABCVM::disassemble (src/ABCVM.cpp): a worklist walk over the code of a  *)
(* method body.  One action is one iteration of its while loop, or the     *)
(* call, or the return.  The listing (output), the coverage map (used) and *)
(* the labels (jumps) belong to the caller and survive from call to call;  *)
(* the worklist (ep) is local to a call.                                   *)
(*                                                                         *)
(* Left out: the text of a listing line, and the local map "flow", which   *)
(* is written and never read.  jumps is a std::list that is only appended  *)
(* to, searched and stripped of adjacent duplicates, so it is the set of   *)
(* its elements here (unique() changes nothing).  A caller may add labels  *)
(* of its own to it (main.cpp: the bounds of exception ranges); those are  *)
(* not in this set.                                                        *)
(***************************************************************************)
EXTENDS Instructions, Functions

CONSTANTS
    Codes,         \* the byte strings that can be the code of a body
    Starts,        \* the positions a caller passes as start
    MaxCalls,      \* bound of the model: calls made on one listing
    Lookup(_, _)   \* Lookup(via, index): the ways the constant pool access
                   \* can end: "text", "throw" (caught), "crash"

ASSUME CodesAssumption ==
    /\ Codes \subseteq Seq(Byte)
    /\ \A c \in Codes : Len(c) < AddrSpace

ASSUME StartsAssumption == Starts \subseteq Position

ASSUME MaxCallsAssumption == MaxCalls \in Nat

VARIABLES
    code,      \* the code of the body
    ep,        \* entry points still to be visited; the last is taken next
    output,    \* position -> what its line in the listing is
    used,      \* the positions i with used[i] = true
    jumps,     \* the positions disassemble has labelled
    pc,        \* "idle" between calls, "running" in the loop, "crashed"
    entries,   \* history: the starts passed so far
    failed,    \* history: some call has returned false
    calls      \* history: how many calls were made

vars == <<code, ep, output, used, jumps, pc, entries, failed, calls>>

\* A line of the listing: an instruction, "EXCEPTION: data ptr out of range",
\* or "UNKNOWN EXCEPTION".
Line == {"insn", "exception", "unknown exception"}

Init ==
    /\ code \in Codes
    /\ ep = <<>>
    /\ output = [p \in {} |-> "insn"]
    /\ used = {}
    /\ jumps = {}
    /\ pc = "idle"
    /\ entries = {}
    /\ failed = FALSE
    /\ calls = 0

-----------------------------------------------------------------------------
Seen(p) == p \in DOMAIN output

Listed == {p \in DOMAIN output : output[p] = "insn"}

ip   == ep[Len(ep)]                   \* ip = ep.back()
rest == SubSeq(ep, 1, Len(ep) - 1)    \* ep.pop_back()
insn == Decode(code, ip)

\* What the instruction at ip pushes on ep: its targets and then, unless its
\* case ends in continue, the position after it.
Pushed ==
    insn.targets \o (IF insn.shape \in FallsThrough THEN <<insn.next>> ELSE <<>>)

WithLine(p, line) ==
    [q \in DOMAIN output \cup {p} |-> IF q = p THEN line ELSE output[q]]

Call(start) ==
    /\ pc = "idle"
    /\ calls < MaxCalls
    /\ ep' = <<start>>
    /\ pc' = "running"
    /\ entries' = entries \cup {start}
    /\ calls' = calls + 1
    /\ UNCHANGED <<code, output, used, jumps, failed>>

InLoop == pc = "running" /\ ep # <<>>

\* Mutant of SkipSeen: ep.pop_back() moved behind the continue.
SkipSeenUnpopped ==
    /\ InLoop
    /\ Seen(ip)
    /\ UNCHANGED vars

\* if (output.find(ip) != output.end()) continue;
SkipSeen ==
    /\ InLoop
    /\ Seen(ip)
    /\ ep' = rest
    /\ UNCHANGED <<code, output, used, jumps, pc, entries, failed, calls>>

\* Mutant of Fresh: the line that may be there already is not looked for.
FreshUnchecked == InLoop

Fresh == InLoop /\ ~Seen(ip)

(***************************************************************************)
(* An iteration that lists the instruction at ip: its line, the bytes it   *)
(* covers, its targets on ep and jumps, the position after it on ep.       *)
(***************************************************************************)
ListInsn ==
    /\ output' = WithLine(ip, "insn")
    /\ used' = used \cup Span(code, ip)
    /\ jumps' = jumps \cup Targets(code, ip)
    /\ ep' = rest \o Pushed
    /\ UNCHANGED <<code, pc, entries, failed, calls>>

\* A plain instruction; its operand, if any, is rendered from the pool.
Straight ==
    /\ Fresh
    /\ insn.shape \in StraightShapes
    /\ "text" \in Lookup(Forms[insn.shape].via, insn.index)
    /\ ListInsn

\* Mutant of Branch: a case without its jumps.push_back.
BranchUnlabelled ==
    /\ Fresh
    /\ insn.shape = "branch"
    /\ output' = WithLine(ip, "insn")
    /\ used' = used \cup Span(code, ip)
    /\ ep' = rest \o insn.targets \o <<insn.next>>
    /\ UNCHANGED <<code, jumps, pc, entries, failed, calls>>

Branch == Fresh /\ insn.shape = "branch" /\ ListInsn

Jump == Fresh /\ insn.shape = "jump" /\ ListInsn

\* Mutant of Switch: the default offset is labelled, but never visited.
SwitchWithoutDefault ==
    /\ Fresh
    /\ insn.shape = "switch"
    /\ output' = WithLine(ip, "insn")
    /\ used' = used \cup Span(code, ip)
    /\ jumps' = jumps \cup Targets(code, ip)
    /\ ep' = rest \o Tail(insn.targets)
    /\ UNCHANGED <<code, pc, entries, failed, calls>>

Switch == Fresh /\ insn.shape = "switch" /\ ListInsn

\* Mutants of Exit: without used[ip] = true, and with break for continue.
ExitUnmarked ==
    /\ Fresh
    /\ insn.shape = "exit"
    /\ output' = WithLine(ip, "insn")
    /\ ep' = rest
    /\ UNCHANGED <<code, used, jumps, pc, entries, failed, calls>>

ExitFallsThrough ==
    /\ Fresh
    /\ insn.shape = "exit"
    /\ output' = WithLine(ip, "insn")
    /\ used' = used \cup Span(code, ip)
    /\ ep' = Append(rest, insn.next)
    /\ UNCHANGED <<code, jumps, pc, entries, failed, calls>>

\* throw, returnvoid, returnvalue
Exit == Fresh /\ insn.shape = "exit" /\ ListInsn

\* The call returns false; what is left on ep is abandoned.
GiveUp ==
    /\ ep' = <<>>
    /\ pc' = "idle"
    /\ failed' = TRUE
    /\ UNCHANGED <<code, used, entries, calls>>

\* Mutant of UnknownOp: the default case goes on with the worklist.
UnknownOpIgnored ==
    /\ Fresh
    /\ insn.shape = "unknown"
    /\ ep' = rest
    /\ UNCHANGED <<code, output, used, jumps, pc, entries, failed, calls>>

\* default: the opcode is unknown, and nothing is listed for it.
UnknownOp ==
    /\ Fresh
    /\ insn.shape = "unknown"
    /\ GiveUp
    /\ UNCHANGED <<output, jumps>>

\* Mutant of ReadThrows: the message replaces the listing.
ReadThrowsClears ==
    /\ Fresh
    /\ insn.shape = "truncated"
    /\ output' = [p \in {ip} |-> "exception"]
    /\ jumps' = jumps \cup Targets(code, ip)
    /\ GiveUp

\* catch (const char *): a read went past the end of the code.  A switch has
\* already pushed the labels it could read.
ReadThrows ==
    /\ Fresh
    /\ insn.shape = "truncated"
    /\ output' = WithLine(ip, "exception")
    /\ jumps' = jumps \cup Targets(code, ip)
    /\ GiveUp

\* Mutant of LookupThrows: the try block is inside the loop.
LookupThrowsGoesOn ==
    /\ Fresh
    /\ insn.shape \in StraightShapes
    /\ "throw" \in Lookup(Forms[insn.shape].via, insn.index)
    /\ output' = WithLine(ip, "unknown exception")
    /\ ep' = rest
    /\ UNCHANGED <<code, used, jumps, pc, entries, failed, calls>>

\* catch (...): the constant pool rejected the operand.
LookupThrows ==
    /\ Fresh
    /\ insn.shape \in StraightShapes
    /\ "throw" \in Lookup(Forms[insn.shape].via, insn.index)
    /\ output' = WithLine(ip, "unknown exception")
    /\ GiveUp
    /\ UNCHANGED jumps

\* The process dies in the constant pool: an access outside a vector, or the
\* recursion of getMultiname without end.
LookupCrashes ==
    /\ Fresh
    /\ insn.shape \in StraightShapes
    /\ "crash" \in Lookup(Forms[insn.shape].via, insn.index)
    /\ pc' = "crashed"
    /\ UNCHANGED <<code, ep, output, used, jumps, entries, failed, calls>>

\* Mutant of Return: the loop ends one entry point too early.
ReturnEarly ==
    /\ pc = "running"
    /\ Len(ep) <= 1
    /\ ep' = <<>>
    /\ pc' = "idle"
    /\ UNCHANGED <<code, output, used, jumps, entries, failed, calls>>

\* The worklist is empty: jumps.unique(); return true.
Return ==
    /\ pc = "running"
    /\ ep = <<>>
    /\ pc' = "idle"
    /\ UNCHANGED <<code, ep, output, used, jumps, entries, failed, calls>>

\* What the code does by itself once it has been called.
Iterate ==
    \/ SkipSeen
    \/ Straight
    \/ Branch
    \/ Jump
    \/ Switch
    \/ Exit
    \/ UnknownOp
    \/ ReadThrows
    \/ LookupThrows
    \/ LookupCrashes
    \/ Return

Next ==
    \/ \E start \in Starts : Call(start)
    \/ Iterate

Spec == Init /\ [][Next]_vars

(***************************************************************************)
(* The loop runs on the caller's thread and waits for nothing, so it keeps *)
(* taking steps; nothing obliges a caller to call.                         *)
(***************************************************************************)
FairSpec == Spec /\ WF_vars(Iterate)

-----------------------------------------------------------------------------
(***************************************************************************)
(* Properties.                                                             *)
(***************************************************************************)

\* Every variable has its type; positions are uint32_t.
TypeOK ==
    /\ code \in Codes
    /\ ep \in Seq(Position)
    /\ DOMAIN output \subseteq Position
    /\ output \in [DOMAIN output -> Line]
    /\ used \subseteq Nat
    /\ jumps \subseteq Position
    /\ pc \in {"idle", "running", "crashed"}
    /\ entries \subseteq Position
    /\ failed \in BOOLEAN
    /\ calls \in Nat

\* The positions on the worklist.
Pending == Range(ep)

\* Every position control can get to in at most one step from the listing.
Frontier == entries \cup UNION {Successors(code, p) : p \in Listed}

\* used[i] = true is an unchecked store in a vector of code.size() bits: no
\* instruction, whatever bytes it was decoded from, marks a byte that is not
\* in the code.
UsedInBounds == used \subseteq 0..(Len(code) - 1)

\* The coverage map says exactly which bytes the listing explains: the cases
\* that leave the switch by continue mark their bytes themselves, and an
\* iteration that throws marks none.
UsedIsListed ==
    used = UNION {p..(Decode(code, p).next - 1) : p \in Listed}

\* The loop forgets no position: as long as no call has failed, whatever
\* control can reach from a listed instruction is listed or on the worklist,
\* and when the loop is left it is listed.
NothingLost ==
    ~failed => Frontier \subseteq Listed \cup Pending

\* The walk never strays: every pending position was passed by the caller or
\* is a successor of an instruction that is really in the listing.
NothingInvented == Listed \cup Pending \subseteq Frontier

\* Lines that are not instructions appear only when a call fails.
ErrorsMeanFailure == ~failed => DOMAIN output = Listed

\* Between calls, unless one has failed, the listing holds the instructions
\* that can be executed from the entries, all of them and no other.
ListingIsExact ==
    pc = "idle" /\ ~failed => Listed = Reachable(code, entries)

\* Every jump the listing names has a label, and, unless a call has failed,
\* every label has the line it labels once the call is over.
LabelsResolve ==
    /\ \A p \in Listed : Targets(code, p) \subseteq jumps
    /\ pc = "idle" /\ ~failed => jumps \subseteq Listed

\* A lookupswitch (27) has a default, a count n and n + 1 cases of three bytes
\* each: when it is listed, all of them are in the code, their targets have
\* labels, and its bytes, to the last of the last case, are covered.
SwitchIsWhole ==
    \A p \in Listed : ByteAt(code, p) = 27 =>
        LET first == p + 4 + VarLen(code, p + 4)
            cases == {first + 3 * i : i \in 0..U30At(code, p + 4)}
        IN  \A o \in cases \cup {p + 1} :
                /\ (p + S24At(code, o)) % AddrSpace \in jumps
                /\ p..(o + 2) \subseteq used \cap 0..(Len(code) - 1)

\* The worklist stays within what one visit of every listed instruction can
\* push, so the memory of a call is bounded by the code it lists.
WorklistBounded ==
    Len(ep) <= 1 + SumFunction([p \in Listed |-> Len(Decode(code, p).targets) + 1])

\* A line, once written, is never changed or removed, by this call or by a
\* later one, and so with marks and labels: a position where a call failed
\* stays as it is.
ListingKept ==
    [][/\ \A p \in DOMAIN output : p \in DOMAIN output' /\ output'[p] = output[p]
       /\ used \subseteq used'
       /\ jumps \subseteq jumps']_vars

\* The loop leaves every call: it does not turn for ever on code that jumps
\* backwards, into itself or into the middle of an instruction.
Terminates == pc = "running" ~> pc # "running"

\* The worklist implements the promise of Listing.
Promise == INSTANCE Listing WITH
    listed <- Listed, phase <- pc, whole <- ~failed, Succ <- Successors

PromiseKept == Promise!Spec

=============================================================================

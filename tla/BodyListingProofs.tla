-------------------------- MODULE BodyListingProofs --------------------------
(***************************************************************************)
(* Theorems on the loop of main.cpp over the bodies, for every table of    *)
(* bodies.  P is the instance of Disassembler that BodyListing calls VM,   *)
(* with the lemmas on it: IInv is an invariant of every call, and of the   *)
(* listing between calls.                                                  *)
(***************************************************************************)
EXTENDS BodyListing, TLAPS

P == INSTANCE DisassemblerProofs WITH
        Codes <- {b.code : b \in UNION {Range(l) : l \in BodyLists}},
        Starts <- {}, MaxCalls <- MaxHandlers + 1, pc <- vm

\* What P assumes of its constants is true of the tables of bodies.
LEMMA Assumptions ==
    P!AddrSpaceAssumption /\ P!CodesAssumption /\ P!StartsAssumption /\ P!MaxCallsAssumption
<1>1. ASSUME NEW l \in BodyLists, NEW b \in Range(l)
      PROVE  b.code \in Seq(0..255) /\ Len(b.code) < AddrSpace
  <2>1. PICK i \in DOMAIN l : b = l[i]
    BY DEF Range
  <2>2. l \in Seq(BodyType)
    BY BodiesAssumption
  <2>3. l[i] \in BodyType
    BY <2>2
  <2>4. Len(l[i].code) < AddrSpace
    BY BodiesAssumption
  <2> QED
    BY <2>1, <2>3, <2>4 DEF BodyType
<1>2. \A c \in {b.code : b \in UNION {Range(l) : l \in BodyLists}} :
        c \in Seq(0..255) /\ Len(c) < AddrSpace
  BY <1>1
<1> QED
  BY <1>2, AddrSpaceAssumption, MaxHandlersAssumption
     DEF P!AddrSpaceAssumption, P!CodesAssumption, P!StartsAssumption,
         P!MaxCallsAssumption, P!Byte

-----------------------------------------------------------------------------
(***************************************************************************)
(* VM and P are the same instance: operator by operator, then action by    *)
(* action.                                                                 *)
(***************************************************************************)
LEMMA SameShapes ==
    /\ VM!ShapeOf = P!ShapeOf
    /\ VM!Forms = P!Forms
    /\ VM!StraightShapes = P!StraightShapes
    /\ VM!FallsThrough = P!FallsThrough
BY DEF VM!Stretches, P!Stretches, VM!OpsMisc, P!OpsMisc, VM!OpsBranch,
    P!OpsBranch, VM!OpsSwitch, P!OpsSwitch, VM!OpsPush, P!OpsPush,
    VM!OpsCall, P!OpsCall, VM!OpsProperty, P!OpsProperty,
    VM!OpsConvert, P!OpsConvert, VM!OpsArith, P!OpsArith,
    VM!OpsLocal, P!OpsLocal, VM!Form, P!Form, VM!Forms, P!Forms,
    VM!StraightShapes, P!StraightShapes, VM!TransferShapes,
    P!TransferShapes, VM!FallsThrough, P!FallsThrough, VM!ShapeOf,
    P!ShapeOf

LEMMA SameBytes ==
    ASSUME NEW c, NEW p
    PROVE  /\ VM!ByteAt(c, p) = P!ByteAt(c, p)
           /\ VM!S24At(c, p) = P!S24At(c, p)
           /\ VM!InRange(c, p) <=> P!InRange(c, p)
           /\ \A k : VM!Continues(c, p, k) <=> P!Continues(c, p, k)
BY DEF VM!ByteAt, P!ByteAt, VM!InRange, P!InRange, VM!S24At, P!S24At,
    VM!SignedByte, P!SignedByte, VM!Continues, P!Continues

LEMMA SameU30 ==
    ASSUME NEW c, NEW p
    PROVE  /\ VM!U30At(c, p) = P!U30At(c, p)
           /\ VM!VarLen(c, p) = P!VarLen(c, p)
           /\ VM!AfterU30(c, p) = P!AfterU30(c, p)
<1>1. \A i : VM!Group(c, p, i) = P!Group(c, p, i)
  BY SameBytes DEF VM!Group, P!Group
<1>2. VM!U30At(c, p) = P!U30At(c, p)
  BY <1>1 DEF VM!U30At, P!U30At
<1>3. VM!VarLen(c, p) = P!VarLen(c, p)
  BY SameBytes DEF VM!VarLen, P!VarLen
<1> QED
  BY <1>2, <1>3 DEF VM!AfterU30, P!AfterU30

LEMMA SameStraight ==
    ASSUME NEW c, NEW p, NEW shape
    PROVE  VM!DecodeStraight(c, p, shape) = P!DecodeStraight(c, p, shape)
<1> DEFINE kinds == VM!Forms[shape].operands
<1>1. P!Forms[shape].operands = kinds
  BY SameShapes
<1>2. \A q, i : VM!OperandSize(c, q, kinds, i) = P!OperandSize(c, q, kinds, i)
  BY SameU30 DEF VM!OperandSize, P!OperandSize
<1>3. VM!AfterOperands(c, p + 1, kinds) = P!AfterOperands(c, p + 1, kinds)
  BY <1>2 DEF VM!AfterOperands, P!AfterOperands
<1>4. VM!IndexOperand(c, p + 1, kinds) = P!IndexOperand(c, p + 1, kinds)
  <2> HIDE DEF kinds
  <2>1. \A q : VM!U30At(c, q) = P!U30At(c, q)
    BY SameU30
  <2> QED
    BY <2>1 DEF VM!IndexOperand, P!IndexOperand, VM!AfterU8, P!AfterU8
<1> QED
  BY <1>1, <1>3, <1>4, SameBytes DEF VM!DecodeStraight, P!DecodeStraight, VM!Insn, P!Insn

LEMMA SameTransfer ==
    ASSUME NEW c, NEW p, NEW shape
    PROVE  /\ VM!DecodeJump(c, p, shape) = P!DecodeJump(c, p, shape)
           /\ VM!DecodeSwitch(c, p) = P!DecodeSwitch(c, p)
<1>1. VM!DecodeJump(c, p, shape) = P!DecodeJump(c, p, shape)
  BY SameBytes
     DEF VM!DecodeJump, P!DecodeJump, VM!Insn, P!Insn, VM!Address,
         P!Address, VM!AfterS24, P!AfterS24
<1>2. \A cases, n : VM!SwitchTargets(c, p, cases, n) = P!SwitchTargets(c, p, cases, n)
  BY SameBytes
     DEF VM!SwitchTargets, P!SwitchTargets, VM!OffsetAt, P!OffsetAt,
         VM!Address, P!Address
<1> QED
  BY <1>1, <1>2, SameBytes, SameU30
     DEF VM!DecodeSwitch, P!DecodeSwitch, VM!Insn, P!Insn, VM!AfterS24,
         P!AfterS24

LEMMA SameDecode ==
    ASSUME NEW c, NEW p
    PROVE  /\ VM!Decode(c, p) = P!Decode(c, p)
           /\ VM!Targets(c, p) = P!Targets(c, p)
           /\ VM!Successors(c, p) = P!Successors(c, p)
           /\ VM!Span(c, p) = P!Span(c, p)
<1>1. VM!Decode(c, p) = P!Decode(c, p)
  BY SameShapes, SameBytes, SameStraight, SameTransfer
     DEF VM!Decode, P!Decode, VM!AfterU8, P!AfterU8, VM!Insn, P!Insn
<1> QED
  BY <1>1, SameShapes
     DEF VM!Targets, P!Targets, VM!Successors, P!Successors, VM!Span,
         P!Span

LEMMA SameReachable ==
    ASSUME NEW c, NEW from
    PROVE  VM!Reachable(c, from) = P!Reachable(c, from)
<1> DEFINE VMWithin(W) ==
             [n \in Nat |->
                IF n = 0 THEN from
                ELSE W[n - 1] \cup UNION {VM!Successors(c, p) : p \in W[n - 1]}]
           PWithin(W) ==
             [n \in Nat |->
                IF n = 0 THEN from
                ELSE W[n - 1] \cup UNION {P!Successors(c, p) : p \in W[n - 1]}]
<1>1. ASSUME NEW W
      PROVE  VMWithin(W) = PWithin(W)
  <2>1. \A n : UNION {VM!Successors(c, p) : p \in W[n - 1]}
                 = UNION {P!Successors(c, p) : p \in W[n - 1]}
    BY SameDecode
  <2> QED
    BY <2>1
<1>2. VM!Reachable(c, from) = (CHOOSE W : W = VMWithin(W))[Len(c) + 1]
  BY Zenon DEF VM!Reachable
<1>3. P!Reachable(c, from) = (CHOOSE W : W = PWithin(W))[Len(c) + 1]
  BY Zenon DEF P!Reachable
<1> HIDE DEF VMWithin, PWithin
<1>4. (CHOOSE W : W = VMWithin(W)) = (CHOOSE W : W = PWithin(W))
  BY <1>1, Zenon
<1> QED
  BY <1>2, <1>3, <1>4

LEMMA SamePosition ==
    /\ VM!ip = P!ip
    /\ VM!insn = P!insn
    /\ VM!Pushed = P!Pushed
    /\ VM!Listed = P!Listed
    /\ VM!Frontier = P!Frontier
BY SameShapes, SameDecode
   DEF VM!ip, P!ip, VM!insn, P!insn, VM!Pushed, P!Pushed, VM!Listed,
       P!Listed, VM!Frontier, P!Frontier

LEMMA SameIterate == VM!Iterate <=> P!Iterate
<1>1. /\ VM!Fresh <=> P!Fresh
      /\ VM!InLoop <=> P!InLoop
      /\ VM!GiveUp <=> P!GiveUp
      /\ VM!ListInsn <=> P!ListInsn
      /\ \A p, line : VM!WithLine(p, line) = P!WithLine(p, line)
      /\ \A p : VM!Targets(code, p) = P!Targets(code, p)
  BY SameDecode, SamePosition
     DEF VM!GiveUp, P!GiveUp, VM!ListInsn, P!ListInsn, VM!Fresh, P!Fresh,
         VM!InLoop, P!InLoop, VM!Seen, P!Seen, VM!rest, P!rest,
         VM!WithLine, P!WithLine
<1>2. VM!SkipSeen <=> P!SkipSeen
  BY SameShapes, SamePosition, <1>1
     DEF VM!SkipSeen, P!SkipSeen, VM!rest, P!rest, VM!Seen, P!Seen
<1>3. VM!Straight <=> P!Straight
  BY SameShapes, SamePosition, <1>1
     DEF VM!Straight, P!Straight, VM!TransferShapes, P!TransferShapes
<1>4. VM!Branch <=> P!Branch
  BY SameShapes, SamePosition, <1>1
     DEF VM!Branch, P!Branch
<1>5. VM!Jump <=> P!Jump
  BY SameShapes, SamePosition, <1>1
     DEF VM!Jump, P!Jump
<1>6. VM!Switch <=> P!Switch
  BY SameShapes, SamePosition, <1>1
     DEF VM!Switch, P!Switch
<1>7. VM!Exit <=> P!Exit
  BY SameShapes, SamePosition, <1>1
     DEF VM!Exit, P!Exit
<1>8. VM!UnknownOp <=> P!UnknownOp
  BY SameShapes, SamePosition, <1>1
     DEF VM!UnknownOp, P!UnknownOp
<1>9. VM!ReadThrows <=> P!ReadThrows
  BY SameShapes, SamePosition, <1>1
     DEF VM!ReadThrows, P!ReadThrows
<1>10. VM!LookupThrows <=> P!LookupThrows
  BY SameShapes, SamePosition, <1>1
     DEF VM!LookupThrows, P!LookupThrows
<1>11. VM!LookupCrashes <=> P!LookupCrashes
  BY SameShapes, SamePosition, <1>1
     DEF VM!LookupCrashes, P!LookupCrashes
<1>12. VM!Return <=> P!Return
  BY SameShapes, SamePosition, <1>1
     DEF VM!Return, P!Return
<1> QED
  BY <1>2, <1>3, <1>4, <1>5, <1>6, <1>7, <1>8, <1>9, <1>10, <1>11, <1>12
     DEF VM!Iterate, P!Iterate

LEMMA SameCall ==
    ASSUME NEW start
    PROVE  VM!Call(start) <=> P!Call(start)
BY DEF VM!Call, P!Call

-----------------------------------------------------------------------------
(***************************************************************************)
(* The inductive invariant.                                                *)
(***************************************************************************)
TypeOK ==
    /\ bodies \in BodyLists
    /\ body \in Nat \ {0}
    /\ handler \in Nat \ {0}
    /\ pc \in {"body", "call", "handlers", "done", "died"}

\* The targets of the first n - 1 exceptions of a body.
TargetsBefore(b, n) == {b.exceptions[i].target : i \in 1..(n - 1)}

\* While a body is being listed: the calls made so far entered at 0 and at the
\* handlers before the next one, and these have their labels.
ListingOf(b, n) ==
    /\ P!IInv
    /\ code = b.code
    /\ entries = {0} \cup TargetsBefore(b, n)
    /\ TargetsBefore(b, n) \subseteq bounds

InBody ==
    pc \in {"call", "handlers"} =>
      /\ body <= Len(bodies)
      /\ handler <= Len(Exceptions) + 1
      /\ ListingOf(bodies[body], handler)
      /\ pc = "call" => vm = "running"
      /\ pc = "handlers" => vm = "idle"

\* After a print, what was listed and printed is still there.
AfterPrint ==
    Printed =>
      /\ body - 1 <= Len(bodies)
      /\ ListingOf(Last1, Len(Last1.exceptions) + 1)
      /\ vm = "idle"
      /\ page.lines = DOMAIN output
      /\ page.labelled = DOMAIN output \cap (jumps \cup bounds)

BInv == TypeOK /\ InBody /\ AfterPrint

\* A body of the table, and its exceptions.
LEMMA TableType ==
    ASSUME TypeOK, NEW i \in Nat \ {0}, i <= Len(bodies)
    PROVE  /\ bodies[i] \in BodyType
           /\ bodies[i].code \in {b.code : b \in UNION {Range(l) : l \in BodyLists}}
           /\ Len(bodies[i].exceptions) \in Nat
           /\ \A n \in Nat \ {0} : n <= Len(bodies[i].exceptions) =>
                bodies[i].exceptions[n].target \in 0..(AddrSpace - 1)
<1>1. bodies \in Seq(BodyType)
  BY BodiesAssumption DEF TypeOK
<1>2. i \in DOMAIN bodies
  BY <1>1
<1>3. bodies[i] \in BodyType
  BY <1>1, <1>2
<1>4. bodies[i] \in Range(bodies)
  BY <1>2 DEF Range
<1>5. bodies[i].exceptions \in Seq(ExceptionType)
  BY <1>3 DEF BodyType
<1>6. ASSUME NEW n \in Nat \ {0}, n <= Len(bodies[i].exceptions)
      PROVE  bodies[i].exceptions[n].target \in 0..(AddrSpace - 1)
  <2>1. bodies[i].exceptions[n] \in ExceptionType
    BY <1>5, <1>6
  <2> QED
    BY <2>1 DEF ExceptionType
<1> QED
  BY <1>3, <1>4, <1>5, <1>6 DEF TypeOK

LEMMA LemmaInit == Init => BInv
BY DEF Init, BInv, TypeOK, InBody, AfterPrint, Printed

LEMMA LemmaBeginBody ==
    ASSUME BInv, BeginBody
    PROVE  BInv'
<1>1. bodies[body].code \in {b.code : b \in UNION {Range(l) : l \in BodyLists}}
  BY TableType DEF BInv, TypeOK, BeginBody
<1>2. 0 \in P!Position
  BY AddrSpaceAssumption DEF P!Position
<1>3. P!IInv'
  BY <1>1, <1>2, Assumptions, P!LemmaEnter, Zenon DEF BeginBody, Fresh
<1>4. TargetsBefore(bodies'[body'], handler') = {}
  BY DEF TargetsBefore, BeginBody
<1>5. Len(bodies[body].exceptions) \in Nat
  BY TableType DEF BInv, TypeOK, BeginBody
<1>6. TypeOK'
  BY DEF BInv, TypeOK, BeginBody
<1>7. InBody'
  BY <1>3, <1>4, <1>5 DEF InBody, ListingOf, BeginBody, Exceptions
<1>8. AfterPrint'
  BY DEF AfterPrint, Printed, BeginBody
<1> QED
  BY <1>6, <1>7, <1>8 DEF BInv

LEMMA LemmaDisassemble ==
    ASSUME BInv, Disassemble
    PROVE  BInv'
<1>1. P!IInv /\ P!Iterate
  BY SameIterate DEF BInv, InBody, ListingOf, Disassemble
<1>2. P!IInv'
  BY <1>1, Assumptions, P!LemmaIterate, Zenon
<1>3. code' = code /\ entries' = entries
  BY <1>1, P!IterateKeeps, Assumptions, Zenon
<1>4. vm' \in {"idle", "running", "crashed"}
  BY <1>2 DEF P!IInv, P!TypeOK
<1>5. /\ vm' = "running" => pc' = "call"
      /\ vm' = "idle" => pc' = "handlers"
      /\ vm' = "crashed" => pc' = "died"
  BY DEF Disassemble
<1>6. TypeOK'
  BY <1>4, <1>5 DEF BInv, TypeOK, Disassemble
<1>7. InBody'
  BY <1>2, <1>3, <1>4, <1>5
     DEF BInv, InBody, ListingOf, Disassemble, Exceptions, TargetsBefore
<1>8. AfterPrint'
  BY <1>4, <1>5 DEF AfterPrint, Printed
<1> QED
  BY <1>6, <1>7, <1>8 DEF BInv

LEMMA LemmaHandler ==
    ASSUME BInv, Handler
    PROVE  BInv'
<1> DEFINE b == bodies[body]
           e == Exceptions[handler]
<1>1. /\ P!IInv
      /\ body <= Len(bodies) /\ handler <= Len(b.exceptions)
      /\ body \in Nat \ {0} /\ handler \in Nat \ {0}
      /\ e = b.exceptions[handler]
  BY DEF BInv, TypeOK, InBody, ListingOf, Handler, Exceptions
<1>2. e.target \in P!Position /\ Len(b.exceptions) \in Nat
  BY <1>1, TableType DEF BInv, P!Position
<1>3. P!Call(e.target)
  BY SameCall DEF Handler
<1>4. P!IInv'
  BY <1>1, <1>2, <1>3, Assumptions, P!LemmaCall, Zenon
<1>5. TargetsBefore(b, handler + 1) = TargetsBefore(b, handler) \cup {e.target}
  <2>1. 1..(handler + 1 - 1) = 1..(handler - 1) \cup {handler}
    BY <1>1
  <2> QED
    BY <1>1, <2>1 DEF TargetsBefore
<1>6. /\ code' = code /\ vm' = "running"
      /\ entries' = entries \cup {e.target}
  BY <1>3 DEF P!Call
<1>7. /\ bounds \subseteq bounds' /\ e.target \in bounds'
      /\ handler' = handler + 1 /\ pc' = "call"
      /\ UNCHANGED <<bodies, body, page>>
  BY DEF Handler
<1>8. TypeOK'
  BY <1>1, <1>7 DEF BInv, TypeOK
<1>9. pc = "handlers"
  BY DEF Handler
<1> HIDE DEF e
<1>10. ListingOf(b, handler)
  BY <1>9 DEF BInv, InBody
<1>11. ListingOf(b, handler)'
  BY <1>4, <1>5, <1>6, <1>7, <1>10 DEF ListingOf, TargetsBefore
<1>12. InBody'
  BY <1>1, <1>2, <1>6, <1>7, <1>11 DEF InBody, Exceptions, ListingOf, TargetsBefore
<1>13. AfterPrint'
  BY <1>7 DEF AfterPrint, Printed
<1> QED
  BY <1>8, <1>12, <1>13 DEF BInv

LEMMA LemmaPrintPage ==
    ASSUME BInv, PrintPage
    PROVE  BInv'
<1> DEFINE b == bodies[body]
<1>1. /\ body \in Nat \ {0} /\ body <= Len(bodies)
      /\ handler \in Nat \ {0} /\ handler <= Len(b.exceptions) + 1
      /\ handler > Len(b.exceptions)
      /\ vm = "idle"
      /\ ListingOf(b, handler)
  BY DEF BInv, TypeOK, InBody, PrintPage, Exceptions
<1>2. Len(b.exceptions) \in Nat
  BY <1>1, TableType DEF BInv
<1>3. handler = Len(b.exceptions) + 1
  BY <1>1, <1>2
<1>4. /\ page' = [lines |-> DOMAIN output,
                  labelled |-> DOMAIN output \cap (jumps \cup bounds)]
      /\ body' = body + 1 /\ pc' = "body"
      /\ UNCHANGED <<bodies, handler, bounds, listing>>
  BY DEF PrintPage
<1>5. UNCHANGED <<code, ep, output, used, jumps, vm, entries, failed, calls>>
  BY <1>4 DEF listing
<1>6. Last1' = b /\ body' - 1 = body
  BY <1>1, <1>4 DEF Last1
<1>7. P!IInv'
  <2>1. P!IInv
    BY <1>1 DEF ListingOf
  <2>2. vm' \in {"idle", "running", "crashed"} /\ ep = <<>>
    BY <1>1, <1>5, <2>1 DEF P!IInv, P!IdleIsDone
  <2> QED
    BY <1>5, <2>1, <2>2, Assumptions, P!LemmaQuiet, Zenon
<1>8. TypeOK' /\ InBody'
  BY <1>1, <1>4 DEF BInv, TypeOK, InBody
<1>9. AfterPrint'
  BY <1>1, <1>3, <1>4, <1>5, <1>6, <1>7 DEF AfterPrint, ListingOf, TargetsBefore
<1> QED
  BY <1>8, <1>9 DEF BInv

\* Steps that leave bodies and listing alone: the loop ends, the program dies,
\* or nothing happens.
LEMMA LemmaQuiet ==
    ASSUME BInv, UNCHANGED <<bodies, body, handler, bounds, page, listing>>,
           pc' \in {"done", "died"} \/ pc' = pc
    PROVE  BInv'
<1>1. UNCHANGED <<code, ep, output, used, jumps, vm, entries, failed, calls>>
  BY DEF listing
<1>2. ASSUME P!IInv
      PROVE  P!IInv'
  <2>1. vm' \in {"idle", "running", "crashed"} /\ (vm' = "idle" => ep = <<>>)
    BY <1>1, <1>2 DEF P!IInv, P!IdleIsDone, P!TypeOK
  <2> QED
    BY <1>1, <1>2, <2>1, Assumptions, P!LemmaQuiet, Zenon
<1>3. TypeOK'
  BY DEF BInv, TypeOK
<1>4. InBody'
  BY <1>1, <1>2 DEF BInv, InBody, ListingOf, TargetsBefore, Exceptions
<1>5. AfterPrint'
  BY <1>1, <1>2 DEF BInv, AfterPrint, Printed, Last1, ListingOf, TargetsBefore
<1> QED
  BY <1>3, <1>4, <1>5 DEF BInv

LEMMA LemmaNext == BInv /\ [Next]_vars => BInv'
<1> SUFFICES ASSUME BInv, [Next]_vars PROVE BInv'
  OBVIOUS
<1>1. CASE BeginBody
  BY <1>1, LemmaBeginBody
<1>2. CASE Disassemble
  BY <1>2, LemmaDisassemble
<1>3. CASE Handler
  BY <1>3, LemmaHandler
<1>4. CASE PrintPage
  BY <1>4, LemmaPrintPage
<1>5. CASE HandlerDies
  BY <1>5, LemmaQuiet DEF HandlerDies
<1>6. CASE Finish
  BY <1>6, LemmaQuiet DEF Finish
<1>7. CASE Ended \/ UNCHANGED vars
  BY <1>7, LemmaQuiet DEF Ended, vars
<1> QED
  BY <1>1, <1>2, <1>3, <1>4, <1>5, <1>6, <1>7 DEF Next

\* BInv is an invariant of the loop over the bodies.
THEOREM Invariance == Spec => []BInv
BY LemmaInit, LemmaNext, PTL DEF Spec

-----------------------------------------------------------------------------
(***************************************************************************)
(* What follows from it.                                                   *)
(***************************************************************************)

\* The handlers of the body that was printed last.
LEMMA TargetsOfLast ==
    ASSUME BInv, Printed
    PROVE  TargetsBefore(Last1, Len(Last1.exceptions) + 1)
             = {e.target : e \in Range(Last1.exceptions)}
<1>1. Last1 \in BodyType
  BY TableType DEF BInv, TypeOK, AfterPrint, Printed, Last1
<1>2. Last1.exceptions \in Seq(ExceptionType)
  BY <1>1 DEF BodyType
<1>3. DOMAIN Last1.exceptions = 1..(Len(Last1.exceptions) + 1 - 1)
  BY <1>2
<1> QED
  BY <1>3 DEF TargetsBefore, Range

\* The entries of a printed listing are the doors of its body.
LEMMA DoorsAreEntries ==
    ASSUME BInv, Printed
    PROVE  entries = Doors
BY TargetsOfLast DEF BInv, AfterPrint, ListingOf, Doors

\* Every handler has its line, or an opcode nobody knows, whatever calls failed.
THEOREM HandlersListed == Spec => []HandlersAreListed
<1>1. BInv => HandlersAreListed
  <2> SUFFICES ASSUME BInv, Printed, NEW p \in Doors
               PROVE  p \in page.lines \/ Unknown(p)
    BY DEF HandlersAreListed
  <2>1. /\ P!IInv /\ vm = "idle" /\ code = Last1.code
        /\ page.lines = DOMAIN output
        /\ p \in entries
    BY DoorsAreEntries DEF BInv, AfterPrint, ListingOf
  <2>2. ep = <<>>
    BY <2>1 DEF P!IInv, P!IdleIsDone
  <2>3. p \in DOMAIN output \/ P!Decode(code, p).shape = "unknown"
    BY <2>1, <2>2 DEF P!IInv, P!EntriesSettled, P!Seen
  <2> QED
    BY <2>1, <2>3, SameDecode DEF Unknown
<1> QED
  BY <1>1, Invariance, PTL

\* A printed listing without a message is everything control can get to, or it
\* breaks off at an opcode nobody knows, to which one of its lines leads or
\* which a handler or the code begins with, although the results of the calls
\* are ignored.
THEOREM GapsAreVisible == Spec => []GapsShow
<1>1. BInv => GapsShow
  <2> DEFINE reach == VM!Reachable(Last1.code, Doors)
             edge == Doors \cup UNION {VM!Successors(Last1.code, q) : q \in page.lines}
  <2> SUFFICES ASSUME BInv, Printed, Range(output) \subseteq {"insn"}
               PROVE  page.lines = reach \/ \E p \in edge : Unknown(p) /\ p \notin page.lines
    BY DEF GapsShow
  <2>1. /\ P!IInv /\ vm = "idle" /\ code = Last1.code
        /\ page.lines = DOMAIN output
    BY DEF BInv, AfterPrint, ListingOf
  <2>2. reach = P!Reachable(code, entries)
    BY <2>1, DoorsAreEntries, SameReachable
  <2>3. DOMAIN output = P!Listed
    BY DEF P!Listed, Range
  <2>4. CASE ~failed
    <3> HIDE DEF reach
    <3> QED
      BY <2>1, <2>2, <2>3, <2>4, Assumptions, P!IdleListing, Zenon
  <2>5. CASE failed
    <3>1. PICK p \in P!Frontier : P!Decode(code, p).shape = "unknown"
      BY <2>1, <2>3, <2>5 DEF P!IInv, P!FailureShows
    <3>2. p \in edge
      <4>1. \A q : VM!Successors(Last1.code, q) = P!Successors(code, q)
        BY <2>1, SameDecode
      <4> QED
        BY <2>1, <2>3, <3>1, <4>1, DoorsAreEntries DEF P!Frontier
    <3>3. p \notin page.lines
      BY <2>1, <2>3, <3>1 DEF P!IInv, P!ListedIsRead
    <3>4. Unknown(p)
      BY <2>1, <3>1, SameDecode DEF Unknown
    <3> QED
      BY <3>2, <3>3, <3>4
  <2> QED
    BY <2>4, <2>5
<1> QED
  BY <1>1, Invariance, PTL

\* The lines of handlers, and those the listing names as targets, have labels.
THEOREM TargetsHaveLabels == Spec => []TargetsAreLabelled
<1>1. BInv => TargetsAreLabelled
  <2> SUFFICES ASSUME BInv, Printed, NEW p \in page.lines,
                      \/ p \in {e.target : e \in Range(Last1.exceptions)}
                      \/ \E q \in page.lines :
                           output[q] = "insn" /\ p \in VM!Targets(Last1.code, q)
               PROVE  p \in page.labelled
    BY DEF TargetsAreLabelled
  <2>1. /\ P!IInv /\ code = Last1.code
        /\ TargetsBefore(Last1, Len(Last1.exceptions) + 1) \subseteq bounds
        /\ page.lines = DOMAIN output
        /\ page.labelled = DOMAIN output \cap (jumps \cup bounds)
    BY DEF BInv, AfterPrint, ListingOf
  <2>2. CASE p \in {e.target : e \in Range(Last1.exceptions)}
    BY <2>1, <2>2, TargetsOfLast
  <2>3. ASSUME NEW q \in page.lines, output[q] = "insn", p \in VM!Targets(Last1.code, q)
        PROVE  p \in jumps
    <3>1. q \in P!Listed /\ p \in P!Targets(code, q)
      BY <2>1, <2>3, SameDecode DEF P!Listed
    <3> QED
      BY <2>1, <3>1 DEF P!IInv, P!LabelsKnown
  <2> QED
    BY <2>1, <2>2, <2>3
<1> QED
  BY <1>1, Invariance, PTL

=============================================================================

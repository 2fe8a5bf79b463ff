---------------------------- MODULE Instructions ----------------------------
(***************************************************************************)
(* What one iteration of the loop of ABCVM::disassemble reads at ip: the   *)
(* opcode, its operands and the jump targets computed from them.           *)
(*                                                                         *)
(* Decode(buf, ip) is a record                                             *)
(*   shape    the shape of the opcode; "unknown" for the default case,     *)
(*            "truncated" when a read threw                                *)
(*   next     reader.pos() after the operands; beyond the code when        *)
(*            truncated                                                     *)
(*   targets  the positions pushed on ep and jumps, in the order pushed    *)
(*            (when truncated: those pushed before the throw)              *)
(*   index    the operand that is looked up in the constant pool           *)
(***************************************************************************)
EXTENDS ABCReader, Opcodes

\* Positions are uint32_t: AddrSpace is 2^32 in the code.  TLC's integers are
\* narrower, so the models take 2^30, still far from every code length.
CONSTANT AddrSpace

ASSUME AddrSpaceAssumption == AddrSpace \in Nat \ {0}

\* Mutant of Address: positions computed in a wider type.
AddressUnwrapped(n) == n

\* uint32_t arithmetic on positions: a backward jump out of the code wraps.
Address(n) == n % AddrSpace

Position == 0..(AddrSpace - 1)

Insn(shape, next, targets, index) ==
    [shape |-> shape, next |-> next, targets |-> targets, index |-> index]

-----------------------------------------------------------------------------
(***************************************************************************)
(* Straight-line shapes: the operands, read one after the other from p.    *)
(* No case reads more than four (debug reads four).                        *)
(***************************************************************************)
OperandSize(buf, p, kinds, i) ==
    IF i > Len(kinds) THEN 0
    ELSE IF kinds[i] = "u8" THEN 1 ELSE VarLen(buf, p)

AfterOperands(buf, p, kinds) ==
    LET p1 == p  + OperandSize(buf, p,  kinds, 1)
        p2 == p1 + OperandSize(buf, p1, kinds, 2)
        p3 == p2 + OperandSize(buf, p2, kinds, 3)
    IN  p3 + OperandSize(buf, p3, kinds, 4)

\* The operand that is looked up is the first, or the second after a byte.
IndexOperand(buf, p, kinds) ==
    CASE Len(kinds) >= 1 /\ kinds[1] = "index" -> U30At(buf, p)
      [] Len(kinds) >= 2 /\ kinds[2] = "index" -> U30At(buf, AfterU8(p))
      [] OTHER -> 0

DecodeStraight(buf, ip, shape) ==
    LET kinds == Forms[shape].operands
        next  == AfterOperands(buf, ip + 1, kinds)
    IN  IF InRange(buf, next)
        THEN Insn(shape, next, <<>>, IndexOperand(buf, ip + 1, kinds))
        ELSE Insn("truncated", next, <<>>, 0)

\* The offset of a jump counts from the end of the instruction.
DecodeJump(buf, ip, shape) ==
    LET next == AfterS24(ip + 1)
    IN  IF InRange(buf, next)
        THEN Insn(shape, next, <<Address(next + S24At(buf, ip + 1))>>, 0)
        ELSE Insn("truncated", next, <<>>, 0)

(***************************************************************************)
(* lookupswitch: a default offset, a count, then count + 1 case offsets    *)
(* (do .. while (case_count--)), all relative to ip.  The targets read     *)
(* before a throw have already been pushed: there are as many of them as   *)
(* offsets are there to be read.                                           *)
(***************************************************************************)
OffsetAt(ip, cases, i) == IF i = 1 THEN ip + 1 ELSE cases + 3 * (i - 2)

SwitchTargets(buf, ip, cases, n) ==
    [i \in 1..n |-> Address(ip + S24At(buf, OffsetAt(ip, cases, i)))]

\* Mutant of DecodeSwitch: while (--case_count), one case too few.
DecodeSwitchShort(buf, ip) ==
    LET count   == AfterS24(ip + 1)
        cases   == AfterU30(buf, count)
        wanted  == U30At(buf, count)
    IN  IF ~InRange(buf, cases) \/ ~InRange(buf, cases + 3 * wanted)
        THEN Insn("truncated", Len(buf) + 1, <<>>, 0)
        ELSE Insn("switch", cases + 3 * wanted, SwitchTargets(buf, ip, cases, 1 + wanted), 0)

DecodeSwitch(buf, ip) ==
    LET count   == AfterS24(ip + 1)
        cases   == AfterU30(buf, count)
        present == (Len(buf) - cases) \div 3
        wanted  == U30At(buf, count) + 1
        upTo(n) == SwitchTargets(buf, ip, cases, n)
    IN  IF ~InRange(buf, count) THEN Insn("truncated", count, <<>>, 0)
        ELSE IF ~InRange(buf, cases) THEN Insn("truncated", cases, upTo(1), 0)
        ELSE IF wanted > present
             THEN Insn("truncated", Len(buf) + 1, upTo(1 + present), 0)
        ELSE Insn("switch", cases + 3 * wanted, upTo(1 + wanted), 0)

Decode(buf, ip) ==
    IF ~InRange(buf, AfterU8(ip)) THEN Insn("truncated", AfterU8(ip), <<>>, 0)
    ELSE LET shape == ShapeOf[ByteAt(buf, ip)]
         IN  CASE shape \in {"unknown", "exit"} ->
                      Insn(shape, AfterU8(ip), <<>>, 0)
               [] shape \in {"branch", "jump"} -> DecodeJump(buf, ip, shape)
               [] shape = "switch" -> DecodeSwitch(buf, ip)
               [] OTHER -> DecodeStraight(buf, ip, shape)

-----------------------------------------------------------------------------
Targets(buf, ip) ==
    LET t == Decode(buf, ip).targets IN {t[i] : i \in DOMAIN t}

\* Where control may go after the instruction at ip.
Successors(buf, ip) ==
    Targets(buf, ip) \cup
      (IF Decode(buf, ip).shape \in FallsThrough THEN {Decode(buf, ip).next} ELSE {})

\* Mutant of Span: i <= reader.pos() in the loop that marks the bytes.
SpanInclusive(buf, ip) == ip..Decode(buf, ip).next

\* The bytes of the instruction at ip.
Span(buf, ip) == ip..(Decode(buf, ip).next - 1)

(***************************************************************************)
(* A reference for the whole walk: the positions control can get to from   *)
(* entries, found by taking one more step at a time.  Only positions in    *)
(* the code have successors, so Len(buf) + 1 steps reach all of them.      *)
(***************************************************************************)
Reachable(buf, entries) ==
    LET Within[n \in Nat] ==
          IF n = 0 THEN entries
          ELSE LET near == Within[n - 1]
               IN  near \cup UNION {Successors(buf, p) : p \in near}
    IN  Within[Len(buf) + 1]

=============================================================================

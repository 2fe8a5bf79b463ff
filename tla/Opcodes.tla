------------------------------- MODULE Opcodes -------------------------------
(***************************************************************************)
(* The instruction set that ABCVM::disassemble knows: the big switch of    *)
(* src/ABCVM.cpp as a table from opcode to SHAPE.  The shape of an opcode  *)
(* fixes which operands its case reads, in which order, and through which  *)
(* accessor of the constant pool it renders one of them.  Mnemonics and    *)
(* layout of the listing are left out.                                     *)
(*                                                                         *)
(* One definition per stretch of the switch; a record field holds the      *)
(* opcodes of that stretch that have that shape.                           *)
(***************************************************************************)
EXTENDS Integers, Sequences

\* bkpt nop throw getsuper setsuper dxns dxnslate kill label
OpsMisc == [plain |-> {1, 2, 7, 9}, u30 |-> {8}, multiname |-> {4, 5},
            string |-> {6}, exit |-> {3}]

\* ifnlt .. ifnge, jump, iftrue .. ifstrictne
OpsBranch == [branch |-> (12..26) \ {16}, jump |-> {16}]

OpsSwitch == [switch |-> {27}]

\* pushwith .. hasnext2
OpsPush == [plain |-> (28..33) \cup {35} \cup (38..43) \cup {48},
            u8 |-> {36}, u30 |-> {37}, string |-> {44}, int |-> {45},
            uint |-> {46}, double |-> {47}, namespace |-> {49},
            u30u30 |-> {50}]

\* newfunction .. newclass
OpsCall == [plain |-> {87}, u30 |-> {64, 65, 66, 73, 83, 85, 86, 88},
            u30u30 |-> {67, 68, 69}, multinameArgs |-> {70, 74, 76, 78, 79},
            exit |-> {71, 72}]

\* getdescendants .. setglobalslot
OpsProperty == [plain |-> {100}, u8 |-> {101},
                u30 |-> {89, 90, 95, 98, 99} \cup (108..111),
                multiname |-> {93, 94, 96, 97, 102, 104, 106}]

\* convert_s .. bitnot
OpsConvert == [plain |-> (112..120) \cup (129..133) \cup (135..137)
                           \cup {144, 145, 147, 149, 150, 151},
               u30 |-> {134, 146, 148}, multiname |-> {128}]

\* add .. multiply_i
OpsArith == [plain |-> (160..177) \cup {179, 180, 192, 193} \cup (196..199),
             u30 |-> {178, 194, 195}]

\* getlocal_0 .. setlocal_3, debug .. timestamp
OpsLocal == [plain |-> (208..215) \cup {243}, u30 |-> {240, 242},
             debug |-> {239}, debugfile |-> {241}]

Stretches == {OpsMisc, OpsBranch, OpsSwitch, OpsPush, OpsCall, OpsProperty,
              OpsConvert, OpsArith, OpsLocal}

-----------------------------------------------------------------------------
(***************************************************************************)
(* What a case does with its operands.  "index" is the operand that is     *)
(* looked up in the constant pool, "via" the expression that looks it up:  *)
(* the get* accessors test their argument, the [] accesses do not.         *)
(* pushuint really indexes _cpool.ints.                                    *)
(***************************************************************************)
Form(operands, via) == [operands |-> operands, via |-> via]

Forms ==
    [plain         |-> Form(<<>>, "none"),
     exit          |-> Form(<<>>, "none"),
     u8            |-> Form(<<"u8">>, "none"),
     u30           |-> Form(<<"u30">>, "none"),
     u30u30        |-> Form(<<"u30", "u30">>, "none"),
     multiname     |-> Form(<<"index">>, "getMultiname"),
     multinameArgs |-> Form(<<"index", "u30">>, "getMultiname"),
     string        |-> Form(<<"index">>, "getString"),
     namespace     |-> Form(<<"index">>, "getNamespace"),
     int           |-> Form(<<"index">>, "ints"),
     uint          |-> Form(<<"index">>, "ints"),
     double        |-> Form(<<"index">>, "doubles"),
     debug         |-> Form(<<"u8", "index", "u8", "u30">>, "strings"),
     debugfile     |-> Form(<<"index">>, "strings")]

Accessors == {"none", "getMultiname", "getString", "getNamespace",
              "ints", "doubles", "strings"}

\* Straight-line shapes read their operands and fall through.
StraightShapes == DOMAIN Forms \ {"exit"}
TransferShapes == {"branch", "jump", "switch", "exit"}

\* "normal flow - next operation": the cases that leave the switch by break.
FallsThrough == StraightShapes \cup {"branch"}

\* The case of the switch that each opcode byte selects, or its default.
ShapeOf ==
    [op \in 0..255 |->
        LET named == {sh \in StraightShapes \cup TransferShapes :
                        \E s \in Stretches : sh \in DOMAIN s /\ op \in s[sh]}
        IN  IF named = {} THEN "unknown" ELSE CHOOSE sh \in named : TRUE]

=============================================================================

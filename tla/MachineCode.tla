---------------------------- MODULE MachineCode -----------------------------
(***************************************************************************)
(* The x86 machine code of src/core/codegen/X86.hpp as allocate() reads    *)
(* it: operands, instructions, which registers an instruction reads,       *)
(* writes and destroys, what may follow it, and the colouring problem a    *)
(* list of instructions poses.                                             *)
(*                                                                         *)
(* A function is a record                                                  *)
(*   blocks : the blocks in layout order, each with its instructions       *)
(*            (instrs) and the places of its successors (succs)            *)
(*   domain : for each virtual register, the physical registers it may get *)
(*   fixed  : the virtual registers pinned to one physical register        *)
(* All values are 64 bits wide, the only width the language has.           *)
(***************************************************************************)
EXTENDS Integers, Sequences, FiniteSets, SequencesExt, RegisterTable

(* The registers the code generator names, by the id each name finds.       *)
RAX == 1
RCX == 6
RDX == 11
RBX == 16
RSP == 21
RBP == 25
RSI == 29
RDI == 33
R8  == 37
R9  == 41
R10 == 45
R11 == 49
R12 == 53
R13 == 57
R14 == 61
R15 == 65

ASSUME NamesAssumption ==
  <<RAX, RCX, RDX, RBX, RSP, RBP, RSI, RDI, R8, R9,
    R10, R11, R12, R13, R14, R15>> = [f \in DOMAIN GPNames |-> Whole(GPNames[f])]

(* The registers a value of the program may take, the ones of them a call  *)
(* destroys, and the two that are never given out.                         *)
GeneralRegs == DomainFor("INT", 64)
CallerSavedRegs == {r \in GeneralRegs : At(r).callerSaved}
ReservedRegs == {r \in {RSP, RBP} : At(r).reserved}
IntArgRegs == <<RDI, RSI, RDX, RCX, R8, R9>>

(* What is given out is neither the stack nor the frame pointer, and what  *)
(* is pinned is what a call destroys.                                      *)
ASSUME GeneralAssumption ==
  /\ ReservedRegs = {RSP, RBP} /\ GeneralRegs \cap ReservedRegs = {}
  /\ ToSet(IntArgRegs) \cup {RAX} \subseteq CallerSavedRegs

(* The operand kinds of X86.hpp.  A memory operand is a base register and  *)
(* a displacement; the callee of a CALL carries how many arguments its     *)
(* signature takes in registers and on the stack.                          *)
VREG(v)    == [kind |-> "VREG", n |-> v]
PREG(r)    == [kind |-> "PREG", n |-> r]
MEM(r, d)  == [kind |-> "MEM", n |-> r, disp |-> d]
LIT(l)     == [kind |-> "LIT", n |-> l]
LABEL(b)   == [kind |-> "LABEL", n |-> b]
SYM(f, a)  == [kind |-> "SYM", n |-> f, args |-> a]
MNONE      == [kind |-> "NONE"]

Ins(op, dst, src) == [op |-> op, dst |-> dst, src |-> src]

ConditionalJumps == {"JG", "JGE", "JL", "JLE", "JE", "JNE"}

VregsIn(o) == IF o.kind = "VREG" THEN {o.n} ELSE {}

-----------------------------------------------------------------------------
(* The bytes lower() has left at RSP, for the arguments of a call, after k *)
(* instructions of a block.                                                *)
MovesRSP(i, op) == i.op = op /\ i.dst = PREG(RSP)
ArgBytes(instrs, k) ==
  LET open == {j \in 1 .. k : /\ MovesRSP(instrs[j], "SUB")
                             /\ \A m \in j .. k : ~MovesRSP(instrs[m], "ADD")}
  IN  IF open = {} THEN 0 ELSE instrs[CHOOSE j \in open : TRUE].src.n

(* What it writes where there are m bytes, and will be n: results go to    *)
(* virtual registers, stack arguments into the room made for them, and no  *)
(* jump leaves any behind.                                                 *)
WrittenAt(i, m, n) ==
  \/ MovesRSP(i, "SUB") /\ m = 0 /\ i.src = LIT(n)
  \/ MovesRSP(i, "ADD") /\ n = 0 /\ i.src = LIT(m)
  \/ i.op \in {"MOV", "ADD", "IMUL"} /\ i.dst.kind = "VREG" /\ n = m
  \/ i.op = "MOV" /\ i.dst.kind = "MEM" /\ i.dst.n = RSP /\ i.dst.disp \in 0 .. m - 8 /\ n = m
  \/ i.op = "CMP" /\ n = m
  \/ i.op = "CALL" /\ m % 16 = 0 /\ n = m
  \/ i.op \in ConditionalJumps \cup {"JMP", "RET"} /\ m = 0 /\ n = 0

IsLowered(f) ==
  /\ DOMAIN f = {"blocks", "domain", "fixed"}
  /\ f.domain \in [DOMAIN f.domain -> SUBSET GeneralRegs]
  /\ \A x \in f.fixed : \E r \in CallerSavedRegs : x \in DOMAIN f.domain /\ f.domain[x] = {r}
  /\ f.blocks \in Seq({f.blocks[b] : b \in DOMAIN f.blocks}) /\ f.blocks # << >>
  /\ \A b \in DOMAIN f.blocks :
       LET instrs == f.blocks[b].instrs
       IN  /\ DOMAIN f.blocks[b] = {"instrs", "succs"} /\ f.blocks[b].succs \subseteq DOMAIN f.blocks
           /\ instrs \in Seq({instrs[k] : k \in DOMAIN instrs})
           /\ \A k \in DOMAIN instrs :
                /\ VregsIn(instrs[k].dst) \cup VregsIn(instrs[k].src) \subseteq DOMAIN f.domain
                /\ {ArgBytes(instrs, k - 1), ArgBytes(instrs, k)} \subseteq Nat
                /\ WrittenAt(instrs[k], ArgBytes(instrs, k - 1), ArgBytes(instrs, k))
           /\ ArgBytes(instrs, Len(instrs)) = 0

-----------------------------------------------------------------------------
(* use[i] and wrt[i]: RET reads nothing here although it names the value   *)
(* it returns, and a CALL reads none of its argument registers             *)
(* (X86.cpp:881-928).                                                      *)
MovesAndArithmetic == {"MOV", "ADD", "SUB", "IMUL", "XOR"}

Use(i) ==
  CASE i.op \in MovesAndArithmetic ->
         VregsIn(i.src) \cup (IF i.op = "MOV" THEN {} ELSE VregsIn(i.dst))
    [] i.op = "CMP" -> VregsIn(i.src) \cup VregsIn(i.dst)
    [] i.op \in {"PUSH", "LEA"} -> VregsIn(i.src)
    [] OTHER -> {}

Wrt(i) == IF i.op \in MovesAndArithmetic \cup {"LEA", "POP"} THEN VregsIn(i.dst) ELSE {}

(* What a callee may return having destroyed (X86.cpp:929-936).            *)
Clobber(i) == IF i.op = "CALL" THEN CallerSavedRegs ELSE {}

-----------------------------------------------------------------------------
(* `order`: the instructions of all blocks, in layout order                *)
(* (X86.cpp:818-826 and 949-954).                                          *)
Order(blocks) == FlattenSeq([b \in DOMAIN blocks |-> blocks[b].instrs])

Base(blocks, b) ==
  Len(FlattenSeq([k \in 1 .. b - 1 |-> blocks[k].instrs]))

(* succ[i]: the next instruction of the block, and after its last one the  *)
(* first of each successor that has any (X86.cpp:836-863).                 *)
SuccOf(blocks, b, k) ==
  IF k < Len(blocks[b].instrs)
  THEN {Base(blocks, b) + k + 1}
  ELSE {Base(blocks, s) + 1 : s \in {t \in blocks[b].succs : blocks[t].instrs # << >>}}

Succ(blocks) ==
  FlattenSeq([b \in DOMAIN blocks |->
                [k \in DOMAIN blocks[b].instrs |-> SuccOf(blocks, b, k)]])

(* The input of the liveness pass.                                         *)
FlowOf(blocks) ==
  LET order == Order(blocks)
  IN  [len |-> Len(order), succ |-> Succ(blocks),
       use |-> [i \in DOMAIN order |-> Use(order[i])],
       wrt |-> [i \in DOMAIN order |-> Wrt(order[i])]]

-----------------------------------------------------------------------------
(* All virtual registers named, also by a RET (X86.cpp:986-996).           *)
Operands(order) == UNION {VregsIn(order[i].src) \cup VregsIn(order[i].dst) : i \in DOMAIN order}

(* x and y interfere when an instruction writes one while the other is     *)
(* live after it (X86.cpp:998-1015).                                       *)
Interferes(order, out, x, y) ==
  \E i \in DOMAIN order :
    \/ x \in Wrt(order[i]) /\ y \in out[i]
    \/ y \in Wrt(order[i]) /\ x \in out[i]

(* The registers destroyed while x is live (X86.cpp:1025-1036).            *)
ClobberedUnder(order, out, x) ==
  UNION {Clobber(order[i]) : i \in {j \in DOMAIN order : x \in out[j]}}

(* The other sides of the copies of x, in program order (1075-1084).       *)
CopiesOf(order, x) ==
  LET isCopy(i) == i.op = "MOV" /\ i.dst.kind = "VREG" /\ i.src.kind = "VREG"
      sides(i) == (IF i.dst.n = x THEN <<i.src.n>> ELSE << >>)
                    \o (IF i.src.n = x THEN <<i.dst.n>> ELSE << >>)
  IN  FlattenSeq([k \in DOMAIN order |-> IF isCopy(order[k]) THEN sides(order[k]) ELSE << >>])

(* The input of the colouring loop (X86.cpp:986-1036 and 1075-1084).       *)
ProblemOf(f, out) ==
  LET order == Order(f.blocks)
      nodes == Operands(order)
  IN  [nodes |-> nodes,
       fixed |-> nodes \cap f.fixed,
       inter |-> [x \in nodes |-> {y \in nodes \ {x} : Interferes(order, out, x, y)}],
       domain |-> [x \in nodes |-> IF x \in f.fixed THEN f.domain[x]
                                   ELSE f.domain[x] \ ClobberedUnder(order, out, x)],
       moves |-> [x \in nodes |-> CopiesOf(order, x)]]

=============================================================================

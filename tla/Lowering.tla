------------------------------ MODULE Lowering ------------------------------
(***************************************************************************)
(* X86::lower, src/core/codegen/X86.cpp lines 14-343: the functions of an  *)
(* IR module are turned into machine code over virtual registers, block by *)
(* block in reverse postorder; phis become copies at the end of the        *)
(* predecessors, calls and parameters follow the calling convention.       *)
(*                                                                         *)
(* The virtual registers of a function are its IR values first, then the   *)
(* fixed registers in the order they are made.  (The code numbers them all *)
(* as they come; only the order of the spill slots depends on it.)         *)
(***************************************************************************)
EXTENDS IR, MachineCode

CONSTANT Modules   \* the IR modules a behaviour may start from

(* What SSAIR and resolveCriticalEdges hand over: a result where an        *)
(* instruction has one, jumps at the ends of blocks, returns anywhere; the *)
(* registers named are values of the function.                             *)
IsInstruction(i) ==
  /\ DOMAIN i = {"op", "res", "lhs", "rhs", "args"}
  /\ \/ i.op \in {"ADD", "MUL", "COPY"} \cup Comparisons /\ i.res.kind = "REGISTER"
     \/ /\ i.op = "CALL" /\ i.res.kind \in {"REGISTER", "NONE"} /\ i.args \in Seq(ToSet(i.args))
        /\ \A k \in DOMAIN i.args : i.args[k].kind \in {"REGISTER", "LITERAL"}
     \/ i.op \in Terminators
IsValue(f, o) == o.kind = "REGISTER" => o.n \in 1 .. f.values
NamesValues(f, i) ==
  /\ IsValue(f, i.res) /\ IsValue(f, i.lhs) /\ IsValue(f, i.rhs)
  /\ \A k \in DOMAIN i.args : IsValue(f, i.args[k])
Jumps == {"BR", "CBR"}
IsLowerable(f) ==
  /\ IsFunction(f) /\ IsCFG(f) /\ f.blocks # << >>
  /\ f.values \in Nat /\ f.args \in Seq(1 .. f.values)
  /\ \A b \in DOMAIN f.blocks :
       LET block == f.blocks[b]
       IN  /\ IsBlock(block) /\ block.succs = Targets(block)
           /\ block.phis \in Seq(ToSet(block.phis))
           /\ \A k \in DOMAIN block.instrs :
                /\ IsInstruction(block.instrs[k]) /\ NamesValues(f, block.instrs[k])
                /\ block.instrs[k].op \in Jumps => k = Len(block.instrs)
           /\ \A k \in DOMAIN block.phis :
                /\ IsValue(f, REGISTER(block.phis[k].res))
                /\ \A p \in DOMAIN block.phis[k].inc : IsValue(f, block.phis[k].inc[p])

ASSUME ModulesAssumption ==
  \A m \in Modules : m \in Seq(ToSet(m)) /\ \A k \in DOMAIN m : IsLowerable(m[k])

VARIABLES
  mod,       \* the functions of the module
  lowered,   \* the machine functions made so far
  order,     \* the blocks of the function in hand, in the order of lowering
  place,     \* how many of them are lowered
  code,      \* the instructions of each block of `order`
  pins,      \* the fixed registers made so far
  m_cmps,    \* the comparison that produced a value, kept for the whole module
  stage      \* "function", "blocks", "done", or "rejected" by an exception

vars == <<mod, lowered, order, place, code, pins, m_cmps, stage>>

Init ==
  /\ mod \in Modules
  /\ lowered = << >>
  /\ order = << >>
  /\ place = 0
  /\ code = << >>
  /\ pins = << >>
  /\ m_cmps = << >>
  /\ stage = "function"

fct == mod[Len(lowered) + 1]   \* the function in hand

-----------------------------------------------------------------------------
(* The depth-first walk of lines 45-54: a block follows its successors.    *)
Postorder(blocks) ==
  LET visit[seen \in SUBSET DOMAIN blocks] ==   \* what is reached from S but not seen
        [S \in SUBSET DOMAIN blocks |->
           IF S \subseteq seen THEN << >>
           ELSE LET b == Min(S \ seen)
                    post == Append(visit[seen \cup {b}][blocks[b].succs], b)
                IN  post \o visit[seen \cup ToSet(post)][S]]
  IN  visit[{}][{1}]

LoweringOrder(blocks) == Reverse(Postorder(blocks))

(* lowerOperand (lines 345-362).                                           *)
Lowered(o) ==
  CASE o.kind = "REGISTER" -> VREG(o.n)
    [] o.kind = "LITERAL" -> LIT(o.n)
    [] o.kind = "BLOCK" -> LABEL(o.n)
    [] OTHER -> MNONE

(* fixedVreg (lines 418-425), the k-th made from here on.                  *)
Pin(have, k) == VREG(fct.values + Len(have) + k)

(* Parameters come in registers, then on the stack above the saved RBP and *)
(* the return address (lines 87-102).                                      *)
StackOffByOne(k) == MEM(RBP, 8 + 8 * (k - Len(IntArgRegs) - 1))
ParameterPlace(k) == MEM(RBP, 16 + 8 * (k - Len(IntArgRegs) - 1))

InRegisters(n) == IF n < Len(IntArgRegs) THEN n ELSE Len(IntArgRegs)

ParameterMoves ==
  [k \in DOMAIN fct.args |->
     Ins("MOV", VREG(fct.args[k]),
         IF k <= Len(IntArgRegs) THEN Pin(<< >>, k) ELSE ParameterPlace(k))]

(* Lines 34-108 up to the blocks.                                          *)
StartFunction ==
  /\ stage = "function"
  /\ Len(lowered) < Len(mod)
  /\ stage' = "blocks"
  /\ order' = LoweringOrder(fct.blocks)
  /\ place' = 0
  /\ code' = [b \in ToSet(order') |-> IF b = 1 THEN ParameterMoves ELSE << >>]
  /\ pins' = SubSeq(IntArgRegs, 1, InRegisters(Len(fct.args)))
  /\ UNCHANGED <<mod, lowered, m_cmps>>

-----------------------------------------------------------------------------
(* The code lowered from an instruction is a record: the machine           *)
(* instructions, the fixed registers they are the first to name.           *)
Emit(instrs, new) == [instrs |-> instrs, pins |-> new]

(* A sum or product, and a comparison: the result starts as a copy of the  *)
(* left side (lines 157-190).                                              *)
TwoAddress(op, i) ==
  Emit(<< Ins("MOV", Lowered(i.res), Lowered(i.lhs)), Ins(op, Lowered(i.res), Lowered(i.rhs)) >>,
       << >>)

(* The number m_value reads from an operand, whatever its kind: a literal  *)
(* shares the union with it, and NONE holds the literal 0 (IR.hpp:130-150; *)
(* value ids start at 0 there).                                            *)
ValueNumber(o) ==
  CASE o.kind = "REGISTER" -> o.n
    [] o.kind = "LITERAL" -> o.n + 1
    [] OTHER -> 1

(* The jump that the comparison of the condition calls for; lines 194-197  *)
(* throws when the condition was never a comparison (lines 191-211).       *)
ConditionalBranch(i, cmps) ==
  Emit(<< Ins(JumpOf[cmps[ValueNumber(i.res)]], Lowered(i.lhs), MNONE), Ins("JMP", Lowered(i.rhs), MNONE) >>,
       << >>)

(* Lines 212-217.                                                          *)
Return(i, have) ==
  Emit(<< Ins("MOV", Pin(have, 1), Lowered(i.lhs)), Ins("RET", MNONE, Lowered(i.lhs)) >>, <<RAX>>)

(* Lines 240-339: the first six arguments into registers, the others into  *)
(* room made on the stack, an even number of slots.  Every argument is an  *)
(* integer (IsInstruction): lines 272-304 leave out those of a type none   *)
(* or void, the value of a call that has no result, and treat floats apart.*)
NoPadding(onStack) == 8 * onStack
StackRoom(onStack) == 8 * onStack + (IF onStack % 2 = 1 THEN 8 ELSE 0)

CallSequence(i, have) ==
  LET inRegs == InRegisters(Len(i.args))
      onStack == Len(i.args) - inRegs
      room == StackRoom(onStack)
      result == i.res.kind # "NONE"
  IN  Emit([k \in 1 .. inRegs |-> Ins("MOV", Pin(have, k), Lowered(i.args[k]))]
             \o (IF room > 0 THEN <<Ins("SUB", PREG(RSP), LIT(room))>> ELSE << >>)
             \o [k \in 1 .. onStack |->
                   Ins("MOV", MEM(RSP, 8 * (k - 1)), Lowered(i.args[inRegs + k]))]
             \o << Ins("CALL", SYM(i.lhs.n, Len(i.args)), MNONE) >>
             \o (IF result THEN <<Ins("MOV", Lowered(i.res), Pin(have, inRegs + 1))>> ELSE << >>)
             \o (IF room > 0 THEN <<Ins("ADD", PREG(RSP), LIT(room))>> ELSE << >>),
           SubSeq(IntArgRegs, 1, inRegs) \o (IF result THEN <<RAX>> ELSE << >>))

(* lowerInstruction (lines 151-343).                                       *)
LowerInstruction(i, have, cmps) ==
  CASE i.op = "ADD" -> TwoAddress("ADD", i)
    [] i.op = "MUL" -> TwoAddress("IMUL", i)
    [] i.op \in Comparisons -> TwoAddress("CMP", i)
    [] i.op = "CBR" -> ConditionalBranch(i, cmps)
    [] i.op = "RET" -> Return(i, have)
    [] i.op = "BR" -> Emit(<<Ins("JMP", Lowered(i.lhs), MNONE)>>, << >>)
    [] i.op = "COPY" -> Emit(<<Ins("MOV", Lowered(i.res), Lowered(i.lhs))>>, << >>)
    [] i.op = "CALL" -> CallSequence(i, have)

-----------------------------------------------------------------------------
(* The copies that stand for the phis of the successors of b               *)
(* (lines 118-137).                                                        *)
CopiesFor(phis, b) ==
  FlattenSeq([k \in DOMAIN phis |->
    IF b \in DOMAIN phis[k].inc
    THEN <<Instr("COPY", REGISTER(phis[k].res), phis[k].inc[b], NONE)>> ELSE << >>])

PhiCopies(b) ==
  FlattenSeq([s \in DOMAIN fct.blocks |->
                IF s \in fct.blocks[b].succs THEN CopiesFor(fct.blocks[s].phis, b) ELSE << >>])

(* Each terminator of the block has them in front of it, a RET in its      *)
(* middle too.                                                             *)
WithCopiesAfter(instrs, copies) ==
  FlattenSeq([k \in DOMAIN instrs |->
    IF instrs[k].op \in Terminators THEN <<instrs[k]>> \o copies ELSE <<instrs[k]>>])
WithCopies(instrs, copies) ==
  FlattenSeq([k \in DOMAIN instrs |->
    IF instrs[k].op \in Terminators THEN Append(copies, instrs[k]) ELSE <<instrs[k]>>])
WithPhiCopies(b) == WithCopies(fct.blocks[b].instrs, PhiCopies(b))

(* The comparisons recorded once instruction i is lowered (line 187).      *)
Recorded(cmps, i) ==
  IF i.op \in Comparisons
  THEN [v \in DOMAIN cmps \cup {i.res.n} |-> IF v = i.res.n THEN i.op ELSE cmps[v]]
  ELSE cmps

Unbranchable(i, cmps) == i.op = "CBR" /\ ValueNumber(i.res) \notin DOMAIN cmps

LowerNext(st, i) ==
  LET out == LowerInstruction(i, st.pins, st.cmps)
  IN  IF st.failed \/ Unbranchable(i, st.cmps) THEN [st EXCEPT !.failed = TRUE]
      ELSE [st EXCEPT !.code = @ \o out.instrs, !.pins = @ \o out.pins,
                      !.cmps = Recorded(@, i)]

(* Lowering one instruction after the other; each state is bound to a      *)
(* variable, for TLC to evaluate it once.                                  *)
LowerAll(st, instrs) ==
  LET after[k \in 0 .. Len(instrs)] ==
        IF k = 0 THEN st
        ELSE CHOOSE s \in {LowerNext(t, instrs[k]) : t \in {after[k - 1]}} : TRUE
  IN  after[Len(instrs)]

(* lowerBlock (lines 110-141).                                             *)
LowerBlock ==
  /\ stage = "blocks"
  /\ place < Len(order)
  /\ LET b == order[place + 1]
         start == [code |-> code[b], pins |-> pins, cmps |-> m_cmps, failed |-> FALSE]
     IN  \E end \in {LowerAll(start, WithPhiCopies(b))} :
           /\ code' = [code EXCEPT ![b] = end.code]
           /\ pins' = end.pins
           /\ m_cmps' = end.cmps
           /\ stage' = IF end.failed THEN "rejected" ELSE stage
  /\ place' = place + 1
  /\ UNCHANGED <<mod, lowered, order>>

PlaceOf(b) == CHOOSE k \in DOMAIN order : order[k] = b

(* The finished function: blocks in the order of lowering, and the         *)
(* successors the allocator derives from the predecessors that can be      *)
(* reached (lines 113-117 and 828-834); a value may take any register that *)
(* is not reserved (valueVreg, lines 388-416).                             *)
MachineFunction ==
  [blocks |-> [k \in DOMAIN order |->
     [instrs |-> code[order[k]],
      succs |-> {PlaceOf(b) : b \in {c \in ToSet(order) : order[k] \in fct.blocks[c].preds}}]],
   domain |-> [x \in 1 .. fct.values + Len(pins) |->
                 IF x <= fct.values THEN GeneralRegs ELSE {pins[x - fct.values]}],
   fixed  |-> fct.values + 1 .. fct.values + Len(pins)]

FinishFunction ==
  /\ stage = "blocks"
  /\ place = Len(order)
  /\ stage' = "function"
  /\ lowered' = Append(lowered, [body |-> MachineFunction, order |-> order])
  /\ UNCHANGED <<mod, order, place, code, pins, m_cmps>>

Finish ==
  /\ stage = "function"
  /\ Len(lowered) = Len(mod)
  /\ stage' = "done"
  /\ UNCHANGED <<mod, lowered, order, place, code, pins, m_cmps>>

LowerModule == StartFunction \/ LowerBlock \/ FinishFunction \/ Finish

=============================================================================

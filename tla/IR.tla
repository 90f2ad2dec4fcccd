--------------------------------- MODULE IR ---------------------------------
(***************************************************************************)
(* The intermediate representation of src/core/ir/IR.hpp: functions of     *)
(* basic blocks with phis, and what running one means.                     *)
(*                                                                         *)
(* A function is a record                                                  *)
(*   args   : the values of its parameters                                 *)
(*   blocks : the blocks by id (ids start at 1 here, 0 in the code), each  *)
(*              phis   : its phis; inc gives the operand of each           *)
(*                       predecessor                                       *)
(*              instrs : its instructions                                  *)
(*              preds, succs : its neighbours in the control-flow graph    *)
(*   values : how many values (virtual registers of the IR) it has         *)
(* Every operand is a 64-bit integer (fromContextType accepts no other     *)
(* type), so types are left out.                                           *)
(***************************************************************************)
EXTENDS Integers, Sequences, FiniteSets

REGISTER(v) == [kind |-> "REGISTER", n |-> v]
LITERAL(l)  == [kind |-> "LITERAL", n |-> l]
BLOCK(b)    == [kind |-> "BLOCK", n |-> b]
FUNCTION(f) == [kind |-> "FUNCTION", n |-> f]
NONE        == [kind |-> "NONE"]

(* An instruction; args holds the arguments of a CALL.                     *)
Instr(op, res, lhs, rhs) == [op |-> op, res |-> res, lhs |-> lhs, rhs |-> rhs, args |-> << >>]
CallInstr(res, callee, args) ==
  [op |-> "CALL", res |-> res, lhs |-> callee, rhs |-> NONE, args |-> args]

(* IR.hpp:472 and 468: the condition of a CBR rides in its result.         *)
BrInstr(target) == Instr("BR", NONE, BLOCK(target), NONE)
CbrInstr(cond, yes, no) == Instr("CBR", cond, BLOCK(yes), BLOCK(no))
RetInstr(value) == Instr("RET", NONE, value, NONE)

Terminators == {"RET", "BR", "CBR"}
Comparisons == {"GT", "GE", "LT", "LE", "EQ", "NE"}

HasTerminator(b) ==
  b.instrs # << >> => b.instrs[Len(b.instrs)].op \in Terminators

(* computeSuccessors (lines 452-479): the targets of the last instruction. *)
Targets(b) ==
  IF b.instrs = << >> THEN {}
  ELSE LET last == b.instrs[Len(b.instrs)]
       IN  CASE last.op = "BR"  -> {last.lhs.n}
             [] last.op = "CBR" -> {last.lhs.n, last.rhs.n}
             [] OTHER -> {}

EmptyBlock == [phis |-> << >>, instrs |-> << >>, preds |-> {}, succs |-> {}]

IsFunction(f) ==
  /\ DOMAIN f = {"args", "values", "blocks"}
  /\ f.blocks \in Seq({f.blocks[b] : b \in DOMAIN f.blocks})
  /\ \A b \in DOMAIN f.blocks : DOMAIN f.blocks[b] = DOMAIN EmptyBlock

(* addBR and addCBR (IR.hpp:468-474) give a jump its targets as block      *)
(* operands; a phi is a result and the operands of its predecessors.       *)
IsBlock(b) ==
  /\ b.instrs \in Seq({b.instrs[k] : k \in DOMAIN b.instrs})
  /\ b.instrs # << >> =>
       LET last == b.instrs[Len(b.instrs)]
       IN  /\ DOMAIN last = {"op", "res", "lhs", "rhs", "args"}
           /\ last.op \in {"BR", "CBR"} => last.lhs = BLOCK(last.lhs.n)
           /\ last.op = "CBR" => last.rhs = BLOCK(last.rhs.n)
  /\ \A k \in DOMAIN b.phis : DOMAIN b.phis[k] = {"res", "inc"}

(* "the control flow graph if 'fct' is complete and all predecessors are   *)
(* set" (IR.cpp:443): the predecessors are those the jumps make, and each  *)
(* phi has an operand for each of them.                                    *)
IsCFG(f) ==
  \A b \in DOMAIN f.blocks :
    /\ Targets(f.blocks[b]) \subseteq DOMAIN f.blocks
    /\ f.blocks[b].preds = {p \in DOMAIN f.blocks : b \in Targets(f.blocks[p])}
    /\ \A k \in DOMAIN f.blocks[b].phis : DOMAIN f.blocks[b].phis[k].inc = f.blocks[b].preds

-----------------------------------------------------------------------------
(***************************************************************************)
(* What the IR means.  Values are terms over the parameters, the literals  *)
(* and the results of calls; `seen` is what the world learns: the calls    *)
(* made, the conditions branched on, the value returned.  The phis of a    *)
(* block all read the values of the edge it is entered by.                 *)
(***************************************************************************)
IRStart(f) ==
  [env |-> [v \in 1 .. f.values |-> <<"unset">>], calls |-> 0, seen |-> << >>, returned |-> FALSE]

IREntry(f, param) ==
  [IRStart(f) EXCEPT !.env =
     [v \in 1 .. f.values |->
        IF \E k \in DOMAIN f.args : f.args[k] = v
        THEN param[CHOOSE k \in DOMAIN f.args : f.args[k] = v] ELSE <<"unset">>]]

ValueOf(st, o) == IF o.kind = "LITERAL" THEN <<"lit", o.n>> ELSE st.env[o.n]

Define(st, res, x) == IF res.kind = "NONE" THEN st ELSE [st EXCEPT !.env[res.n] = x]

Observe(st, x) == [st EXCEPT !.seen = Append(@, x)]

(* The branch taken depends on a comparison of two values.                 *)
JumpOf == [GT |-> "JG", GE |-> "JGE", LT |-> "JL", LE |-> "JLE", EQ |-> "JE", NE |-> "JNE"]
Tested(x) ==
  IF x[1] \in Comparisons THEN <<JumpOf[x[1]], <<"cmp", x[2], x[3]>>>> ELSE <<"truth", x>>

IRStep(st, i) ==
  IF st.returned THEN st
  ELSE CASE i.op \in Comparisons \cup {"ADD", "MUL"} ->
              Define(st, i.res, <<i.op, ValueOf(st, i.lhs), ValueOf(st, i.rhs)>>)
         [] i.op = "COPY" -> Define(st, i.res, ValueOf(st, i.lhs))
         [] i.op = "CALL" ->
              LET called == Observe(st, <<"call", i.lhs.n,
                                          [k \in DOMAIN i.args |-> ValueOf(st, i.args[k])]>>)
              IN  Define([called EXCEPT !.calls = @ + 1], i.res, <<"ret", st.calls + 1>>)
         [] i.op = "CBR" -> Observe(st, Tested(ValueOf(st, i.res)))
         [] i.op = "RET" -> [Observe(st, <<"returns", ValueOf(st, i.lhs)>>) EXCEPT !.returned = TRUE]
         [] OTHER -> st

(* The values of the phis of block b when it is entered from `from`.       *)
EnterBlock(f, st, from, b) ==
  LET phis == f.blocks[b].phis
      new(v) == {k \in DOMAIN phis : phis[k].res = v /\ from \in DOMAIN phis[k].inc}
  IN  [st EXCEPT !.env =
         [v \in DOMAIN st.env |->
            IF new(v) = {} THEN st.env[v]
            ELSE ValueOf(st, phis[CHOOSE k \in new(v) : TRUE].inc[from])]]

(* Instructions one after the other.  Each state is bound to a variable,   *)
(* for TLC to evaluate it once.                                            *)
RunIR(st, instrs) ==
  LET ran[k \in 0 .. Len(instrs)] ==
        IF k = 0 THEN st
        ELSE CHOOSE s \in {IRStep(t, instrs[k]) : t \in {ran[k - 1]}} : TRUE
  IN  ran[Len(instrs)]

(* Block b, entered from `from`.                                           *)
RunIRBlock(f, st, from, b) == RunIR(EnterBlock(f, st, from, b), f.blocks[b].instrs)

=============================================================================

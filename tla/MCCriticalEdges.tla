-------------------------- MODULE MCCriticalEdges ---------------------------
(***************************************************************************)
(* Every control-flow graph over four blocks whose entry is never jumped   *)
(* to (SSAIR gives the entry block no predecessor), with a phi in each     *)
(* block that has predecessors.                                            *)
(***************************************************************************)
EXTENDS CriticalEdges

Ids == 1 .. 4
Jumps ==
  {RetInstr(LITERAL(0))} \cup {BrInstr(t) : t \in 2 .. 4}
    \cup {CbrInstr(REGISTER(1), t, u) : t, u \in 2 .. 4}

TargetsOf(jump) == Targets([instrs |-> <<jump>>])

FunctionOf(jump) ==
  LET preds == [b \in Ids |-> {p \in Ids : b \in TargetsOf(jump[p])}]
      phi(b) == [res |-> 1 + b, inc |-> [p \in preds[b] |-> LITERAL(p)]]
  IN  [args |-> <<1>>, values |-> 5,
       blocks |-> [b \in Ids |->
         [EmptyBlock EXCEPT !.preds = preds[b], !.instrs = <<jump[b]>>,
                            !.phis = IF preds[b] = {} THEN << >> ELSE <<phi(b)>>]]]

(* A block that ends without a terminator.                                 *)
Unterminated ==
  [args |-> << >>, values |-> 1,
   blocks |-> << [EmptyBlock EXCEPT !.instrs = <<Instr("ADD", REGISTER(1), LITERAL(1), LITERAL(2))>>] >>]

AllGraphs == {FunctionOf(jump) : jump \in [Ids -> Jumps]} \cup {Unterminated}

=============================================================================

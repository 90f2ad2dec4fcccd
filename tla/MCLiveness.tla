----------------------------- MODULE MCLiveness -----------------------------
(***************************************************************************)
(* Instances of Liveness.                                                  *)
(***************************************************************************)
EXTENDS Liveness, FiniteSets

CONSTANTS v1, v2

Vregs == {v1, v2}

(* Every control flow over three instructions with at most two successors  *)
(* each (a JMP has one, a Jcc and its JMP two, a RET none), and every way  *)
(* they may read and write one register.                                   *)
Successors == {S \in SUBSET (1 .. 3) : Cardinality(S) <= 2}

AllSmallFlows ==
  [len : {3}, succ : [1 .. 3 -> Successors],
   use : [1 .. 3 -> SUBSET {v1}], wrt : [1 .. 3 -> SUBSET {v1}]]

(* What lowering emits for two registers: MOV, ADD / IMUL, CMP, a jump.    *)
Effects ==
  {[use |-> {}, wrt |-> {}]}
  \cup {[use |-> {v}, wrt |-> {}] : v \in Vregs}
  \cup {[use |-> {}, wrt |-> {v}] : v \in Vregs}
  \cup {[use |-> {v1, v2} \ {v}, wrt |-> {v}] : v \in Vregs}
  \cup {[use |-> Vregs, wrt |-> {v}] : v \in Vregs}

(* The shapes of lowered control flow: a while loop, an if / else with its *)
(* join, and a loop that contains a branch.                                *)
Shapes ==
  { <<{2}, {3, 4}, {2}, {}>>,
    <<{2, 3}, {4}, {4}, {}>>,
    <<{2, 4}, {3}, {1}, {}>> }

ShapedFlows ==
  {[len |-> 4, succ |-> s,
    use |-> [i \in 1 .. 4 |-> e[i].use], wrt |-> [i \in 1 .. 4 |-> e[i].wrt]]
      : s \in Shapes, e \in [1 .. 4 -> Effects]}

SmallFlows == AllSmallFlows \cup ShapedFlows

=============================================================================

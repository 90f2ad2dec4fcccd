--------------------------- MODULE CriticalEdges ----------------------------
(***************************************************************************)
(* SSAIR::resolveCriticalEdges, src/core/ir/IR.cpp lines 442-544: an edge  *)
(* from a block with several successors to a block with several            *)
(* predecessors gets an empty block of its own, so that the copies a phi   *)
(* is turned into have a place to be; then the lists of successors and     *)
(* predecessors are filled in.                                             *)
(***************************************************************************)
EXTENDS IR

CONSTANT Functions   \* the functions a behaviour may start from

VARIABLES
  fct,            \* the function, changed in place
  original,       \* the function as it was given, left alone
  predecessors,   \* of each block, a set
  successors,     \* of each block, a set
  critical,       \* the critical edges not split yet
  stage           \* "find", "split", "done"; "rejected" when a block has no terminator

vars == <<fct, original, predecessors, successors, critical, stage>>

Blocks == DOMAIN fct.blocks

Several(S) == \E x, y \in S : x # y

ASSUME FunctionsAssumption ==
  \A f \in Functions :
    /\ IsFunction(f)
    /\ \A b \in DOMAIN f.blocks : IsBlock(f.blocks[b])
    /\ IsCFG(f)

Init ==
  /\ fct \in Functions
  /\ original = fct
  /\ predecessors = << >>
  /\ successors = << >>
  /\ critical = {}
  /\ stage = "find"

-----------------------------------------------------------------------------
(* Lines 490-492: both ends of the edge count.                             *)
MoreThanTwo(i, j, pred, succ) == Cardinality(pred[j]) > 2 /\ i \in pred[j] /\ Several(succ[i])
IsCritical(i, j, pred, succ) == Several(pred[j]) /\ i \in pred[j] /\ Several(succ[i])

(* Lines 481-497.                                                          *)
FindCriticalEdges ==
  /\ stage = "find"
  /\ \A b \in Blocks : HasTerminator(fct.blocks[b])
  /\ stage' = "split"
  /\ predecessors' = [b \in Blocks |-> fct.blocks[b].preds]
  /\ successors' = [b \in Blocks |-> Targets(fct.blocks[b])]
  /\ critical' = {e \in Blocks \X Blocks : IsCritical(e[1], e[2], predecessors', successors')}
  /\ UNCHANGED <<fct, original>>

(* MissingTerminator (line 474).                                           *)
Reject ==
  /\ stage = "find"
  /\ \E b \in Blocks : ~HasTerminator(fct.blocks[b])
  /\ stage' = "rejected"
  /\ UNCHANGED <<fct, original, predecessors, successors, critical>>

(* The jump of a block, sent to `new` instead of `old` (lines 510-523).    *)
Retargeted(o, old, new) == IF o = BLOCK(old) THEN BLOCK(new) ELSE o
RetargetsFirst(b, old, new) ==
  [b EXCEPT !.instrs[Len(b.instrs)].lhs = Retargeted(@, old, new)]
WithTarget(b, old, new) ==
  [b EXCEPT !.instrs[Len(b.instrs)].lhs = Retargeted(@, old, new),
            !.instrs[Len(b.instrs)].rhs = Retargeted(@, old, new)]

(* The phis of a block, the operand of `old` now coming from `new`         *)
(* (lines 526-533).                                                        *)
KeepsIncoming(b, old, new) == b
Comes(phi, old, new) ==
  [phi EXCEPT !.inc =
     [p \in {IF q = old THEN new ELSE q : q \in DOMAIN @} |-> IF p = new THEN @[old] ELSE @[p]]]
WithIncoming(b, old, new) ==
  [b EXCEPT !.phis = [k \in DOMAIN @ |-> Comes(@[k], old, new)]]

(* The edge i -> j becomes i -> new -> j (lines 499-534).                  *)
Split(i, j) ==
  LET new == Len(fct.blocks) + 1
      blocks1 == [fct.blocks EXCEPT ![i] = WithTarget(@, j, new)]
      blocks2 == [blocks1 EXCEPT ![j] = WithIncoming(@, i, new)]
  IN  /\ fct' = [fct EXCEPT !.blocks =
                   Append(blocks2, [EmptyBlock EXCEPT !.instrs = <<BrInstr(j)>>])]
      /\ successors' = [b \in Blocks \cup {new} |->
                          CASE b = new -> {j}
                            [] b = i -> (successors[i] \ {j}) \cup {new}
                            [] OTHER -> successors[b]]
      /\ predecessors' = [b \in Blocks \cup {new} |->
                            CASE b = new -> {i}
                              [] b = j -> (predecessors[j] \ {i}) \cup {new}
                              [] OTHER -> predecessors[b]]

(* The set of pairs is walked in increasing order.                         *)
Before(d, e) == d[1] < e[1] \/ (d[1] = e[1] /\ d[2] <= e[2])

SplitEdge ==
  /\ stage = "split"
  /\ \E e \in critical :
       /\ \A d \in critical : Before(e, d)
       /\ Split(e[1], e[2])
       /\ critical' = critical \ {e}
  /\ UNCHANGED <<original, stage>>

(* Lines 536-542.                                                          *)
FilledBlocks ==
  [b \in Blocks |-> [fct.blocks[b] EXCEPT !.preds = predecessors[b], !.succs = successors[b]]]

FillLists ==
  /\ stage = "split"
  /\ critical = {}
  /\ stage' = "done"
  /\ fct' = [fct EXCEPT !.blocks = FilledBlocks]
  /\ UNCHANGED <<original, predecessors, successors, critical>>

Next == FindCriticalEdges \/ Reject \/ SplitEdge \/ FillLists

Spec == Init /\ [][Next]_vars

-----------------------------------------------------------------------------
Done == stage = "done"

TypeOK ==
  /\ stage \in {"find", "split", "done", "rejected"}
  /\ stage \in {"split", "done"} =>
       /\ successors \in [Blocks -> SUBSET Blocks]
       /\ predecessors \in [Blocks -> SUBSET Blocks]
       /\ \A e \in critical : e[2] \in successors[e[1]] /\ e[1] \in predecessors[e[2]]

(***************************************************************************)
(* No critical edge is left: the copies of a phi can be put at the end of  *)
(* each predecessor (X86.cpp:118-137) without being run on the way to      *)
(* another block.  The edges to split are collected before the first is    *)
(* split; splitting one changes the sets the others were judged by.        *)
(***************************************************************************)
NoCriticalEdge ==
  Done => \A j \in Blocks : \A i \in fct.blocks[j].preds :
            Several(fct.blocks[j].preds) => ~Several(fct.blocks[i].succs)

(***************************************************************************)
(* The four records of the graph -- jumps, successors, predecessors, phi   *)
(* operands -- are changed at different places and agree again.            *)
(***************************************************************************)
GraphConsistent ==
  Done => \A b \in Blocks :
            /\ fct.blocks[b].succs = Targets(fct.blocks[b])
            /\ fct.blocks[b].preds = {p \in Blocks : b \in Targets(fct.blocks[p])}
            /\ \A k \in DOMAIN fct.blocks[b].phis :
                 DOMAIN fct.blocks[b].phis[k].inc = fct.blocks[b].preds

(***************************************************************************)
(* The control flow is that of the function given: each old block leads,   *)
(* through at most one new block that only jumps, where it led before, and *)
(* a phi gets on each way the operand it got before.                       *)
(***************************************************************************)
Old == DOMAIN original.blocks
Through(b) == IF b \in Old THEN b ELSE fct.blocks[b].instrs[1].lhs.n
Sources(b) == IF b \in Old THEN {b} ELSE {q \in Old : b \in Targets(fct.blocks[q])}

SameControlFlow ==
  \A b \in Old :
    /\ {Through(s) : s \in Targets(fct.blocks[b])} = Targets(original.blocks[b])
    /\ \A k \in DOMAIN fct.blocks[b].phis :
         LET now == fct.blocks[b].phis[k].inc
             was == original.blocks[b].phis[k].inc
         IN  \A p \in DOMAIN now : \E q \in Sources(p) : q \in DOMAIN was /\ now[p] = was[q]

=============================================================================

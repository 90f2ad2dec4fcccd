----------------------------- MODULE Assignment -----------------------------
(***************************************************************************)
(* What the colouring of src/core/codegen/X86.cpp promises, without graph, *)
(* work list or shrinking domains: the virtual registers are decided one   *)
(* at a time, each for good, and each colour fits the colours given        *)
(* before.  Coloring implements it.                                        *)
(***************************************************************************)
CONSTANTS
  Reg,          \* the ids of the physical registers
  Family        \* a register and those it directly aliases

VARIABLES
  problem,      \* registers, interference, domains: as in Coloring, left alone
  assigned,     \* the physical register of each virtual register decided to have one
  spilled       \* the virtual registers decided to live in memory

vars == <<problem, assigned, spilled>>

Init ==
  /\ problem.fixed \subseteq problem.nodes
  /\ assigned = [x \in {} |-> 0]
  /\ spilled = {}

Open == problem.nodes \ (DOMAIN assigned \cup spilled)

(* The registers lowering fixed come first, with the one register each may *)
(* have.                                                                   *)
AssignFixed ==
  /\ DOMAIN assigned \cup spilled = {}
  /\ assigned' \in [problem.fixed -> Reg]
  /\ \A x \in problem.fixed : assigned'[x] \in problem.domain[x]
  /\ UNCHANGED <<problem, spilled>>

(* x may have c: its domain has c, and no register x interferes with holds *)
(* c or a part of it.                                                      *)
Fits(x, c) ==
  /\ c \in problem.domain[x]
  /\ \A y \in problem.inter[x] \cap DOMAIN assigned : c \notin Family[assigned[y]]

Assign(x, c) ==
  /\ problem.fixed \subseteq DOMAIN assigned
  /\ Fits(x, c)
  /\ assigned' = [y \in DOMAIN assigned \cup {x} |-> IF y = x THEN c ELSE assigned[y]]
  /\ UNCHANGED <<problem, spilled>>

GiveUp(x) ==
  /\ problem.fixed \subseteq DOMAIN assigned
  /\ spilled' = spilled \cup {x}
  /\ UNCHANGED <<problem, assigned>>

Next == AssignFixed \/ \E x \in Open : GiveUp(x) \/ \E c \in Reg : Assign(x, c)

Spec == Init /\ [][Next]_vars

=============================================================================

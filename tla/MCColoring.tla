----------------------------- MODULE MCColoring -----------------------------
(***************************************************************************)
(* Instances of Coloring.                                                  *)
(***************************************************************************)
EXTENDS RegisterTable, Coloring

(* Five registers of the table.                                            *)
RAX == Whole("RAX")
EAX == GetReg(<<"RAX", 0, 2>>).id
RBX == Whole("RBX")
EBX == GetReg(<<"RBX", 0, 2>>).id
RSI == Whole("RSI")

Regs == {RAX, EAX, RBX, EBX, RSI}
ParentOf == [r \in Regs |-> At(r).parent]
FamilyOf == [r \in Regs |-> family(r) \cap (Regs \cup {0})]
CallerSavedRegs == {r \in Regs : At(r).callerSaved}

(* The graph whose edges are the two-element sets E.                       *)
GraphOf(E, N) == [x \in N |-> {y \in N : x # y /\ {x, y} \in E}]

Edges(N) == {{x, y} : x, y \in N} \ {{x} : x \in N}

(* No copy, or one copy between x and y.                                   *)
MovesOf(c, N) ==
  [x \in N |-> IF x \in c THEN <<CHOOSE y \in c \ {x} : TRUE>> ELSE << >>]

(* A domain of a free register: a 64-bit value, one live across a call, a  *)
(* 32-bit value, and one no call-destroyed register may hold.              *)
FreeDomains == {{RAX, RBX}, {RBX}, {RAX, EAX, RBX, EBX}, {RAX, RBX, RSI}}

Case(N, fixed, E, d, c) ==
  [nodes |-> N, fixed |-> fixed, inter |-> GraphOf(E, N),
   domain |-> [x \in N |-> IF x \in fixed THEN {RAX} ELSE d[x]],
   moves |-> MovesOf(c, N)]

(* Every graph over four registers, the first one fixed to RAX or free.    *)
Vregs == 1 .. 4
SmallProblems ==
  {Case(Vregs, {1}, E, d, c) :
     E \in SUBSET Edges(Vregs), d \in [2 .. 4 -> FreeDomains], c \in {{}, {1, 2}, {2, 3}}}
  \cup
  {Case(Vregs, {}, E, d, c) :
     E \in SUBSET Edges(Vregs), d \in [Vregs -> {{RAX, RBX}, {RAX, RBX, RSI}}], c \in {{}, {1, 2}}}

ASSUME FlatAssumption == \A p \in SmallProblems : FlatFamilies(p)

=============================================================================

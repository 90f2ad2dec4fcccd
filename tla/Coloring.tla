------------------------------ MODULE Coloring ------------------------------
(***************************************************************************)
(* The colouring loop of allocate(), src/core/codegen/X86.cpp lines        *)
(* 1038-1171: every virtual register of the interference graph is given a  *)
(* physical register of its domain or is marked to be spilled.             *)
(*                                                                         *)
(* Fixed registers (arguments, RAX) are coloured first and leave the       *)
(* graph.  Then, until the graph is empty, the loop takes the register     *)
(* with the smallest domain among those with fewer than K neighbours,      *)
(* colours it at once and takes the colour from its neighbours; when no    *)
(* register has fewer than K neighbours the one with most is spilled.      *)
(* Where the code's order depends on a hash table and an unstable sort     *)
(* (equal domain sizes), the choice is left open.                          *)
(***************************************************************************)
EXTENDS Integers, FiniteSets, Sequences

CONSTANTS
  Vreg,         \* the virtual registers
  Reg,          \* the ids of the physical registers
  Family,       \* X86::family: a register and those it directly aliases
  Parent,       \* the register a register is the lower half of, 0 if none
  CallerSaved,  \* the registers a callee may destroy
  Reserved,     \* RSP and RBP
  Problems      \* the colouring problems a behaviour may start from

(* The ids are the places of a table that ends.                            *)
ASSUME RegAssumption ==
  /\ Reg \subseteq Nat \ {0}
  /\ \E last \in Reg \cup {0} : Reg \subseteq 1 .. last
  /\ CallerSaved \subseteq Reg
  /\ Reserved \subseteq Reg
  /\ Parent \in [Reg -> Reg \cup {0}]

(* A family is built from both ends of the subregister relation            *)
(* (X86.cpp:807-812), so it holds its own register and is symmetric; the   *)
(* parent of a widest register is the placeholder 0, in no domain.         *)
ASSUME FamilyAssumption ==
  /\ Family \in [Reg -> SUBSET (Reg \cup {0})]
  /\ \A r \in Reg : r \in Family[r]
  /\ \A r, s \in Reg : r \in Family[s] => s \in Family[r]

(***************************************************************************)
(* What the loop is given: the registers of the function, the symmetric    *)
(* interference graph, the domains with the clobbered registers taken      *)
(* out, which registers are fixed to one colour, and for each register     *)
(* the ones it is copied from or to, in program order (lines 986-1036 and  *)
(* 1077-1084).                                                             *)
(***************************************************************************)
IsProblem(p) ==
  /\ p.nodes \subseteq Vreg /\ IsFiniteSet(p.nodes)
  /\ p.fixed \subseteq p.nodes
  /\ p.inter \in [p.nodes -> SUBSET p.nodes]
  /\ \A x \in p.nodes : x \notin p.inter[x]
  /\ \A x, y \in p.nodes : y \in p.inter[x] => x \in p.inter[y]
  /\ p.domain \in [p.nodes -> SUBSET Reg]
  /\ \A x \in p.fixed : \E r \in Reg : p.domain[x] = {r}
  /\ p.moves \in [p.nodes -> Seq(p.nodes)]

ASSUME ProblemsAssumption == \A p \in Problems : IsProblem(p)

VARIABLES
  problem,       \* the colouring problem, left alone
  stage,         \* "precolor", then "select"
  graph,         \* inter_graph: the registers still to treat and their neighbours
  domains,       \* the colours each register can still take
  K,             \* the number of colours of each register when the loop starts
  colors,        \* the colours given so far
  spilled,       \* the registers to spill
  callee_saved   \* the registers the prologue must save

loopvars == <<stage, graph, domains, K, colors, spilled, callee_saved>>
vars == <<problem, loopvars>>

Nodes == problem.nodes
Free == Nodes \ problem.fixed

(* The widest register of the family of r (lines 1149-1152).               *)
Root[r \in Reg] == IF Parent[r] = 0 THEN r ELSE Root[Parent[r]]

TypeOK ==
  /\ IsProblem(problem)
  /\ stage \in {"precolor", "select"}
  /\ DOMAIN graph \subseteq Nodes
  /\ graph \in [DOMAIN graph -> SUBSET Nodes]
  /\ domains \in [Nodes -> SUBSET Reg]
  /\ DOMAIN K = Nodes
  /\ DOMAIN colors \subseteq Nodes
  /\ colors \in [DOMAIN colors -> Reg]
  /\ spilled \subseteq Nodes
  /\ callee_saved \subseteq {Root[r] : r \in Reg \ (CallerSaved \cup Reserved)}

-----------------------------------------------------------------------------
(* The state the loop starts from (lines 998-1040 and 1085-1086).          *)
Start ==
  /\ stage = "precolor"
  /\ graph = problem.inter
  /\ domains = problem.domain
  /\ K = [x \in Nodes |-> 0]
  /\ colors = [x \in {} |-> 0]
  /\ spilled = {}
  /\ callee_saved = {}

Init == problem \in Problems /\ Start

Least(S) == CHOOSE r \in S : \A s \in S : r <= s

(* The registers counted for K: in increasing order, those no counted one  *)
(* aliases (lines 1060-1073).                                              *)
Counted(D) ==
  LET isCounted[r \in D] == \A s \in D : (s < r /\ s \in Family[r]) => ~isCounted[s]
  IN  {r \in D : isCounted[r]}

KOf(D) == Cardinality(Counted(D))

FixedColor(x) == Least(problem.domain[x])

(* The colours the fixed neighbours of x take out of its domain.           *)
FixedFamilies(x) ==
  UNION {Family[FixedColor(f)] : f \in problem.inter[x] \cap problem.fixed}

Narrowed(x) ==
  IF x \in problem.fixed THEN problem.domain[x] ELSE problem.domain[x] \ FixedFamilies(x)

(* Lines 1038-1073.                                                        *)
Precolor ==
  /\ stage = "precolor"
  /\ stage' = "select"
  /\ colors' = [x \in problem.fixed |-> FixedColor(x)]
  /\ domains' = [x \in Nodes |-> Narrowed(x)]
  /\ graph' = [x \in Free |-> problem.inter[x] \cap Free]
  /\ K' = [x \in Nodes |-> KOf(Narrowed(x))]
  /\ UNCHANGED <<problem, spilled, callee_saved>>

-----------------------------------------------------------------------------
Degree(x) == Cardinality(graph[x])

LowDegree(x) == x \in DOMAIN graph /\ Degree(x) < K[x]

NoSmallerDomain(x, S) == \A y \in S : Cardinality(domains[x]) <= Cardinality(domains[y])

(* The register the loop takes: the first with low degree in increasing    *)
(* order of domain size (lines 1090-1103).                                 *)
Selected(x) ==
  /\ stage = "select"
  /\ LowDegree(x)
  /\ NoSmallerDomain(x, {y \in DOMAIN graph : LowDegree(y)})

(* With no register of low degree, max_element over the same order: the    *)
(* first among those of highest degree (lines 1106-1112).                  *)
MostConstrained(x) ==
  LET highest == {y \in DOMAIN graph : \A z \in DOMAIN graph : Degree(z) <= Degree(y)}
  IN  /\ stage = "select"
      /\ \A y \in DOMAIN graph : ~LowDegree(y)
      /\ x \in highest
      /\ NoSmallerDomain(x, highest)

(* Taking x out of the graph: only its neighbours are touched.             *)
Without(x) ==
  [n \in DOMAIN graph \ {x} |-> IF n \in graph[x] THEN graph[n] \ {x} ELSE graph[n]]

(* The places of the copies of x whose other side already has a colour     *)
(* that x can take.                                                        *)
Biased(x) ==
  {k \in DOMAIN problem.moves[x] :
     /\ problem.moves[x][k] \in DOMAIN colors
     /\ colors[problem.moves[x][k]] \in domains[x]}

(* The colour x gets: that of the first such copy, else the first of its   *)
(* domain (lines 1134-1144).                                               *)

Picks(x) ==
  IF Biased(x) # {}
  THEN {colors[problem.moves[x][k]] : k \in {j \in Biased(x) : \A i \in Biased(x) : j <= i}}
  ELSE {c \in domains[x] : \A d \in domains[x] : c <= d}

(* What colouring with c adds to the registers to save (lines 1146-1154).  *)
SavesNothing(c) == {}
MustSave(c) == IF c \in CallerSaved \cup Reserved THEN {} ELSE {Root[c]}

(* The domains once x has colour c (lines 1156-1164).                      *)
ErasesColorOnly(x, c) ==
  [n \in Nodes |-> IF n \in graph[x] THEN domains[n] \ {c} ELSE domains[n]]
ErasesFromAll(x, c) == [n \in Nodes |-> domains[n] \ Family[c]]
Erased(x, c) ==
  [n \in Nodes |-> IF n \in graph[x] THEN domains[n] \ Family[c] ELSE domains[n]]

KeepsNode(x, c) ==
  /\ Selected(x)
  /\ domains[x] # {}
  /\ c \in Picks(x)
  /\ colors' = [y \in DOMAIN colors \cup {x} |-> IF y = x THEN c ELSE colors[y]]
  /\ UNCHANGED <<problem, stage, K, spilled, graph, domains, callee_saved>>

(* Colour x with c (lines 1133-1170).                                      *)
Color(x, c) ==
  /\ Selected(x)
  /\ domains[x] # {}
  /\ c \in Picks(x)
  /\ colors' = [y \in DOMAIN colors \cup {x} |-> IF y = x THEN c ELSE colors[y]]
  /\ callee_saved' = callee_saved \cup MustSave(c)
  /\ domains' = Erased(x, c)
  /\ graph' = Without(x)
  /\ UNCHANGED <<problem, stage, K, spilled>>

Spill(x) ==
  /\ spilled' = spilled \cup {x}
  /\ graph' = Without(x)
  /\ UNCHANGED <<problem, stage, domains, K, colors, callee_saved>>

(* No colour is left for the register taken (lines 1125-1132).             *)
SpillColorless(x) == Selected(x) /\ domains[x] = {} /\ Spill(x)

(* No register of low degree is left (lines 1106-1120).                    *)
SpillHighestDegree(x) == MostConstrained(x) /\ Spill(x)

Next ==
  \/ Precolor
  \/ \E x \in DOMAIN graph :
       \/ \E c \in Reg : Color(x, c)
       \/ SpillColorless(x)
       \/ SpillHighestDegree(x)

(* allocate() is one sequential function: it keeps running.                *)
Spec == Init /\ [][Next]_vars /\ WF_vars(Next)

(* The loop has ended (line 1171).                                         *)
Finished == stage = "select" /\ DOMAIN graph = {}

-----------------------------------------------------------------------------
(***************************************************************************)
(* Two interfering registers never get aliasing colours.  The loop never   *)
(* looks at a coloured neighbour again: a colour is only ever kept away    *)
(* by having been erased from a domain some steps before, while neighbours *)
(* were leaving the graph.  (Two fixed registers are given their colours   *)
(* by lowering, not by the loop.)                                          *)
(***************************************************************************)
NoFamilyClash ==
  \A x, y \in DOMAIN colors :
    (y \in problem.inter[x] /\ {x, y} \cap Free # {}) => colors[x] \notin Family[colors[y]]

(***************************************************************************)
(* Every colour comes from the domain the register was created with, less  *)
(* what calls destroy while it is live -- also when it is the colour of    *)
(* the other side of a copy (lines 1136-1144).                             *)
(***************************************************************************)
ColorAllowed == \A x \in DOMAIN colors : colors[x] \in problem.domain[x]

(***************************************************************************)
(* Nothing is lost: a register is in the graph, coloured or spilled, and   *)
(* only one of them; applying the colours (line 1273) looks up every       *)
(* register of the function.                                               *)
(***************************************************************************)
EachTreatedOnce ==
  stage = "select" =>
    /\ DOMAIN graph \cup DOMAIN colors \cup spilled = Nodes
    /\ DOMAIN graph \cap DOMAIN colors = {}
    /\ spilled \cap (DOMAIN graph \cup DOMAIN colors) = {}
    /\ problem.fixed \subseteq DOMAIN colors

(***************************************************************************)
(* The prologue saves exactly the widest register over each callee-saved   *)
(* colour the loop gave out: none is forgotten, none saved for nothing.    *)
(***************************************************************************)
SavesWhatItUses ==
  callee_saved = {Root[colors[x]] :
                    x \in {y \in DOMAIN colors \cap Free : colors[y] \notin CallerSaved \cup Reserved}}

(***************************************************************************)
(* The comment of lines 1075-1076 in the form that holds: a register that  *)
(* has fewer neighbours than colours when the loop starts is never         *)
(* spilled, whatever happens to the others first.                          *)
(***************************************************************************)
NoNeedlessSpill ==
  stage = "select" => \A x \in spilled : Cardinality(problem.inter[x] \cap Free) >= K[x]

(***************************************************************************)
(* What NoNeedlessSpill needs of a problem: no colour aliases two colours  *)
(* that do not alias each other.  Not so in the whole table, where EAX     *)
(* aliases RAX and AX, but in domains of registers of one width.           *)
(***************************************************************************)
Used(p) == UNION {p.domain[x] : x \in p.nodes}
FlatFamilies(p) ==
  \A c, r, s \in Used(p) : r \in Family[c] /\ s \in Family[c] => r \in Family[s]

(***************************************************************************)
(* The loop implements Assignment: each step decides one register, which   *)
(* was undecided, for good, and a colour it gives clashes with no colour   *)
(* given before -- although the loop looks at no coloured register, only   *)
(* at a domain and a graph that earlier steps have cut down.               *)
(***************************************************************************)
Assigning == INSTANCE Assignment WITH assigned <- colors
DecidesOneByOne == Assigning!Spec

(* The do-while loop of lines 1087-1171 ends.                              *)
Terminates == <>Finished

=============================================================================

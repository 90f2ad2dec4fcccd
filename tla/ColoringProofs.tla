--------------------------- MODULE ColoringProofs ---------------------------
(***************************************************************************)
(* Proofs about Coloring for every register file, interference graph and   *)
(* set of domains.                                                         *)
(*                                                                         *)
(* NoFamilyClash is not inductive: when a register is coloured the loop    *)
(* looks only at its domain.  What makes the domain trustworthy is         *)
(* KeptAway: no register still in the graph has, in its domain, a colour   *)
(* aliasing that of a neighbour that has already left the graph.  Keeping  *)
(* KeptAway needs GraphRestricted: the neighbours the loop erases the      *)
(* colour from are all those still in the graph.                           *)
(***************************************************************************)
EXTENDS Coloring, FiniteSetTheorems, WellFoundedInduction, TLAPS

Untouched ==
  stage = "precolor" =>
    colors = [x \in {} |-> 0] /\ spilled = {} /\ callee_saved = {} /\ DOMAIN graph = Nodes

GraphRestricted ==
  stage = "select" =>
    /\ DOMAIN graph \subseteq Free
    /\ \A x \in DOMAIN graph : graph[x] = problem.inter[x] \cap DOMAIN graph

DomainsShrink == \A x \in Nodes : domains[x] \subseteq problem.domain[x]

KeptAway ==
  stage = "select" =>
    \A x \in DOMAIN graph : \A y \in DOMAIN colors :
      y \in problem.inter[x] => domains[x] \cap Family[colors[y]] = {}

ColorInv ==
  /\ TypeOK /\ Untouched /\ GraphRestricted /\ DomainsShrink /\ KeptAway
  /\ NoFamilyClash /\ ColorAllowed /\ EachTreatedOnce /\ SavesWhatItUses

-----------------------------------------------------------------------------
(* What the invariant says of the problem, in the form the steps need.     *)
LEMMA ProblemFacts ==
  ASSUME TypeOK
  PROVE  /\ problem.fixed \subseteq Nodes
         /\ \A x \in Nodes : problem.inter[x] \subseteq Nodes /\ x \notin problem.inter[x]
         /\ \A x, y \in Nodes : y \in problem.inter[x] => x \in problem.inter[y]
         /\ \A x \in Nodes : problem.domain[x] \subseteq Reg
         /\ Free \subseteq Nodes
BY DEF TypeOK, IsProblem, Nodes, Free

(* The colour of a fixed register is the one its domain holds.             *)
LEMMA FixedColorInDomain ==
  ASSUME TypeOK, NEW x \in problem.fixed
  PROVE  FixedColor(x) \in problem.domain[x] /\ FixedColor(x) \in Reg
<1>1. PICK r \in Reg : problem.domain[x] = {r}
  BY DEF TypeOK, IsProblem
<1>2. r <= r
  BY RegAssumption
<1>3. Least({r}) = r
  BY <1>2 DEF Least
<1>. QED  BY <1>1, <1>3 DEF FixedColor

(* A picked colour is in the domain, wherever it comes from.               *)
LEMMA PicksInDomain ==
  ASSUME NEW x, NEW c \in Picks(x)
  PROVE  c \in domains[x]
BY DEF Picks, Biased

-----------------------------------------------------------------------------
LEMMA InitColorInv == Init => ColorInv
<1> SUFFICES ASSUME Init PROVE ColorInv
  OBVIOUS
<1>1. IsProblem(problem)
  BY ProblemsAssumption DEF Init
<1>2. TypeOK
  BY <1>1 DEF Init, Start, TypeOK, Nodes, IsProblem
<1>3. DOMAIN graph = Nodes
  BY <1>1 DEF Init, Start, IsProblem, Nodes
<1>. QED
  BY <1>2, <1>3 DEF Init, Start, ColorInv, Untouched, GraphRestricted, DomainsShrink, KeptAway,
     NoFamilyClash, ColorAllowed, EachTreatedOnce, SavesWhatItUses

LEMMA PrecolorInv ==
  ASSUME ColorInv, Precolor
  PROVE  ColorInv'
<1> USE DEF ColorInv
<1>1. /\ problem' = problem /\ Nodes' = Nodes /\ Free' = Free
      /\ stage = "precolor" /\ stage' = "select"
      /\ spilled' = {} /\ callee_saved' = {}
  BY DEF Precolor, Untouched, Nodes, Free
<1>2. /\ DOMAIN colors' = problem.fixed
      /\ \A x \in problem.fixed : colors'[x] \in problem.domain[x] /\ colors'[x] \in Reg
  BY FixedColorInDomain DEF Precolor
<1>3. /\ DOMAIN domains' = Nodes
      /\ \A x \in Nodes : domains'[x] = Narrowed(x)
      /\ \A x \in Nodes : Narrowed(x) \subseteq problem.domain[x]
  BY DEF Precolor, Narrowed
<1>4. DOMAIN graph' = Free /\ \A x \in Free : graph'[x] = problem.inter[x] \cap Free
  BY DEF Precolor
<1>5. TypeOK'
  <2>1. domains' \in [Nodes -> SUBSET Reg]
    BY <1>3, ProblemFacts DEF Precolor
  <2>2. graph' \in [DOMAIN graph' -> SUBSET Nodes] /\ DOMAIN graph' \subseteq Nodes
    BY <1>4, ProblemFacts DEF Precolor
  <2>3. colors' \in [DOMAIN colors' -> Reg] /\ DOMAIN colors' \subseteq Nodes
    BY <1>2, ProblemFacts DEF Precolor
  <2>4. DOMAIN K' = Nodes
    BY DEF Precolor
  <2>. QED  BY <1>1, <2>1, <2>2, <2>3, <2>4 DEF TypeOK
<1>6. Untouched' /\ GraphRestricted' /\ DomainsShrink'
  BY <1>1, <1>3, <1>4 DEF Untouched, GraphRestricted, DomainsShrink
<1>7. KeptAway'
  <2> SUFFICES ASSUME NEW x \in Free, NEW y \in problem.fixed, y \in problem.inter[x]
               PROVE  domains'[x] \cap Family[colors'[y]] = {}
    BY <1>1, <1>2, <1>4 DEF KeptAway
  <2>1. x \in Nodes /\ x \notin problem.fixed
    BY DEF Free
  <2>2. domains'[x] = problem.domain[x] \ FixedFamilies(x)
    BY <1>3, <2>1 DEF Narrowed
  <2>3. Family[colors'[y]] \subseteq FixedFamilies(x)
    BY DEF Precolor, FixedFamilies
  <2>. QED  BY <2>2, <2>3
<1>8. NoFamilyClash' /\ ColorAllowed'
  BY <1>1, <1>2 DEF NoFamilyClash, ColorAllowed, Free
<1>9. EachTreatedOnce' /\ SavesWhatItUses'
  BY <1>1, <1>2, <1>4, ProblemFacts DEF EachTreatedOnce, SavesWhatItUses, Free
<1>. QED  BY <1>5, <1>6, <1>7, <1>8, <1>9

(* Taking a register out keeps the graph the restriction of the            *)
(* interference graph, although only its neighbours are touched.           *)
LEMMA WithoutRestricts ==
  ASSUME ColorInv, stage = "select", NEW x \in DOMAIN graph, graph' = Without(x)
  PROVE  /\ DOMAIN graph' = DOMAIN graph \ {x}
         /\ \A n \in DOMAIN graph' : graph'[n] = problem.inter[n] \cap DOMAIN graph'
<1>1. DOMAIN graph' = DOMAIN graph \ {x}
  BY DEF Without
<1>2. ASSUME NEW n \in DOMAIN graph \ {x}
      PROVE  graph'[n] = problem.inter[n] \cap (DOMAIN graph \ {x})
  <2>1. /\ graph[n] = problem.inter[n] \cap DOMAIN graph
        /\ graph[x] = problem.inter[x] \cap DOMAIN graph
        /\ n \in Nodes /\ x \in Nodes
    BY DEF ColorInv, GraphRestricted, TypeOK
  <2>2. n \in problem.inter[x] <=> x \in problem.inter[n]
    BY <2>1, ProblemFacts DEF ColorInv
  <2>3. graph'[n] = IF n \in graph[x] THEN graph[n] \ {x} ELSE graph[n]
    BY DEF Without
  <2>. QED  BY <2>1, <2>2, <2>3
<1>. QED  BY <1>1, <1>2

LEMMA SpillInv ==
  ASSUME ColorInv, stage = "select", NEW x \in DOMAIN graph, Spill(x)
  PROVE  ColorInv'
<1> USE DEF ColorInv
<1>1. /\ UNCHANGED <<problem, stage, domains, K, colors, callee_saved>>
      /\ Nodes' = Nodes /\ Free' = Free /\ spilled' = spilled \cup {x}
      /\ graph' = Without(x)
  BY DEF Spill, Nodes, Free
<1>2. /\ DOMAIN graph' = DOMAIN graph \ {x}
      /\ \A n \in DOMAIN graph' : graph'[n] = problem.inter[n] \cap DOMAIN graph'
  BY <1>1, WithoutRestricts
<1>3. TypeOK'
  <2>1. DOMAIN graph' \subseteq Nodes /\ x \in Nodes
    BY <1>2 DEF TypeOK
  <2>2. graph' \in [DOMAIN graph' -> SUBSET Nodes]
    BY <1>1, <1>2, <2>1, ProblemFacts DEF Without
  <2>3. /\ IsProblem(problem') /\ stage' \in {"precolor", "select"}
        /\ domains' \in [Nodes' -> SUBSET Reg] /\ DOMAIN K' = Nodes'
        /\ DOMAIN colors' \subseteq Nodes' /\ colors' \in [DOMAIN colors' -> Reg]
        /\ callee_saved' \subseteq {Root[r] : r \in Reg}
    BY <1>1 DEF TypeOK
  <2>4. spilled' \subseteq Nodes'
    BY <1>1, <2>1 DEF TypeOK
  <2>. QED  BY <1>1, <2>1, <2>2, <2>3, <2>4 DEF TypeOK
<1>4. Untouched' /\ GraphRestricted' /\ DomainsShrink' /\ KeptAway'
  BY <1>1, <1>2 DEF Untouched, GraphRestricted, DomainsShrink, KeptAway
<1>5. NoFamilyClash' /\ ColorAllowed' /\ SavesWhatItUses'
  BY <1>1 DEF NoFamilyClash, ColorAllowed, SavesWhatItUses
<1>6. EachTreatedOnce'
  BY <1>1, <1>2 DEF EachTreatedOnce
<1>. QED  BY <1>3, <1>4, <1>5, <1>6

LEMMA ColoringInv ==
  ASSUME ColorInv, NEW x \in DOMAIN graph, NEW c \in Reg, Color(x, c)
  PROVE  ColorInv'
<1> USE DEF ColorInv
<1>1. /\ UNCHANGED <<problem, stage, K, spilled>>
      /\ Nodes' = Nodes /\ Free' = Free /\ stage = "select"
      /\ graph' = Without(x) /\ domains' = Erased(x, c)
      /\ callee_saved' = callee_saved \cup MustSave(c)
  BY DEF Color, Nodes, Free, Selected
<1>2. /\ DOMAIN graph' = DOMAIN graph \ {x}
      /\ \A n \in DOMAIN graph' : graph'[n] = problem.inter[n] \cap DOMAIN graph'
  BY <1>1, WithoutRestricts
<1>3. /\ x \in Free /\ x \in Nodes /\ x \notin DOMAIN colors /\ x \notin spilled
      /\ graph[x] = problem.inter[x] \cap DOMAIN graph
      /\ DOMAIN graph \subseteq Nodes /\ DOMAIN colors \subseteq Nodes
  BY <1>1 DEF GraphRestricted, EachTreatedOnce, TypeOK
<1>4. /\ DOMAIN colors' = DOMAIN colors \cup {x}
      /\ colors'[x] = c
      /\ \A y \in DOMAIN colors : colors'[y] = colors[y]
  BY <1>3 DEF Color
<1>5. c \in domains[x] /\ c \in problem.domain[x]
  BY <1>3, PicksInDomain DEF Color, DomainsShrink
<1>6. /\ DOMAIN domains' = Nodes
      /\ \A n \in Nodes : domains'[n] = IF n \in graph[x] THEN domains[n] \ Family[c] ELSE domains[n]
  BY <1>1 DEF Erased
<1>7. TypeOK'
  <2>1. graph' \in [DOMAIN graph' -> SUBSET Nodes] /\ DOMAIN graph' \subseteq Nodes
    BY <1>1, <1>2, <1>3, ProblemFacts DEF Without
  <2>2. domains' \in [Nodes -> SUBSET Reg]
    BY <1>1, <1>6 DEF TypeOK, Erased
  <2>3. colors' \in [DOMAIN colors' -> Reg] /\ DOMAIN colors' \subseteq Nodes
    <3>1. \A y \in DOMAIN colors' : colors'[y] \in Reg
      BY <1>4 DEF TypeOK
    <3>. QED  BY <1>3, <1>4, <3>1 DEF Color
  <2>4. callee_saved' \subseteq {Root[r] : r \in Reg \ (CallerSaved \cup Reserved)}
    BY <1>1 DEF TypeOK, MustSave
  <2>5. IsProblem(problem') /\ DOMAIN K' = Nodes /\ spilled' \subseteq Nodes
    BY <1>1 DEF TypeOK
  <2>. QED  BY <1>1, <2>1, <2>2, <2>3, <2>4, <2>5 DEF TypeOK
<1>8. Untouched' /\ GraphRestricted'
  BY <1>1, <1>2 DEF Untouched, GraphRestricted
<1>9. DomainsShrink'
  BY <1>1, <1>6 DEF DomainsShrink
<1>10. KeptAway'
  <2> SUFFICES ASSUME NEW n \in DOMAIN graph \ {x}, NEW y \in DOMAIN colors \cup {x},
                      y \in problem.inter[n]
               PROVE  domains'[n] \cap Family[colors'[y]] = {}
    BY <1>1, <1>2, <1>4 DEF KeptAway
  <2>1. n \in Nodes
    BY <1>3
  <2>2. CASE y = x
    <3>1. n \in graph[x]
      BY <2>1, <2>2, <1>3, ProblemFacts
    <3>. QED  BY <3>1, <2>1, <2>2, <1>4, <1>6
  <2>3. CASE y # x
    <3>1. domains[n] \cap Family[colors[y]] = {}
      BY <2>3, <1>1 DEF KeptAway
    <3>2. domains'[n] \subseteq domains[n] /\ colors'[y] = colors[y]
      BY <2>1, <2>3, <1>4, <1>6
    <3>. QED  BY <3>1, <3>2
  <2>. QED  BY <2>2, <2>3
<1>11. NoFamilyClash'
  <2>1. ASSUME NEW y \in DOMAIN colors, y \in problem.inter[x]
        PROVE  c \notin Family[colors[y]] /\ colors[y] \notin Family[c]
    <3>1. c \notin Family[colors[y]]
      BY <2>1, <1>1, <1>5 DEF KeptAway
    <3>. QED  BY <3>1, FamilyAssumption DEF TypeOK
  <2> SUFFICES ASSUME NEW a \in DOMAIN colors \cup {x}, NEW b \in DOMAIN colors \cup {x},
                      b \in problem.inter[a], {a, b} \cap Free # {}
               PROVE  colors'[a] \notin Family[colors'[b]]
    BY <1>1, <1>4 DEF NoFamilyClash
  <2>2. CASE a = x
    BY <2>1, <2>2, <1>3, <1>4, ProblemFacts
  <2>3. CASE a # x /\ b = x
    BY <2>1, <2>3, <1>3, <1>4, ProblemFacts
  <2>4. CASE a # x /\ b # x
    BY <2>4, <1>4 DEF NoFamilyClash
  <2>. QED  BY <2>2, <2>3, <2>4
<1>12. ColorAllowed'
  BY <1>1, <1>4, <1>5 DEF ColorAllowed
<1>13. EachTreatedOnce'
  BY <1>1, <1>2, <1>3, <1>4 DEF EachTreatedOnce
<1>14. SavesWhatItUses'
  BY <1>1, <1>3, <1>4 DEF SavesWhatItUses, MustSave
<1>. QED  BY <1>7, <1>8, <1>9, <1>10, <1>11, <1>12, <1>13, <1>14

LEMMA NextColorInv == ColorInv /\ [Next]_vars => ColorInv'
<1> SUFFICES ASSUME ColorInv, [Next]_vars PROVE ColorInv'
  OBVIOUS
<1>1. CASE Precolor
  BY <1>1, PrecolorInv
<1>2. ASSUME NEW x \in DOMAIN graph, NEW c \in Reg, Color(x, c) PROVE ColorInv'
  BY <1>2, ColoringInv
<1>3. ASSUME NEW x \in DOMAIN graph, SpillColorless(x) \/ SpillHighestDegree(x) PROVE ColorInv'
  BY <1>3, SpillInv DEF SpillColorless, SpillHighestDegree, Selected, MostConstrained
<1>4. CASE UNCHANGED vars
  BY <1>4 DEF vars, loopvars, ColorInv, TypeOK, Untouched, GraphRestricted, DomainsShrink, KeptAway,
     NoFamilyClash, ColorAllowed, EachTreatedOnce, SavesWhatItUses, Nodes, Free
<1>. QED  BY <1>1, <1>2, <1>3, <1>4 DEF Next

LEMMA ColorInductive == Spec => []ColorInv
BY InitColorInv, NextColorInv, PTL DEF Spec

-----------------------------------------------------------------------------
(***************************************************************************)
(* The loop keeps its tables well-typed for every register file.           *)
(***************************************************************************)
THEOREM ColoringTypeCorrect == Spec => []TypeOK
BY ColorInductive, PTL DEF ColorInv

(***************************************************************************)
(* No two interfering registers ever hold aliasing colours, for every      *)
(* interference graph, register file and order of treatment.               *)
(***************************************************************************)
THEOREM ColoringSound == Spec => []NoFamilyClash
BY ColorInductive, PTL DEF ColorInv

(***************************************************************************)
(* No register gets a colour outside the domain it came with, so none that *)
(* a call destroys while it is live.                                       *)
(***************************************************************************)
THEOREM ColoringRespectsDomains == Spec => []ColorAllowed
BY ColorInductive, PTL DEF ColorInv

(***************************************************************************)
(* No register is lost or treated twice.                                   *)
(***************************************************************************)
THEOREM ColoringComplete == Spec => []EachTreatedOnce
BY ColorInductive, PTL DEF ColorInv

(***************************************************************************)
(* The registers the prologue will save are those the colouring needs.     *)
(***************************************************************************)
THEOREM CalleeSavedExact == Spec => []SavesWhatItUses
BY ColorInductive, PTL DEF ColorInv

-----------------------------------------------------------------------------
(***************************************************************************)
(* NoNeedlessSpill.  A register of low degree stays one, so it can only    *)
(* be spilled for want of a colour.  K counted colours of which no two     *)
(* alias; where a colour aliases no two of them, each neighbour coloured   *)
(* takes one away at most (Spare), and there are fewer neighbours.         *)
(***************************************************************************)
(* A set of numbers that is not empty has a least element.                 *)
LEMMA LeastNumber ==
  ASSUME NEW T, T \subseteq Nat, T # {}
  PROVE  \E n \in T : \A m \in T : n <= m
<1> DEFINE below == {p \in Nat \X Nat : p[1] < p[2]}
<1>1. OpToRel(<, Nat) = below
  BY DEF OpToRel
<1>2. IsWellFoundedOn(below, Nat)
  BY <1>1, NatLessThanWellFounded
<1> HIDE DEF below
<1>3. PICK n \in T : \A m \in T : <<m, n>> \notin below
  BY <1>2, WFMin
<1>4. ASSUME NEW m \in T PROVE n <= m
  <2>1. n \in Nat /\ m \in Nat /\ <<m, n>> \notin below
    BY <1>3
  <2> QED BY <2>1 DEF below
<1> QED BY <1>4

(* Who is counted among the registers below n of a domain D.               *)
Counts(f, D, n) ==
  /\ f \in [D -> BOOLEAN]
  /\ \A r \in D : r < n => (f[r] <=> \A s \in D : (s < r /\ s \in Family[r]) => ~f[s])

LEMMA CountsBelow ==
  ASSUME NEW D \in SUBSET Reg
  PROVE  \A n \in Nat : \E f : Counts(f, D, n)
<1> DEFINE Bad == {n \in Nat : ~\E f : Counts(f, D, n)}
<1> SUFFICES ASSUME Bad # {} PROVE FALSE
  OBVIOUS
<1>1. PICK n \in Bad : \A m \in Bad : n <= m
  BY LeastNumber
<1>2. n \in Nat /\ D \subseteq Nat
  BY <1>1, RegAssumption
<1>3. n # 0
  <2>1. Counts([r \in D |-> FALSE], D, 0)
    BY <1>2 DEF Counts
  <2> QED BY <1>1, <2>1
<1>4. n - 1 \in Nat /\ n - 1 \notin Bad
  BY <1>1, <1>2, <1>3
<1>5. PICK f : Counts(f, D, n - 1)
  BY <1>4
<1> DEFINE here == \A s \in D : (s < n - 1 /\ s \in Family[n - 1]) => ~f[s]
           g == [r \in D |-> IF r = n - 1 THEN here ELSE f[r]]
<1>6. g \in [D -> BOOLEAN]
  BY <1>5 DEF Counts
<1>7. \A r \in D : r # n - 1 => g[r] = f[r]
  OBVIOUS
<1>8. n - 1 \in D => g[n - 1] = here
  OBVIOUS
<1> HIDE DEF g
<1>9. ASSUME NEW r \in D, r < n
      PROVE  g[r] <=> \A s \in D : (s < r /\ s \in Family[r]) => ~g[s]
  <2>1. \A s \in D : s < r => s # n - 1
    BY <1>2, <1>9
  <2>2. \A s \in D : s < r => g[s] = f[s]
    BY <1>7, <2>1
  <2>3. CASE r = n - 1
    BY <1>8, <2>2, <2>3, Zenon
  <2>4. CASE r # n - 1
    <3>1. r < n - 1
      BY <1>2, <1>9, <2>4
    <3>2. f[r] <=> \A s \in D : (s < r /\ s \in Family[r]) => ~f[s]
      BY <3>1, <1>5, Zenon DEF Counts
    <3>3. g[r] = f[r]
      BY <2>4, <1>7
    <3> QED BY <3>2, <3>3, <2>2, Zenon
  <2> QED BY <2>3, <2>4
<1>10. Counts(g, D, n)
  BY <1>6, <1>9, Zenon DEF Counts
<1> QED BY <1>1, <1>10

(* No two registers counted for K alias each other.                        *)
Apart(S) == \A r, s \in S : s \in Family[r] => r = s

LEMMA CountedApart ==
  ASSUME NEW D \in SUBSET Reg
  PROVE  Counted(D) \subseteq D /\ Apart(Counted(D))
<1>1. PICK last \in Reg \cup {0} : Reg \subseteq 1 .. last
  BY RegAssumption
<1>2. last \in Nat /\ D \subseteq 1 .. last
  BY <1>1, RegAssumption
<1>3. PICK f : Counts(f, D, last + 1)
  BY <1>2, CountsBelow
<1>4. \A r \in D : f[r] <=> \A s \in D : (s < r /\ s \in Family[r]) => ~f[s]
  <2> SUFFICES ASSUME NEW r \in D
               PROVE  f[r] <=> \A s \in D : (s < r /\ s \in Family[r]) => ~f[s]
    OBVIOUS
  <2>1. r < last + 1
    BY <1>2
  <2> QED BY <2>1, <1>3, Zenon DEF Counts
<1> DEFINE Is(g) == g = [r \in D |-> \A s \in D : (s < r /\ s \in Family[r]) => ~g[s]]
           c == CHOOSE g : Is(g)
<1>5. Is(f)
  <2>1. \A r \in D : f[r] \in BOOLEAN
    BY <1>3 DEF Counts
  <2>2. \A r \in D : f[r] = \A s \in D : (s < r /\ s \in Family[r]) => ~f[s]
    BY <1>4, <2>1, Zenon
  <2>3. f = [r \in D |-> f[r]]
    BY <1>3 DEF Counts
  <2> QED BY <2>2, <2>3, Zenon
<1>6. Is(c)
  BY <1>5
<1>7. Counted(D) = {r \in D : c[r]}
  BY DEF Counted
<1> HIDE DEF c
<1>8. \A r \in D : c[r] <=> \A s \in D : (s < r /\ s \in Family[r]) => ~c[s]
  BY <1>6, Zenon
<1>9. ASSUME NEW r \in D, NEW s \in D, c[r], c[s], s \in Family[r], r # s
      PROVE  FALSE
  <2>1. r \in Nat /\ s \in Nat /\ r \in Family[s]
    BY <1>9, RegAssumption, FamilyAssumption
  <2>2. s < r \/ r < s
    BY <2>1, <1>9
  <2> QED BY <2>1, <2>2, <1>8, <1>9
<1> QED BY <1>7, <1>9 DEF Apart

(* The colours counted for x that are no longer in its domain, and the     *)
(* neighbours that may have taken them.                                    *)
Lost(x) == Counted(Narrowed(x)) \ domains[x]
Takers(x) == problem.inter[x] \cap Free \cap DOMAIN colors

Spare ==
  stage = "select" =>
    \A x \in Free :
      /\ K[x] = KOf(Narrowed(x))
      /\ x \in DOMAIN graph => Cardinality(Lost(x)) <= Cardinality(Takers(x))

SpillsInv == FlatFamilies(problem) /\ Spare /\ NoNeedlessSpill

(* The sets that are counted are finite.                                   *)
LEMMA FiniteParts ==
  ASSUME ColorInv, NEW x \in Nodes
  PROVE  /\ Narrowed(x) \subseteq problem.domain[x] /\ problem.domain[x] \subseteq Reg
         /\ Counted(Narrowed(x)) \subseteq Narrowed(x) /\ Apart(Counted(Narrowed(x)))
         /\ IsFiniteSet(Counted(Narrowed(x))) /\ IsFiniteSet(Lost(x))
         /\ IsFiniteSet(Takers(x)) /\ IsFiniteSet(problem.inter[x] \cap Free)
<1>1. /\ Narrowed(x) \subseteq problem.domain[x] /\ problem.domain[x] \subseteq Reg
      /\ problem.inter[x] \subseteq Nodes /\ IsFiniteSet(Nodes)
  BY DEF ColorInv, TypeOK, IsProblem, Nodes, Narrowed
<1>2. Counted(Narrowed(x)) \subseteq Narrowed(x) /\ Apart(Counted(Narrowed(x)))
  BY <1>1, CountedApart
<1>3. IsFiniteSet(Reg)
  <2>1. PICK last \in Reg \cup {0} : Reg \subseteq 1 .. last
    BY RegAssumption
  <2>2. last \in Int
    BY <2>1, RegAssumption
  <2>3. IsFiniteSet(1 .. last)
    BY <2>2, FS_Interval
  <2> QED BY <2>1, <2>3, FS_Subset
<1>4. IsFiniteSet(Counted(Narrowed(x))) /\ IsFiniteSet(Lost(x))
  <2>1. Counted(Narrowed(x)) \subseteq Reg /\ Lost(x) \subseteq Reg
    BY <1>1, <1>2 DEF Lost
  <2> QED BY <2>1, <1>3, FS_Subset
<1>5. IsFiniteSet(problem.inter[x] \cap Free) /\ IsFiniteSet(Takers(x))
  <2>1. problem.inter[x] \cap Free \subseteq Nodes /\ Takers(x) \subseteq Nodes
    BY <1>1 DEF Takers
  <2> QED BY <2>1, <1>1, FS_Subset
<1> QED BY <1>1, <1>2, <1>4, <1>5

(* A colour takes at most one of them.                                     *)
LEMMA TakesOne ==
  ASSUME ColorInv, FlatFamilies(problem), NEW x \in Nodes, NEW y \in Nodes,
         NEW c \in problem.domain[y]
  PROVE  \E e : Counted(Narrowed(x)) \cap Family[c] \subseteq {e}
<1> DEFINE S == Counted(Narrowed(x)) \cap Family[c]
<1>1. S \subseteq Used(problem) /\ c \in Used(problem)
  BY FiniteParts DEF Used, Nodes
<1>2. \A r, s \in S : r = s
  BY <1>1, FiniteParts DEF FlatFamilies, Apart
<1> HIDE DEF S
<1>3. \E e : S \subseteq {e}
  BY <1>2
<1> QED BY <1>3 DEF S

LEMMA SpillsInit ==
  ASSUME \A p \in Problems : FlatFamilies(p), Init
  PROVE  SpillsInv
BY DEF Init, Start, SpillsInv, Spare, NoNeedlessSpill

LEMMA SpillsPrecolor ==
  ASSUME ColorInv, ColorInv', SpillsInv, Precolor
  PROVE  SpillsInv'
<1>1. /\ problem' = problem /\ Nodes' = Nodes /\ Free' = Free /\ Free \subseteq Nodes
      /\ spilled' = {}
      /\ \A x \in Nodes : domains'[x] = Narrowed(x) /\ K'[x] = KOf(Narrowed(x))
  BY DEF Precolor, ColorInv, Untouched, Nodes, Free
<1>2. ASSUME NEW x \in Free
      PROVE  /\ Narrowed(x)' = Narrowed(x) /\ K'[x] = KOf(Narrowed(x))
             /\ Cardinality(Lost(x)') <= Cardinality(Takers(x)')
  <2>1. Narrowed(x)' = Narrowed(x)
    BY <1>1 DEF Narrowed, FixedFamilies, FixedColor
  <2>2. Lost(x)' = {}
    BY <2>1, <1>1, FiniteParts DEF Lost
  <2>3. Takers(x)' \subseteq Nodes /\ IsFiniteSet(Nodes)
    BY <1>1, FiniteParts DEF ColorInv, TypeOK, IsProblem, Nodes, Takers, Free
  <2>4. IsFiniteSet(Takers(x)')
    BY <2>3, FS_Subset
  <2>5. Cardinality(Takers(x)') \in Nat
    BY <2>4, FS_CardinalityType
  <2> QED BY <2>1, <2>2, <2>5, <1>1, FS_EmptySet
<1>3. Spare'
  BY <1>1, <1>2 DEF Spare
<1>4. NoNeedlessSpill' /\ FlatFamilies(problem)'
  BY <1>1 DEF NoNeedlessSpill, SpillsInv
<1> QED BY <1>3, <1>4 DEF SpillsInv

(* A register leaves the graph uncoloured: nothing is taken.               *)
LEMMA SpillsSpill ==
  ASSUME ColorInv, SpillsInv, stage = "select", NEW x \in DOMAIN graph, Spill(x),
         SpillColorless(x) \/ SpillHighestDegree(x)
  PROVE  SpillsInv'
<1>1. /\ problem' = problem /\ domains' = domains /\ K' = K /\ colors' = colors
      /\ stage' = stage /\ spilled' = spilled \cup {x} /\ DOMAIN graph' \subseteq DOMAIN graph
      /\ Nodes' = Nodes /\ Free' = Free
  BY DEF Spill, Without, Nodes, Free
<1>2. \A z \in Free : /\ Narrowed(z)' = Narrowed(z) /\ Lost(z)' = Lost(z) /\ Takers(z)' = Takers(z)
  BY <1>1 DEF Narrowed, FixedFamilies, FixedColor, Lost, Takers
<1>3. Spare'
  BY <1>1, <1>2 DEF Spare, SpillsInv
<1>4. /\ x \in Free /\ x \in Nodes
      /\ graph[x] = problem.inter[x] \cap DOMAIN graph /\ DOMAIN graph \subseteq Free
  BY DEF ColorInv, GraphRestricted, Free
<1> DEFINE k == Cardinality(Counted(Narrowed(x)))
           d == Cardinality(problem.inter[x] \cap Free)
<1>5. K[x] = k /\ k \in Nat /\ d \in Nat
  <2>1. K[x] = k
    BY <1>4 DEF SpillsInv, Spare, KOf
  <2> QED BY <2>1, <1>4, FiniteParts, FS_CardinalityType
<1>6. d >= k
  <2>1. CASE SpillColorless(x)
    <3>1. Lost(x) = Counted(Narrowed(x))
      BY <2>1 DEF SpillColorless, Lost
    <3>2. k <= Cardinality(Takers(x))
      BY <3>1, <1>4 DEF SpillsInv, Spare
    <3>3. Takers(x) \subseteq problem.inter[x] \cap Free
      BY DEF Takers
    <3>4. Cardinality(Takers(x)) <= d /\ Cardinality(Takers(x)) \in Nat
      BY <3>3, <1>4, FiniteParts, FS_Subset, FS_CardinalityType
    <3> QED BY <3>2, <3>4, <1>5
  <2>2. CASE SpillHighestDegree(x)
    <3>1. ~(Degree(x) < K[x])
      BY <2>2 DEF SpillHighestDegree, MostConstrained, LowDegree
    <3>2. graph[x] \subseteq problem.inter[x] \cap Free
      BY <1>4
    <3>3. Degree(x) <= d /\ Degree(x) \in Nat
      BY <3>2, <1>4, FiniteParts, FS_Subset, FS_CardinalityType DEF Degree
    <3> QED BY <3>1, <3>3, <1>5
  <2> QED BY <2>1, <2>2
<1>7. NoNeedlessSpill'
  <2>1. \A z \in spilled \cup {x} : Cardinality(problem.inter[z] \cap Free) >= K[z]
    BY <1>5, <1>6 DEF SpillsInv, NoNeedlessSpill
  <2> QED BY <2>1, <1>1 DEF NoNeedlessSpill
<1> QED BY <1>1, <1>3, <1>7 DEF SpillsInv

(* A coloured register is one more that may have taken a colour, and takes *)
(* at most one.                                                            *)
LEMMA SpillsColor ==
  ASSUME ColorInv, SpillsInv, NEW x \in DOMAIN graph, NEW c \in Reg, Color(x, c)
  PROVE  SpillsInv'
<1>1. /\ problem' = problem /\ K' = K /\ stage = "select" /\ stage' = stage /\ spilled' = spilled
      /\ domains' = Erased(x, c) /\ DOMAIN graph' = DOMAIN graph \ {x}
      /\ DOMAIN colors' = DOMAIN colors \cup {x}
      /\ Nodes' = Nodes /\ Free' = Free
  BY DEF Color, Selected, Without, Nodes, Free
<1>2. /\ x \in Nodes /\ x \in Free /\ x \notin DOMAIN colors
      /\ graph[x] = problem.inter[x] \cap DOMAIN graph /\ DOMAIN graph \subseteq Free
  BY <1>1 DEF ColorInv, GraphRestricted, EachTreatedOnce, Free
<1>3. c \in domains[x] /\ c \in problem.domain[x]
  BY <1>2, PicksInDomain DEF Color, ColorInv, DomainsShrink
<1>4. \A z \in Free : Narrowed(z)' = Narrowed(z)
  BY <1>1 DEF Narrowed, FixedFamilies, FixedColor
<1>5. ASSUME NEW z \in DOMAIN graph \ {x}
      PROVE  Cardinality(Lost(z)') <= Cardinality(Takers(z)')
  <2>1. z \in Nodes /\ z \in Free /\ Cardinality(Lost(z)) <= Cardinality(Takers(z))
    BY <1>1, <1>2 DEF SpillsInv, Spare, Free
  <2>2. domains'[z] = IF z \in graph[x] THEN domains[z] \ Family[c] ELSE domains[z]
    BY <1>1, <2>1 DEF Erased
  <2>3. Lost(z)' = Counted(Narrowed(z)) \ domains'[z]
    BY <1>4, <2>1 DEF Lost
  <2>4. Takers(z)' = problem.inter[z] \cap Free \cap (DOMAIN colors \cup {x})
    BY <1>1 DEF Takers
  <2>5. IsFiniteSet(Lost(z)) /\ IsFiniteSet(Takers(z))
    BY <2>1, FiniteParts
  <2>6. CASE z \in graph[x]
    <3>1. x \in problem.inter[z]
      BY <2>6, <2>1, <1>2, ProblemFacts DEF ColorInv
    <3>2. Takers(z)' = Takers(z) \cup {x} /\ x \notin Takers(z)
      BY <3>1, <2>4, <1>2 DEF Takers
    <3>3. Cardinality(Takers(z)') = Cardinality(Takers(z)) + 1
      BY <3>2, <2>5, FS_AddElement
    <3>4. PICK e : Counted(Narrowed(z)) \cap Family[c] \subseteq {e}
      BY <2>1, <1>2, <1>3, TakesOne DEF SpillsInv
    <3>5. Lost(z)' \subseteq Lost(z) \cup {e}
      BY <3>4, <2>2, <2>3, <2>6 DEF Lost
    <3>6. /\ IsFiniteSet(Lost(z) \cup {e})
          /\ Cardinality(Lost(z) \cup {e}) <= Cardinality(Lost(z)) + 1
      <4>1. Cardinality(Lost(z)) \in Nat
        BY <2>5, FS_CardinalityType
      <4>2. /\ IsFiniteSet(Lost(z) \cup {e})
            /\ Cardinality(Lost(z) \cup {e})
                 = IF e \in Lost(z) THEN Cardinality(Lost(z)) ELSE Cardinality(Lost(z)) + 1
        BY <2>5, FS_AddElement
      <4> QED BY <4>1, <4>2
    <3>7. IsFiniteSet(Lost(z)') /\ Cardinality(Lost(z)') <= Cardinality(Lost(z) \cup {e})
      BY <3>5, <3>6, FS_Subset
    <3>8. /\ Cardinality(Lost(z)) \in Nat /\ Cardinality(Takers(z)) \in Nat
          /\ Cardinality(Lost(z) \cup {e}) \in Nat /\ Cardinality(Lost(z)') \in Nat
      BY <2>5, <3>6, <3>7, FS_CardinalityType
    <3> QED BY <2>1, <3>3, <3>6, <3>7, <3>8
  <2>7. CASE z \notin graph[x]
    <3>1. x \notin problem.inter[z]
      BY <2>7, <2>1, <1>2, ProblemFacts DEF ColorInv
    <3>2. Takers(z)' = Takers(z)
      BY <3>1, <2>4 DEF Takers
    <3>3. Lost(z)' = Lost(z)
      BY <2>2, <2>3, <2>7 DEF Lost
    <3> QED BY <2>1, <3>2, <3>3
  <2> QED BY <2>6, <2>7
<1>6. \A z \in Free : K[z] = KOf(Narrowed(z))
  BY <1>1 DEF SpillsInv, Spare
<1>7. Spare'
  BY <1>1, <1>4, <1>5, <1>6 DEF Spare
<1>8. NoNeedlessSpill' /\ FlatFamilies(problem)'
  BY <1>1 DEF SpillsInv, NoNeedlessSpill
<1> QED BY <1>7, <1>8 DEF SpillsInv

LEMMA SpillsNext == ColorInv /\ ColorInv' /\ SpillsInv /\ [Next]_vars => SpillsInv'
<1> SUFFICES ASSUME ColorInv, ColorInv', SpillsInv, [Next]_vars PROVE SpillsInv'
  OBVIOUS
<1>1. CASE Precolor
  BY <1>1, SpillsPrecolor
<1>2. ASSUME NEW x \in DOMAIN graph, NEW c \in Reg, Color(x, c) PROVE SpillsInv'
  BY <1>2, SpillsColor
<1>3. ASSUME NEW x \in DOMAIN graph, SpillColorless(x) \/ SpillHighestDegree(x) PROVE SpillsInv'
  BY <1>3, SpillsSpill DEF SpillColorless, SpillHighestDegree, Selected, MostConstrained
<1>4. CASE UNCHANGED vars
  <2>1. UNCHANGED <<problem, stage, graph, domains, K, colors, spilled>>
    BY <1>4 DEF vars, loopvars
  <2>2. \A x \in Free : /\ Narrowed(x)' = Narrowed(x) /\ Lost(x)' = Lost(x) /\ Takers(x)' = Takers(x)
    BY <2>1 DEF Narrowed, FixedFamilies, FixedColor, Lost, Takers, Free, Nodes
  <2>3. Spare'
    BY <2>1, <2>2 DEF SpillsInv, Spare, Free, Nodes
  <2> QED BY <2>1, <2>3 DEF SpillsInv, NoNeedlessSpill, Free, Nodes
<1> QED BY <1>1, <1>2, <1>3, <1>4 DEF Next

(***************************************************************************)
(* Where the families of the domains are flat, a register with fewer       *)
(* neighbours than colours is never spilled: for every interference graph, *)
(* register file and order of treatment.                                   *)
(***************************************************************************)
THEOREM NoSpillWithoutNeed ==
  ASSUME \A p \in Problems : FlatFamilies(p)
  PROVE  Spec => []NoNeedlessSpill
<1>1. Init => SpillsInv
  BY SpillsInit
<1>2. SpillsInv => NoNeedlessSpill
  BY DEF SpillsInv
<1> QED BY <1>1, <1>2, SpillsNext, ColorInductive, PTL DEF Spec

-----------------------------------------------------------------------------
(* Precolor gives the fixed registers their colours, all at once.          *)
LEMMA PrecolorAssigns ==
  ASSUME ColorInv, Precolor
  PROVE  Assigning!AssignFixed
<1>1. DOMAIN colors = {} /\ spilled = {} /\ spilled' = spilled /\ problem' = problem
  BY DEF ColorInv, Untouched, Precolor
<1>2. \A x \in problem.fixed : colors'[x] \in problem.domain[x] /\ colors'[x] \in Reg
  BY FixedColorInDomain DEF Precolor, ColorInv
<1>3. colors' \in [problem.fixed -> Reg]
  BY <1>2 DEF Precolor
<1>. QED  BY <1>1, <1>2, <1>3 DEF Assigning!AssignFixed

(* A register of the graph is undecided, and the fixed ones are not.       *)
LEMMA InGraphIsOpen ==
  ASSUME ColorInv, stage = "select", NEW x \in DOMAIN graph
  PROVE  x \in Assigning!Open /\ problem.fixed \subseteq DOMAIN colors
BY DEF ColorInv, TypeOK, EachTreatedOnce, Assigning!Open, Nodes

(* Color looks at no neighbour's colour: KeptAway says the domain did.     *)
LEMMA ColorAssigns ==
  ASSUME ColorInv, NEW x \in DOMAIN graph, NEW c \in Reg, Color(x, c)
  PROVE  Assigning!Assign(x, c)
<1>1. stage = "select" /\ x \in Nodes
  BY DEF Color, Selected, ColorInv, TypeOK
<1>2. c \in domains[x]
  BY PicksInDomain DEF Color
<1>3. c \in problem.domain[x]
  BY <1>1, <1>2 DEF ColorInv, DomainsShrink
<1>4. ASSUME NEW y \in problem.inter[x] \cap DOMAIN colors
      PROVE  c \notin Family[colors[y]]
  BY <1>1, <1>2, <1>4 DEF ColorInv, KeptAway
<1>5. Assigning!Fits(x, c)
  BY <1>3, <1>4 DEF Assigning!Fits
<1>6. problem.fixed \subseteq DOMAIN colors
  BY <1>1, InGraphIsOpen
<1>. QED  BY <1>5, <1>6 DEF Color, Assigning!Assign

LEMMA SpillGivesUp ==
  ASSUME ColorInv, NEW x \in DOMAIN graph, SpillColorless(x) \/ SpillHighestDegree(x)
  PROVE  Assigning!GiveUp(x)
<1>1. stage = "select" /\ Spill(x)
  BY DEF SpillColorless, SpillHighestDegree, Selected, MostConstrained
<1>. QED  BY <1>1, InGraphIsOpen DEF Spill, Assigning!GiveUp

(***************************************************************************)
(* For every interference problem, register file and order of treatment,   *)
(* each step of the loop decides one register for good, with a colour that *)
(* fits those given before.                                                *)
(***************************************************************************)
THEOREM ColoringImplementsAssignment == Spec => DecidesOneByOne
<1>1. Init => Assigning!Init
  <2> SUFFICES ASSUME Init PROVE Assigning!Init
    OBVIOUS
  <2>1. problem.fixed \subseteq problem.nodes
    BY ProblemsAssumption DEF Init, IsProblem
  <2>. QED  BY <2>1 DEF Init, Start, Assigning!Init
<1>2. ColorInv /\ [Next]_vars => [Assigning!Next]_(Assigning!vars)
  <2> SUFFICES ASSUME ColorInv, [Next]_vars PROVE [Assigning!Next]_(Assigning!vars)
    OBVIOUS
  <2>1. CASE Precolor
    BY <2>1, PrecolorAssigns DEF Assigning!Next
  <2>2. ASSUME NEW x \in DOMAIN graph, NEW c \in Reg, Color(x, c)
        PROVE  Assigning!Next
    BY <2>2, ColorAssigns, InGraphIsOpen DEF Assigning!Next, Color, Selected
  <2>3. ASSUME NEW x \in DOMAIN graph, SpillColorless(x) \/ SpillHighestDegree(x)
        PROVE  Assigning!Next
    BY <2>3, SpillGivesUp, InGraphIsOpen
       DEF Assigning!Next, SpillColorless, SpillHighestDegree, Selected, MostConstrained
  <2>4. CASE UNCHANGED vars
    BY <2>4 DEF vars, loopvars, Assigning!vars
  <2>. QED  BY <2>1, <2>2, <2>3, <2>4 DEF Next
<1>. QED  BY <1>1, <1>2, ColorInductive, PTL DEF Spec, DecidesOneByOne, Assigning!Spec

=============================================================================

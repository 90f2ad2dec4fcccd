------------------------ MODULE CriticalEdgesProofs -------------------------
(***************************************************************************)
(* Proofs about CriticalEdges for every function with a control-flow       *)
(* graph, of any size.                                                     *)
(*                                                                         *)
(* NoCriticalEdge is about the end; what holds on the way is that every    *)
(* critical edge of the sets as they are now is one still to be split      *)
(* (AllFound).  Splitting i -> j keeps that because the sets of i and j    *)
(* keep their sizes: one element is exchanged for another.                 *)
(***************************************************************************)
EXTENDS CriticalEdges, TLAPS

(* The successors are the inverse of the predecessors.                     *)
Inverse ==
  \A i, j \in Blocks : j \in successors[i] <=> i \in predecessors[j]

AllFound ==
  \A i, j \in Blocks :
    IsCritical(i, j, predecessors, successors) => <<i, j>> \in critical

Pairs == critical \subseteq Blocks \X Blocks

SplitInv == TypeOK /\ Pairs /\ Inverse /\ AllFound

EdgesInv ==
  /\ TypeOK
  /\ IsFunction(fct)
  /\ stage = "find" => IsCFG(fct)
  /\ stage = "split" => SplitInv
  /\ NoCriticalEdge

-----------------------------------------------------------------------------
(* Exchanging an element for a new one keeps the number of elements, as    *)
(* far as one and several go.                                              *)
LEMMA Exchange ==
  ASSUME NEW S, NEW x \in S, NEW new, new \notin S
  PROVE  Several((S \ {x}) \cup {new}) <=> Several(S)
<1>1. ASSUME Several(S) PROVE Several((S \ {x}) \cup {new})
  <2>1. PICK y \in S : y # x
    BY <1>1 DEF Several
  <2> QED BY <2>1 DEF Several
<1>2. ASSUME Several((S \ {x}) \cup {new}) PROVE Several(S)
  <2>1. PICK y \in S \ {x} : TRUE
    BY <1>2 DEF Several
  <2> QED BY <2>1 DEF Several
<1> QED BY <1>1, <1>2

LEMMA OneIsNotSeveral == \A x : ~Several({x})
BY DEF Several

(* Changing jumps and phis leaves the shape of a block alone.              *)
LEMMA SameFields ==
  ASSUME NEW b, NEW old, NEW new
  PROVE  /\ DOMAIN WithTarget(b, old, new) = DOMAIN b
         /\ DOMAIN WithIncoming(b, old, new) = DOMAIN b
BY DEF WithTarget, WithIncoming

LEMMA SequenceOfItsElements ==
  ASSUME NEW S, NEW s \in Seq(S)
  PROVE  s \in Seq({s[k] : k \in DOMAIN s})
<1> DEFINE T == {s[k] : k \in DOMAIN s}
<1>1. Len(s) \in Nat /\ DOMAIN s = 1 .. Len(s)
  OBVIOUS
<1>2. s \in [1 .. Len(s) -> S]
  OBVIOUS
<1>3. \A k \in 1 .. Len(s) : s[k] \in T
  BY <1>1
<1> HIDE DEF T
<1>4. s \in [1 .. Len(s) -> T]
  BY <1>2, <1>3
<1>5. s \in Seq(T)
  BY <1>1, <1>4
<1> QED BY <1>5 DEF T

(* A sequence of blocks of the right shape grows by one.                   *)
LEMMA BlocksGrow ==
  ASSUME NEW f, IsFunction(f), NEW blocks,
         blocks \in [DOMAIN f.blocks -> {blocks[b] : b \in DOMAIN f.blocks}],
         \A b \in DOMAIN f.blocks : DOMAIN blocks[b] = DOMAIN EmptyBlock,
         NEW last, DOMAIN last = DOMAIN EmptyBlock,
         NEW g, DOMAIN g = DOMAIN f, g.blocks = Append(blocks, last)
  PROVE  /\ IsFunction(g)
         /\ DOMAIN g.blocks = DOMAIN f.blocks \cup {Len(f.blocks) + 1}
         /\ Len(f.blocks) + 1 \notin DOMAIN f.blocks
<1> DEFINE n == Len(f.blocks)
           all == {blocks[b] : b \in DOMAIN f.blocks} \cup {last}
           longer == Append(blocks, last)
<1>1. n \in Nat /\ DOMAIN f.blocks = 1 .. n
  BY DEF IsFunction
<1>2. blocks \in Seq(all) /\ Len(blocks) = n
  BY <1>1
<1>3. g.blocks = longer /\ DOMAIN g = DOMAIN f
  OBVIOUS
<1>4. /\ longer \in Seq(all) /\ Len(longer) = n + 1 /\ DOMAIN longer = 1 .. n + 1
      /\ \A b \in 1 .. n + 1 : longer[b] = IF b = n + 1 THEN last ELSE blocks[b]
  BY <1>1, <1>2
<1> HIDE DEF longer
<1>5. \A b \in DOMAIN longer : DOMAIN longer[b] = DOMAIN EmptyBlock
  BY <1>1, <1>4
<1>6. longer \in Seq({longer[b] : b \in DOMAIN longer})
  BY <1>4, SequenceOfItsElements
<1>7. IsFunction(g)
  <2>1. DOMAIN g = {"args", "values", "blocks"}
    BY <1>3 DEF IsFunction
  <2> QED BY <2>1, <1>3, <1>5, <1>6 DEF IsFunction
<1> QED BY <1>1, <1>3, <1>4, <1>7

-----------------------------------------------------------------------------
LEMMA EdgesInit == Init => EdgesInv
BY FunctionsAssumption DEF Init, EdgesInv, TypeOK, NoCriticalEdge, Done

LEMMA FindInvariant ==
  ASSUME EdgesInv, FindCriticalEdges
  PROVE  EdgesInv'
<1>1. /\ stage = "find" /\ stage' = "split" /\ fct' = fct
      /\ predecessors' = [b \in Blocks |-> fct.blocks[b].preds]
      /\ successors' = [b \in Blocks |-> Targets(fct.blocks[b])]
      /\ critical' = {e \in Blocks \X Blocks :
                        IsCritical(e[1], e[2], predecessors', successors')}
  BY DEF FindCriticalEdges
<1>2. Blocks' = Blocks
  BY <1>1 DEF Blocks
<1>3. \A b \in Blocks :
        /\ Targets(fct.blocks[b]) \subseteq Blocks
        /\ fct.blocks[b].preds = {p \in Blocks : b \in Targets(fct.blocks[p])}
  BY <1>1 DEF EdgesInv, IsCFG, Blocks
<1>4. Inverse'
  BY <1>1, <1>2, <1>3 DEF Inverse
<1>5. AllFound' /\ Pairs'
  BY <1>1, <1>2 DEF AllFound, Pairs
<1>6. TypeOK'
  <2>1. /\ successors' \in [Blocks -> SUBSET Blocks]
        /\ predecessors' \in [Blocks -> SUBSET Blocks]
    BY <1>1, <1>3
  <2>2. \A e \in critical' : e[2] \in successors'[e[1]] /\ e[1] \in predecessors'[e[2]]
    BY <1>1, <1>2, <1>4 DEF Inverse, IsCritical
  <2> QED BY <1>1, <1>2, <2>1, <2>2 DEF TypeOK
<1>7. NoCriticalEdge'
  BY <1>1 DEF NoCriticalEdge, Done
<1> QED BY <1>1, <1>4, <1>5, <1>6, <1>7 DEF EdgesInv, SplitInv

(* The edge i -> j is split: what the sets become.                         *)
LEMMA SplitSets ==
  ASSUME EdgesInv, stage = "split", NEW i \in Blocks, NEW j \in Blocks,
         <<i, j>> \in critical, Split(i, j), critical' = critical \ {<<i, j>>}, stage' = stage
  PROVE  EdgesInv'
<1> DEFINE new == Len(fct.blocks) + 1
           end == [EmptyBlock EXCEPT !.instrs = <<BrInstr(j)>>]
           blocks1 == [fct.blocks EXCEPT ![i] = WithTarget(@, j, new)]
           blocks2 == [blocks1 EXCEPT ![j] = WithIncoming(@, i, new)]
<1>1. /\ successors \in [Blocks -> SUBSET Blocks]
      /\ predecessors \in [Blocks -> SUBSET Blocks]
      /\ j \in successors[i] /\ i \in predecessors[j]
      /\ SplitInv /\ IsFunction(fct)
  BY DEF EdgesInv, SplitInv, TypeOK
<1>2. IsFunction(fct)' /\ Blocks' = Blocks \cup {new} /\ new \notin Blocks
  <2>1. fct' = [fct EXCEPT !.blocks = Append(blocks2, end)]
    BY DEF Split
  <2>2. DOMAIN end = DOMAIN EmptyBlock
    BY DEF EmptyBlock
  <2>3. /\ DOMAIN blocks1 = Blocks
        /\ \A b \in Blocks : DOMAIN blocks1[b] = DOMAIN fct.blocks[b]
    BY SameFields DEF Blocks
  <2>4. /\ blocks2 = [b \in Blocks |-> blocks2[b]]
        /\ \A b \in Blocks : DOMAIN blocks2[b] = DOMAIN blocks1[b]
    BY <2>3, SameFields
  <2>5. \A b \in Blocks : DOMAIN blocks2[b] = DOMAIN EmptyBlock
    BY <1>1, <2>3, <2>4 DEF IsFunction, Blocks
  <2> HIDE DEF blocks2, end
  <2>6. blocks2 \in [DOMAIN fct.blocks -> {blocks2[b] : b \in DOMAIN fct.blocks}]
    BY <2>4 DEF Blocks
  <2>7. /\ IsFunction(fct')
        /\ DOMAIN fct'.blocks = DOMAIN fct.blocks \cup {Len(fct.blocks) + 1}
        /\ Len(fct.blocks) + 1 \notin DOMAIN fct.blocks
    <3> HIDE DEF new
    <3>1. \A b \in DOMAIN fct.blocks : DOMAIN blocks2[b] = DOMAIN EmptyBlock
      BY <2>5 DEF Blocks
    <3>2. DOMAIN fct' = DOMAIN fct /\ fct'.blocks = Append(blocks2, end)
      BY <1>1, <2>1 DEF IsFunction
    <3> QED BY ONLY <1>1, <2>2, <2>6, <3>1, <3>2, BlocksGrow, Zenon
  <2> QED BY <2>7 DEF Blocks, IsFunction
<1>3. \A b \in Blocks' :
        /\ successors'[b] = CASE b = new -> {j}
                              [] b = i -> (successors[i] \ {j}) \cup {new}
                              [] OTHER -> successors[b]
        /\ predecessors'[b] = CASE b = new -> {i}
                                [] b = j -> (predecessors[j] \ {i}) \cup {new}
                                [] OTHER -> predecessors[b]
  BY <1>2 DEF Split
<1>4. /\ successors'[new] = {j} /\ predecessors'[new] = {i}
      /\ successors'[i] = (successors[i] \ {j}) \cup {new}
      /\ predecessors'[j] = (predecessors[j] \ {i}) \cup {new}
      /\ \A b \in Blocks \ {i} : successors'[b] = successors[b]
      /\ \A b \in Blocks \ {j} : predecessors'[b] = predecessors[b]
  BY <1>2, <1>3
<1>5. /\ DOMAIN successors' = Blocks' /\ DOMAIN predecessors' = Blocks'
      /\ successors' = [b \in Blocks' |-> successors'[b]]
      /\ predecessors' = [b \in Blocks' |-> predecessors'[b]]
  BY <1>2 DEF Split
<1>6. Pairs'
  BY <1>1, <1>2 DEF Pairs, SplitInv
<1>7. Inverse'
  BY <1>1, <1>2, <1>4 DEF Inverse, SplitInv
<1>8. TypeOK'
  <2>1. \A b \in Blocks' : successors'[b] \subseteq Blocks' /\ predecessors'[b] \subseteq Blocks'
    BY <1>1, <1>2, <1>4
  <2>2. /\ successors' \in [Blocks' -> SUBSET Blocks']
        /\ predecessors' \in [Blocks' -> SUBSET Blocks']
    BY <1>5, <2>1
  <2>3. ASSUME NEW e \in critical'
        PROVE  e[2] \in successors'[e[1]] /\ e[1] \in predecessors'[e[2]]
    <3>1. e[1] \in Blocks /\ e[2] \in Blocks /\ e = <<e[1], e[2]>>
      BY <1>1, <2>3 DEF Pairs, SplitInv
    <3>2. e[2] \in successors[e[1]] /\ e[1] \in predecessors[e[2]]
      BY <2>3 DEF EdgesInv, TypeOK
    <3>3. e[1] # i \/ e[2] # j
      BY <2>3, <3>1
    <3> QED BY <3>1, <3>2, <3>3, <1>2, <1>4
  <2> QED BY <2>2, <2>3 DEF TypeOK
<1>9. AllFound'
  <2>1. /\ Several(successors'[i]) <=> Several(successors[i])
        /\ Several(predecessors'[j]) <=> Several(predecessors[j])
    <3>1. new \notin successors[i] /\ new \notin predecessors[j]
      BY <1>1, <1>2
    <3> HIDE DEF new
    <3>2. Several((successors[i] \ {j}) \cup {new}) <=> Several(successors[i])
      BY <1>1, <3>1, Exchange
    <3>3. Several((predecessors[j] \ {i}) \cup {new}) <=> Several(predecessors[j])
      BY <1>1, <3>1, Exchange
    <3> QED BY <1>4, <3>2, <3>3
  <2>2. ~Several(successors'[new]) /\ ~Several(predecessors'[new])
    BY <1>4, OneIsNotSeveral
  <2> SUFFICES ASSUME NEW a \in Blocks', NEW b \in Blocks',
                      IsCritical(a, b, predecessors', successors')
               PROVE  <<a, b>> \in critical'
    BY DEF AllFound
  <2>3. a \in Blocks /\ b \in Blocks
    BY <1>2, <2>2 DEF IsCritical
  <2>4. a \in predecessors[b] /\ ~(a = i /\ b = j)
    BY <1>2, <1>4, <2>3 DEF IsCritical
  <2>5. Several(predecessors[b]) /\ Several(successors[a])
    BY <1>4, <2>1, <2>3 DEF IsCritical
  <2>6. <<a, b>> \in critical
    BY <1>1, <2>3, <2>4, <2>5 DEF IsCritical, AllFound, SplitInv
  <2> QED BY <2>4, <2>6
<1>10. NoCriticalEdge'
  BY DEF NoCriticalEdge, Done
<1> QED BY <1>2, <1>6, <1>7, <1>8, <1>9, <1>10 DEF EdgesInv, SplitInv

LEMMA FillInvariant ==
  ASSUME EdgesInv, FillLists
  PROVE  EdgesInv'
<1>1. /\ stage = "split" /\ stage' = "done" /\ critical = {} /\ critical' = critical
      /\ fct' = [fct EXCEPT !.blocks = FilledBlocks]
      /\ predecessors' = predecessors /\ successors' = successors
      /\ IsFunction(fct) /\ SplitInv /\ TypeOK
  BY DEF FillLists, EdgesInv
<1> DEFINE n == Len(fct.blocks)
<1>2. fct'.blocks = FilledBlocks /\ DOMAIN fct' = DOMAIN fct
  BY <1>1 DEF IsFunction
<1>3. Blocks' = Blocks /\ n \in Nat /\ Blocks = 1 .. n
  <2>1. Blocks' = Blocks
    BY <1>2 DEF FilledBlocks, Blocks
  <2>2. fct.blocks \in Seq({fct.blocks[b] : b \in DOMAIN fct.blocks})
    BY <1>1 DEF IsFunction
  <2> QED BY <2>1, <2>2 DEF Blocks
<1>4. \A b \in Blocks : /\ DOMAIN FilledBlocks[b] = DOMAIN EmptyBlock
                        /\ FilledBlocks[b].preds = predecessors[b]
                        /\ FilledBlocks[b].succs = successors[b]
  BY <1>1 DEF FilledBlocks, Blocks, IsFunction, EmptyBlock
<1>5. FilledBlocks \in Seq({FilledBlocks[b] : b \in DOMAIN FilledBlocks})
  <2>1. DOMAIN FilledBlocks = 1 .. n
    BY <1>3 DEF FilledBlocks
  <2>2. FilledBlocks = [b \in 1 .. n |-> FilledBlocks[b]]
    BY <1>3 DEF FilledBlocks
  <2> QED BY <1>3, <2>1, <2>2
<1>6. IsFunction(fct)'
  <2>1. DOMAIN fct' = {"args", "values", "blocks"}
    BY <1>1, <1>2 DEF IsFunction
  <2>2. \A b \in DOMAIN fct'.blocks : DOMAIN fct'.blocks[b] = DOMAIN EmptyBlock
    BY <1>2, <1>3, <1>4 DEF Blocks
  <2> QED BY <1>2, <1>5, <2>1, <2>2 DEF IsFunction
<1>7. TypeOK'
  BY <1>1, <1>3 DEF TypeOK
<1>8. NoCriticalEdge'
  <2> SUFFICES ASSUME NEW j \in Blocks, NEW i \in predecessors[j], Several(predecessors[j])
               PROVE  ~Several(successors[i])
    BY <1>2, <1>3, <1>4, <1>1 DEF NoCriticalEdge, TypeOK
  <2>1. i \in Blocks
    BY <1>1 DEF TypeOK
  <2> QED BY <1>1, <2>1 DEF SplitInv, AllFound, IsCritical
<1> QED BY <1>1, <1>6, <1>7, <1>8 DEF EdgesInv

LEMMA EdgesNext == EdgesInv /\ [Next]_vars => EdgesInv'
<1> SUFFICES ASSUME EdgesInv, [Next]_vars PROVE EdgesInv'
  OBVIOUS
<1>1. CASE FindCriticalEdges
  BY <1>1, FindInvariant
<1>2. CASE Reject
  BY <1>2 DEF Reject, EdgesInv, SplitInv, TypeOK, NoCriticalEdge, Done, Blocks
<1>3. CASE SplitEdge
  <2>1. PICK e \in critical : Split(e[1], e[2]) /\ critical' = critical \ {e}
    BY <1>3 DEF SplitEdge
  <2>2. stage = "split" /\ stage' = stage
    BY <1>3 DEF SplitEdge
  <2>3. e[1] \in Blocks /\ e[2] \in Blocks /\ e = <<e[1], e[2]>>
    BY <2>2 DEF EdgesInv, SplitInv, Pairs
  <2> QED BY <2>1, <2>2, <2>3, SplitSets
<1>4. CASE FillLists
  BY <1>4, FillInvariant
<1>5. CASE UNCHANGED vars
  BY <1>5 DEF vars, EdgesInv, SplitInv, TypeOK, Pairs, Inverse, AllFound, NoCriticalEdge, Done, Blocks
<1> QED BY <1>1, <1>2, <1>3, <1>4, <1>5 DEF Next

-----------------------------------------------------------------------------
(***************************************************************************)
(* The jumps, the phis and the two maps of sets are changed at different   *)
(* places of the loop; between two of its rounds they agree (Synced), and  *)
(* only edges of the function given are left to be split.                  *)
(***************************************************************************)
Synced ==
  \A b \in Blocks :
    /\ Targets(fct.blocks[b]) = successors[b]
    /\ \A k \in DOMAIN fct.blocks[b].phis :
         DOMAIN fct.blocks[b].phis[k].inc = predecessors[b]

FlowInv ==
  /\ \A b \in Blocks : IsBlock(fct.blocks[b])
  /\ Old \subseteq Blocks
  /\ stage = "find" => fct = original
  /\ stage = "split" => Synced /\ critical \subseteq Old \X Old
  /\ GraphConsistent
  /\ SameControlFlow

(* A jump to `old` goes to `new` instead, and nowhere else than before.    *)
LEMMA Retargets ==
  ASSUME NEW b, IsBlock(b), DOMAIN b = DOMAIN EmptyBlock,
         NEW old \in Targets(b), NEW new
  PROVE  /\ Targets(WithTarget(b, old, new)) = (Targets(b) \ {old}) \cup {new}
         /\ IsBlock(WithTarget(b, old, new))
         /\ WithTarget(b, old, new).phis = b.phis
<1> DEFINE c == WithTarget(b, old, new)
           n == Len(b.instrs)
           last == b.instrs[n]
           jump == [last EXCEPT !.lhs = Retargeted(@, old, new), !.rhs = Retargeted(@, old, new)]
<1>1. b.instrs # << >> /\ n \in Nat \ {0} /\ DOMAIN b.instrs = 1 .. n
  BY DEF Targets, IsBlock
<1>2. /\ DOMAIN last = {"op", "res", "lhs", "rhs", "args"}
      /\ last.op \in {"BR", "CBR"} => last.lhs = BLOCK(last.lhs.n)
      /\ last.op = "CBR" => last.rhs = BLOCK(last.rhs.n)
  BY <1>1 DEF IsBlock
<1>3. c.instrs = [b.instrs EXCEPT ![n] = jump] /\ c.phis = b.phis
  BY <1>1, <1>2 DEF WithTarget, EmptyBlock
<1>4. /\ c.instrs # << >> /\ Len(c.instrs) = n /\ c.instrs[n] = jump
      /\ c.instrs \in Seq({c.instrs[k] : k \in DOMAIN c.instrs})
  <2> HIDE DEF c, jump
  <2>1. DOMAIN c.instrs = 1 .. n /\ c.instrs[n] = jump
    BY <1>1, <1>3
  <2>2. c.instrs = [k \in 1 .. n |-> c.instrs[k]]
    BY <1>1, <1>3
  <2>3. c.instrs \in Seq({c.instrs[k] : k \in DOMAIN c.instrs}) /\ Len(c.instrs) = n
    BY <1>1, <2>1, <2>2
  <2> QED BY <1>1, <2>1, <2>3
<1>5. /\ DOMAIN jump = DOMAIN last /\ jump.op = last.op
      /\ jump.lhs = Retargeted(last.lhs, old, new)
      /\ jump.rhs = Retargeted(last.rhs, old, new)
  BY <1>2
<1>6. \A t : Retargeted(BLOCK(t), old, new) = BLOCK(IF t = old THEN new ELSE t)
  BY DEF Retargeted, BLOCK
<1>7. \A t : BLOCK(t).n = t
  BY DEF BLOCK
<1> HIDE DEF c, n, last, jump
<1>8. IsBlock(c)
  <2>1. jump.op \in {"BR", "CBR"} => jump.lhs = BLOCK(jump.lhs.n)
    BY <1>2, <1>5, <1>6, <1>7
  <2>2. jump.op = "CBR" => jump.rhs = BLOCK(jump.rhs.n)
    BY <1>2, <1>5, <1>6, <1>7
  <2>3. \A k \in DOMAIN c.phis : DOMAIN c.phis[k] = {"res", "inc"}
    BY <1>3 DEF IsBlock
  <2> QED BY <1>2, <1>4, <1>5, <2>1, <2>2, <2>3 DEF IsBlock
<1>9. Targets(c) = (Targets(b) \ {old}) \cup {new}
  <2>1. Targets(b) = CASE last.op = "BR" -> {last.lhs.n}
                       [] last.op = "CBR" -> {last.lhs.n, last.rhs.n}
                       [] OTHER -> {}
    BY <1>1 DEF Targets, last, n
  <2>2. Targets(c) = CASE jump.op = "BR" -> {jump.lhs.n}
                       [] jump.op = "CBR" -> {jump.lhs.n, jump.rhs.n}
                       [] OTHER -> {}
    BY <1>4 DEF Targets
  <2>3. CASE last.op = "BR"
    <3>1. last.lhs = BLOCK(old) /\ jump.lhs = BLOCK(new)
      BY <2>1, <2>3, <1>2, <1>5, <1>6
    <3> QED BY <2>1, <2>2, <2>3, <3>1, <1>5, <1>7
  <2>4. CASE last.op = "CBR"
    <3> DEFINE l == last.lhs.n
               r == last.rhs.n
    <3>1. /\ jump.lhs.n = IF l = old THEN new ELSE l
          /\ jump.rhs.n = IF r = old THEN new ELSE r
      BY <2>4, <1>2, <1>5, <1>6, <1>7
    <3>2. Targets(b) = {l, r} /\ Targets(c) = {jump.lhs.n, jump.rhs.n}
      BY <2>1, <2>2, <2>4, <1>5
    <3>3. old = l \/ old = r
      BY <3>2
    <3> QED BY <3>1, <3>2, <3>3
  <2> QED BY <2>1, <2>3, <2>4
<1> QED BY <1>3, <1>8, <1>9 DEF c

(* What a phi got from `old` it gets from `new`.                           *)
LEMMA Redirects ==
  ASSUME NEW b, IsBlock(b), DOMAIN b = DOMAIN EmptyBlock,
         NEW old, NEW new
  PROVE  /\ WithIncoming(b, old, new).instrs = b.instrs
         /\ IsBlock(WithIncoming(b, old, new))
         /\ DOMAIN WithIncoming(b, old, new).phis = DOMAIN b.phis
         /\ \A k \in DOMAIN b.phis :
              LET was == b.phis[k].inc
                  now == WithIncoming(b, old, new).phis[k].inc
              IN  old \in DOMAIN was /\ new \notin DOMAIN was
                    => /\ DOMAIN now = (DOMAIN was \ {old}) \cup {new}
                       /\ now[new] = was[old]
                       /\ \A p \in DOMAIN was \ {old} : now[p] = was[p]
<1> DEFINE c == WithIncoming(b, old, new)
<1>1. c.instrs = b.instrs /\ c.phis = [k \in DOMAIN b.phis |-> Comes(b.phis[k], old, new)]
  BY DEF WithIncoming, EmptyBlock
<1>2. ASSUME NEW k \in DOMAIN b.phis
      PROVE  /\ DOMAIN c.phis[k] = {"res", "inc"}
             /\ LET was == b.phis[k].inc
                    now == c.phis[k].inc
                IN  old \in DOMAIN was /\ new \notin DOMAIN was
                      => /\ DOMAIN now = (DOMAIN was \ {old}) \cup {new}
                         /\ now[new] = was[old]
                         /\ \A p \in DOMAIN was \ {old} : now[p] = was[p]
  <2>1. c.phis[k] = Comes(b.phis[k], old, new) /\ DOMAIN b.phis[k] = {"res", "inc"}
    BY <1>1 DEF IsBlock
  <2>2. DOMAIN c.phis[k] = {"res", "inc"}
    BY <2>1 DEF Comes
  <2> DEFINE was == b.phis[k].inc
             now == c.phis[k].inc
  <2>3. now = [p \in {IF q = old THEN new ELSE q : q \in DOMAIN was} |->
                 IF p = new THEN was[old] ELSE was[p]]
    BY <2>1 DEF Comes
  <2> HIDE DEF was, now, c
  <2>4. old \in DOMAIN was /\ new \notin DOMAIN was
          => /\ DOMAIN now = (DOMAIN was \ {old}) \cup {new}
             /\ now[new] = was[old]
             /\ \A p \in DOMAIN was \ {old} : now[p] = was[p]
    BY <2>3
  <2> QED BY <2>2, <2>4 DEF was, now
<1> HIDE DEF c
<1>3. DOMAIN c.phis = DOMAIN b.phis
  BY <1>1
<1>4. c.instrs = b.instrs
  BY <1>1
<1>5. \A k \in DOMAIN c.phis : DOMAIN c.phis[k] = {"res", "inc"}
  BY <1>2, <1>3
<1>6. IsBlock(c)
  BY <1>4, <1>5 DEF IsBlock
<1> QED BY ONLY <1>2, <1>3, <1>4, <1>6, Zenon DEF c

(* The blocks after the edge i -> j is split.                              *)
LEMMA SplitBlocks ==
  ASSUME EdgesInv, FlowInv, stage = "split", NEW i \in Blocks, NEW j \in Blocks,
         <<i, j>> \in critical, Split(i, j)
  PROVE  LET new == Len(fct.blocks) + 1
             now == fct'.blocks
         IN  /\ Blocks' = Blocks \cup {new} /\ new \notin Blocks
             /\ \A b \in Blocks' : IsBlock(now[b])
             /\ Targets(now[new]) = {j} /\ now[new].phis = << >> /\ now[new].instrs = <<BrInstr(j)>>
             /\ Targets(now[i]) = (Targets(fct.blocks[i]) \ {j}) \cup {new}
             /\ \A b \in Blocks \ {i} : now[b].instrs = fct.blocks[b].instrs
             /\ \A b \in Blocks \ {j} : now[b].phis = fct.blocks[b].phis
             /\ DOMAIN now[j].phis = DOMAIN fct.blocks[j].phis
             /\ \A k \in DOMAIN now[j].phis :
                  LET phi == fct.blocks[j].phis[k].inc
                      moved == now[j].phis[k].inc
                  IN  /\ DOMAIN moved = (DOMAIN phi \ {i}) \cup {new}
                      /\ moved[new] = phi[i]
                      /\ \A p \in DOMAIN phi \ {i} : moved[p] = phi[p]
<1> DEFINE new == Len(fct.blocks) + 1
           now == fct'.blocks
           end == [EmptyBlock EXCEPT !.instrs = <<BrInstr(j)>>]
           blocks1 == [fct.blocks EXCEPT ![i] = WithTarget(@, j, new)]
           blocks2 == [blocks1 EXCEPT ![j] = WithIncoming(@, i, new)]
<1>1. /\ IsFunction(fct) /\ \A b \in Blocks : IsBlock(fct.blocks[b]) /\ DOMAIN fct.blocks[b] = DOMAIN EmptyBlock
      /\ Targets(fct.blocks[i]) = successors[i] /\ j \in successors[i]
      /\ i \in predecessors[j] /\ predecessors[j] \subseteq Blocks
      /\ \A k \in DOMAIN fct.blocks[j].phis :
           DOMAIN fct.blocks[j].phis[k].inc = predecessors[j]
  BY DEF EdgesInv, SplitInv, TypeOK, FlowInv, Synced, IsFunction, Blocks
<1>2. /\ DOMAIN blocks1 = Blocks
      /\ blocks1[i] = WithTarget(fct.blocks[i], j, new)
      /\ \A b \in Blocks \ {i} : blocks1[b] = fct.blocks[b]
  BY DEF Blocks
<1>3. /\ DOMAIN blocks2 = Blocks /\ blocks2 = [b \in Blocks |-> blocks2[b]]
      /\ blocks2[j] = WithIncoming(blocks1[j], i, new)
      /\ \A b \in Blocks \ {j} : blocks2[b] = blocks1[b]
  BY <1>2
<1>4. fct' = [fct EXCEPT !.blocks = Append(blocks2, end)]
  BY DEF Split
<1> HIDE DEF blocks1, blocks2, end, new
<1>5. /\ Targets(blocks1[i]) = (Targets(fct.blocks[i]) \ {j}) \cup {new}
      /\ blocks1[i].phis = fct.blocks[i].phis
      /\ \A b \in Blocks : IsBlock(blocks1[b]) /\ DOMAIN blocks1[b] = DOMAIN EmptyBlock
  BY <1>1, <1>2, Retargets, SameFields
<1>6. /\ \A b \in Blocks : blocks2[b].instrs = blocks1[b].instrs
      /\ \A b \in Blocks : IsBlock(blocks2[b]) /\ DOMAIN blocks2[b] = DOMAIN EmptyBlock
      /\ DOMAIN blocks2[j].phis = DOMAIN blocks1[j].phis
  BY <1>3, <1>5, Redirects, SameFields
<1>7. DOMAIN end = DOMAIN EmptyBlock /\ end.instrs = <<BrInstr(j)>> /\ end.phis = << >>
  BY DEF end, EmptyBlock
<1>8. DOMAIN fct' = DOMAIN fct /\ now = Append(blocks2, end)
  BY <1>1, <1>4 DEF IsFunction
<1>10. /\ Blocks' = Blocks \cup {new} /\ new \notin Blocks
       /\ \A b \in Blocks : now[b] = blocks2[b]
       /\ now[new] = end
  <2>1. Len(fct.blocks) \in Nat /\ DOMAIN fct.blocks = 1 .. Len(fct.blocks)
    BY <1>1 DEF IsFunction
  <2>2. blocks2 \in Seq({blocks2[b] : b \in Blocks}) /\ Len(blocks2) = Len(fct.blocks)
    BY <1>3, <2>1 DEF Blocks
  <2>3. Blocks = 1 .. Len(fct.blocks) /\ new = Len(fct.blocks) + 1
    BY <2>1 DEF Blocks, new
  <2>4. /\ DOMAIN now = 1 .. Len(fct.blocks) + 1
        /\ \A b \in 1 .. Len(fct.blocks) : now[b] = blocks2[b]
        /\ now[Len(fct.blocks) + 1] = end
    BY <1>8, <2>1, <2>2
  <2> QED BY <2>1, <2>3, <2>4 DEF Blocks
<1>11. IsBlock(end) /\ Targets(end) = {j}
  <2>1. Len(end.instrs) = 1 /\ end.instrs[1] = BrInstr(j) /\ DOMAIN end.instrs = {1} /\ end.instrs # << >>
    BY <1>7
  <2>2. end.instrs \in Seq({end.instrs[k] : k \in DOMAIN end.instrs})
    BY <1>7
  <2>3. /\ BrInstr(j).op = "BR" /\ BrInstr(j).lhs = BLOCK(BrInstr(j).lhs.n) /\ BrInstr(j).lhs.n = j
        /\ DOMAIN BrInstr(j) = {"op", "res", "lhs", "rhs", "args"}
    BY DEF BrInstr, Instr, BLOCK
  <2>4. \A k \in DOMAIN end.phis : DOMAIN end.phis[k] = {"res", "inc"}
    BY <1>7
  <2> QED BY <2>1, <2>2, <2>3, <2>4 DEF IsBlock, Targets
<1>12. \A b, c : b.instrs = c.instrs => Targets(b) = Targets(c)
  BY DEF Targets
<1>13. Targets(now[i]) = (Targets(fct.blocks[i]) \ {j}) \cup {new}
  BY <1>5, <1>6, <1>10, <1>12
<1>14. \A b \in Blocks \ {i} : now[b].instrs = fct.blocks[b].instrs
  BY <1>2, <1>6, <1>10
<1>15. \A b \in Blocks \ {j} : now[b].phis = fct.blocks[b].phis
  BY <1>2, <1>3, <1>5, <1>10
<1>16. blocks1[j].phis = fct.blocks[j].phis
  BY <1>2, <1>5
<1>17. DOMAIN now[j].phis = DOMAIN fct.blocks[j].phis
  BY <1>6, <1>10, <1>16
<1>18. ASSUME NEW k \in DOMAIN now[j].phis
       PROVE  LET phi == fct.blocks[j].phis[k].inc
                  moved == now[j].phis[k].inc
              IN  /\ DOMAIN moved = (DOMAIN phi \ {i}) \cup {new}
                  /\ moved[new] = phi[i]
                  /\ \A p \in DOMAIN phi \ {i} : moved[p] = phi[p]
  <2>1. k \in DOMAIN blocks1[j].phis /\ i \in DOMAIN blocks1[j].phis[k].inc
          /\ new \notin DOMAIN blocks1[j].phis[k].inc
    BY <1>1, <1>10, <1>16, <1>17
  <2>2. IsBlock(blocks1[j]) /\ DOMAIN blocks1[j] = DOMAIN EmptyBlock
    BY <1>5
  <2> QED BY ONLY SMTT(30), <2>1, <2>2, <1>3, <1>10, <1>16, Redirects
<1>19. \A b \in Blocks' : IsBlock(now[b])
  BY <1>6, <1>10, <1>11
<1> QED BY <1>7, <1>10, <1>11, <1>13, <1>14, <1>15, <1>17, <1>18, <1>19 DEF new

(* SameControlFlow, of the blocks `now` and the blocks `was` they were.    *)
ThroughIn(now, was, b) == IF b \in DOMAIN was THEN b ELSE now[b].instrs[1].lhs.n
SourcesIn(now, was, b) ==
  IF b \in DOMAIN was THEN {b} ELSE {q \in DOMAIN was : b \in Targets(now[q])}
KeptAt(now, was, b) ==
  /\ {ThroughIn(now, was, s) : s \in Targets(now[b])} = Targets(was[b])
  /\ \A k \in DOMAIN now[b].phis : \A p \in DOMAIN now[b].phis[k].inc :
       \E q \in SourcesIn(now, was, p) :
         q \in DOMAIN was[b].phis[k].inc /\ now[b].phis[k].inc[p] = was[b].phis[k].inc[q]
FlowKept(now, was) == \A b \in DOMAIN was : KeptAt(now, was, b)

LEMMA FlowKeptHere == SameControlFlow <=> FlowKept(fct.blocks, original.blocks)
BY DEF SameControlFlow, Old, Through, Sources, FlowKept, KeptAt, ThroughIn, SourcesIn

LEMMA FlowKeptNext == SameControlFlow' <=> FlowKept(fct'.blocks, original'.blocks)
BY DEF SameControlFlow, Old, Through, Sources, FlowKept, KeptAt, ThroughIn, SourcesIn

(* Nothing is split yet: a block leads where it led.                       *)
LEMMA FlowStart ==
  ASSUME fct = original, IsCFG(fct)
  PROVE  SameControlFlow
<1> DEFINE now == fct.blocks
<1> SUFFICES ASSUME NEW b \in DOMAIN now PROVE KeptAt(now, now, b)
  BY FlowKeptHere DEF FlowKept
<1>1. /\ Targets(now[b]) \subseteq DOMAIN now
      /\ \A k \in DOMAIN now[b].phis : DOMAIN now[b].phis[k].inc \subseteq DOMAIN now
  BY DEF IsCFG
<1>2. \A s \in DOMAIN now : ThroughIn(now, now, s) = s /\ SourcesIn(now, now, s) = {s}
  BY DEF ThroughIn, SourcesIn
<1> HIDE DEF now
<1>3. {ThroughIn(now, now, s) : s \in Targets(now[b])} = Targets(now[b])
  BY <1>1, <1>2
<1>4. ASSUME NEW k \in DOMAIN now[b].phis, NEW p \in DOMAIN now[b].phis[k].inc
      PROVE  p \in SourcesIn(now, now, p)
  BY <1>1, <1>2
<1> QED BY <1>3, <1>4 DEF KeptAt

LEMMA FlowInit == Init => FlowInv
<1> SUFFICES ASSUME Init PROVE FlowInv
  OBVIOUS
<1>1. /\ fct \in Functions /\ fct = original /\ stage = "find"
      /\ \A b \in Blocks : IsBlock(fct.blocks[b])
      /\ IsCFG(fct)
  BY FunctionsAssumption DEF Init, Blocks
<1> QED BY <1>1, FlowStart DEF FlowInv, GraphConsistent, Done, Old, Blocks

LEMMA FlowFind ==
  ASSUME EdgesInv, FlowInv, FindCriticalEdges
  PROVE  FlowInv'
<1>1. /\ stage = "find" /\ stage' = "split" /\ fct' = fct /\ original' = original
      /\ predecessors' = [b \in Blocks |-> fct.blocks[b].preds]
      /\ successors' = [b \in Blocks |-> Targets(fct.blocks[b])]
      /\ critical' \subseteq Blocks \X Blocks
      /\ fct = original /\ IsCFG(fct)
  BY DEF FindCriticalEdges, EdgesInv, FlowInv
<1>2. Synced' /\ critical' \subseteq Old \X Old
  BY <1>1 DEF Synced, IsCFG, Blocks, Old
<1>3. SameControlFlow'
  BY <1>1, FlowKeptHere, FlowKeptNext DEF FlowInv
<1>4. (\A b \in Blocks : IsBlock(fct.blocks[b]))' /\ Old' = Old /\ (Old \subseteq Blocks)'
  BY <1>1 DEF FlowInv, Old, Blocks
<1>5. GraphConsistent'
  BY <1>1 DEF GraphConsistent, Done
<1> QED BY <1>1, <1>2, <1>3, <1>4, <1>5 DEF FlowInv, Old

(* Splitting i -> j puts one block between them, that has the operand of i *)
(* for the phis of j.                                                      *)
LEMMA FlowSplit ==
  ASSUME EdgesInv, FlowInv, stage = "split", NEW i \in Blocks, NEW j \in Blocks,
         <<i, j>> \in critical, Split(i, j), critical' = critical \ {<<i, j>>},
         stage' = stage, original' = original
  PROVE  FlowInv'
<1> DEFINE new == Len(fct.blocks) + 1
           now == fct'.blocks
<1>1. /\ Blocks' = Blocks \cup {new} /\ new \notin Blocks
      /\ \A b \in Blocks' : IsBlock(now[b])
      /\ Targets(now[new]) = {j} /\ now[new].phis = << >>
      /\ Targets(now[i]) = (Targets(fct.blocks[i]) \ {j}) \cup {new}
      /\ \A b \in Blocks \ {i} : now[b].instrs = fct.blocks[b].instrs
      /\ \A b \in Blocks \ {j} : now[b].phis = fct.blocks[b].phis
      /\ DOMAIN now[j].phis = DOMAIN fct.blocks[j].phis
  BY SplitBlocks
<1>2. \A k \in DOMAIN now[j].phis :
        LET phi == fct.blocks[j].phis[k].inc
            moved == now[j].phis[k].inc
        IN  /\ DOMAIN moved = (DOMAIN phi \ {i}) \cup {new}
            /\ moved[new] = phi[i]
            /\ \A p \in DOMAIN phi \ {i} : moved[p] = phi[p]
  BY SplitBlocks, SMTT(30)
<1>3. \A b \in Blocks \ {i} : Targets(now[b]) = Targets(fct.blocks[b])
  BY <1>1 DEF Targets
<1>4. /\ i \in Old /\ j \in Old /\ Old' = Old /\ Old \subseteq Blocks /\ critical \subseteq Old \X Old
      /\ \A b \in Blocks : /\ Targets(fct.blocks[b]) = successors[b] /\ successors[b] \subseteq Blocks
                           /\ predecessors[b] \subseteq Blocks
                           /\ \A k \in DOMAIN fct.blocks[b].phis :
                                DOMAIN fct.blocks[b].phis[k].inc = predecessors[b]
      /\ j \in successors[i] /\ i \in predecessors[j]
  BY DEF FlowInv, EdgesInv, SplitInv, TypeOK, Synced, Old
<1>5. /\ successors'[new] = {j} /\ predecessors'[new] = {i}
      /\ successors'[i] = (successors[i] \ {j}) \cup {new}
      /\ predecessors'[j] = (predecessors[j] \ {i}) \cup {new}
      /\ \A b \in Blocks \ {i} : successors'[b] = successors[b]
      /\ \A b \in Blocks \ {j} : predecessors'[b] = predecessors[b]
  BY <1>1 DEF Split
<1> HIDE DEF new
<1>6. Synced'
  <2>1. ASSUME NEW b \in Blocks' PROVE Targets(now[b]) = successors'[b]
    BY <1>1, <1>3, <1>4, <1>5
  <2>2. ASSUME NEW b \in Blocks', NEW k \in DOMAIN now[b].phis
        PROVE  DOMAIN now[b].phis[k].inc = predecessors'[b]
    <3>1. CASE b = new
      BY <3>1, <2>2, <1>1
    <3>2. CASE b = j
      BY <3>2, <2>2, <1>1, <1>2, <1>4, <1>5
    <3>3. CASE b \in Blocks \ {j}
      BY <3>3, <2>2, <1>1, <1>4, <1>5
    <3> QED BY <1>1, <3>1, <3>2, <3>3
  <2> QED BY <2>1, <2>2 DEF Synced
<1> DEFINE old == fct.blocks
           was == original.blocks
<1>7. ThroughIn(now, was, j) = j /\ ThroughIn(old, was, j) = j /\ ThroughIn(now, was, new) = j
  <2>1. now[new].instrs = <<BrInstr(j)>>
    BY SplitBlocks DEF new
  <2> QED BY <1>1, <1>4, <2>1 DEF ThroughIn, Old, BrInstr, Instr, BLOCK
<1>8. \A s \in Blocks : ThroughIn(now, was, s) = ThroughIn(old, was, s)
  BY <1>1, <1>4 DEF ThroughIn, Old
<1>9. \A p \in Blocks : SourcesIn(now, was, p) = SourcesIn(old, was, p)
  <2> SUFFICES ASSUME NEW p \in Blocks, p \notin Old
               PROVE  {q \in Old : p \in Targets(now[q])} = {q \in Old : p \in Targets(old[q])}
    BY DEF SourcesIn, Old
  <2>1. p # new /\ p # j
    BY <1>1, <1>4
  <2> QED BY <2>1, <1>1, <1>3, <1>4
<1>10. i \in SourcesIn(now, was, new) /\ SourcesIn(old, was, i) = {i}
  <2>1. new \in Targets(now[i]) /\ new \notin Old
    BY <1>1, <1>4
  <2> QED BY <2>1, <1>4 DEF SourcesIn, Old
<1>11. SameControlFlow'
  <2> SUFFICES ASSUME NEW b \in Old PROVE KeptAt(now, was, b)
    BY FlowKeptNext DEF FlowKept, Old
  <2>1. KeptAt(old, was, b)
    BY FlowKeptHere DEF FlowInv, FlowKept, Old
  <2>2. b \in Blocks
    BY <1>4
  <2> HIDE DEF now, old, was
  <2>3. {ThroughIn(now, was, s) : s \in Targets(now[b])} = Targets(was[b])
    <3>1. CASE b = i
      <4>1. {ThroughIn(now, was, s) : s \in Targets(now[b])}
              = {ThroughIn(now, was, s) : s \in Targets(old[b]) \ {j}} \cup {j}
        BY <3>1, <1>1, <1>7 DEF old
      <4>2. {ThroughIn(old, was, s) : s \in Targets(old[b])}
              = {ThroughIn(old, was, s) : s \in Targets(old[b]) \ {j}} \cup {j}
        BY <3>1, <1>4, <1>7 DEF old
      <4>3. Targets(old[b]) \subseteq Blocks
        BY <2>2, <1>4 DEF old
      <4> QED BY <4>1, <4>2, <4>3, <2>1, <1>8 DEF KeptAt
    <3>2. CASE b # i
      <4>1. Targets(now[b]) = Targets(old[b]) /\ Targets(old[b]) \subseteq Blocks
        BY <3>2, <2>2, <1>3, <1>4 DEF old
      <4> QED BY <4>1, <2>1, <1>8 DEF KeptAt
    <3> QED BY <3>1, <3>2
  <2>4. ASSUME NEW k \in DOMAIN now[b].phis, NEW p \in DOMAIN now[b].phis[k].inc
        PROVE  \E q \in SourcesIn(now, was, p) :
                 q \in DOMAIN was[b].phis[k].inc /\ now[b].phis[k].inc[p] = was[b].phis[k].inc[q]
    <3> DEFINE inc == old[b].phis[k].inc
               inc0 == was[b].phis[k].inc
    <3>1. k \in DOMAIN old[b].phis
      BY <2>2, <2>4, <1>1 DEF old
    <3>2. DOMAIN inc = predecessors[b] /\ predecessors[b] \subseteq Blocks
      BY <2>2, <3>1, <1>4 DEF old
    <3>3. \A x \in DOMAIN inc : \E q \in SourcesIn(now, was, x) : q \in DOMAIN inc0 /\ inc[x] = inc0[q]
      BY <2>1, <3>1, <3>2, <1>9 DEF KeptAt
    <3>4. CASE b # j
      <4>1. now[b].phis = old[b].phis
        BY <3>4, <2>2, <1>1 DEF old
      <4> QED BY <4>1, <3>3, <2>4
    <3>5. CASE b = j /\ p # new
      <4>1. p \in DOMAIN inc /\ now[b].phis[k].inc[p] = inc[p]
        BY <3>5, <2>4, <1>2 DEF old
      <4> QED BY <4>1, <3>3
    <3>6. CASE b = j /\ p = new
      <4>1. i \in DOMAIN inc /\ now[b].phis[k].inc[p] = inc[i]
        BY <3>6, <2>4, <3>2, <1>2, <1>4 DEF old
      <4>2. i \in DOMAIN inc0 /\ inc[i] = inc0[i]
        BY <4>1, <1>10, <2>1, <3>1 DEF KeptAt
      <4> QED BY <4>1, <4>2, <3>6, <1>10
    <3> QED BY <3>4, <3>5, <3>6
  <2> QED BY <2>3, <2>4 DEF KeptAt
<1>12. GraphConsistent'
  BY DEF GraphConsistent, Done
<1>13. critical' \subseteq Old' \X Old' /\ Old' \subseteq Blocks'
  BY <1>1, <1>4
<1> QED BY <1>1, <1>6, <1>11, <1>12, <1>13 DEF FlowInv

(* Only the lists of neighbours are written.                               *)
LEMMA FlowFill ==
  ASSUME EdgesInv, FlowInv, FillLists
  PROVE  FlowInv'
<1>1. /\ stage = "split" /\ stage' = "done" /\ original' = original
      /\ fct' = [fct EXCEPT !.blocks = FilledBlocks]
      /\ IsFunction(fct) /\ Synced /\ Inverse
      /\ predecessors \in [Blocks -> SUBSET Blocks] /\ successors \in [Blocks -> SUBSET Blocks]
  BY DEF FillLists, EdgesInv, SplitInv, TypeOK, FlowInv
<1>2. fct'.blocks = FilledBlocks /\ Blocks' = Blocks
  BY <1>1 DEF IsFunction, FilledBlocks, Blocks
<1>3. \A b \in Blocks : /\ fct'.blocks[b].preds = predecessors[b]
                        /\ fct'.blocks[b].succs = successors[b]
                        /\ fct'.blocks[b].instrs = fct.blocks[b].instrs
                        /\ fct'.blocks[b].phis = fct.blocks[b].phis
  BY <1>1, <1>2 DEF FilledBlocks, Blocks, IsFunction, EmptyBlock
<1>4. \A b \in Blocks : Targets(fct'.blocks[b]) = Targets(fct.blocks[b])
  BY <1>3 DEF Targets
<1>5. \A b \in Blocks : IsBlock(fct'.blocks[b])
  <2>1. \A b, c : b.instrs = c.instrs /\ b.phis = c.phis /\ IsBlock(c) => IsBlock(b)
    BY DEF IsBlock
  <2> QED BY <2>1, <1>3 DEF FlowInv
<1>6. GraphConsistent'
  <2> SUFFICES ASSUME NEW b \in Blocks
               PROVE  /\ fct'.blocks[b].succs = Targets(fct'.blocks[b])
                      /\ fct'.blocks[b].preds = {p \in Blocks : b \in Targets(fct'.blocks[p])}
                      /\ \A k \in DOMAIN fct'.blocks[b].phis :
                           DOMAIN fct'.blocks[b].phis[k].inc = fct'.blocks[b].preds
    BY <1>2 DEF GraphConsistent
  <2>1. /\ Targets(fct.blocks[b]) = successors[b]
        /\ \A k \in DOMAIN fct.blocks[b].phis : DOMAIN fct.blocks[b].phis[k].inc = predecessors[b]
    BY <1>1 DEF Synced
  <2>2. predecessors[b] = {p \in Blocks : b \in Targets(fct'.blocks[p])}
    BY <1>1, <1>4 DEF Inverse, Synced
  <2> QED BY <2>1, <2>2, <1>3, <1>4
<1>7. Old' = Old /\ Old \subseteq Blocks
  BY <1>1 DEF Old, FlowInv
<1> DEFINE now == fct'.blocks
           old == fct.blocks
           was == original.blocks
<1>8. \A b \in Blocks : /\ SourcesIn(now, was, b) = SourcesIn(old, was, b)
                        /\ ThroughIn(now, was, b) = ThroughIn(old, was, b)
  BY <1>3, <1>4, <1>7 DEF SourcesIn, ThroughIn, Old
<1>9. SameControlFlow'
  <2> SUFFICES ASSUME NEW b \in Old PROVE KeptAt(now, was, b)
    BY <1>1, FlowKeptNext DEF FlowKept, Old
  <2>1. KeptAt(old, was, b)
    BY FlowKeptHere DEF FlowInv, FlowKept, Old
  <2>2. /\ Targets(old[b]) \subseteq Blocks /\ Targets(now[b]) = Targets(old[b])
        /\ now[b].phis = old[b].phis
        /\ \A k \in DOMAIN old[b].phis : DOMAIN old[b].phis[k].inc \subseteq Blocks
    BY <1>1, <1>3, <1>4, <1>7 DEF Synced
  <2> HIDE DEF now, old, was
  <2>3. {ThroughIn(now, was, s) : s \in Targets(now[b])} = {ThroughIn(old, was, s) : s \in Targets(old[b])}
    BY <2>2, <1>8
  <2>4. \A k \in DOMAIN old[b].phis : \A p \in DOMAIN old[b].phis[k].inc :
          SourcesIn(now, was, p) = SourcesIn(old, was, p)
    BY <2>2, <1>8
  <2> QED BY <2>1, <2>2, <2>3, <2>4 DEF KeptAt
<1> QED BY <1>1, <1>2, <1>5, <1>6, <1>7, <1>9 DEF FlowInv

LEMMA FlowNext == EdgesInv /\ FlowInv /\ [Next]_vars => FlowInv'
<1> SUFFICES ASSUME EdgesInv, FlowInv, [Next]_vars PROVE FlowInv'
  OBVIOUS
<1>1. CASE FindCriticalEdges
  BY <1>1, FlowFind
<1>2. CASE Reject
  <2>1. /\ UNCHANGED <<fct, original, predecessors, successors, critical>>
        /\ stage = "find" /\ stage' = "rejected"
    BY <1>2 DEF Reject
  <2>2. SameControlFlow'
    BY <2>1, FlowKeptHere, FlowKeptNext DEF FlowInv
  <2> QED BY <2>1, <2>2 DEF FlowInv, GraphConsistent, Done, Blocks, Old
<1>3. CASE SplitEdge
  <2>1. PICK e \in critical : Split(e[1], e[2]) /\ critical' = critical \ {e}
    BY <1>3 DEF SplitEdge
  <2>2. stage = "split" /\ stage' = stage /\ original' = original
    BY <1>3 DEF SplitEdge
  <2>3. e[1] \in Blocks /\ e[2] \in Blocks /\ e = <<e[1], e[2]>>
    BY <2>2 DEF EdgesInv, SplitInv, Pairs
  <2> QED BY <2>1, <2>2, <2>3, FlowSplit
<1>4. CASE FillLists
  BY <1>4, FlowFill
<1>5. CASE UNCHANGED vars
  <2>1. UNCHANGED <<fct, original, predecessors, successors, critical, stage>>
    BY <1>5 DEF vars
  <2>2. SameControlFlow'
    BY <2>1, FlowKeptHere, FlowKeptNext DEF FlowInv
  <2> QED BY <2>1, <2>2 DEF FlowInv, Synced, GraphConsistent, Done, Blocks, Old
<1> QED BY <1>1, <1>2, <1>3, <1>4, <1>5 DEF Next

-----------------------------------------------------------------------------
(* The edges to split are edges of the graph, in both directions, and stay *)
(* so while others are split.                                              *)
THEOREM EdgesTypeCorrect == Spec => []TypeOK
<1>1. EdgesInv => TypeOK
  BY DEF EdgesInv
<1> QED BY <1>1, EdgesInit, EdgesNext, PTL DEF Spec

(* After resolveCriticalEdges no edge of any function is critical: the     *)
(* copies for a phi can be put at the end of a predecessor.                *)
THEOREM CriticalEdgesSplit == Spec => []NoCriticalEdge
<1>1. EdgesInv => NoCriticalEdge
  BY DEF EdgesInv
<1> QED BY <1>1, EdgesInit, EdgesNext, PTL DEF Spec

(* After resolveCriticalEdges the jumps, the lists of successors and of    *)
(* predecessors and the operands of the phis of any function describe one  *)
(* graph.                                                                  *)
THEOREM GraphStaysConsistent == Spec => []GraphConsistent
<1>1. FlowInv => GraphConsistent
  BY DEF FlowInv
<1>2. EdgesInv /\ FlowInv /\ [Next]_vars => EdgesInv' /\ FlowInv'
  BY EdgesNext, FlowNext
<1> QED BY <1>1, <1>2, EdgesInit, FlowInit, PTL DEF Spec

(* resolveCriticalEdges changes no function's control flow: every block    *)
(* leads where it led and every phi gets, on each way, the operand it got. *)
THEOREM ControlFlowKept == Spec => []SameControlFlow
<1>1. FlowInv => SameControlFlow
  BY DEF FlowInv
<1>2. EdgesInv /\ FlowInv /\ [Next]_vars => EdgesInv' /\ FlowInv'
  BY EdgesNext, FlowNext
<1> QED BY <1>1, <1>2, EdgesInit, FlowInit, PTL DEF Spec

=============================================================================

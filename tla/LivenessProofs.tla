--------------------------- MODULE LivenessProofs ---------------------------
(***************************************************************************)
(* Proofs about Liveness for every instruction list and register set.      *)
(*                                                                         *)
(* LiveInv strengthens the properties to an inductive invariant.  Its      *)
(* first two parts say that a stored set never exceeds the right-hand side *)
(* of its own equation, nor liveness itself; the last one is why stopping  *)
(* on a quiet sweep is right: as long as the sweep has changed nothing,    *)
(* every instruction it has passed satisfies its equations.                *)
(***************************************************************************)
EXTENDS Liveness, TLAPS

Growing ==
  \A i \in Instrs : live_in[i] \subseteq NextIn(i) /\ live_out[i] \subseteq NextOut(i)

SweptStable == ~changed => \A i \in Instrs : i > cursor => Stable(i)

LiveInv == TypeOK /\ Growing /\ NeverTooLive /\ SweptStable

-----------------------------------------------------------------------------
(* The sets the sweep computes are sets of registers.                      *)
LEMMA NextTyped ==
  ASSUME TypeOK, NEW i \in Instrs
  PROVE  NextOut(i) \in SUBSET Vreg /\ NextIn(i) \in SUBSET Vreg
BY DEF TypeOK, IsFlow, Instrs, NextOut, NextIn

(* What the sweep computes for an instruction is live there if what is     *)
(* stored for its successors is live there.                                *)
LEMMA NextInLive ==
  ASSUME TypeOK, NeverTooLive, NEW i \in Instrs, NEW v \in NextIn(i)
  PROVE  i \in LiveBefore(v)
<1> SUFFICES ASSUME NEW S \in SUBSET Instrs, Closed(S, v)
             PROVE  i \in S
  BY DEF LiveBefore
<1>1. CASE v \in flow.use[i]
  BY <1>1 DEF Closed
<1>2. CASE v \notin flow.use[i]
  <2>1. v \notin flow.wrt[i] /\ v \in NextOut(i)
    BY <1>2 DEF NextIn
  <2>2. PICK j \in flow.succ[i] : v \in live_in[j]
    BY <2>1 DEF NextOut
  <2>3. j \in Instrs
    BY <2>2 DEF TypeOK, IsFlow, Instrs
  <2>4. j \in S
    BY <2>2, <2>3 DEF NeverTooLive, LiveBefore
  <2>. QED  BY <2>1, <2>2, <2>4 DEF Closed
<1>. QED  BY <1>1, <1>2

-----------------------------------------------------------------------------
LEMMA InitInv == Init => LiveInv
<1> SUFFICES ASSUME Init PROVE LiveInv
  OBVIOUS
<1>1. TypeOK
  <2>1. IsFlow(flow)
    BY FlowsAssumption DEF Init
  <2>2. flow.len \in Nat
    BY <2>1 DEF IsFlow
  <2>3. cursor \in 0 .. flow.len
    BY <2>2 DEF Init, Start
  <2>. QED  BY <2>1, <2>3 DEF Init, Start, TypeOK
<1>2. Growing /\ NeverTooLive
  BY DEF Init, Start, Growing, NeverTooLive
<1>3. SweptStable
  BY <1>1 DEF Init, Start, SweptStable, TypeOK, IsFlow, Instrs
<1>. QED  BY <1>1, <1>2, <1>3 DEF LiveInv

LEMMA UpdateInv ==
  ASSUME LiveInv, NEW i \in Instrs, Update(i)
  PROVE  LiveInv' /\ \A k \in Instrs : /\ live_in[k]  \subseteq live_in'[k]
                                       /\ live_out[k] \subseteq live_out'[k]
<1> USE DEF LiveInv
<1>1. /\ flow' = flow
      /\ Instrs' = Instrs
      /\ \A k \in Instrs : live_in'[k]  = IF k = i THEN NextIn(i) ELSE live_in[k]
      /\ \A k \in Instrs : live_out'[k] = IF k = i THEN NextOut(i) ELSE live_out[k]
  BY DEF Update, Instrs, TypeOK
<1>2. TypeOK'
  <2>1. cursor' \in 0 .. flow.len
    BY DEF Update, TypeOK, IsFlow, Instrs
  <2>. QED  BY <2>1, <1>1, NextTyped DEF Update, TypeOK
<1>3. \A k \in Instrs : live_in[k] \subseteq live_in'[k] /\ live_out[k] \subseteq live_out'[k]
  BY <1>1 DEF Growing
<1>4. Growing'
  <2> SUFFICES ASSUME NEW k \in Instrs
               PROVE  live_in'[k] \subseteq NextIn(k)' /\ live_out'[k] \subseteq NextOut(k)'
    BY <1>1 DEF Growing
  <2>1. NextOut(k) \subseteq NextOut(k)'
    <3>1. \A j \in flow.succ[k] : j \in Instrs
      BY DEF TypeOK, IsFlow, Instrs
    <3>. QED  BY <3>1, <1>1, <1>3 DEF NextOut
  <2>2. NextIn(k) \subseteq NextIn(k)'
    BY <2>1, <1>1 DEF NextIn
  <2>. QED  BY <2>1, <2>2, <1>1 DEF Growing
<1>5. NeverTooLive'
  <2>1. \A v : LiveBefore(v)' = LiveBefore(v)
    BY <1>1 DEF LiveBefore, Closed
  <2>2. \A k \in Instrs : \A v \in live_in'[k] : k \in LiveBefore(v)
    BY <1>1, NextInLive DEF NeverTooLive
  <2>. QED  BY <1>1, <2>1, <2>2 DEF NeverTooLive
<1>6. SweptStable'
  BY DEF Update, SweptStable
<1>. QED  BY <1>2, <1>3, <1>4, <1>5, <1>6

(* A step that changes neither the program nor the sets keeps what the     *)
(* invariant says of them.                                                 *)
LEMMA SameSetsInv ==
  ASSUME LiveInv, UNCHANGED <<flow, live_in, live_out>>
  PROVE  /\ Growing' /\ NeverTooLive'
         /\ Instrs' = Instrs
         /\ \A k \in Instrs : Stable(k)' <=> Stable(k)
BY DEF LiveInv, Growing, NeverTooLive, Instrs, LiveBefore, Closed, Stable, NextIn, NextOut

LEMMA SkipInv ==
  ASSUME LiveInv, NEW i \in Instrs, Skip(i)
  PROVE  LiveInv'
<1>1. UNCHANGED <<flow, live_in, live_out>>
  BY DEF Skip
<1>2. TypeOK'
  BY DEF LiveInv, Skip, TypeOK, IsFlow, Instrs
<1>3. SweptStable'
  <2> SUFFICES ASSUME ~changed, NEW k \in Instrs, k > i - 1
               PROVE  Stable(k)
    BY <1>1, SameSetsInv DEF SweptStable, Skip
  <2>1. k = i \/ k > i
    BY DEF Instrs, LiveInv, TypeOK, IsFlow
  <2>. QED  BY <2>1 DEF Skip, LiveInv, SweptStable
<1>. QED  BY <1>1, <1>2, <1>3, SameSetsInv DEF LiveInv

LEMMA NextSweepInv ==
  ASSUME LiveInv, NextSweep
  PROVE  LiveInv'
<1>1. UNCHANGED <<flow, live_in, live_out>>
  BY DEF NextSweep
<1>2. TypeOK'
  <2>1. flow.len \in Nat
    BY DEF LiveInv, TypeOK, IsFlow
  <2>2. cursor' \in 0 .. flow'.len
    BY <1>1, <2>1 DEF NextSweep
  <2>. QED  BY <1>1, <2>2 DEF LiveInv, NextSweep, TypeOK, Instrs
<1>3. SweptStable'
  BY <1>1 DEF NextSweep, SweptStable, Instrs, LiveInv, TypeOK, IsFlow
<1>. QED  BY <1>1, <1>2, <1>3, SameSetsInv DEF LiveInv

LEMMA StutterInv ==
  ASSUME LiveInv, UNCHANGED vars
  PROVE  LiveInv'
BY DEF LiveInv, TypeOK, Growing, NeverTooLive, SweptStable, vars, Instrs, LiveBefore, Closed,
       Stable, NextIn, NextOut

LEMMA Inductive == Spec => []LiveInv
<1>1. LiveInv /\ [Next]_vars => LiveInv'
  BY UpdateInv, SkipInv, NextSweepInv, StutterInv DEF Next
<1>. QED  BY InitInv, <1>1, PTL DEF Spec

-----------------------------------------------------------------------------
(* Once a sweep has ended without a change every equation holds, so the    *)
(* instructions a register is live before form a closed set.               *)
LEMMA ConvergedExact == LiveInv => ExactWhenConverged
<1> SUFFICES ASSUME LiveInv, Converged, NEW i \in Instrs
             PROVE  /\ \A v \in Vreg : v \in live_in[i] <=> i \in LiveBefore(v)
                    /\ live_out[i] = NextOut(i)
  BY DEF ExactWhenConverged, NextOut
<1>1. \A k \in Instrs : Stable(k)
  BY DEF Converged, LiveInv, SweptStable, TypeOK, IsFlow, Instrs
<1>2. ASSUME NEW v \in Vreg, i \in LiveBefore(v)
      PROVE  v \in live_in[i]
  <2> DEFINE S == {k \in Instrs : v \in live_in[k]}
  <2>1. Closed(S, v)
    <3> SUFFICES ASSUME NEW k \in Instrs,
                        v \in flow.use[k] \/ (v \notin flow.wrt[k] /\ flow.succ[k] \cap S # {})
                 PROVE  v \in live_in[k]
      BY DEF Closed
    <3>1. live_in[k] = flow.use[k] \cup (NextOut(k) \ flow.wrt[k])
      BY <1>1 DEF Stable, NextIn
    <3>. QED  BY <3>1 DEF NextOut
  <2>. QED  BY <1>2, <2>1 DEF LiveBefore
<1>3. ASSUME NEW v \in Vreg, v \in live_in[i]
      PROVE  i \in LiveBefore(v)
  BY <1>3 DEF LiveInv, NeverTooLive
<1>. QED  BY <1>1, <1>2, <1>3 DEF Stable

(***************************************************************************)
(* The pass keeps its sets well-typed for every program and register set.  *)
(***************************************************************************)
THEOREM TypeCorrect == Spec => []TypeOK
BY Inductive, PTL DEF LiveInv

(***************************************************************************)
(* No instruction list makes the pass believe a dead register live, at any *)
(* moment of the iteration (X86.cpp:960-983).                              *)
(***************************************************************************)
THEOREM LivenessNotOverstated == Spec => []NeverTooLive
BY Inductive, PTL DEF LiveInv

(***************************************************************************)
(* When the loop of X86.cpp:957 ends the sets are liveness, for every      *)
(* program: the `changed` flag never ends it too soon.                     *)
(***************************************************************************)
THEOREM LivenessExact == Spec => []ExactWhenConverged
BY Inductive, ConvergedExact, PTL

(***************************************************************************)
(* No visit ever drops a register from a set.                              *)
(***************************************************************************)
THEOREM LivenessMonotone == Spec => OnlyGrows
<1> DEFINE Grows == \A i \in Instrs : live_in[i] \subseteq live_in'[i] /\ live_out[i] \subseteq live_out'[i]
<1>1. LiveInv /\ [Next]_vars => [Grows]_vars
  <2> SUFFICES ASSUME LiveInv, Next PROVE Grows
    OBVIOUS
  <2>1. ASSUME NEW i \in Instrs, Update(i) PROVE Grows
    BY <2>1, UpdateInv
  <2>2. CASE (\E i \in Instrs : Skip(i)) \/ NextSweep
    BY <2>2 DEF Skip, NextSweep
  <2>. QED  BY <2>1, <2>2 DEF Next
<1>. QED  BY Inductive, <1>1, PTL DEF Spec, OnlyGrows

=============================================================================

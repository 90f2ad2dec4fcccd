------------------------------ MODULE Liveness ------------------------------
(***************************************************************************)
(* The backward data-flow pass of allocate(), src/core/codegen/X86.cpp     *)
(* lines 939-984: which virtual registers are live before (live_in) and    *)
(* after (live_out) each instruction.                                      *)
(*                                                                         *)
(*     in[i]  = use[i] \cup (out[i] \ wrt[i])                              *)
(*     out[i] = UNION {in[j] : j \in succ[i]}                              *)
(*                                                                         *)
(* The equations are solved from the empty sets by whole reverse sweeps    *)
(* over `order`, the instructions in layout order, until a sweep changes   *)
(* nothing.  Instructions are numbered by their place in `order`.          *)
(***************************************************************************)
EXTENDS Integers

CONSTANTS
  Vreg,    \* the virtual registers
  Flows    \* the instruction lists a behaviour may start from

(***************************************************************************)
(* What the pass is given: the number of instructions, and for each one    *)
(* its successors and the virtual registers it reads and writes            *)
(* (X86.cpp:841-937).                                                      *)
(***************************************************************************)
IsFlow(f) ==
  /\ f.len \in Nat
  /\ f.succ \in [1 .. f.len -> SUBSET (1 .. f.len)]
  /\ f.use  \in [1 .. f.len -> SUBSET Vreg]
  /\ f.wrt  \in [1 .. f.len -> SUBSET Vreg]

ASSUME FlowsAssumption == \A f \in Flows : IsFlow(f)

VARIABLES
  flow,      \* the instructions analysed
  live_in,   \* in[i]
  live_out,  \* out[i]
  cursor,    \* the instruction the sweep visits next, 0 at the end of a sweep
  changed    \* has this sweep changed a set?

vars == <<flow, live_in, live_out, cursor, changed>>

Instrs == 1 .. flow.len

TypeOK ==
  /\ IsFlow(flow)
  /\ live_in  \in [Instrs -> SUBSET Vreg]
  /\ live_out \in [Instrs -> SUBSET Vreg]
  /\ cursor \in 0 .. flow.len
  /\ changed \in BOOLEAN

-----------------------------------------------------------------------------
(* The state a pass over `flow` starts from: both maps empty.              *)
Start ==
  /\ live_in  = [i \in Instrs |-> {}]
  /\ live_out = [i \in Instrs |-> {}]
  /\ cursor = flow.len
  /\ changed = FALSE

Init == flow \in Flows /\ Start

(* The values of the two equations at i, from the sets of its successors.  *)
NextOut(i) == UNION {live_in[j] : j \in flow.succ[i]}

\* Faults a slip in lines 963-984 would introduce, used to test the properties.
KeepsWritten(i)    == flow.use[i] \cup NextOut(i)
SwapsDifference(i) == flow.use[i] \cup (flow.wrt[i] \ NextOut(i))

NextIn(i) == flow.use[i] \cup (NextOut(i) \ flow.wrt[i])

Stable(i) == live_in[i] = NextIn(i) /\ live_out[i] = NextOut(i)

ForgetsChange(i) ==
  /\ cursor = i
  /\ ~Stable(i)
  /\ live_in'  = [live_in EXCEPT ![i] = NextIn(i)]
  /\ live_out' = [live_out EXCEPT ![i] = NextOut(i)]
  /\ cursor' = i - 1
  /\ UNCHANGED <<flow, changed>>

AlwaysChanged(i) ==
  /\ cursor = i
  /\ Stable(i)
  /\ cursor' = i - 1
  /\ changed' = TRUE
  /\ UNCHANGED <<flow, live_in, live_out>>

(* The sweep reaches i and finds its sets out of date.                     *)
Update(i) ==
  /\ cursor = i
  /\ ~Stable(i)
  /\ live_in'  = [live_in EXCEPT ![i] = NextIn(i)]
  /\ live_out' = [live_out EXCEPT ![i] = NextOut(i)]
  /\ changed' = TRUE
  /\ cursor' = i - 1
  /\ UNCHANGED flow

(* The sweep reaches i and leaves it as it is.                             *)
Skip(i) ==
  /\ cursor = i
  /\ Stable(i)
  /\ cursor' = i - 1
  /\ UNCHANGED <<flow, live_in, live_out, changed>>

(* The end of a sweep that changed something: start another.               *)
NextSweep ==
  /\ cursor = 0
  /\ changed
  /\ changed' = FALSE
  /\ cursor' = flow.len
  /\ UNCHANGED <<flow, live_in, live_out>>

Next ==
  \/ \E i \in Instrs : Update(i)
  \/ \E i \in Instrs : Skip(i)
  \/ NextSweep

(* allocate() is one sequential function: it keeps running.                *)
Spec == Init /\ [][Next]_vars /\ WF_vars(Next)

(* The loop of line 957 has ended.                                         *)
Converged == cursor = 0 /\ ~changed

-----------------------------------------------------------------------------
(***************************************************************************)
(* What liveness means.  A set of instructions is closed for v when it     *)
(* holds every instruction that reads v and every instruction that does    *)
(* not write v and may be followed by a member.  v is live before exactly  *)
(* the instructions that every closed set holds: those from which a path   *)
(* leads to a read of v with no write of v before it.                      *)
(***************************************************************************)
Closed(S, v) ==
  \A i \in Instrs :
    (v \in flow.use[i] \/ (v \notin flow.wrt[i] /\ flow.succ[i] \cap S # {})) => i \in S

LiveBefore(v) == {i \in Instrs : \A S \in SUBSET Instrs : Closed(S, v) => i \in S}

(***************************************************************************)
(* At no point of the iteration is a register believed live where it is    *)
(* dead: a colour is never denied to a register without a reason.          *)
(***************************************************************************)
NeverTooLive ==
  \A i \in Instrs : \A v \in live_in[i] : i \in LiveBefore(v)

(***************************************************************************)
(* When the sweeps stop, live_in is exactly liveness and live_out is its   *)
(* union over the successors.  The flag `changed` is the only thing that   *)
(* ends the loop; a sweep that missed a change would leave a live value    *)
(* out of the interference graph and let another register overwrite it.    *)
(***************************************************************************)
ExactWhenConverged ==
  Converged =>
    \A i \in Instrs :
      /\ \A v \in Vreg : v \in live_in[i] <=> i \in LiveBefore(v)
      /\ live_out[i] = UNION {live_in[j] : j \in flow.succ[i]}

(***************************************************************************)
(* The sets only grow: next_in and next_out replace the stored sets        *)
(* wholesale (lines 979-980), and no replacement ever drops a register.    *)
(***************************************************************************)
OnlyGrows ==
  [][\A i \in Instrs : live_in[i] \subseteq live_in'[i] /\ live_out[i] \subseteq live_out'[i]]_vars

(* The while loop of line 957 ends.                                        *)
Terminates == <>Converged

=============================================================================

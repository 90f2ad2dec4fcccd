--------------------------- MODULE AllocatedCode ----------------------------
(***************************************************************************)
(* What allocate() promises: the function it leaves behaves as the one it  *)
(* was given.  Once a function is allocated, the code before and the code  *)
(* after are run side by side along the same path, block by block: before, *)
(* every virtual register is a place of its own; after, there are only     *)
(* physical registers and the frame.                                       *)
(***************************************************************************)
EXTENDS RegisterAllocator, Cpu

CONSTANT MaxBlocks   \* bound: the number of blocks run

ASSUME PathAssumption == MaxBlocks \in Nat \ {0}

VARIABLES
  at,       \* the block to run next, 0 before the call and after the return
  ran,      \* the number of blocks run
  before,   \* the machine running the lowered function
  after     \* the machine running the allocated one

rvars == <<at, ran, before, after>>
vars == <<avars, rvars>>

NotRunning == [returned |-> FALSE]

Init ==
  /\ AllocatorInit
  /\ at = 0
  /\ ran = 0
  /\ before = NotRunning
  /\ after = NotRunning

Allocate == AllocatorNext /\ UNCHANGED rvars

(* A frame of nothing but the saved RBP: stack arguments are reached from  *)
(* RBP.                                                                    *)
BarePrologue == << Ins("PUSH", MNONE, PREG(RBP)), Ins("MOV", PREG(RBP), PREG(RSP)) >>
BareEpilogue == << Ins("MOV", PREG(RSP), PREG(RBP)), Ins("POP", PREG(RBP), MNONE) >>

Enter ==
  LET entry == EntryState(Vreg, Reg)
  IN  /\ phase = "allocated"
      /\ ran = 0
      /\ at = 0
      /\ at' = 1
      /\ before' = Run(source, entry, BarePrologue)
      /\ after' = Run(fct, entry, prologue)
      /\ UNCHANGED <<avars, ran>>

(* Both machines run block `at` on the way to `goal`, or to the return.    *)
RunBlock ==
  /\ at # 0
  /\ ran < MaxBlocks
  /\ ran' = ran + 1
  /\ \E goal \in source.blocks[at].succs \cup {0} :
       /\ before' = RunTo(goal, source, before,
                           WithEpilogue(source.blocks[at].instrs, BareEpilogue))
       /\ after' = RunTo(goal, fct, after, WithEpilogue(fct.blocks[at].instrs, epilogue))
       /\ before'.returned <=> goal = 0
       /\ at' = goal
  /\ UNCHANGED avars

Next == Allocate \/ Enter \/ RunBlock

(* The compiler is one sequential program and keeps running.               *)
Spec == Init /\ [][Next]_vars /\ WF_vars(Next)

Running == ran > 0

-----------------------------------------------------------------------------
(***************************************************************************)
(* The calls made with their arguments, the comparisons branched on and    *)
(* the value returned are the same before and after allocation.  Liveness, *)
(* the graph, the clobbered registers, the colouring, the spill code and   *)
(* its slots all have to be right for it.                                  *)
(***************************************************************************)
SameBehaviour == Running => after.seen = before.seen

(***************************************************************************)
(* The part of it that lines 242-243 promise of a call: "Arguments goes to *)
(* RDI, RSI, RDX, RCX, R8, R9, then on the stack" -- the callee is given   *)
(* the arguments the program passes.                                       *)
(***************************************************************************)
ArgumentsArrive ==
  Running =>
    \A k \in DOMAIN before.seen : before.seen[k][1] = "call" => after.seen[k] = before.seen[k]

(***************************************************************************)
(* The callee's half of the calling convention: on return RSP, RBP and     *)
(* every register that is not caller-saved hold what they held on entry.   *)
(***************************************************************************)
RestoresCaller ==
  (Running /\ after.returned) =>
    \A r \in Reg \ CallerSaved :
      after.r[r] = IF r = RSP THEN <<"addr", 0>> ELSE <<"init", r>>

(***************************************************************************)
(* "In SystemV, we need to make sure the frame is 16-bytes aligned" (line  *)
(* 1301): RSP is on a 16-byte boundary at every call, whatever the number  *)
(* of slots, of saved registers and of stack arguments.                    *)
(***************************************************************************)
CallsAligned == Running => after.aligned

(***************************************************************************)
(* The recursion of line 1356 ends: a round of spill code makes the        *)
(* function easier to colour.  Nothing in the code bounds it.              *)
(***************************************************************************)
Terminates == <>(phase = "allocated")

=============================================================================

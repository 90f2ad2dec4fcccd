---------------------------- MODULE LoweredCode -----------------------------
(***************************************************************************)
(* What X86::lower promises: the machine code of each function, run with   *)
(* every virtual register a place of its own, behaves as the IR function.  *)
(* Once a module is lowered, one of its functions is run both ways along   *)
(* the same path, block by block.                                          *)
(***************************************************************************)
EXTENDS Lowering, Cpu

CONSTANT MaxBlocks   \* bound: the number of blocks run

ASSUME PathAssumption == MaxBlocks \in Nat \ {0}

VARIABLES
  running,   \* the function that is run, 0 before
  at, from,  \* the IR block to run next, 0 after the return, and the one before
  ran,       \* the number of blocks run
  ir,        \* the state of the IR function
  machine    \* the state of the machine code

rvars == <<running, at, from, ran, ir, machine>>

LowerInit ==
  /\ Init
  /\ running = 0
  /\ at = 0
  /\ from = 0
  /\ ran = 0
  /\ ir = [returned |-> FALSE]
  /\ machine = [returned |-> FALSE]

Compile == LowerModule /\ UNCHANGED rvars

(* The parameters, where the calling convention puts them.                 *)
Parameter(k) ==
  IF k <= Len(IntArgRegs) THEN <<"init", IntArgRegs[k]>> ELSE <<"stack", 8 * (k - Len(IntArgRegs))>>

BarePrologue == << Ins("PUSH", MNONE, PREG(RBP)), Ins("MOV", PREG(RBP), PREG(RSP)) >>
BareEpilogue == << Ins("MOV", PREG(RSP), PREG(RBP)), Ins("POP", PREG(RBP), MNONE) >>

Enter ==
  /\ stage = "done"
  /\ running = 0
  /\ \E k \in DOMAIN mod :
       LET entry == EntryState(DOMAIN lowered[k].body.domain, GeneralRegs \cup ReservedRegs)
       IN  /\ running' = k
           /\ ir' = IREntry(mod[k], [p \in 1 .. Len(mod[k].args) |-> Parameter(p)])
           /\ machine' = Run(lowered[k].body, entry, BarePrologue)
  /\ at' = 1
  /\ UNCHANGED <<vars, from, ran>>

(* The place of block b of the function that is run.                       *)
Place(b) == CHOOSE k \in DOMAIN lowered[running].order : lowered[running].order[k] = b

RunBlock ==
  /\ at # 0
  /\ ran < MaxBlocks
  /\ ran' = ran + 1
  /\ from' = at
  /\ ir' = RunIRBlock(mod[running], ir, from, at)
  /\ \E goal \in mod[running].blocks[at].succs \cup {0} :
       /\ LET body == lowered[running].body
              instrs == body.blocks[Place(at)].instrs
          IN  machine' = RunTo(goal, body, machine, WithEpilogue(instrs, BareEpilogue))
       /\ ir'.returned <=> goal = 0
       /\ at' = goal
  /\ UNCHANGED <<vars, running>>

Next == Compile \/ Enter \/ RunBlock

Spec == LowerInit /\ [][Next]_<<vars, rvars>>

Ran == ran > 0

-----------------------------------------------------------------------------
(***************************************************************************)
(* "Registers of one family share a color" (X86.hpp:43): the allocator     *)
(* takes family() of a colour from the neighbours, which knows only the    *)
(* direct parts of a register.  So no domain valueVreg makes may hold two  *)
(* registers of one piece of hardware that family() does not relate.       *)
(***************************************************************************)
SharesHardware(r, s) == At(r).class = At(s).class /\ At(r).family = At(s).family

DomainsHideNoAlias ==
  \A k \in DOMAIN lowered :
    LET domain == lowered[k].body.domain
    IN  \A r, s \in UNION {domain[x] : x \in DOMAIN domain} :
          SharesHardware(r, s) => s \in family(r)

(***************************************************************************)
(* The machine code makes the calls of the IR with their arguments, tests  *)
(* the same conditions and returns the same value.                         *)
(***************************************************************************)
SameBehaviour == Ran => machine.seen = ir.seen

(***************************************************************************)
(* "The stack MUST be 16 -bytes aligned before the CALL instruction"       *)
(* (line 306), whatever the number of arguments, and is given back: RSP is *)
(* where it was when the function is left.                                 *)
(***************************************************************************)
StackDiscipline ==
  Ran => /\ machine.aligned
         /\ machine.calls = ir.calls
         /\ machine.returned = ir.returned
         /\ machine.returned => machine.r[RSP] = <<"addr", 0>>

(***************************************************************************)
(* "If this is the last intruction of the IR block, we will resolve phis   *)
(* by injecting MOV at the end of the block" (lines 120-121), each phi     *)
(* read as in the example of lines 127-131: entering a block gives its     *)
(* phis the values they have in the IR.                                    *)
(***************************************************************************)
PhisResolved ==
  (Ran /\ ~ir.returned /\ at # 0) =>
    \A k \in DOMAIN mod[running].blocks[at].phis :
      LET phi == mod[running].blocks[at].phis[k]
      IN  from \in DOMAIN phi.inc => machine.v[phi.res] = ValueOf(ir, phi.inc[from])

(***************************************************************************)
(* "Which comparison produced a given value, so CBR can pick its jump"     *)
(* (X86.hpp:326): a conditional jump tests the flags of the comparison of  *)
(* its condition.                                                          *)
(***************************************************************************)
BranchesOnItsComparison ==
  Ran => \A k \in DOMAIN machine.seen :
           machine.seen[k][1] \in ConditionalJumps => machine.seen[k] = ir.seen[k]

=============================================================================

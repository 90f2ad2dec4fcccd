------------------------- MODULE RegisterAllocator --------------------------
(***************************************************************************)
(* allocate(), src/core/codegen/X86.cpp lines 816-1358: liveness, the      *)
(* interference graph, colouring; when registers had to be spilled, loads  *)
(* and stores are put around their uses and the whole is done again on the *)
(* new code; otherwise the colours are applied and the frame is built.     *)
(*                                                                         *)
(* The two loops are the modules Liveness and Coloring, instantiated on    *)
(* this module's variables.                                                *)
(***************************************************************************)
EXTENDS MachineCode

CONSTANTS
  Vreg, Reg, Family, Parent, CallerSaved, Reserved,   \* as in Coloring
  Functions,   \* the lowered functions a behaviour may start from
  MaxRounds    \* bound: the number of times the code is analysed

ASSUME BoundAssumption == MaxRounds \in Nat \ {0}

(* The target, as the register table has it.                               *)
ASSUME TargetAssumption ==
  /\ Vreg \subseteq Nat
  /\ Reg = GeneralRegs \cup ReservedRegs /\ CallerSaved = CallerSavedRegs /\ Reserved = ReservedRegs
  /\ \A r \in Reg : Parent[r] = 0

ASSUME FunctionsAssumption == \A f \in Functions : DOMAIN f.domain = Vreg /\ IsLowered(f)

VARIABLES
  fct,                  \* the function, rewritten in place
  source,               \* the function as it was lowered, left alone
  phase,                \* "liveness", "coloring", "allocated"
  round,                \* the depth of the recursion of lines 1354-1357
  offset,               \* bytes of spill slots, then of the whole frame
  prologue, epilogue,
  flow, live_in, live_out, cursor, changed,
  problem, stage, graph, domains, K, colors, spilled, callee_saved

lvars == <<flow, live_in, live_out, cursor, changed>>
cvars == <<problem, stage, graph, domains, K, colors, spilled, callee_saved>>
avars == <<fct, source, phase, round, offset, prologue, epilogue, lvars, cvars>>

L == INSTANCE Liveness WITH Flows <- {}
C == INSTANCE Coloring WITH Problems <- {}

NoProblem ==
  [nodes |-> {}, fixed |-> {}, inter |-> << >>, domain |-> << >>, moves |-> << >>]

AllocatorInit ==
  /\ fct \in Functions
  /\ source = fct
  /\ phase = "liveness"
  /\ round = 1
  /\ offset = 0
  /\ prologue = << >>
  /\ epilogue = << >>
  /\ flow = FlowOf(fct.blocks)
  /\ L!Start
  /\ problem = NoProblem
  /\ C!Start

-----------------------------------------------------------------------------
(* Lines 939-984.                                                          *)
Analyse ==
  /\ phase = "liveness"
  /\ L!Next
  /\ UNCHANGED <<fct, source, phase, round, offset, prologue, epilogue, cvars>>

(* The graph and the domains of lines 986-1036, and the tables the         *)
(* colouring starts from.                                                  *)
BuildGraph ==
  /\ phase = "liveness"
  /\ L!Converged
  /\ phase' = "coloring"
  /\ problem' = ProblemOf(fct, live_out)
  /\ stage' = "precolor"
  /\ graph' = problem'.inter
  /\ domains' = problem'.domain
  /\ K' = [x \in problem'.nodes |-> 0]
  /\ colors' = [x \in {} |-> 0]
  /\ spilled' = {}
  /\ callee_saved' = {}
  /\ UNCHANGED <<fct, source, round, offset, prologue, epilogue, lvars>>

(* Lines 1038-1171.                                                        *)
ColorRegisters ==
  /\ phase = "coloring"
  /\ C!Next
  /\ UNCHANGED <<fct, source, phase, round, offset, prologue, epilogue, lvars>>

-----------------------------------------------------------------------------
Pred(i) == {p \in L!Instrs : i \in flow.succ[p]}

(* s is stored after i unless whatever follows writes it again             *)
(* (lines 1199-1208).                                                      *)
StoresNever(i, s) == FALSE
StoreAfter(i, s) ==
  /\ s \in flow.wrt[i]
  /\ ~(flow.succ[i] # {} /\ \A j \in flow.succ[i] : s \in flow.wrt[j])

(* s is loaded before i unless whatever precedes i had it in its register  *)
(* (lines 1209-1217).                                                      *)
LoadBefore(i, s) ==
  /\ s \in flow.use[i]
  /\ ~(Pred(i) # {} /\ \A p \in Pred(i) : s \in flow.use[p] \cup flow.wrt[p])

(* The slots, 8 bytes each, go down from the last one of the rounds before *)
(* in increasing order of the registers (lines 1238-1247).                 *)
Slot(s) == MEM(RBP, -(offset + 8 * Cardinality({t \in spilled : t <= s})))

(* A set of register ids in increasing order, as a std::set is walked.     *)
Ascending(S) ==
  [k \in 1 .. Cardinality(S) |-> CHOOSE r \in S : Cardinality({q \in S : q <= r}) = k]

Loads(i) ==
  LET loaded == Ascending({s \in spilled : LoadBefore(i, s)})
  IN  [k \in DOMAIN loaded |-> Ins("MOV", VREG(loaded[k]), Slot(loaded[k]))]

\* Each store is put right after i, in front of the ones put there before.
Stores(i) ==
  LET stored == Reverse(Ascending({s \in spilled : StoreAfter(i, s)}))
  IN  [k \in DOMAIN stored |-> Ins("MOV", Slot(stored[k]), VREG(stored[k]))]

(* The blocks with the loads and stores put in (lines 1249-1263).          *)
WithLoadsAndStores(instrs, base) ==
  FlattenSeq([k \in DOMAIN instrs |-> Loads(base + k) \o <<instrs[k]>> \o Stores(base + k)])
WithSpillCode(blocks) ==
  [b \in DOMAIN blocks |->
     [blocks[b] EXCEPT !.instrs = WithLoadsAndStores(blocks[b].instrs, Base(blocks, b))]]

(* Lines 1173-1264 and the recursive call of line 1356.                    *)
Rewrite ==
  /\ phase = "coloring"
  /\ C!Finished
  /\ spilled # {}
  /\ round < MaxRounds
  /\ round' = round + 1
  /\ phase' = "liveness"
  /\ fct' = [fct EXCEPT !.blocks = WithSpillCode(fct.blocks)]
  /\ offset' = offset + 8 * Cardinality(spilled)
  /\ flow' = FlowOf(fct'.blocks)
  /\ live_in' = [i \in 1 .. flow'.len |-> {}]
  /\ live_out' = [i \in 1 .. flow'.len |-> {}]
  /\ cursor' = flow'.len
  /\ changed' = FALSE
  /\ UNCHANGED <<source, prologue, epilogue, cvars>>

-----------------------------------------------------------------------------
Colored(o) == IF o.kind = "VREG" THEN PREG(colors[o.n]) ELSE o

IsSelfMove(i) == i.op = "MOV" /\ i.dst.kind = "PREG" /\ i.dst = i.src

(* Lines 1269-1288.                                                        *)
Recolored(i) == Ins(i.op, Colored(i.dst), Colored(i.src))
WithColors(instrs) ==
  FlattenSeq([k \in DOMAIN instrs |->
                IF IsSelfMove(Recolored(instrs[k])) THEN << >> ELSE <<Recolored(instrs[k])>>])

(* The slots rounded up to 16 bytes, and 8 more under an odd number of     *)
(* saved registers, for RSP to end on a 16-byte boundary (lines 1297-1302  *)
(* and 1329-1331).                                                         *)
RoundsUpOnly == ((offset + 15) \div 16) * 16
FrameSize ==
  ((offset + 15) \div 16) * 16 + (IF Cardinality(callee_saved) % 2 = 1 THEN 8 ELSE 0)

(* Lines 1293-1296, 1333-1337, 1344-1347.                                  *)
PrologueCode ==
  LET saved == Ascending(callee_saved)
  IN  << Ins("PUSH", MNONE, PREG(RBP)), Ins("MOV", PREG(RBP), PREG(RSP)) >>
      \o (IF FrameSize > 0 THEN <<Ins("SUB", PREG(RSP), LIT(FrameSize))>> ELSE << >>)
      \o [k \in DOMAIN saved |-> Ins("PUSH", MNONE, PREG(saved[k]))]

(* The pops are put in front one by one, so they come out in reverse       *)
(* (lines 1338-1342 and 1349-1352).                                        *)
PopsInPushOrder ==
  LET saved == Ascending(callee_saved)
  IN  [k \in DOMAIN saved |-> Ins("POP", PREG(saved[k]), MNONE)]
      \o << Ins("MOV", PREG(RSP), PREG(RBP)), Ins("POP", PREG(RBP), MNONE) >>
EpilogueCode ==
  LET saved == Reverse(Ascending(callee_saved))
  IN  [k \in DOMAIN saved |-> Ins("POP", PREG(saved[k]), MNONE)]
      \o << Ins("MOV", PREG(RSP), PREG(RBP)), Ins("POP", PREG(RBP), MNONE) >>

(* Lines 1269-1352.                                                        *)
Apply ==
  /\ phase = "coloring"
  /\ C!Finished
  /\ spilled = {}
  /\ phase' = "allocated"
  /\ fct' = [fct EXCEPT !.blocks =
               [b \in DOMAIN fct.blocks |->
                  [fct.blocks[b] EXCEPT !.instrs = WithColors(fct.blocks[b].instrs)]]]
  /\ offset' = FrameSize
  /\ prologue' = PrologueCode
  /\ epilogue' = EpilogueCode
  /\ UNCHANGED <<source, round, lvars, cvars>>

AllocatorNext == Analyse \/ BuildGraph \/ ColorRegisters \/ Rewrite \/ Apply

=============================================================================

--------------------------- MODULE MCLoweredCode ----------------------------
(***************************************************************************)
(* Instances of LoweredCode: IR functions of the shapes SSAIR builds,      *)
(* after resolveCriticalEdges.                                             *)
(***************************************************************************)
EXTENDS LoweredCode

R(v) == REGISTER(v)
L(n) == LITERAL(n)

TargetsOf(instrs) == Targets([instrs |-> instrs])

(* A function from the phis and the instructions of its blocks.            *)
Build(args, values, phis, instrs) ==
  [args |-> args, values |-> values,
   blocks |-> [b \in DOMAIN instrs |->
     [phis |-> phis[b], instrs |-> instrs[b], succs |-> TargetsOf(instrs[b]),
      preds |-> {p \in DOMAIN instrs : b \in TargetsOf(instrs[p])}]]]

Phi(v, inc) == [res |-> v, inc |-> inc]
No == << >>

(* f(1, 2): while (3 < 4) { 6 = op }, with two variables going round.      *)
Loop(x, y, body, out) ==
  Build(<<1, 2>>, 7,
    << No, << Phi(3, (1 :> R(1)) @@ (3 :> x)), Phi(4, (1 :> R(2)) @@ (3 :> y)) >>, No, No >>,
    << << BrInstr(2) >>,
       << Instr("LT", R(5), R(3), R(4)), CbrInstr(R(5), 3, 4) >>,
       body \o << BrInstr(2) >>,
       out \o << RetInstr(R(7)) >> >>)

Bodies(d, values) ==
  {<<Instr(op, R(d), x, y)>> : op \in {"ADD", "MUL"}, x \in values, y \in {R(1), L(1)}}
  \cup {<<CallInstr(R(d), FUNCTION("g"), <<x, y>>)>> : x, y \in values}
  \cup {<<CallInstr(NONE, FUNCTION("p"), <<x>>), Instr("ADD", R(d), x, L(1))>> : x \in values}

(* f(1, 2): if (1 op 2) { 4 } else { 5 }; 6 and 7 join.                    *)
Diamond(cmp, x2, x3, y2, y3, last) ==
  Build(<<1, 2>>, 8,
    << No, No, No, << Phi(6, (2 :> x2) @@ (3 :> x3)), Phi(7, (2 :> y2) @@ (3 :> y3)) >> >>,
    << << Instr(cmp, R(3), R(1), R(2)), CbrInstr(R(3), 2, 3) >>,
       << CallInstr(R(4), FUNCTION("g"), <<R(2), R(1)>>), BrInstr(4) >>,
       << Instr("ADD", R(5), R(1), L(1)), BrInstr(4) >>,
       last \o << RetInstr(R(8)) >> >>)

(* Many parameters, and calls with 5 to 9 arguments.                       *)
ManyArguments(n) ==
  Build([k \in 1 .. 8 |-> k], 10, << No >>,
    << << CallInstr(R(9), FUNCTION("g"), [k \in 1 .. n |-> IF k = 1 THEN L(7) ELSE R(k - 1)]),
          Instr("ADD", R(10), R(9), R(8)), RetInstr(R(10)) >> >>)

(* A block after its return, as the body of a loop that returns.           *)
ReturnInLoop(back, value) ==
  Build(<<1>>, 4,
    << No, << Phi(2, (1 :> L(0)) @@ (3 :> back)) >>, No, No >>,
    << << BrInstr(2) >>,
       << Instr("LT", R(3), R(2), R(1)), CbrInstr(R(3), 3, 4) >>,
       << Instr("ADD", R(4), R(2), L(1)), RetInstr(value), BrInstr(2) >>,
       << RetInstr(R(2)) >> >>)

Incoming == {R(1), R(3), R(4), R(6), L(0)}

(* The copies of a later phi read none of the earlier ones.                *)
Sequential(x, y) == y = R(3) => x = R(3)

Loops ==
  {Loop(x, y, body, <<Instr("ADD", R(7), R(3), R(4))>>) :
     <<x, y>> \in {xy \in Incoming \X Incoming : Sequential(xy[1], xy[2])},
     body \in Bodies(6, {R(3), R(4)})}

Diamonds ==
  {Diamond(cmp, x2, x3, y2, y3, last) :
     cmp \in Comparisons, x2 \in {R(1), R(4)}, x3 \in {R(5), L(0)}, y2 \in {R(2), R(4)},
     y3 \in {R(2), R(5)}, last \in Bodies(8, {R(6), R(7)})}

Single ==
  Loops \cup Diamonds \cup {ManyArguments(n) : n \in 5 .. 9}
  \cup {ReturnInLoop(R(4), R(4)), ReturnInLoop(L(1), R(1))}

(* Two variables that change places on each turn.                          *)
SwapModules == {<<Loop(R(4), R(3), << >>, <<Instr("ADD", R(7), R(3), R(4))>>)>>}

(* if (cond) { return 1 } return 2, after a comparison or none.            *)
Tests(before, cond) ==
  Build(<<1, 2>>, 3, << No, No, No >>,
    << before \o << CbrInstr(cond, 2, 3) >>, << RetInstr(L(1)) >>, << RetInstr(L(2)) >> >>)
Compares == Tests(<<Instr("LT", R(3), R(1), L(1))>>, R(3))

(* Two functions whose comparisons have one number, and conditions that    *)
(* are no comparison.                                                      *)
SmallModules ==
  {<<g>> : g \in Single}
  \cup {<<ReturnInLoop(L(1), R(1)), ManyArguments(7)>>, <<Compares, Compares>>,
         <<Tests(No, R(2))>>, <<Tests(No, L(1))>>}

(* f(a, b): c = a < b; d = a + b; if (c) { return d } return 2             *)
FlagsModules ==
  {<<[Tests(<< Instr("LT", R(3), R(1), R(2)), Instr("ADD", R(4), R(1), R(2)) >>, R(3))
        EXCEPT !.values = 4, !.blocks[2].instrs = << RetInstr(R(4)) >>]>>}

=============================================================================

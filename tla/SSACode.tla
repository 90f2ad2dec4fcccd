------------------------------- MODULE SSACode -------------------------------
(***************************************************************************)
(* What SSAIR promises: the graph of each function is a control-flow graph *)
(* in SSA form, and running it is running the source.  Once a program is   *)
(* walked, one of its functions is run both ways, from one condition to    *)
(* the next, with the same answer to each.                                 *)
(***************************************************************************)
EXTENDS SSAConstruction

CONSTANT MaxBranches   \* bound: the number of conditions answered in a run

ASSUME BranchAssumption == MaxBranches \in Nat \ {0}

VARIABLES
  running,   \* the function that is run, 0 before
  source,    \* the state of the source program
  graph,     \* the state of the graph, with its block `at`
  branches   \* the number of conditions answered

rvars == <<running, source, graph, branches>>

SSAInit ==
  /\ Init
  /\ running = 0
  /\ source = << >>
  /\ graph = << >>
  /\ branches = 0

-----------------------------------------------------------------------------
(* The regions of the program.                                             *)
Count(kinds, p, q) == Cardinality({m \in p .. q : program[m].s \in kinds})
Balanced(p, q) == Count({"if", "while", "function"}, p, q) = Count({"end"}, p, q)

EndOf(p) == CHOOSE q \in p .. Len(program) : Balanced(p, q) /\ \A m \in p .. q - 1 : ~Balanced(p, m)
ElseOf(p) == CHOOSE q \in p .. EndOf(p) : program[q].s = "else" /\ Balanced(p + 1, q)
OpenerOf(q) ==
  CHOOSE p \in 1 .. q : program[p].s \in {"if", "while", "function"} /\ EndOf(p) = q
IfOf(q) == CHOOSE p \in 1 .. q : program[p].s = "if" /\ program[p].hasElse /\ ElseOf(p) = q

(* The meaning of an expression: the state after its calls and its value.  *)
RECURSIVE Evaluate(_, _)
EvaluateAll(st, es) ==
  LET evaluated[n \in 0 .. Len(es)] ==
        IF n = 0 THEN [st |-> st, xs |-> << >>]
        ELSE CHOOSE next \in {[st |-> got.st, xs |-> Append(evaluated[n - 1].xs, got.x)]
                                : got \in {Evaluate(evaluated[n - 1].st, es[n])}} : TRUE
  IN  evaluated[Len(es)]

Evaluate(st, e) ==
  CASE e.e = "num" -> [st |-> st, x |-> <<"lit", e.n>>]
    [] e.e = "var" -> [st |-> st, x |-> st.env[e.x]]
    [] e.e = "bin" ->
         LET got == EvaluateAll(st, <<e.l, e.r>>)
         IN  [st |-> got.st, x |-> <<OpcodeFor[e.op], got.xs[1], got.xs[2]>>]
    [] e.e = "call" ->
         LET got == EvaluateAll(st, e.args)
         IN  [st |-> [Observe(got.st, <<"call", e.g, got.xs>>) EXCEPT !.calls = @ + 1],
              x |-> <<"ret", got.st.calls + 1>>]

Returns(st, x) == [Observe(st, <<"returns", x>>) EXCEPT !.returned = TRUE]

(* The source, run up to the next condition or return.                     *)
RECURSIVE RunSource(_)
RunSource(st) ==
  IF st.pos > Len(program) THEN Returns(st, <<"lit", 0>>)
  ELSE LET now == program[st.pos]
           after(t, p) == RunSource([t EXCEPT !.pos = p])
       IN  CASE now.s \in {"assign", "do", "return", "if", "while"} ->
                  CHOOSE next \in
                    {CASE now.s = "assign" ->
                            after([got.st EXCEPT !.env = (now.x :> got.x) @@ @], st.pos + 1)
                       [] now.s = "do" -> after(got.st, st.pos + 1)
                       [] now.s = "return" -> Returns(got.st, got.x)
                       [] OTHER -> Observe(got.st, Tested(got.x))
                     : got \in {Evaluate(st, now.e)}} : TRUE
             [] now.s = "function" -> after(st, EndOf(st.pos) + 1)
             [] now.s = "else" -> after(st, EndOf(IfOf(st.pos)) + 1)
             [] OTHER ->
                  LET p == OpenerOf(st.pos)
                  IN  CASE program[p].s = "while" -> after(st, p)
                        [] program[p].s = "if" -> after(st, st.pos + 1)
                        [] OTHER -> Returns(st, <<"lit", 0>>)

(* Where a condition at p leads.                                           *)
Answer(p, yes) ==
  IF yes THEN p + 1
  ELSE IF program[p].s = "if" /\ program[p].hasElse THEN ElseOf(p) + 1 ELSE EndOf(p) + 1

(* The graph, run up to the next condition or return.                      *)
LastOf(b) == b.instrs[Len(b.instrs)]

RECURSIVE RunGraph(_, _, _, _)
RunGraph(f, st, from, b) ==
  CHOOSE next \in
    {IF t.returned \/ LastOf(f.blocks[b]).op # "BR" THEN [t EXCEPT !.at = b]
     ELSE RunGraph(f, t, b, LastOf(f.blocks[b]).lhs.n)
     : t \in {RunIRBlock(f, st, from, b)}} : TRUE

Build == Walk /\ UNCHANGED rvars

BodyOf(f) ==
  1 + (CHOOSE p \in DOMAIN program : program[p] = f)

Enter ==
  /\ done
  /\ running = 0
  /\ \E k \in DOMAIN fcts :
       LET params == Declared(program)[k].params
           param == [n \in DOMAIN params |-> <<"param", n>>]
           values == [x \in ToSet(params) |-> param[CHOOSE n \in DOMAIN params : params[n] = x]]
       IN  /\ running' = k
           /\ source' = RunSource([pos |-> IF k = 1 THEN 1 ELSE BodyOf(Declared(program)[k]),
                                   env |-> values, seen |-> << >>, calls |-> 0, returned |-> FALSE])
           /\ graph' = RunGraph(fcts[k], IREntry(fcts[k], param) @@ [at |-> 1], 0, 1)
  /\ UNCHANGED <<vars, branches>>

(* The next condition holds or does not.                                   *)
Branch ==
  /\ running # 0
  /\ ~source.returned /\ ~graph.returned
  /\ branches < MaxBranches
  /\ branches' = branches + 1
  /\ \E yes \in BOOLEAN :
       LET last == LastOf(fcts[running].blocks[graph.at])
       IN  /\ source' = RunSource([source EXCEPT !.pos = Answer(source.pos, yes)])
           /\ graph' = RunGraph(fcts[running], graph, graph.at, IF yes THEN last.lhs.n ELSE last.rhs.n)
  /\ UNCHANGED <<vars, running>>

Next == Build \/ Enter \/ Branch

Spec == SSAInit /\ [][Next]_<<vars, rvars>>

-----------------------------------------------------------------------------
(***************************************************************************)
(* The type invariant.  Only blocks whose predecessors are not all known   *)
(* have phis that wait, and the phis that wait exist.                      *)
(***************************************************************************)
TypeOK ==
  /\ pc \in 1 .. Len(program) + 1
  /\ current_block \in DOMAIN fcts[current_fct].blocks
  /\ \A p \in sealed : p[2] \in DOMAIN fcts[p[1]].blocks
  /\ \A b \in DOMAIN m_incomplete :
       /\ <<current_fct, b>> \notin sealed
       /\ \A w \in ToSet(m_incomplete[b]) :
            fcts[current_fct].blocks[b].phis[w[2]].inc = << >>
  /\ done => open = << >>

(***************************************************************************)
(* "We assume at this point that the control flow graph if 'fct' is        *)
(* complete and all predecessors are set" (line 443): when the walk ends,  *)
(* each block ends with a jump or a return, its predecessors are the       *)
(* blocks that jump to it, and each of its phis has an operand for each,   *)
(* though blocks, edges and phis are added one by one and some phis long   *)
(* before the edges they are for.                                          *)
(***************************************************************************)
GraphReady ==
  done => \A k \in DOMAIN fcts :
            /\ IsCFG(fcts[k])
            /\ \A b \in DOMAIN fcts[k].blocks :
                 fcts[k].blocks[b].instrs # << >> /\ HasTerminator(fcts[k].blocks[b])

(* The blocks of f that can be reached from its entry without block d.     *)
ReachedWithout(f, d) ==
  LET reached[n \in 0 .. Len(f.blocks)] ==
        IF n = 0 THEN {1} \ {d}
        ELSE reached[n - 1] \cup (UNION {Targets(f.blocks[b]) : b \in reached[n - 1]} \ {d})
  IN  reached[Len(f.blocks)]

(* What defines value v in function f: a place in a block, 0 for its phis. *)
Definitions(f, v) ==
  {<<1, 0>> : a \in {a \in DOMAIN f.args : f.args[a] = v}}
  \cup UNION {
    {<<b, 0>> : k \in {k \in DOMAIN f.blocks[b].phis : f.blocks[b].phis[k].res = v}}
    \cup {<<b, k>> : k \in {k \in DOMAIN f.blocks[b].instrs :
                              /\ f.blocks[b].instrs[k].op # "CBR"
                              /\ f.blocks[b].instrs[k].res = REGISTER(v)}}
    : b \in DOMAIN f.blocks}

(* The values read by the instructions of block b, and at the end of block *)
(* p for the phis of a successor.                                          *)
MaxLength(f) == Max({Len(f.blocks[b].instrs) : b \in DOMAIN f.blocks})
Registers(os) == {o.n : o \in ToSet(SelectSeq(os, LAMBDA o : o.kind = "REGISTER"))}
OperandsOf(i) == <<i.lhs, i.rhs>> \o i.args \o (IF i.op = "CBR" THEN <<i.res>> ELSE << >>)
Used(f) ==
  UNION {
    {<<v, b, k>> : v \in Registers(OperandsOf(f.blocks[b].instrs[k]))}
    : <<b, k>> \in {<<b, k>> \in (DOMAIN f.blocks) \X (1 .. MaxLength(f)) : k <= Len(f.blocks[b].instrs)}}
  \cup UNION {
    UNION {{<<v, p, MaxLength(f) + 1>> : v \in Registers(<<phi.inc[p]>>)} : p \in DOMAIN phi.inc}
    : phi \in UNION {ToSet(f.blocks[b].phis) : b \in DOMAIN f.blocks}}

DominatedBy(f, def, b, k) ==
  IF def[1] = b THEN def[2] < k ELSE b \notin ReachedWithout(f, def[1])

(***************************************************************************)
(* SSA form, what the phis are for: each value has one definition, and no  *)
(* path reaches a use of it without going through its definition.          *)
(***************************************************************************)
DefinedBeforeUsed ==
  done => \A k \in DOMAIN fcts : \A use \in Used(fcts[k]) :
            \E def \in Definitions(fcts[k], use[1]) :
              /\ Definitions(fcts[k], use[1]) = {def}
              /\ DominatedBy(fcts[k], def, use[2], use[3])

(***************************************************************************)
(* The graph does what the source says: it makes the same calls with the   *)
(* same arguments, tests the same conditions and returns the same value,   *)
(* on every path.                                                          *)
(***************************************************************************)
SameBehaviour == running # 0 => graph.seen = source.seen /\ graph.returned = source.returned

=============================================================================

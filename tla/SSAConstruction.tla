-------------------------- MODULE SSAConstruction ---------------------------
(***************************************************************************)
(* SSAIR, src/core/ir/IR.cpp lines 25-349 and 407-430: one walk over the   *)
(* syntax tree builds the control-flow graph and the phis of every         *)
(* function.  The operand that holds a variable is looked up backwards     *)
(* through the predecessors; in a block whose predecessors are not all     *)
(* known yet (it is not sealed) an empty phi is made, to be filled when    *)
(* the block is sealed.                                                    *)
(*                                                                         *)
(* A program is the sequence of the statements in the order the walk       *)
(* reaches them, with `if`, `while` and `function` opening a region that   *)
(* `end` closes.  Names are resolved: a variable is its symbol.            *)
(***************************************************************************)
EXTENDS IR, SequencesExt, TLC

CONSTANTS
  Programs,   \* the programs a behaviour may start from
  Void        \* the functions that return nothing

VARIABLES
  program,         \* the program, left alone
  pc,              \* the statement the walk is at
  open,            \* the regions entered and not left, with what each needs at its end
  fcts,            \* m_main: the functions, main first
  current_fct, current_block,
  m_lko,           \* the operand last known for a symbol in a block
  m_incomplete,    \* the phis of a block that wait for its predecessors
  sealed,          \* the blocks, with their functions, whose predecessors are all known
  done

walkvars == <<pc, open, fcts, current_fct, current_block, m_lko, m_incomplete, sealed, done>>
vars == <<program, walkvars>>

(* Expressions, statements.                                                *)
VAR(x) == [e |-> "var", x |-> x]
NUM(n) == [e |-> "num", n |-> n]
BIN(op, l, r) == [e |-> "bin", op |-> op, l |-> l, r |-> r]
CALL(g, args) == [e |-> "call", g |-> g, args |-> args]

Statement(s, x, e) == [s |-> s, x |-> x, e |-> e, hasElse |-> FALSE, params |-> << >>]
AssignTo(x, e) == Statement("assign", x, e)
Do(e)       == Statement("do", "", e)
If(e)       == Statement("if", "", e)
IfElse(e)   == [If(e) EXCEPT !.hasElse = TRUE]
Else        == Statement("else", "", NUM(0))
While(e)    == Statement("while", "", e)
ReturnOf(e) == Statement("return", "", e)
Fn(g, params) == [Statement("function", g, NUM(0)) EXCEPT !.params = params]
End         == Statement("end", "", NUM(0))

-----------------------------------------------------------------------------
(* The operators below take the state of the walk as a record and give the *)
(* state after.                                                            *)
State ==
  [fcts |-> fcts, fct |-> current_fct, block |-> current_block, lko |-> m_lko,
   incomplete |-> m_incomplete, sealed |-> sealed]

Becomes(st) ==
  /\ fcts' = st.fcts
  /\ current_fct' = st.fct
  /\ current_block' = st.block
  /\ m_lko' = st.lko
  /\ m_incomplete' = st.incomplete
  /\ sealed' = st.sealed

(* run() makes every function of the context, with its arguments and an    *)
(* entry block, before the walk (lines 408-427); main is sealed first.     *)
FunctionsOf(p) == SelectSeq(p, LAMBDA s : s.s = "function")
Declared(p) == <<Fn("main", << >>)>> \o FunctionsOf(p)

Init ==
  /\ program \in Programs
  /\ pc = 1
  /\ open = << >>
  /\ fcts = [k \in DOMAIN Declared(program) |->
               LET n == Len(Declared(program)[k].params)
               IN  [args |-> [a \in 1 .. n |-> a], values |-> n, blocks |-> <<EmptyBlock>>]]
  /\ current_fct = 1
  /\ current_block = 1
  /\ m_lko = << >>
  /\ m_incomplete = << >>
  /\ sealed = {<<1, 1>>}
  /\ done = FALSE

FctOf(g) == CHOOSE k \in DOMAIN Declared(program) : Declared(program)[k].x = g

-----------------------------------------------------------------------------
BlockOf(st, b) == st.fcts[st.fct].blocks[b]
LastBlock(st) == Len(st.fcts[st.fct].blocks)
NewValue(st) == st.fcts[st.fct].values + 1

AddBlock(st) == [st EXCEPT !.fcts[st.fct].blocks = Append(@, EmptyBlock)]
AddPred(st, b, p) == [st EXCEPT !.fcts[st.fct].blocks[b].preds = @ \cup {p}]
AddInstr(st, b, i) == [st EXCEPT !.fcts[st.fct].blocks[b].instrs = Append(@, i)]
AddValue(st) == [st EXCEPT !.fcts[st.fct].values = @ + 1]
MoveTo(st, b) == [st EXCEPT !.block = b]

(* Lines 25-31.                                                            *)
SetLKO(st, s, b, o) == [st EXCEPT !.lko = (<<s, b>> :> o) @@ @]

AddPhi(st, b) ==
  [AddValue(st) EXCEPT !.fcts[st.fct].blocks[b].phis = Append(@, [res |-> NewValue(st), inc |-> << >>])]

AddIncoming(st, b, k, p, o) ==
  [st EXCEPT !.fcts[st.fct].blocks[b].phis[k].inc = (p :> o) @@ @]

Waiting(st, b) == IF b \in DOMAIN st.incomplete THEN st.incomplete[b] ELSE << >>

Wait(st, b, s, k) ==
  [st EXCEPT !.incomplete = (b :> Append(Waiting(st, b), <<s, k>>)) @@ @]

Preds(st, b) == SelectSeq([p \in 1 .. LastBlock(st) |-> p], LAMBDA p : p \in BlockOf(st, b).preds)

(* getLKO, getLKORecurvise and fillPhi (lines 34-40 and 51-112): the       *)
(* operand of s as seen from b, and the state after.                       *)
RECURSIVE GetLKO(_, _, _), FillPhi(_, _, _, _)

ReadsThroughOnePredecessor(st, s, b) ==
  LET k == Len(BlockOf(st, b).phis) + 1
      withPhi == SetLKO(AddPhi(st, b), s, b, REGISTER(NewValue(st)))
  IN  CASE <<s, b>> \in DOMAIN st.lko -> [st |-> st, o |-> st.lko[<<s, b>>]]
        [] OTHER ->
             CASE BlockOf(st, b).preds = {} -> [st |-> st, o |-> NONE]
               [] Cardinality(BlockOf(st, b).preds) = 1 -> GetLKO(st, s, Preds(st, b)[1])
               [] OTHER -> [st |-> FillPhi(withPhi, s, b, k), o |-> REGISTER(NewValue(st))]
FollowsFirstPredecessor(st, s, b) ==
  CASE <<s, b>> \in DOMAIN st.lko -> [st |-> st, o |-> st.lko[<<s, b>>]]
    [] BlockOf(st, b).preds = {} -> [st |-> st, o |-> NONE]
    [] OTHER -> GetLKO(st, s, Preds(st, b)[1])
GetLKO(st, s, b) ==
  LET k == Len(BlockOf(st, b).phis) + 1
      phi == REGISTER(NewValue(st))
      withPhi == SetLKO(AddPhi(st, b), s, b, phi)
  IN  CASE <<s, b>> \in DOMAIN st.lko -> [st |-> st, o |-> st.lko[<<s, b>>]]
        [] <<s, b>> \notin DOMAIN st.lko /\ <<st.fct, b>> \notin st.sealed ->
             [st |-> Wait(withPhi, b, s, k), o |-> phi]
        [] OTHER ->
             CASE BlockOf(st, b).preds = {} -> [st |-> st, o |-> NONE]
               [] Cardinality(BlockOf(st, b).preds) = 1 ->
                    CHOOSE got \in {[st |-> SetLKO(g.st, s, b, g.o), o |-> g.o]
                                      : g \in {GetLKO(st, s, Preds(st, b)[1])}} : TRUE
               [] OTHER -> [st |-> FillPhi(withPhi, s, b, k), o |-> phi]

FillPhi(st, s, b, k) ==
  LET preds == Preds(st, b)
      filled[n \in 0 .. Len(preds)] ==
        IF n = 0 THEN st
        ELSE CHOOSE next \in {AddIncoming(got.st, b, k, preds[n], got.o)
                                : got \in {GetLKO(filled[n - 1], s, preds[n])}} : TRUE
  IN  filled[Len(preds)]

(* Lines 42-49.                                                            *)
SealsOnly(st, b) == [st EXCEPT !.sealed = @ \cup {<<st.fct, b>>}]
SealBlock(st, b) ==
  LET waiting == Waiting(st, b)
      filled[n \in 0 .. Len(waiting)] ==
        IF n = 0 THEN st
        ELSE CHOOSE next \in {FillPhi(t, waiting[n][1], b, waiting[n][2])
                                : t \in {filled[n - 1]}} : TRUE
  IN  CHOOSE next \in
        {[t EXCEPT !.incomplete = [c \in (DOMAIN t.incomplete) \ {b} |-> t.incomplete[c]],
                   !.sealed = @ \cup {<<st.fct, b>>}] : t \in {filled[Len(waiting)]}} : TRUE

-----------------------------------------------------------------------------
(* Visiting an expression (lines 115-186): its operand, the state after.   *)
RECURSIVE Visit(_, _)

VisitAll(st, es) ==
  LET visited[n \in 0 .. Len(es)] ==
        IF n = 0 THEN [st |-> st, os |-> << >>]
        ELSE CHOOSE next \in {[st |-> got.st, os |-> Append(visited[n - 1].os, got.o)]
                                : got \in {Visit(visited[n - 1].st, es[n])}} : TRUE
  IN  visited[Len(es)]

OpcodeFor == ("+" :> "ADD") @@ ("*" :> "MUL") @@ ("<" :> "LT") @@ ("<=" :> "LE") @@ (">" :> "GT")
               @@ (">=" :> "GE") @@ ("==" :> "EQ") @@ ("!=" :> "NE")

Visit(st, e) ==
  CASE e.e = "num" -> [st |-> st, o |-> LITERAL(e.n)]
    [] e.e = "var" -> GetLKO(st, e.x, st.block)
    [] e.e = "bin" ->
         LET got == VisitAll(st, <<e.l, e.r>>)
             res == REGISTER(NewValue(got.st))
         IN  [st |-> AddInstr(AddValue(got.st), st.block,
                              Instr(OpcodeFor[e.op], res, got.os[1], got.os[2])),
              o |-> res]
    [] e.e = "call" ->
         LET got == VisitAll(st, e.args)
             void == e.g \in Void
             res == IF void THEN NONE ELSE REGISTER(NewValue(got.st))
         IN  [st |-> AddInstr(IF void THEN got.st ELSE AddValue(got.st), st.block,
                              CallInstr(res, FUNCTION(e.g), got.os)),
              o |-> res]

-----------------------------------------------------------------------------
At(kind) == ~done /\ pc <= Len(program) /\ program[pc].s = kind
stmt == program[pc]

Enclosing == open[Len(open)]
Leaves(kind) == At("end") /\ open # << >> /\ Enclosing.kind = kind

Step == pc' = pc + 1 /\ UNCHANGED <<program, done>>

(* visitVarDecl and visitAssign (lines 145-164).                           *)
Assign ==
  /\ At("assign")
  /\ \E got \in {Visit(State, stmt.e)} : Becomes(SetLKO(got.st, stmt.x, current_block, got.o))
  /\ Step
  /\ UNCHANGED open

(* visitExprStmt (lines 240-242).                                          *)
ExprStmt ==
  /\ At("do")
  /\ \E got \in {Visit(State, stmt.e)} : Becomes(got.st)
  /\ Step
  /\ UNCHANGED open

(* visitReturnStmt (lines 192-197).  A block keeps its return apart and is *)
(* walked with it last (lines 339-349), so only the end of the region, or  *)
(* a statement of the unit itself, comes after a return.                   *)
ReturnStmt ==
  /\ At("return")
  /\ \E got \in {Visit(State, stmt.e)} : Becomes(AddInstr(got.st, current_block, RetInstr(got.o)))
  /\ Step
  /\ UNCHANGED open

(* A new block with one predecessor, all it will ever have.                *)
SealedBlock(st, p) == SealBlock(AddPred(AddBlock(st), LastBlock(st) + 1, p), LastBlock(st) + 1)

(* visitIfStmt up to its then branch (lines 245-275): the blocks then,     *)
(* join and, when there is one, else are made in this order.               *)
EnterIf ==
  /\ At("if")
  /\ \E got \in {Visit(State, stmt.e)} :
       LET then == LastBlock(got.st) + 1
           join == then + 1
           st1 == AddBlock(SealedBlock(got.st, current_block))
           other == IF stmt.hasElse THEN join + 1 ELSE join
           st2 == IF stmt.hasElse THEN SealedBlock(st1, current_block) ELSE AddPred(st1, join, current_block)
       IN  /\ Becomes(MoveTo(AddInstr(st2, current_block, CbrInstr(got.o, then, other)), then))
           /\ open' = Append(open, [kind |-> "if", join |-> join, else |-> other])
  /\ Step

(* A branch has ended wherever the walk is: it goes on to `join`.          *)
BranchTo(st, join) == AddInstr(AddPred(st, join, st.block), st.block, BrInstr(join))

(* Lines 277-286.                                                          *)
EnterElse ==
  /\ At("else")
  /\ Becomes(MoveTo(BranchTo(State, Enclosing.join), Enclosing.else))
  /\ Step
  /\ UNCHANGED open

(* Lines 277-297.                                                          *)
LeaveIf ==
  /\ Leaves("if")
  /\ Becomes(MoveTo(SealBlock(BranchTo(State, Enclosing.join), Enclosing.join), Enclosing.join))
  /\ open' = Front(open)
  /\ Step

(* visitWhileStmt up to its body (lines 299-324): the condition is visited *)
(* in a block that is not sealed.                                          *)
EnterWhile ==
  /\ At("while")
  /\ LET cond == LastBlock(State) + 1
         body == cond + 1
         join == cond + 2
         st1 == MoveTo(BranchTo(AddBlock(State), cond), cond)
     IN  \E got \in {Visit(st1, stmt.e)} :
           /\ LET st2 == SealedBlock(SealedBlock(got.st, cond), cond)
              IN  Becomes(MoveTo(AddInstr(st2, cond, CbrInstr(got.o, body, join)), body))
           /\ open' = Append(open, [kind |-> "while", cond |-> cond, join |-> join])
  /\ Step

(* Lines 326-336.                                                          *)
LeaveUnsealed ==
  /\ Leaves("while")
  /\ Becomes(MoveTo(SealsOnly(BranchTo(State, Enclosing.cond), Enclosing.cond), Enclosing.join))
  /\ open' = Front(open)
  /\ Step
SealsBeforeTheBackEdge ==
  /\ Leaves("while")
  /\ Becomes(MoveTo(BranchTo(SealBlock(State, Enclosing.cond), Enclosing.cond), Enclosing.join))
  /\ open' = Front(open)
  /\ Step
LeaveWhile ==
  /\ Leaves("while")
  /\ Becomes(MoveTo(SealBlock(BranchTo(State, Enclosing.cond), Enclosing.cond), Enclosing.join))
  /\ open' = Front(open)
  /\ Step

(* visitFctDecl up to the body (lines 199-219).                            *)
EnterFunction ==
  /\ At("function")
  /\ LET g == FctOf(stmt.x)
         st1 == SealBlock([State EXCEPT !.fct = g, !.block = 1], 1)
         params == stmt.params
     IN  Becomes([st1 EXCEPT !.lko =
                    [key \in {<<params[k], 1>> : k \in DOMAIN params} |->
                       REGISTER(CHOOSE k \in DOMAIN params : params[k] = key[1])] @@ @])
  /\ open' = Append(open, [kind |-> "function", fct |-> current_fct, block |-> current_block])
  /\ Step

EndsWithTerminator(b) == b.instrs # << >> /\ b.instrs[Len(b.instrs)].op \in Terminators

(* Lines 223-234.                                                          *)
LeaveFunction ==
  /\ Leaves("function")
  /\ LET st1 == IF EndsWithTerminator(BlockOf(State, current_block)) THEN State
                ELSE AddInstr(State, current_block, RetInstr(LITERAL(0)))
     IN  Becomes([st1 EXCEPT !.fct = Enclosing.fct, !.block = Enclosing.block])
  /\ open' = Front(open)
  /\ Step

(* The end of run(): main returns 0 (lines 430-431).                       *)
Finish ==
  /\ ~done
  /\ pc = Len(program) + 1
  /\ Becomes(AddInstr(State, current_block, RetInstr(LITERAL(0))))
  /\ done' = TRUE
  /\ UNCHANGED <<program, pc, open>>

Walk ==
  \/ Assign \/ ExprStmt \/ ReturnStmt
  \/ EnterIf \/ EnterElse \/ LeaveIf
  \/ EnterWhile \/ LeaveWhile
  \/ EnterFunction \/ LeaveFunction
  \/ Finish

=============================================================================

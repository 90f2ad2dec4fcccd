# Verification of blast-core

`blast-core` is a compiler for a small typed language. `blastc` (src/core/blastc.cpp)
reads one source file and runs a pipeline of passes, in one thread, from text to
x86-64 assembly; it then calls the system's C compiler to assemble and link the
result, and runs it. There is no concurrency and nothing is persisted. What makes
the program hard is that each pass is a long sequence of small updates to shared
structures (graphs, maps keyed by ids, sets that a fixpoint grows), and that an
error in one of them shows only in the *meaning* of the code that comes out. The
project is therefore built around two questions: does each pass keep its
structures consistent at every step, and does the code it returns, when it is run,
do what the code it was given does?

## 1. Inventory

### The passes

| Component | Source | State it keeps | Operations |
|---|---|---|---|
| Automata | core/Automata.hpp, RangeAutomata.hpp | states, transitions, accepting tokens | union, concatenation, `+`, `*`, `~`, subset construction |
| Lexer `Tokenizer` | core/lexer | rules compiled once, position in the text | `runMaximalMunch`, `process` |
| Parser `SimpleParser` | core/parser | token position, parse stack, operator stack, next node id | one method per statement, and an operator-precedence loop |
| AST | core/parser/Ast.hpp | nodes, numbered densely | `dispatch` to a visitor |
| Scopes and context | core/context/Scope, ASTContext | tree of scopes, symbols, side tables from node ids to symbols, scopes, types | `declare`, `lookup`, `setNode*` |
| `ScopeResolver`, `TypeResolver` | core/context/Resolver | current scope, current function, result type | one visit per node |
| `SSAIR` | core/ir/IR | functions, current function and block, last known operands, waiting phis, sealed blocks | one visit per node, `sealBlock`, `getLKO`, `fillPhi` |
| `resolveCriticalEdges` | core/ir/IR.cpp:442-544 | branches, phis, predecessor and successor lists | find, split one edge, fill lists |
| `X86::lower` | core/codegen/X86.cpp:14-433 | machine functions, virtual registers, comparisons by value | one block after the other in reverse postorder |
| Register table | core/codegen/X86.cpp:435-813 | registers, sub-registers, families | `addRegister`, `addSubreg` |
| `RegisterAllocator` | core/codegen/X86.cpp:816-1367 | liveness sets, interference graph, domains, colours, spills, frame | analyse, build, colour, rewrite and restart, or apply |
| Runtime builtins | core/codegen/X86builtins.cpp | none | one hand-written function |
| Dump | core/utils/Dump.cpp | none | text of the AST, the IR and the assembly; `emit` also writes the epilogues |
| Driver | core/blastc.cpp | none | calls the passes, writes the files, links, runs |

### How they interact

Each pass takes what the previous one returns and adds to it. The parser gives
nodes dense ids, and the context's side tables (symbol, scope and type of a node)
are keyed by them. `SSAIR` keys its own tables by a *block id* or by *symbol and
block id*; block ids and value ids begin again in each function. `X86` keeps a map
from value ids to virtual registers and one from value ids to comparisons for a
whole module. The allocator works on one machine function in place; when it
spills, it rewrites the code and calls itself again. `emit` puts the allocator's
epilogue in front of each RET. A pass reports an error by an exception that the
driver turns into exit status 1.

### What is hard

* Fixpoints and work lists: liveness must go on until nothing changes; colouring
  treats each node once, by one of three paths, and each choice narrows later ones.
* Restarting: spilling invalidates liveness, interference and colours.
* Structures that must stay in step: a branch, the predecessors of its target, the
  phis of its target; pushed registers and frame size; a call's arguments, the
  padding of the stack and what is given back.
* Ids that are unique in one function, in tables that outlive it.
* Stacks shared by functions that call each other, whose entries are cast unchecked.
* Orders settled by an unstable sort or a hash table.
* Sequential code for simultaneous things: phis, argument passing.
* Code that nobody expects: blocks with a terminator in the middle, loops that return.

PROJECT.json lists the hazards, each at its line, with the properties that cover it.

### What makes each component correct

* Liveness: at the end, a variable is in a set exactly if it is live there.
* Colouring: interfering variables never share a register family; a variable gets
  a register of its domain; nothing is spilled that had a register left.
* Allocation as a whole: the code that comes out does what the code with virtual
  registers did, and keeps the calling convention.
* Critical edges: none is left, and the function does what it did.
* Lowering: the machine code makes the same calls, tests and returns as the IR.
* SSA construction: a graph in SSA form that does what the source says.
* Lexer: an automaton accepts the language of its expression; a text is cut at the
  longest match, nothing of it is lost, and the order of equal rules never shows.
* Parser: the tree the grammar and the precedences call for; unchecked casts of popped
  nodes find nodes of the class they name (they do but for definitions in a list, see below).
* Names and types: names resolved to the innermost declaration; signatures that all paths
  of a function agree with.
* Register table: ids are indices, and aliasing is seen from both sides.

## 2. Modules

Each module is named after the part of the code it models; `...Proofs` holds
theorems about it, `MC...` the instances TLC checks. Definitions keep the source's
names (`live_in`, `m_lko`, `m_current_scope`). Identifiers such as `StaysInside`
that stand beside a definition and that nothing uses are deliberately wrong
variants of it: PROJECT.json lists them under "mutants", each with the property
that fails when it takes the definition's place.

```
   Automata -- Tokenizer -- ScannedText    text to tokens
   Expressions -- Statements -- ParsedUnit tokens to tree       (with ParsedExpressions)
   Scopes -- Types -- ResolvedUnit         names and types
   SSAConstruction -- SSACode              tree to IR           (over IR)
   CriticalEdges                           IR to IR             (over IR)
   RegisterTable -- MachineCode            the target
   Lowering -- LoweredCode                 IR to machine code   (over IR, MachineCode, Cpu)
   Liveness, Coloring -- RegisterAllocator -- AllocatedCode     (over MachineCode, Cpu)
   Assignment                              what Coloring implements
```

The same scheme appears in every pass: a module that models it step by step
(Tokenizer, Statements, SSAConstruction, Lowering, RegisterAllocator), and one above it that
states what the pass promises by *another* definition of the result, one that
uses none of the pass's data structures (ScannedText, ParsedUnit, SSACode, LoweredCode,
AllocatedCode). Two are stated as refinements: Coloring implements Assignment, and
Statements is a caller that Expressions allows. For passes that produce code, the promise is about execution: the
input and the output are run side by side along each path, and must show the same
calls, arguments, tested conditions and returned value. Values are symbolic
(`<<"init", r>>`, `<<"ret", k>>`, `<<"add", x, y>>`), so two runs agree only if
they compute the same term, not by accident of small numbers.

### Liveness, Coloring, RegisterAllocator

* **Liveness** (X86.cpp:937-986). State: `live_in`, `live_out` per instruction,
  `changed`, and `cursor`, the instruction the sweep is at. `Update` and `Skip` are
  the body of the loop for one instruction, backwards; `NextSweep` is the test at
  the end of a sweep. What liveness *is* is defined without a fixpoint: `v` is live
  before `i` if `i` is in every set closed under "reads v, or does not write v and
  a successor is in the set".
* **Coloring** (X86.cpp:988-1178). State: interference graph, domains, K, colours,
  spilled registers, callee-saved registers. `Precolor` colours the fixed nodes and
  narrows the domains of their neighbours. Then one action per node: `Color`
  (`Selected` is the choice among the low-degree nodes, `Picks` the biased choice of
  the colour), `SpillColorless`, `SpillHighestDegree`. The code walks hash maps, so
  the order in which equal candidates come is left open.
* **Assignment** is the abstract specification of Coloring: registers are decided one
  at a time and for good, each with a register of its *original* domain that fits the
  colours given before, or spilled. It has no graph, no shrinking domains and no order.
  `Assigning` in Coloring is the mapping: `assigned` is `colors`, the rest has its name.
* **RegisterAllocator** (X86.cpp:816-1367). Composes the two by INSTANCE: `Analyse`,
  `BuildGraph`, `ColorRegisters` (one step of Coloring), then `Rewrite` (spill code,
  and another round, as the recursive call does) or `Apply` (colours for virtual
  registers, moves to self dropped, frame size, prologue, epilogue).
* **RegisterTable** (X86.hpp:24-60, X86.cpp:365-433 and 435-813) is the table the
  constructor builds, by its groups (RAX, EAX, AX, AH, AL for one): ids, names, links
  from `addSubreg`, `family`, and the domain `valueVreg` gives a value. It is data, so
  `TableAssumption` states what must hold of it: ids are indices, the reserved room is
  kept (else the names, views into the vector, would dangle), links agree.
* **MachineCode** has operands, instructions, what each reads and writes, and the
  register classes, taken from the table; `NamesAssumption` says that each name the
  code generator uses finds the id MachineCode writes for it. **Cpu** is an external
  model of the processor and the calling convention: a call destroys the caller-saved
  registers, and its arguments are what RDI, RSI, ... and the stack hold.
* **AllocatedCode** runs the function before and after allocation along the same path.

### IR, CriticalEdges

**IR** has operands, instructions, phis, blocks and functions (IR.hpp), and runs them.
**CriticalEdges** (IR.cpp:442-544): `FindCriticalEdges` collects the edges,
`SplitEdge` splits the first one left (new block, retargeted branch, phis renamed),
`FillLists` rebuilds predecessors and successors; `Reject` is the IRError on a
block without a terminator. `SameControlFlow` maps each new block back to the edge
it stands on and compares with the function as it was.

### Lowering

X86.cpp:14-433. `StartFunction` (reverse postorder, parameters), `LowerBlock` (all
instructions of a block, the copies for the phis of its successors before the
terminators), `FinishFunction`, `Finish`. Every value is an integer, so `CallSequence` passes
every argument; the code leaves out those of a type none or void (X86.cpp:272-304), which are
no operands of this IR (`IsInstruction`). `m_cmps`, the map from value numbers to
comparisons, is not reset between functions, as in the code. A CBR whose condition
is no comparison it knows leads to "rejected" (the CodegenError).

### SSAConstruction

IR.cpp:1-440. A program is a sequence of statements and of the closing marks `else` and `end`; one
action per visit method, split where a visit method visits a body (`EnterIf`,
`EnterElse`, `LeaveIf`; `EnterWhile`, `LeaveWhile`; `EnterFunction`,
`LeaveFunction`), and `Finish` for `run`. The state that the C++ object keeps
(functions, current function and block, `m_lko`, `m_incomplete`, sealed blocks) is
one record `st` inside the helpers, because `getLKO`, `fillPhi` and `sealBlock`
recurse through each other. **SSACode** defines what the source does (an
interpreter of the statement sequence), runs source and graph along each path, and
states SSA form by paths: no path reaches a use without its definition.

### Automata, Tokenizer

Automata.hpp, RangeAutomata.hpp, Lexer.cpp. **Automata** has the operators as functions:
`Lift` (a deterministic automaton as a nondeterministic one), `Union`, `Concat`, `Plus`,
`Star`, `Optional`, and `Deterministic`, the subset construction. A range of characters
is the set of them, one symbol to the automaton, as in the code. **Tokenizer** first
builds automata from those on its workbench, one operator per action, and makes rules
of them (`AddRule` leaves rules of one priority in any order, as std::sort may), or
takes the 36 rules of the language; then `Cut` is one turn of the loop of `process`,
with the location it gives a token. An automaton carries the expression it was built
from, for the properties only. **ScannedText** defines the language of an expression
and the longest match without automata.

### Expressions, Statements

**Expressions** (Parser.cpp:177-270, 295-333): one activation of `parseExpr` is a record in `calls`
(what it is for, its operator floor `base`, its arguments so far); `m_parse_stack` and
`m_operator_stack` are shared by all of them, as in the code. Tokens carry no
text: `x` stands for identifiers, `1` for literals. Its caller may do anything outside
expressions (`Caller`). **Statements** (29-172, 273-293, 335-453) is that caller:
`open` holds a frame for each function being run, with the nodes in its locals. A function
that returns pushes its node on `m_parse_stack` (`Return`) and the one below pops it (`Takes`,
`TakesParameter`, `BuildAST`) and keeps it: `Keep` knows that a block keeps its return apart.
So a node more or less, or of another kind, can be said of statements as of operands.
`EndStatement` wraps an expression and a declaration in an ExprStmt; a function and a module
are left as they are (51-58). `Wanted` is the class (`Exprs`, `Stmts`: Ast.hpp) that the next pop casts to.
**ParsedExpressions** defines the tree by splitting at the operator that
binds least, with no stack; **ParsedUnit** defines the grammar of statements by
recursion over the tokens, with the trees of the two kinds of text for which the parser
asks for less than its comments say (`EndOfIf`, `InPlaceOfBracket`; see the disagreements).

### Scopes, Types

context/Scope, ASTContext, Resolver. A unit is the sequence of its nodes in the
order in which the resolvers finish them, with a node before a scope is opened and
one after it is left; `pos` walks it. `UnitsAssumption` says which sequences are units: scopes are closed as they
were opened, a callee and the base of a member are expressions, parameters follow
their function, and the nodes make a tree (`IsTree`, by a stack of nodes that wait for
the one they are part of). An `if` that the parser left without a block is a node of its own
kind (`BAREIF`). **Scopes** is ScopeResolver: `declare`,
`lookup`, the symbol and method tables, one action per visit method, and the
current scope, saved and put back. **Types** is TypeResolver, which runs after it
on the same unit: the type of each node, the return type joined over the
paths of a function, the signature of each method, every exception. The parameters of a
function are steps of their own (`TypeParam`), since each has its type before the next
annotation is looked at: `f(a :: Int, b :: a)` is accepted.
**ResolvedUnit** defines lexical scoping from the text of a unit alone: regions between an
opening and a closing node (`Around`), what a region declares (`Declares`), what a name
denotes (`Denotation`), with no scope and no symbol; and compares with the tables.

## 3. Runs

All runs use `CHECK_DEADLOCK FALSE`: a compiler pass ends, and so do its behaviours.

| Run | Question | Instance | Why it is enough |
|---|---|---|---|
| `liveness` | Does the sweep end with exactly the live registers, from below, growing? | every control flow over 3 instructions with up to 2 successors and every use of 1 register; loop, if/else and a loop with a branch over 4 instructions and 2 registers | liveness of different registers is independent; loops entered in the middle, self loops and unreachable code are among the flows |
| `coloring` | Is each step one of Assignment: no shared family, no decision taken back? Is a register spilled that had one left? | every graph over 4 virtual registers, 4 sorts of domain, with or without a copy; RAX, EAX, RBX, EBX, RSI | two registers with an alias each and one without: families, class limits, and a domain that runs out |
| `allocated_code` | Does the code after allocation do what it did before, restore its caller and keep the stack aligned? | 8 functions written after lowered code, and every pair of operations, and every loop around one, over few registers | few registers give the pressure of a large function: functions that spill, spill in a loop, spill across calls, or need several rounds |
| `critical_edges` | Is every critical edge split, and the function otherwise the same? | every CFG over 4 blocks, both targets of a branch equal included, and a block with no terminator | two critical edges can leave one block, enter one block, or be parallel, in every combination |
| `lowered_code` | Does the machine code do what the IR does, over domains that hide no alias? | loops and diamonds with every operation, calls with 5 to 9 arguments, many parameters, returns in a loop, phis whose copies are independent | both sides of the register/stack boundary and both parities of stack arguments |
| `ssa_code` | Is the graph in SSA form, and does it do what the source does? | every nesting of two regions (and some of three) over 2 variables, in main and in a function, with early returns | phis that wait for phis need two nested loops; a third level has shown nothing new |
| `parsed_unit` | Is the tree the one the grammar and the precedences call for? Is only what is no unit rejected? Do unchecked casts hold, but for definitions in a list? | every statement of up to five tokens of an alphabet of expressions; every chain of up to 4 operators with a group, a call or a member placed anywhere in it; every unit of up to three tokens; every unit one token edit (removed, inserted, replaced, exchanged) away from one of five programs that between them nest every kind of statement in every other | each precedence meets each other on both sides of each floor; each function calls each it can call, and each throw is reached |
| `scanned_text` | Does an automaton accept the language of its expression? Is a text cut at the longest match, with nothing lost? | every sequence of up to 5 operators over two ranges, tried on every word of up to 4 characters; up to 2 rules of them on texts of 3; the language's rules in two orders on texts of up to 3 fragments | every operator is applied to the result of every other; the fragments meet every kind of rule, cut short, and newlines in literals |
| `resolved_unit` | Is each name bound as lexical scoping says, is each unit that breaks a rule refused, are signatures true? | what declares `a` and what reads it, in and around one region or two of each kind; functions returning from several places, `if`s without a block among them, annotated and not; parameters annotated by earlier ones; methods of one name; assignments between types | thousands of units are accepted, refused for a name and refused for a type, so that each property has cases on both sides |

Bounds: `MaxRounds` (4) limits the rounds of spilling; `MaxBlocks` (6) the blocks run
in AllocatedCode and LoweredCode, `MaxBranches` (5) the conditions answered in
SSACode: a loop of the instances is entered twice and left, which is what a value
carried by a phi needs to be wrong. The other instances are finite by their inputs.

### Disagreements the runs show

Three runs are expected to fail. Each checks one sentence of the source against what
the code does.

* **`allocated_code_reload`: arguments overwritten between their moves.** A `CALL`
  reads none of its argument registers (X86.cpp:927-936), so after the move into RDI
  nothing keeps RDI. In a function with six values live across a call `h(b, a)`, `a`
  is spilled, and its reload before the second move may be given RDI: the code calls
  `h(a, a)`.
* **`lowered_code_swap`: phis that read one another.** The copies for the phis of a
  block are moves in sequence (X86.cpp:120-135). Two variables that change places on
  each turn of a loop are both given the same value.
* **`lowered_code_flags`: flags changed before the jump.** `c = a < b; d = a + b; if (c)`
  is lowered to CMP, ADD, JL: the jump reads the flags of the ADD.

### Disagreements the passing runs state

In four places the parser does not do what a comment or a test says, and the program goes on
all the same. There the properties of `parsed_unit` say what the code does, exactly:

* **Definitions popped as statements.** "The cast is unchecked: the caller is the one that
  pushed the node, so it already knows what is on top" (Parser.hpp:47-48). A FctDecl or
  ModuleDecl is an Expr (Ast.hpp:291, 326, 353) that `parseStmt` does not wrap, and the list it
  is in pops it with `popAs<Stmt>()` (Parser.cpp:164, 289, 443): a static_cast to an unrelated
  class. With the classes as they are the pointer comes out unchanged, and the model goes on
  from there. `OnlyDefinitionsMiscast`, checked and proved, says that no other cast fails.
* **A declaration as a statement.** AstTest.cpp:65-72 expects `(unit (var-decl ...))`;
  Parser.cpp:64-66 makes an ExprStmt of it, as its comment says, which Dump.cpp:54-56 prints as
  `(expr-stmt (var-decl ...))`. `RightUnit` takes the code's tree, which is also what Scopes
  and SSAConstruction walk over.
* **An `if` with no branch.** One whose condition no bracket follows gets two null branches
  (Parser.cpp:117); "elseBranch may be null." (Ast.hpp:231) and Dump.cpp:108-109 let only the else branch be absent.
  `EndOfIf` says where such an `if` ends, and Types goes on with it (`TypeBareIf`).
* **A bracket that is none.** `parseBlock` is to "Consume opening bracket" (157-158), and takes the
  token in front of it; after `else` nobody has looked, so `else if` loses its `if`. In the
  grammar of ParsedUnit any token after `else` is a bracket (`InPlaceOfBracket`).

### What the runs leave out

The passing runs leave out inputs on which the behaviour above, or one like it,
would show:

* phis that swap and conditions separated from their branch: see the runs above;
* functions that read a variable of an enclosing level: `m_lko` is keyed by symbol and
  block id, and block ids start again in each function (IR.cpp:105), so such a function
  finds a value number of *another function's* block;
* a loop that returns a variable it has changed: the copies for the phis go in front
  of *every* terminator of a block (X86.cpp:122), so also of the RET, and overwrite what it returns;
* conditions that are no comparison, when an earlier function compared a value of the
  same number (X86.cpp:194, `m_cmps`);
* functions declared inside a loop: the phis that wait in the loop are taken by the
  block of the function with the same id (IR.cpp:43);
* domains of four registers, with which spilling can go on for ever: what a rewritten
  instruction needs is again more than there is;
* two parameters of one name: `declare` gives no symbol for the second, and
  TypeResolver dereferences it (Resolver.cpp:164, 359), so that the unit has no
  outcome (`UnitsAssumption` names this exclusion);
* float, boolean and string literals, which only choose other types.

In a block a second return replaces the first, and its place among the statements is lost
(Parser.cpp:160-165); both are part of `RightUnit`.

A path that has no type -- a return of an expression without one, an `if` without a block -- leaves
the body without one, and an untyped body is not compared with an annotation (Resolver.cpp:365, 374). So
`func f() :: Nothing { if a return 1; }` is accepted. `SoundSignatures` says that this is the
only excuse: a function that is not annotated and has such a path is refused, and where all paths
have types all agree.

Two more things are modelled as they are and need no run. A variable is declared before
its initializer is bound, so `a :: Int = a` reads itself (Resolver.cpp:32). The type
pass throws when two returned types disagree where Resolver.hpp:43-44 speaks of a
null type, and it does not compare an initializer with its declaration.

## 4. Fairness

Liveness, Coloring and AllocatedCode assume `WF_vars(Next)`: a pass is one
sequential program in one thread, and it goes on as long as it has something to do.
No choice is made fair: which of two equal candidates comes first is settled by hash
maps, and `Terminates` holds whichever way. The other modules have safety properties only.

## 5. Proofs

TLAPS checks these theorems for every value of the constants. The properties are seldom
inductive; the last column is what has to be added.

| Theorems | Of | Invariant, and why it is needed |
|---|---|---|
| `TypeCorrect`, `LivenessNotOverstated`, `LivenessExact`, `LivenessMonotone` | Liveness | `LiveInv`: a stored set never exceeds the right-hand side of its equation, nor liveness; and while a sweep has changed nothing, what it has passed satisfies its equations. That is why stopping after a quiet sweep is right. |
| `ColoringTypeCorrect`, `ColoringSound`, `ColoringRespectsDomains`, `ColoringComplete`, `CalleeSavedExact`, `ColoringImplementsAssignment` | Coloring | `KeptAway`: no register still in the graph has in its domain an alias of a colour given to a neighbour. The loop only looks at the domain, so `NoFamilyClash` says nothing of the next colour. |
| `NoSpillWithoutNeed` | Coloring | each choice takes at most one register from a domain and one neighbour from the graph, in step. |
| `EdgesTypeCorrect`, `CriticalEdgesSplit`, `GraphStaysConsistent`, `ControlFlowKept` | CriticalEdges | `AllFound`: each critical edge there is now is one still to be split; splitting exchanges one element of the sets of its ends for another. |
| `StackDisciplineAlways` | LoweredCode | `RunInv`: machine and IR agree, RSP and RBP where the prologue put them; `LoweringInv`: the code of each lowered block keeps that, from any states that agree. |
| `DomainsNeverHideAliases`, `LoweredCodeIsLowered` | LoweredCode | `ShapeInv`: names are within the registers made so far, and no room at RSP is left at the end of a block. |
| `FrameKeeps`, `CallsAlwaysAligned`, `CallerAlwaysRestored` | AllocatedCode | `FrameInv`: code in hand has the shape lowering gave it with what rewriting adds (`IsCode`), and code of that shape, run, keeps the frame. |
| `ExpressionsTypeCorrect`, `OperandsNeverUnderflow`, `FloorRespected` | Expressions, any caller | the two stacks in step above each floor, activation by activation: a fold in a nested one must leave its caller's operands. |
| `UnitCallsExpressions`, `UnitTypeCorrect`, `UnitOperandsMatch`, `UnitFloorRespected` | Statements | none: each step is one of Expressions. |
| `OtherCastsNeedNoCheck` | Statements | `UnitInv`: each frame was called where the one below has the parts to call it (`Stacked`), a node left is what its caller called for (`Delivered`), and below it are only Exprs (`Trees`). A cast is decided several calls before it happens, by who called whom. |
| `RefusalsAreExact`, `NamesResolveToInnermost` | Scopes | `Walk`: the open regions are those of the saved scopes, scopes have the names their regions declare so far. |
| `ResolvedTypes`, `SignaturesAreSound` | Types | `TypeWalk`: the results on the stack are those of the nodes that wait; a block's type is that of the returns joined into it, and none exactly if one of them has none (`Agrees`); each return of an open function is in some block on the stack. Between a function and its body the walk is at one of its parameters (`AmongParams`). |
| `AddSubregKeepsLinks`, `FamiliesFitColoring` | the register table | |

They rest on these assumptions, which TLC evaluates on the instances:

* `FlowsAssumption`: successors are instructions, uses and writes are registers.
* `RegAssumption`, `FamilyAssumption`: registers are positive numbers of which one is the
  largest, and the relation of being in one family is reflexive and symmetric (not that
  it is transitive: it is not). `FamiliesFitColoring` discharges the second for the table of the x86 target,
  from `TableAssumption`, which holds no constant: TLC evaluates it once for all.
* `ProblemsAssumption`: the nodes are finitely many, interference is symmetric and
  irreflexive; a fixed register has a domain of one register. Other domains may be
  empty, and graphs of any size.
* `FlatFamilies`, a hypothesis of `NoSpillWithoutNeed` only: among the registers that
  domains hold, being in one family is transitive. The domains of the
  target hold 64-bit registers, which are in different families (`DomainsNeverHideAliases`
  proves this of the code that Lowering makes). Without it a neighbour's colour can cost a
  domain two registers, and the degree that the allocator compares with K says too little.
* `FunctionsAssumption`: the functions given to the critical-edge pass are well formed
  (the form of a block is `IsBlock`) and their predecessor lists agree with their
  branches, which `GraphReady` checks of the functions SSAIR builds.
* `UnitsAssumption`: a unit is the nodes of a syntax tree in the order of the walk. Scopes are closed
  as they were opened, parameters stand only after their function, each with its annotation,
  and have different names, and each node finds its parts in front of it (`IsTree`). An `if` may lack its block.
* `InputsAssumption`: the input is a finite sequence of tokens.
* `ModulesAssumption`: the functions given to Lowering are well-formed IR (`IsLowerable`):
  consistent graphs as above, a result where an instruction has one, a jump (BR, CBR) only
  as the last instruction of its block; a RET may stand anywhere, as the SSA pass leaves it.
  Registers named are values of the function (`newValue` is their only source; `ssa_code`
  checks `DefinedBeforeUsed`, which says more, of what SSAIR makes).
* `GeneralAssumption`: of the registers the code generator names, RSP and RBP are reserved
  and no value may get them; RAX and the six argument registers are given out, and are
  among those a call destroys. With `TableAssumption` it speaks of the table alone and has
  no constant.
* `TargetAssumption` (RegisterAllocator): the registers are those of MachineCode, none of
  them part of another.
* `FunctionsAssumption` (RegisterAllocator): the functions given to the allocator have the
  form lowering writes (`IsLowered` in MachineCode: results go to virtual registers, stack
  arguments into room that was made for them and that is given back before the block ends,
  calls are made with a multiple of 16 bytes there, a pinned register is caller-saved).
  `LoweredCodeIsLowered` proves that of every function lowering makes, so what is assumed
  here is only what `ModulesAssumption` says of the IR. The hand-written builtins, which go
  through the allocator too, are outside it. TLC evaluates it on the functions of
  `allocated_code`, which are written after lowered code.

The arguments of ResolvedUnitProofs, LoweredCodeProofs and AllocatedCodeProofs are about finite data of any length
(what the regions around a place are, what a chain of members denotes, how far a lookup goes,
what a list of instructions does, where a walk of a graph ends). They take the least place at which the
claim fails (`LeastNumber`, from the library's `WFMin`) and refute it, which
needs no induction theorem; and the functions concerned are recursive *functions*,
used through the equation that defines them. In the second walk of ResolvedUnit the stack of
waiting nodes is such a function. The invariants of LoweredCodeProofs and
AllocatedCodeProofs cannot be checked by TLC first, as `Ends` and `Keeps` speak of all
states, and `Framed` of an order of registers that has to be found; what they are for
is checked by `lowered_code` and `allocated_code`.

Model-checked only:

* termination, which is liveness under fairness;
* `SameBehaviour` and `PhisResolved` of LoweredCode: they hold of the modules of the
  instance, not of all (see `lowered_code_swap` and `lowered_code_flags` above);
* `SameBehaviour` of AllocatedCode: it holds of the functions of the instance, not of
  all (see `allocated_code_reload` above);
* the properties of SSACode: `getLKO` and the passes around it, and the interpreter of the
  source, are recursive operators;
* the trees of ParsedExpressions and ParsedUnit, and the lexer: the reference
  definitions, and the automata themselves, are recursive operators, which hide a module from
  the SMT backend.

## 6. What is not modelled, and why

* `MetaLexer` (Lexer.hpp:26-93): its `process` has no definition.
* Node ids and locations of the tree, integer literals too large for `std::stoll`.
* Text output (dump, assembly syntax), the driver, `blast_print_int`, tests, build files:
  input and output, layout, or not part of the program.

## 7. Plan

The order was: what a wrong step ruins most silently first (allocation, then the
passes that feed it), the front end last.

Done: Liveness, Coloring, RegisterAllocator with AllocatedCode; IR, CriticalEdges;
Lowering with LoweredCode; SSAConstruction with SSACode; Expressions with
ParsedExpressions; Scopes and Types with ResolvedUnit; the register table; the lexer;
statements with ParsedUnit; Assignment, which Coloring implements; the eight proof modules.

Left, in this order:

1. Proofs: that the allocator's problem satisfies `ProblemsAssumption` and `FlatFamilies`;
   that what SSAIR and the critical-edge pass make satisfies `ModulesAssumption`.
2. Composition of the back end: one program from SSAConstruction through
   CriticalEdges, Lowering and RegisterAllocator, executed at both ends. Each pass is
   now checked against its own input; what the composition would add is that no pass
   gives the next an input its instances leave out.
3. Composition of the front end: the tree of Statements as the unit of Scopes.

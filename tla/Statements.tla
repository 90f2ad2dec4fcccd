----------------------------- MODULE Statements -----------------------------
(***************************************************************************)
(* The statements, declarations and blocks of SimpleParser,                *)
(* core/parser/Parser.cpp lines 29-172, 273-293, 335-387 and 438-453, as   *)
(* the caller of Expressions: each action here is also one of that         *)
(* module's, on the cursor and the stacks both share.                      *)
(*                                                                         *)
(* The functions call each other; each activation is a frame with the      *)
(* nodes it holds in its locals.  A function that returns pushes its node  *)
(* on the parse stack, its kind and those nodes, and the caller pops it.   *)
(* Only a name is not pushed (lines 429-436): who calls parserIdentifier   *)
(* pops it at once.  A name, as an atom, is known by its position.         *)
(***************************************************************************)
EXTENDS Expressions

VARIABLES
  open,   \* the frames of the functions being run, that of the unit first
  root    \* m_root: the tree of the unit, once there is one

unitVars == <<vars, open, root>>

-----------------------------------------------------------------------------
Keywords == {"if", "while", "return", "func", "module"}

Absent == << >>   \* a part that is not there: a null pointer
Name(p) == <<"name", p>>

Frame(is, parts) == [is |-> is, parts |-> parts]
Node(frame) == <<frame.is>> \o frame.parts
With(frame, node) == [frame EXCEPT !.parts = Append(@, node)]

Here == Top(open)
Holds(is, n) == at = "idle" /\ open # << >> /\ Here.is = is /\ Len(Here.parts) = n

Lists == {"unit", "block", "module"}   \* what is made of statements

(* The classes of Ast.hpp: what is an Expr, declarations included, and     *)
(* what is a Stmt.                                                         *)
Exprs == {"atom", "member", "call", "var", "func", "module"} \cup Operators
Stmts == {"expr", "return", "if", "while", "block"}

(* A function at the top returns: its node is pushed, the cursor is at p.  *)
Return(node, p) ==
  /\ open' = Pop(open)
  /\ LeaveNode(node, p)
  /\ UNCHANGED root

Enter(frame, p) == open' = Append(open, frame) /\ MoveTo(p) /\ UNCHANGED root
EnterBlock(p) == Enter(Frame("block", <<Absent>>), p)
Await(frame, p) == open' = Append(open, frame) /\ StartExpression(p) /\ UNCHANGED root
Throw == Refuse /\ UNCHANGED <<open, root>>

UnitInit == Init /\ open = <<Frame("unit", << >>)>> /\ root = Absent

-----------------------------------------------------------------------------
(* What a function does with the node it has called for: a block keeps its *)
(* return apart (lines 160-165), a function its parameters.                *)
MixesReturns(frame, node) ==
  IF frame.is = "func" /\ node[1] = "var"
  THEN [frame EXCEPT !.parts[2] = Append(@, node)] ELSE With(frame, node)
Keep(frame, node) ==
  CASE frame.is = "block" /\ node[1] = "return" -> [frame EXCEPT !.parts[1] = node]
    [] frame.is = "func" /\ node[1] = "var" -> [frame EXCEPT !.parts[2] = Append(@, node)]
    [] OTHER -> With(frame, node)

Takes(p) ==
  /\ TakeNode(p)
  /\ open' = Append(Pop(open), Keep(Here, Top(m_parse_stack)))
  /\ UNCHANGED root

(* A parameter is followed by a comma or by the end of the parameters,     *)
(* where a comma may stand too (lines 348-357).                            *)
AtParameter == at = "done" /\ open # << >> /\ Here.is = "func" /\ Len(Here.parts) = 2

TakesPart == at = "done" /\ open # << >> /\ ~AtParameter /\ Takes(m_pos)
TakesParameter ==
  \/ AtParameter /\ Token = "," /\ Takes(m_pos + 1)
  \/ AtParameter /\ Token = ")" /\ Takes(m_pos)
NoComma == AtParameter /\ Token \notin {",", ")"} /\ Throw

(* buildAST (lines 449-452).                                               *)
BuildAST ==
  /\ at = "done" /\ open = << >>
  /\ TakeNode(m_pos)
  /\ root' = Top(m_parse_stack)
  /\ UNCHANGED open

-----------------------------------------------------------------------------
(* A unit, a block or a module has another statement in front of it        *)
(* (lines 159, 284 and 441).  Only the first and the last look for the end *)
(* of the tokens.                                                          *)
Continues ==
  /\ at = "idle" /\ open # << >>
  /\ Here.is \in Lists
  /\ ~(Token = "}" /\ Here.is \in {"block", "module"})
  /\ ~(Token = "" /\ Here.is \in {"unit", "module"})

EndUnit ==
  /\ at = "idle" /\ open # << >> /\ Here.is = "unit"
  /\ Token = ""
  /\ Return(Node(Here), m_pos)

CloseBlock ==
  /\ at = "idle" /\ open # << >> /\ Here.is \in {"block", "module"}
  /\ Token = "}"
  /\ Return(Node(Here), m_pos + 1)

UnclosedModule == at = "idle" /\ open # << >> /\ Here.is = "module" /\ Token = "" /\ Throw

-----------------------------------------------------------------------------
(* parseStmt (lines 29-74): which statement it is.                         *)
StartsDeclaration == Token = "x" /\ TokenAt(m_pos + 1) = "::"

ExpressionStatement ==
  /\ Continues
  /\ Token \notin Keywords /\ ~StartsDeclaration
  /\ Await(Frame("expr", << >>), m_pos)

DeclarationStatement ==
  /\ Continues
  /\ StartsDeclaration
  /\ Enter(Frame("expr", << >>), m_pos)

ReturnStatement == Continues /\ Token = "return" /\ Await(Frame("return", << >>), m_pos + 1)
IfStatement == Continues /\ Token = "if" /\ Await(Frame("if", << >>), m_pos + 1)
WhileStatement == Continues /\ Token = "while" /\ Await(Frame("while", << >>), m_pos + 1)

Module ==
  /\ Continues /\ Token = "module"
  /\ TokenAt(m_pos + 1) = "x" /\ TokenAt(m_pos + 2) = "{"
  /\ Enter(Frame("module", <<Name(m_pos + 1)>>), m_pos + 3)

Function ==
  /\ Continues /\ Token = "func"
  /\ TokenAt(m_pos + 1) = "x" /\ TokenAt(m_pos + 2) = "("
  /\ Enter(Frame("func", <<Name(m_pos + 1), << >>>>), m_pos + 3)

NoName ==
  /\ Continues
  /\ \/ Token = "module" /\ (TokenAt(m_pos + 1) # "x" \/ TokenAt(m_pos + 2) # "{")
     \/ Token = "func" /\ (TokenAt(m_pos + 1) # "x" \/ TokenAt(m_pos + 2) # "(")
  /\ Throw

(* An expression and a declaration are each wrapped in an ExprStmt (lines  *)
(* 64-66), and, as a return, end at a semicolon.                           *)
AtSemicolon == Holds("expr", 1) \/ Holds("return", 1)

LeavesExpression ==
  AtSemicolon /\ Token = ";" /\ Return(IF Here.is = "expr" THEN Here.parts[1] ELSE Node(Here), m_pos + 1)
EndStatement == AtSemicolon /\ Token = ";" /\ Return(Node(Here), m_pos + 1)
NoSemicolon == AtSemicolon /\ Token # ";" /\ Throw

-----------------------------------------------------------------------------
(* parseVarDecl (lines 81-105), of a statement or a parameter: a name and  *)
(* its type, and perhaps an initializer.                                   *)
InParameters == Holds("func", 2)
AtDeclaration ==
  \/ Holds("expr", 0)
  \/ InParameters /\ Token # ")"
HasType == StartsDeclaration /\ TokenAt(m_pos + 2) = "x"
Declared == Frame("var", <<Name(m_pos), Name(m_pos + 2)>>)

DeclareOnly ==
  /\ AtDeclaration /\ HasType
  /\ TokenAt(m_pos + 3) # "="
  /\ Enter(With(Declared, Absent), m_pos + 3)

DeclareAndInitialize ==
  /\ AtDeclaration /\ HasType
  /\ TokenAt(m_pos + 3) = "="
  /\ Await(Declared, m_pos + 4)

NoDeclaration == AtDeclaration /\ ~HasType /\ Throw

EndDeclaration == Holds("var", 3) /\ Return(Node(Here), m_pos)

(* parserFctDecl (lines 359-387): after the parameters, a type perhaps,    *)
(* and the opening bracket at p.                                           *)
Body(type, p) ==
  IF TokenAt(p) = "{"
  THEN /\ open' = Append(Append(Pop(open), With(Here, type)), Frame("block", <<Absent>>))
       /\ MoveTo(p + 1)
       /\ UNCHANGED root
  ELSE Throw

EndParameters ==
  /\ InParameters /\ Token = ")"
  /\ IF TokenAt(m_pos + 1) # "::" THEN Body(Absent, m_pos + 1)
     ELSE IF TokenAt(m_pos + 2) = "x" THEN Body(Name(m_pos + 2), m_pos + 3)
     ELSE Throw

-----------------------------------------------------------------------------
(* parseIfStmt and parseWhileStmt (lines 108-148).                         *)
OpenBody == (Holds("if", 1) \/ Holds("while", 1)) /\ Token = "{" /\ EnterBlock(m_pos + 1)
NoBody == Holds("while", 1) /\ Token # "{" /\ Throw

(* Without a bracket after its condition, an if has no branch.             *)
IfWithoutBody ==
  /\ Holds("if", 1)
  /\ Token # "{"
  /\ Return(Node(Here) \o <<Absent, Absent>>, m_pos)

(* parseBlock takes the token after else for its bracket, whatever it is;  *)
(* advance stays at the end (Parser.hpp lines 25-31).                      *)
OpenElse ==
  /\ Holds("if", 2)
  /\ Token = "else"
  /\ EnterBlock(IF m_pos + 1 <= Len(tokens) THEN m_pos + 2 ELSE m_pos + 1)

IfWithoutElse ==
  /\ Holds("if", 2)
  /\ Token # "else"
  /\ Return(Node(Here) \o <<Absent>>, m_pos)

EndWithBlock ==
  /\ Holds("if", 3) \/ Holds("while", 2) \/ Holds("func", 4)
  /\ Return(Node(Here), m_pos)

-----------------------------------------------------------------------------
UnitNext ==
  \/ Parse /\ UNCHANGED <<open, root>>
  \/ TakesPart \/ TakesParameter \/ NoComma \/ BuildAST
  \/ EndUnit \/ CloseBlock \/ UnclosedModule
  \/ ExpressionStatement \/ DeclarationStatement
  \/ ReturnStatement \/ IfStatement \/ WhileStatement
  \/ Module \/ Function \/ NoName
  \/ EndStatement \/ NoSemicolon
  \/ DeclareOnly \/ DeclareAndInitialize \/ NoDeclaration \/ EndDeclaration \/ EndParameters
  \/ OpenBody \/ NoBody \/ IfWithoutBody \/ OpenElse \/ IfWithoutElse \/ EndWithBlock

UnitSpec == UnitInit /\ [][UnitNext]_unitVars

-----------------------------------------------------------------------------
(* The kinds of nodes that have the class which the function at the top,   *)
(* or buildAST, casts the node on top of the parse stack to.               *)
Wanted ==
  CASE open = << >> -> {"unit"}
    [] open # << >> /\ Here.is \in Lists -> Stmts
    [] AtParameter -> {"var"}
    [] open # << >> /\ <<Here.is, Len(Here.parts)>> \in
         {<<"if", 1>>, <<"if", 2>>, <<"while", 1>>, <<"func", 3>>} -> {"block"}
    [] OTHER -> Exprs

(* Within an expression every node is popped as an Expr.                   *)
Operands == \A k \in DOMAIN m_parse_stack : m_parse_stack[k][1] \in Exprs

(***************************************************************************)
(* "The cast is unchecked: the caller is the one that pushed the node, so  *)
(* it already knows what is on top" (Parser.hpp lines 47-48).  Whatever    *)
(* functions run inside one another, each is called where the one below    *)
(* pops its node as what it is, with one exception: parseStmt wraps an     *)
(* expression and a declaration of a variable in an ExprStmt, but leaves   *)
(* a FctDecl or a ModuleDecl as it is (lines 51-58), an Expr, and the list *)
(* it is in pops it as a Stmt (lines 164, 289 and 443).                    *)
(***************************************************************************)
OnlyDefinitionsMiscast ==
  /\ at = "done" =>
       \/ Top(m_parse_stack)[1] \in Wanted
       \/ /\ open # << >> /\ Here.is \in Lists
          /\ Top(m_parse_stack)[1] \in {"func", "module"}
  /\ at \in {"operand", "after"} => Operands

=============================================================================

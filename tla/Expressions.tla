----------------------------- MODULE Expressions -----------------------------
(***************************************************************************)
(* The operator-precedence loop of SimpleParser, core/parser/Parser.cpp    *)
(* lines 11-27, 177-270 and 295-333: operands go to the parse stack,       *)
(* operators wait on a second stack until one that binds less tightly      *)
(* folds them.  Both stacks are shared by all the expressions being parsed *)
(* at a time: a group and each argument of a call is an activation of      *)
(* parseExpr of its own, with a floor in the operator stack.  The          *)
(* statements that contain the expressions are the caller here, which may  *)
(* start an expression wherever it likes; Statements says what it does.    *)
(*                                                                         *)
(* A token is its text; a node of the tree is a tuple whose first          *)
(* component names its kind, an atom is known by its position.             *)
(***************************************************************************)
EXTENDS Integers, Sequences

CONSTANT Inputs   \* the token sequences a behaviour may start from

ASSUME InputsAssumption == Inputs \subseteq Seq(STRING)

VARIABLES
  tokens,           \* the tokens, left alone
  m_pos,            \* the token at the cursor
  m_parse_stack,
  m_operator_stack,
  calls,            \* the activations of parseExpr, each with its floor `base`
  at                \* "operand" or "after" one, "done" for the caller to take the node on
                    \* top, "idle" outside expressions, "rejected" by an exception

vars == <<tokens, m_pos, m_parse_stack, m_operator_stack, calls, at>>

-----------------------------------------------------------------------------
Atoms == {"x", "1"}
Comparisons == {"<", ">", "<=", ">=", "==", "!="}
BinOps == Comparisons \cup {"+", "*"}
Operators == BinOps \cup {"="}

BindingPower(op) ==
  CASE op = "*" -> 20 [] op = "+" -> 10 [] op \in Comparisons -> 5 [] op = "=" -> 1

Top(s) == s[Len(s)]
Pop(s) == SubSeq(s, 1, Len(s) - 1)

(* The token at the cursor, or the sentinel past the end (lines 33-37 of   *)
(* Parser.hpp).                                                            *)
TokenAt(p) == IF p <= Len(tokens) THEN tokens[p] ELSE ""
Token == TokenAt(m_pos)

(* An activation of parseExpr: what for, above which operators, and from   *)
(* which token on; that of an argument also has the callee and the         *)
(* arguments parsed before it, the locals of parseCallExpr.                *)
Activation(for, callee, args, from) ==
  [for |-> for, base |-> Len(m_operator_stack), from |-> from, callee |-> callee, args |-> args]

Current == Top(calls)
Base == Current.base

Init ==
  /\ tokens \in Inputs
  /\ m_pos = 1
  /\ m_parse_stack = << >>
  /\ m_operator_stack = << >>
  /\ calls = << >>
  /\ at = "idle"

Reject == at' = "rejected" /\ UNCHANGED <<tokens, m_pos, m_parse_stack, m_operator_stack, calls>>

-----------------------------------------------------------------------------
(* parseOperand (lines 213-244).                                           *)
Atom ==
  /\ at = "operand"
  /\ Token \in Atoms
  /\ m_parse_stack' = Append(m_parse_stack, <<"atom", m_pos>>)
  /\ m_pos' = m_pos + 1
  /\ at' = "after"
  /\ UNCHANGED <<tokens, m_operator_stack, calls>>

OpenGroup ==
  /\ at = "operand"
  /\ Token = "("
  /\ m_pos' = m_pos + 1
  /\ calls' = Append(calls, Activation("group", << >>, << >>, m_pos + 1))
  /\ UNCHANGED <<tokens, m_parse_stack, m_operator_stack, at>>

NoOperand == at = "operand" /\ Token \notin Atoms \cup {"("} /\ Reject

(* parseMemberExpr (lines 295-306); an operator may be a member.           *)
Member ==
  /\ at = "after"
  /\ Token = "."
  /\ TokenAt(m_pos + 1) \in {"x"} \cup BinOps
  /\ m_parse_stack' = Append(Pop(m_parse_stack), <<"member", Top(m_parse_stack), m_pos + 1>>)
  /\ m_pos' = m_pos + 2
  /\ UNCHANGED <<tokens, m_operator_stack, calls, at>>

NoMember == at = "after" /\ Token = "." /\ TokenAt(m_pos + 1) \notin {"x"} \cup BinOps /\ Reject

(* parseCallExpr (lines 309-333): the callee leaves the stack, and waits   *)
(* with the arguments.                                                     *)
EmptyCall ==
  /\ at = "after"
  /\ Token = "(" /\ TokenAt(m_pos + 1) = ")"
  /\ m_parse_stack' = Append(Pop(m_parse_stack), <<"call", Top(m_parse_stack), << >>>>)
  /\ m_pos' = m_pos + 2
  /\ UNCHANGED <<tokens, m_operator_stack, calls, at>>

OpensEmptyCall ==
  /\ at = "after"
  /\ Token = "("
  /\ m_parse_stack' = Pop(m_parse_stack)
  /\ m_pos' = m_pos + 1
  /\ calls' = Append(calls, Activation("argument", Top(m_parse_stack), << >>, m_pos + 1))
  /\ at' = "operand"
  /\ UNCHANGED <<tokens, m_operator_stack>>
OpenCall ==
  /\ at = "after"
  /\ Token = "(" /\ TokenAt(m_pos + 1) # ")"
  /\ m_parse_stack' = Pop(m_parse_stack)
  /\ m_pos' = m_pos + 1
  /\ calls' = Append(calls, Activation("argument", Top(m_parse_stack), << >>, m_pos + 1))
  /\ at' = "operand"
  /\ UNCHANGED <<tokens, m_operator_stack>>

-----------------------------------------------------------------------------
(* Lines 193-201: the operator on top folds before `op` if it binds more   *)
(* tightly, or as tightly and `op` is left-associative.                    *)
FoldsEqualAssignments(op) ==
  /\ Len(m_operator_stack) > Base
  /\ BindingPower(Top(m_operator_stack)) >= BindingPower(op)
FoldsPastTheFloor(op) ==
  /\ Len(m_operator_stack) > 0
  /\ IF op = "=" THEN BindingPower(Top(m_operator_stack)) > BindingPower(op)
     ELSE BindingPower(Top(m_operator_stack)) >= BindingPower(op)
FoldsBefore(op) ==
  /\ Len(m_operator_stack) > Base
  /\ IF op = "=" THEN BindingPower(Top(m_operator_stack)) > BindingPower(op)
     ELSE BindingPower(Top(m_operator_stack)) >= BindingPower(op)

(* parseBinaryExpr (lines 253-269).                                        *)
Fold ==
  LET rhs == Top(m_parse_stack)
      lhs == Top(Pop(m_parse_stack))
  IN  /\ m_parse_stack' = Append(Pop(Pop(m_parse_stack)), <<Top(m_operator_stack), lhs, rhs>>)
      /\ m_operator_stack' = Pop(m_operator_stack)
      /\ UNCHANGED <<tokens, m_pos, calls, at>>

FoldTighter == at = "after" /\ Token \in Operators /\ FoldsBefore(Token) /\ Fold

PushOperator ==
  /\ at = "after"
  /\ Token \in Operators
  /\ ~FoldsBefore(Token)
  /\ m_operator_stack' = Append(m_operator_stack, Token)
  /\ m_pos' = m_pos + 1
  /\ at' = "operand"
  /\ UNCHANGED <<tokens, m_parse_stack, calls>>

(* The expression goes on with neither an operator nor the rest of an      *)
(* operand: lines 203-208 fold what it left, and it returns.               *)
Over == at = "after" /\ Token \notin Operators \cup {".", "("}

FoldRest == Over /\ Len(m_operator_stack) > Base /\ Fold

Returns(for) == Over /\ Len(m_operator_stack) = Base /\ Current.for = for

CloseGroup ==
  /\ Returns("group")
  /\ Token = ")"
  /\ m_pos' = m_pos + 1
  /\ calls' = Pop(calls)
  /\ UNCHANGED <<tokens, m_parse_stack, m_operator_stack, at>>

LeavesArgument == << m_parse_stack, Append(Current.args, Top(m_parse_stack)) >>
TakesArgument == << Pop(m_parse_stack), Append(Current.args, Top(m_parse_stack)) >>

NextArgument ==
  /\ Returns("argument")
  /\ Token = ","
  /\ m_pos' = m_pos + 1
  /\ m_parse_stack' = TakesArgument[1]
  /\ calls' = Append(Pop(calls), Activation("argument", Current.callee, TakesArgument[2], m_pos + 1))
  /\ at' = "operand"
  /\ UNCHANGED <<tokens, m_operator_stack>>

CloseCall ==
  /\ Returns("argument")
  /\ Token = ")"
  /\ m_pos' = m_pos + 1
  /\ m_parse_stack' = Append(TakesArgument[1], <<"call", Current.callee, TakesArgument[2]>>)
  /\ calls' = Pop(calls)
  /\ UNCHANGED <<tokens, m_operator_stack, at>>

(* The outermost activation returns to the statement that called it.       *)
EndExpression ==
  /\ Returns("statement")
  /\ calls' = Pop(calls)
  /\ at' = "done"
  /\ UNCHANGED <<tokens, m_pos, m_parse_stack, m_operator_stack>>

NotClosed ==
  /\ \/ Returns("group") /\ Token # ")"
     \/ Returns("argument") /\ Token \notin {",", ")"}
  /\ Reject

Parse ==
  \/ Atom \/ OpenGroup \/ NoOperand
  \/ Member \/ NoMember \/ EmptyCall \/ OpenCall
  \/ FoldTighter \/ PushOperator \/ FoldRest
  \/ CloseGroup \/ NextArgument \/ CloseCall \/ EndExpression \/ NotClosed

-----------------------------------------------------------------------------
(* What the caller does to this state: it moves on to the token at p,      *)
(* calls parseExpr there, pushes a node of its own, pops the node on top,  *)
(* its own or the tree of the expression, or throws.                       *)
MoveTo(p) ==
  /\ at = "idle"
  /\ m_pos' = p
  /\ UNCHANGED <<tokens, m_parse_stack, m_operator_stack, calls, at>>

StartExpression(p) ==
  /\ at = "idle"
  /\ m_pos' = p
  /\ calls' = <<Activation("statement", << >>, << >>, p)>>
  /\ at' = "operand"
  /\ UNCHANGED <<tokens, m_parse_stack, m_operator_stack>>

LeaveNode(node, p) ==
  /\ at = "idle"
  /\ m_parse_stack' = Append(m_parse_stack, node)
  /\ m_pos' = p
  /\ at' = "done"
  /\ UNCHANGED <<tokens, m_operator_stack, calls>>

TakeNode(p) ==
  /\ at = "done"
  /\ m_parse_stack' = Pop(m_parse_stack)
  /\ m_pos' = p
  /\ at' = "idle"
  /\ UNCHANGED <<tokens, m_operator_stack, calls>>

Refuse == at \in {"idle", "done"} /\ Reject

Caller ==
  \/ Refuse
  \/ \E p \in Nat \ {0} :
       MoveTo(p) \/ StartExpression(p) \/ TakeNode(p) \/ \E node : LeaveNode(node, p)

Next == Parse \/ Caller

Spec == Init /\ [][Next]_vars

-----------------------------------------------------------------------------
(***************************************************************************)
(* The type invariant.  Only the outermost activation is a statement's,    *)
(* and the floors of the activations are nested.                           *)
(***************************************************************************)
TypeOK ==
  /\ tokens \in Seq(STRING)
  /\ m_pos \in Nat \ {0}
  /\ m_operator_stack \in Seq(Operators)
  /\ at \in {"idle", "operand", "after", "done", "rejected"}
  /\ at \in {"operand", "after"} => calls # << >>
  /\ at \in {"idle", "done"} => calls = << >>
  /\ \A k \in DOMAIN calls :
       /\ calls[k].for \in IF k = 1 THEN {"statement"} ELSE {"group", "argument"}
       /\ calls[k].base \in 0 .. Len(m_operator_stack)
       /\ \A j \in 1 .. k : calls[j].base <= calls[k].base

(***************************************************************************)
(* "parseBinaryExpr pops two of these, so failing to push one here would   *)
(* underflow the parse stack" (lines 211-212): whatever is nested in what, *)
(* there is an operand more on one stack than there are operators on the   *)
(* other once an operand is read, so each fold finds its two.  The caller  *)
(* finds one tree when the expression is over, and of its own nodes takes  *)
(* every one it leaves.                                                    *)
(***************************************************************************)
OperandsMatchOperators ==
  at # "rejected" =>
    Len(m_parse_stack) = Len(m_operator_stack) + (IF at \in {"idle", "operand"} THEN 0 ELSE 1)

(***************************************************************************)
(* "Operators already on the stack belong to an enclosing expression -- a  *)
(* parenthesised group must never fold past the ones its caller left       *)
(* behind" (lines 178-179): while an activation runs, and when it returns, *)
(* the operators below its floor stay.                                     *)
(***************************************************************************)
FloorKept ==
  [][calls # << >> => \A k \in 1 .. Base :
       k \in DOMAIN m_operator_stack' /\ m_operator_stack'[k] = m_operator_stack[k]]_vars

=============================================================================

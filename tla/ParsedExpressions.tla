-------------------------- MODULE ParsedExpressions --------------------------
(***************************************************************************)
(* What parseExpr promises: the tree of an expression is the one its       *)
(* operators' precedences call for.  The tree is defined here by splitting *)
(* the tokens at the operator that binds least, with no stack.             *)
(***************************************************************************)
EXTENDS Expressions, FiniteSetsExt, SequencesExt

NoTree == <<"none">>

(* The number of parentheses open between i and p.                         *)
Depth(i, p) ==
  Cardinality({k \in i .. p - 1 : tokens[k] = "("}) - Cardinality({k \in i .. p - 1 : tokens[k] = ")"})

(* The places of the tokens of T in i .. j that are in no parentheses and  *)
(* name no member.                                                         *)
Outside(T, i, j) ==
  {p \in i + 1 .. j - 1 : tokens[p] \in T /\ Depth(i, p) = 0 /\ tokens[p - 1] # "."}

(* The parenthesis that the one at j closes.                               *)
Opening(i, j) ==
  LET open == {p \in i .. j - 1 : tokens[p] = "(" /\ Depth(i, p) = Depth(i, j + 1)}
  IN  IF open = {} THEN 0 ELSE Max(open)

RECURSIVE Meaning(_, _)

(* The operands of an operator at p.                                       *)
Split(i, p, j) ==
  LET l == Meaning(i, p - 1)
      r == Meaning(p + 1, j)
  IN  IF NoTree \in {l, r} THEN NoTree ELSE <<tokens[p], l, r>>

(* The arguments between the parentheses at o and j.                       *)
Arguments(o, j) ==
  LET cuts == SetToSortSeq({o, j} \cup {p \in o + 1 .. j - 1 : tokens[p] = "," /\ Depth(o, p) = 1}, <)
  IN  IF j = o + 1 THEN << >>
      ELSE [k \in 1 .. Len(cuts) - 1 |-> Meaning(cuts[k] + 1, cuts[k + 1] - 1)]

(* An operand: an atom, a group, a call or a member.                       *)
Operand(i, j) ==
  CASE i = j /\ tokens[i] \in Atoms -> <<"atom", i>>
    [] j > i + 1 /\ tokens[j - 1] = "." /\ tokens[j] \in {"x"} \cup BinOps ->
         LET base == Meaning(i, j - 2)
         IN  IF base = NoTree THEN NoTree ELSE <<"member", base, j>>
    [] j > i /\ tokens[j] = ")" /\ Opening(i, j) = i -> Meaning(i + 1, j - 1)
    [] j > i /\ tokens[j] = ")" /\ Opening(i, j) > i ->
         LET callee == Meaning(i, Opening(i, j) - 1)
             args == Arguments(Opening(i, j), j)
         IN  IF NoTree \in {callee} \cup ToSet(args) THEN NoTree ELSE <<"call", callee, args>>
    [] OTHER -> NoTree

(* The tree of the tokens i .. j: the leftmost of the assignments, which   *)
(* associate to the right, or the rightmost of the others, comparisons     *)
(* first.                                                                  *)
Meaning(i, j) ==
  CASE Outside({"="}, i, j) # {} -> Split(i, Min(Outside({"="}, i, j)), j)
    [] Outside({"="}, i, j) = {} /\ Outside(Comparisons, i, j) # {} ->
         Split(i, Max(Outside(Comparisons, i, j)), j)
    [] Outside(Comparisons \cup {"="}, i, j) = {} /\ Outside({"+"}, i, j) # {} ->
         Split(i, Max(Outside({"+"}, i, j)), j)
    [] Outside(Operators \ {"*"}, i, j) = {} /\ Outside({"*"}, i, j) # {} ->
         Split(i, Max(Outside({"*"}, i, j)), j)
    [] OTHER -> Operand(i, j)

(***************************************************************************)
(* An activation of parseExpr that returns, whatever waits below it on the *)
(* two stacks, has on top of the parse stack the tree of the tokens it has *)
(* read.                                                                   *)
(***************************************************************************)
RightTree ==
  (Over /\ Len(m_operator_stack) = Base) => Top(m_parse_stack) = Meaning(Current.from, m_pos - 1)

=============================================================================

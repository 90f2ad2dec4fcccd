----------------------------- MODULE ParsedUnit -----------------------------
(***************************************************************************)
(* What the parser promises of a whole unit: it gives the tree that the    *)
(* brackets and semicolons of the text call for, and rejects only what has *)
(* none.  It is defined here by splitting the text at matching brackets,   *)
(* with no state.  The code asks for less than its comments and errors say *)
(* in two places, which the grammar here names: an `if` may lack its block *)
(* (lines 117-125), and any token may stand for the bracket that should    *)
(* follow an `else` (lines 120-123 and 157-158).                           *)
(***************************************************************************)
EXTENDS Statements, ParsedExpressions

Past == Len(tokens) + 1   \* a place after every token

(* The token after an `else`, whatever it is, opens a block.               *)
InPlaceOfBracket(p) ==
  LET found[q \in 0 .. p] == q > 1 /\ tokens[q - 1] = "else" /\ ~found[q - 1]
  IN  found[p]
Bracket(p) == IF p \in DOMAIN tokens /\ InPlaceOfBracket(p) THEN "{" ELSE TokenAt(p)

First(i, T) ==
  LET found == {p \in i .. Len(tokens) : Bracket(p) \in T}
  IN  IF found = {} THEN Past ELSE Min(found)

(* The bracket that closes the one at p.                                   *)
Closing(p, left, right) ==
  LET Balance(q) == Cardinality({k \in p .. q : Bracket(k) = left})
                      - Cardinality({k \in p .. q : Bracket(k) = right})
      found == {q \in p .. Len(tokens) : Balance(q) = 0}
  IN  IF found = {} THEN Past ELSE Min(found)

(* A part that has no tree leaves the whole without one.                   *)
Whole(node, parts) == IF NoTree \in ToSet(parts) THEN NoTree ELSE node
Tree(is, parts) == Whole(<<is>> \o parts, parts)

(* The last token of the condition of the `if` at i: of an expression that *)
(* does not go on.                                                         *)
EndOfCondition(i) ==
  LET ends == {j \in i + 1 .. First(i + 1, {"{", "}", ";", "::", "else"} \cup Keywords) - 1 :
                 Meaning(i + 1, j) # NoTree /\ TokenAt(j + 1) \notin Operators \cup {".", "("}}
  IN  IF ends = {} THEN Past ELSE Min(ends)

(* The last token of the statement that begins at i.                       *)
EndOfIf(i) ==
  LET e == EndOfCondition(i)
      c == Closing(e + 1, "{", "}")
  IN  CASE TokenAt(e + 1) # "{" -> e
        [] TokenAt(e + 1) = "{" /\ TokenAt(c + 1) = "else" -> Closing(c + 2, "{", "}")
        [] OTHER -> c
EndOf(i) ==
  CASE tokens[i] \notin Keywords \ {"return"} -> First(i, {";"})
    [] tokens[i] = "if" -> EndOfIf(i)
    [] OTHER -> Closing(First(i, {"{"}), "{", "}")

(* A name, its type and perhaps an initializer.                            *)
Declaration(i, j) ==
  CASE j < i + 2 \/ tokens[i] # "x" \/ tokens[i + 1] # "::" \/ tokens[i + 2] # "x" -> NoTree
    [] j = i + 2 -> <<"var", Name(i), Name(j), Absent>>
    [] j > i + 2 /\ tokens[i + 3] = "=" -> Tree("var", <<Name(i), Name(i + 2), Meaning(i + 4, j)>>)
    [] OTHER -> NoTree

(* The parameters between the parentheses at o and c.                      *)
Parameters(o, c) ==
  LET commas == {p \in o + 1 .. c - 1 : tokens[p] = "," /\ Depth(o, p) = 1}
      last == IF c - 1 \in commas THEN {} ELSE {c}
      cuts == SetToSortSeq({o} \cup commas \cup last, <)
  IN  IF c = o + 1 THEN << >>
      ELSE [k \in 1 .. Len(cuts) - 1 |-> Declaration(cuts[k] + 1, cuts[k + 1] - 1)]

RECURSIVE StatementsOf(_, _)

(* The block between the brackets at o and c: its last return, and the     *)
(* other statements.                                                       *)
BlockOf(o, c) ==
  LET all == IF Bracket(o) = "{" /\ Bracket(c) = "}" THEN StatementsOf(o + 1, c - 1) ELSE <<NoTree>>
      IsReturn(s) == s[1] = "return"
      Others(s) == ~IsReturn(s)
      returns == SelectSeq(all, IsReturn)
  IN  Whole(<<"block", IF returns = << >> THEN Absent ELSE Top(returns)>> \o SelectSeq(all, Others), all)

FunctionOf(i, j) ==
  LET c == Closing(i + 2, "(", ")")
      typed == TokenAt(c + 1) = "::"
      b == IF typed THEN c + 3 ELSE c + 1
      params == Parameters(i + 2, c)
      named == TokenAt(i + 1) = "x" /\ TokenAt(i + 2) = "(" /\ (typed => TokenAt(c + 2) = "x")
  IN  IF named /\ c < Past
      THEN Tree("func", <<Name(i + 1), Whole(params, params),
                          IF typed THEN Name(c + 2) ELSE Absent, BlockOf(b, j)>>)
      ELSE NoTree

IfOf(i, j) ==
  LET e == EndOfCondition(i)
      c == Closing(e + 1, "{", "}")
      cond == Meaning(i + 1, e)
  IN  CASE e = j -> Tree("if", <<cond, Absent, Absent>>)
        [] e < j /\ c = j -> Tree("if", <<cond, BlockOf(e + 1, c), Absent>>)
        [] e < j /\ c < j -> Tree("if", <<cond, BlockOf(e + 1, c), BlockOf(c + 2, j)>>)

(* The tree of the tokens i .. j as one statement.                         *)
StatementOf(i, j) ==
  LET o == First(i, {"{"})
  IN  CASE tokens[i] = "return" -> Tree("return", <<Meaning(i + 1, j - 1)>>)
        [] tokens[i] = "if" -> IfOf(i, j)
        [] tokens[i] = "while" -> Tree("while", <<Meaning(i + 1, o - 1), BlockOf(o, j)>>)
        [] tokens[i] = "func" -> FunctionOf(i, j)
        [] tokens[i] = "module" ->
             IF TokenAt(i + 1) = "x" /\ TokenAt(i + 2) = "{"
             THEN Tree("module", <<Name(i + 1)>> \o StatementsOf(i + 3, j - 1)) ELSE NoTree
        [] tokens[i] \notin Keywords /\ TokenAt(i + 1) = "::" ->
             Tree("expr", <<Declaration(i, j - 1)>>)
        [] OTHER -> Tree("expr", <<Meaning(i, j - 1)>>)

StatementsOf(i, j) ==
  IF i > j THEN << >>
  ELSE IF EndOf(i) > j THEN <<NoTree>>
  ELSE <<StatementOf(i, EndOf(i))>> \o StatementsOf(EndOf(i) + 1, j)

UnitOf == Tree("unit", StatementsOf(1, Len(tokens)))

(***************************************************************************)
(* The tree of an accepted unit is the one its text calls for: nothing is  *)
(* left out, taken twice or put elsewhere, a declaration is wrapped as an  *)
(* expression is (lines 64-66), and an `if` lacks a branch, or an `else`   *)
(* its bracket, only where the text does.                                  *)
(***************************************************************************)
RightUnit == root # Absent => root = UnitOf

(***************************************************************************)
(* A unit is rejected only if its text calls for no tree.                  *)
(***************************************************************************)
RejectsOnlyMalformed == at = "rejected" => UnitOf = NoTree

=============================================================================

---------------------------- MODULE MCParsedUnit ----------------------------
(***************************************************************************)
(* Instances of ParsedUnit: every statement of up to five tokens of an     *)
(* expression, every way of writing up to four operators with a group, a   *)
(* call and a member among their operands, every unit of up to three       *)
(* tokens, and every unit one token away from one of five programs that    *)
(* between them nest every kind of statement in every other.               *)
(***************************************************************************)
EXTENDS ParsedUnit

Alphabet == {"x", "+", "*", "<", "=", "(", ")", ",", "."}
UnitAlphabet == Keywords \cup {"x", "1", "+", "=", "(", ")", ",", "::", ";", "{", "}", "else"}
Short(T, k) == UNION {[1 .. n -> T] : n \in 0 .. k}

x == <<"x">>
Chain(ops) == x \o FlattenSeq([k \in DOMAIN ops |-> <<ops[k], "x">>])

(* Parentheses from operand l to operand r of a chain: a group, the        *)
(* argument of a call that has another before it, or a group that is       *)
(* called and has a member.                                                *)
Around(ops, l, r, before, after) ==
  LET chain == Chain(ops)
  IN  SubSeq(chain, 1, 2 * l - 2) \o before \o SubSeq(chain, 2 * l - 1, 2 * r - 1) \o after
        \o SubSeq(chain, 2 * r, Len(chain))

Parentheses == { << <<"(">>, <<")">> >>, << <<"x", "(", "1", ",">>, <<")">> >>,
                 << <<"(">>, <<")", "(", "x", "=", "x", ",", "x", ")", ".", "+">> >> }

Chains == UNION {[1 .. n -> {"+", "*", "<", "="}] : n \in 0 .. 4}

Long ==
  UNION {{Around(ops, l, r, p[1], p[2]) : p \in Parentheses} :
           <<ops, l, r>> \in {<<ops, l, r>> \in Chains \X (1 .. 5) \X (1 .. 5) :
                                l <= r /\ r <= Len(ops) + 1}}

Ended(s) == Append(s, ";")

-----------------------------------------------------------------------------
(* The programs.                                                           *)
Branches ==
  <<"if", "x", "{", "x", ";", "return", "x", ";", "x", ";", "}",
    "else", "{", "x", "::", "x", ";", "return", "1", ";", "}", "x", "=", "x", ";">>
Functions ==
  <<"func", "x", "(", "x", "::", "x", ",", "x", "::", "x", "=", "x", "+", "x", ")", "::", "x",
    "{", "return", "x", ";", "return", "1", ";", "}", "func", "x", "(", ")", "{", "}">>
Modules ==
  <<"module", "x", "{", "while", "x", "+", "x", "{", "if", "x", "(", "x", ")", "{", "}", "}",
    "return", "x", ";", "module", "x", "{", "}", "}", "x", ";">>
Loops ==
  <<"while", "x", "{", "func", "x", "(", "x", "::", "x", ",", ")", "{", "x", "::", "x", "=", "x", ";", "}",
    "while", "1", "{", "}", "return", "x", ";", "}">>
Nested ==
  <<"if", "x", "{", "if", "x", "{", "}", "else", "{", "}", "x", ";", "}",
    "else", "{", "if", "x", "{", "}", "}">>

(* A token left out, put in, replaced, or two exchanged.                   *)
Edited(s) ==
  {s} \cup {RemoveAt(s, k) : k \in DOMAIN s}
      \cup {InsertAt(s, k, t) : k \in 1 .. Len(s) + 1, t \in UnitAlphabet}
      \cup {ReplaceAt(s, k, t) : k \in DOMAIN s, t \in UnitAlphabet}
      \cup {SubSeq(s, 1, k - 1) \o <<s[k + 1], s[k]>> \o SubSeq(s, k + 2, Len(s)) : k \in 1 .. Len(s) - 1}

Declarations == {<<"x", "::", "x", ";">>, <<"x", "::", "x", ";", "x", "::", "x", ";">>}
Programs == {Branches, Functions, Modules, Loops, Nested}

SmallInputs ==
  Short(UnitAlphabet, 3) \cup {Ended(s) : s \in Short(Alphabet, 5) \cup Long}
    \cup Declarations \cup UNION {Edited(s) : s \in Programs}

=============================================================================

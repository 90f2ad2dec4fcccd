----------------------------- MODULE Tokenizer ------------------------------
(***************************************************************************)
(* The lexer, src/core/lexer/Lexer.cpp: rules made of automata, and the    *)
(* loop of Tokenizer::process that cuts a text into tokens, at each place  *)
(* by the rule that takes the longest stretch of it.                       *)
(*                                                                         *)
(* An automaton comes with the expression it was built from, which only    *)
(* the properties read.                                                    *)
(***************************************************************************)
EXTENDS Automata, TLC

CONSTANTS
  Ranges,      \* the ranges automata are built from
  Priorities,  \* the priorities of rules made of them
  MaxBuilt,    \* bound: operators applied
  MaxRules,    \* bound: rules made
  RuleLists,   \* the rule lists a behaviour may start from
  Texts(_)     \* the texts scanned with a rule list

VARIABLES
  workbench,   \* the automata built and not yet used, the last one on top
  built,       \* how many operators were applied
  m_rules,     \* the rules, by falling priority
  stage,       \* "rules", "scanning", "scanned", or "unknown" input
  input, pos,  \* the text, and how much of it is cut
  line, line_start,
  m_tokens

rulevars == <<workbench, built, m_rules>>
scanvars == <<input, pos, line, line_start, m_tokens>>
vars == <<rulevars, stage, scanvars>>

-----------------------------------------------------------------------------
(* The operators of RangeAutomata (RangeAutomata.hpp:93-111).              *)
SA(range) == [dfa |-> One(range), expr |-> <<"word", <<range>>>>]
SAWord(ranges) == [dfa |-> Word(ranges), expr |-> <<"word", ranges>>]
Or(x, y) ==
  [dfa |-> Deterministic(Union(Lift(x.dfa), Lift(y.dfa))), expr |-> <<"or", x.expr, y.expr>>]
Then(x, y) ==
  [dfa |-> Deterministic(Concat(Lift(x.dfa), Lift(y.dfa))), expr |-> <<"then", x.expr, y.expr>>]
OneOrMore(x) == [dfa |-> Deterministic(Plus(Lift(x.dfa))), expr |-> <<"many", x.expr>>]
ZeroOrMore(x) == [dfa |-> Deterministic(Star(Lift(x.dfa))), expr |-> <<"any", x.expr>>]
ZeroOrOne(x) == [dfa |-> Deterministic(Optional(Lift(x.dfa))), expr |-> <<"maybe", x.expr>>]

Rule(x, priority, kind) == [dfa |-> x.dfa, expr |-> x.expr, priority |-> priority, kind |-> kind]

(* The rules of the language (Lexer.cpp:11-106).  A character is a string  *)
(* of one letter; the characters no rule names stand for all others.       *)
Lower == {"a","b","c","d","e","f","g","h","i","j","k","l","m",
          "n","o","p","q","r","s","t","u","v","w","x","y","z"}
Upper == {"A","B","C","D","E","F","G","H","I","J","K","L","M",
          "N","O","P","Q","R","S","T","U","V","W","X","Y","Z"}
Digits == {"0","1","2","3","4","5","6","7","8","9"}
Others == {"$", "@", "-"}
BelowQuote == {"\t", "\n", "\r", " ", "!"}
AboveQuote == Lower \cup Upper \cup Digits \cup Others
                \cup {"_", ",", ".", ";", ":", "(", ")", "[", "]", "{", "}", "+", "*", "=", ">", "<"}

Letters(word) == [k \in DOMAIN word |-> {word[k]}]

letter == Or(SA(Lower), SA(Upper))
digit == SA(Digits)
newline == Or(SA({"\n"}), SA({"\r"}))
whitespace == Or(SA({" "}), SA({"\t"}))
integer_literal == OneOrMore(digit)
float_literal == Then(Then(OneOrMore(digit), SA({"."})), OneOrMore(digit))
bool_literal == Or(SAWord(Letters(<<"t","r","u","e">>)), SAWord(Letters(<<"f","a","l","s","e">>)))
non_quote == Or(SA(BelowQuote), SA(AboveQuote))
string_literal == Then(Then(SA({"\""}), ZeroOrMore(non_quote)), SA({"\""}))
identifier == Then(Or(letter, SA({"_"})), ZeroOrMore(Or(Or(letter, digit), SA({"_"}))))

(* The rules that are words, with the kind of token they make.             *)
Keywords ==
  << <<<<"_">>, "UNDERSCORE">>, <<<<",">>, "COMMA">>, <<<<".">>, "DOT">>, <<<<";">>, "ENDEXPR">>,
     <<<<"(">>, "OPEN_PAR">>, <<<<")">>, "CLOSE_PAR">>, <<<<"[">>, "OPEN_BRAC">>,
     <<<<"]">>, "CLOSE_BRAC">>, <<<<"{">>, "OPEN_CURLBRAC">>, <<<<"}">>, "CLOSE_CURLBRAC">>,
     <<<<"c","o","n","t","i","n","u","e">>, "CONTINUE_STMT">>, <<<<"b","r","e","a","k">>, "BREAK_STMT">>,
     <<<<"r","e","t","u","r","n">>, "RETURN_STMT">>, <<<<"i","f">>, "IF_STMT">>,
     <<<<"e","l","s","e">>, "ELSE_STMT">>, <<<<"w","h","i","l","e">>, "WHILE_STMT">>,
     <<<<"f","o","r">>, "FOR_STMT">>, <<<<"f","u","n","c">>, "FUNC_STMT">>,
     <<<<"m","o","d","u","l","e">>, "MODULE_STMT">>,
     <<<<"+">>, "BIN_OP">>, <<<<"*">>, "BIN_OP">>, <<<<">">>, "BIN_OP">>, <<<<"<">>, "BIN_OP">>,
     <<<<">","=">>, "BIN_OP">>, <<<<"<","=">>, "BIN_OP">>, <<<<"=","=">>, "BIN_OP">>,
     <<<<"!","=">>, "BIN_OP">>, <<<<"=">>, "ASSIGN">>, <<<<":",":">>, "COLON_COLON">> >>

(* The rules by falling priority, in one of the orders the sort may leave. *)
IdentifierLikeKeyword == 0
IdentifierPriority == 1

LanguageRules ==
  << Rule(whitespace, 1000, "NONE"), Rule(newline, 1000, "NONE"),
     Rule(identifier, IdentifierPriority, "IDENDIFIER"),
     Rule(integer_literal, 0, "INT_LIT"), Rule(float_literal, 0, "FLOAT_LIT"),
     Rule(bool_literal, 0, "BOOL_LIT"), Rule(string_literal, 0, "STR_LIT") >>
    \o [k \in DOMAIN Keywords |-> Rule(SAWord(Letters(Keywords[k][1])), 0, Keywords[k][2])]

-----------------------------------------------------------------------------
Init ==
  /\ workbench = << >>
  /\ built = 0
  /\ m_rules \in RuleLists
  /\ stage = "rules"
  /\ input = << >>
  /\ pos = 0
  /\ line = 1
  /\ line_start = 0
  /\ m_tokens = << >>

(* Building an automaton from those on top of the workbench.               *)
Depth == Len(workbench)
Top(k) == workbench[Depth - k]

Build(taken, made) ==
  /\ stage = "rules"
  /\ built < MaxBuilt
  /\ built' = built + 1
  /\ workbench' = Append(SubSeq(workbench, 1, Depth - taken), made)
  /\ UNCHANGED <<m_rules, stage, scanvars>>

BuildRange == \E r \in Ranges : Build(0, SA(r))
BuildOr == Depth >= 2 /\ Build(2, Or(Top(1), Top(0)))
BuildThen == Depth >= 2 /\ Build(2, Then(Top(1), Top(0)))
BuildOneOrMore == Depth >= 1 /\ Build(1, OneOrMore(Top(0)))
BuildZeroOrMore == Depth >= 1 /\ Build(1, ZeroOrMore(Top(0)))
BuildZeroOrOne == Depth >= 1 /\ Build(1, ZeroOrOne(Top(0)))

(* push_back and std::sort, which may leave rules of one priority in any   *)
(* order: the rule goes to any place that keeps the priorities falling.    *)
AddRule ==
  /\ stage = "rules"
  /\ Depth >= 1
  /\ Len(m_rules) < MaxRules
  /\ \E p \in Priorities, k \in 1 .. Len(m_rules) + 1 :
       LET placed == InsertAt(m_rules, k, Rule(Top(0), p, ToString(<<Len(m_rules), p>>)))
       IN  /\ \A j \in 1 .. Len(placed) - 1 : placed[j].priority >= placed[j + 1].priority
           /\ m_rules' = placed
  /\ workbench' = SubSeq(workbench, 1, Depth - 1)
  /\ UNCHANGED <<built, stage, scanvars>>

Begin ==
  /\ stage = "rules"
  /\ workbench = << >>
  /\ m_rules # << >>
  /\ input' \in Texts(m_rules)
  /\ stage' = "scanning"
  /\ UNCHANGED <<rulevars, pos, line, line_start, m_tokens>>

-----------------------------------------------------------------------------
(* runMaximalMunch (lines 150-163): how far the automaton accepts, from    *)
(* state q before character k.                                             *)
RECURSIVE Munch(_, _, _, _)
Munch(d, q, k, last_accept) ==
  IF k > Len(input) THEN last_accept
  ELSE LET next == Follow(d, q, input[k])
       IN  IF next \in d.accepting THEN Munch(d, next, k + 1, k)
           ELSE IF next = d.sink THEN last_accept
           ELSE Munch(d, next, k + 1, last_accept)

RunMaximalMunch(d) == Munch(d, d.initial, pos + 1, pos)

(* What each rule can take, and which try the loop over the rules ends     *)
(* with: the longest stretch, then the lowest priority, then the first     *)
(* rule (lines 175-191).                                                   *)
Tries == {[end |-> RunMaximalMunch(m_rules[k].dfa), rule |-> k] : k \in DOMAIN m_rules}

BeatsByOrder(t, u) == t.end > u.end \/ (t.end = u.end /\ t.rule < u.rule)
Beats(t, u) ==
  \/ t.end > u.end
  \/ /\ t.end = u.end
     /\ \/ m_rules[t.rule].priority < m_rules[u.rule].priority
        \/ m_rules[t.rule].priority = m_rules[u.rule].priority /\ t.rule < u.rule

Best(tries) == CHOOSE t \in tries : \A u \in tries \ {t} : Beats(t, u)

(* Lines in the stretch up to `end` (lines 199-204).                       *)
NewlinesIn(from, end) == {k \in from + 1 .. end : input[k] = "\n"}

CountsFirst(end) == NewlinesIn(pos, IF end > pos THEN pos + 1 ELSE pos)
Newlines(end) == NewlinesIn(pos, end)

(* One turn of the loop (lines 174-206).                                   *)
Cut ==
  /\ stage = "scanning"
  /\ pos < Len(input)
  /\ LET best == Best(Tries)
         kind == m_rules[best.rule].kind
         breaks == Newlines(best.end)
     IN  IF best.end = pos
         THEN stage' = "unknown" /\ UNCHANGED scanvars
         ELSE /\ m_tokens' =
                   IF kind = "NONE" THEN m_tokens
                   ELSE Append(m_tokens,
                               [kind |-> kind, value |-> SubSeq(input, pos + 1, best.end),
                                line |-> line, column |-> pos - line_start + 1])
              /\ line' = line + Cardinality(breaks)
              /\ line_start' = Max(breaks \cup {line_start})
              /\ pos' = best.end
              /\ UNCHANGED <<stage, input>>
  /\ UNCHANGED rulevars

End ==
  /\ stage = "scanning"
  /\ pos = Len(input)
  /\ stage' = "scanned"
  /\ UNCHANGED <<rulevars, scanvars>>

BuildAutomaton ==
  \/ BuildRange \/ BuildOr \/ BuildThen
  \/ BuildOneOrMore \/ BuildZeroOrMore \/ BuildZeroOrOne

Next == BuildAutomaton \/ AddRule \/ Begin \/ Cut \/ End

Spec == Init /\ [][Next]_vars

=============================================================================

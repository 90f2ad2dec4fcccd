---------------------------- MODULE ScannedText -----------------------------
(***************************************************************************)
(* What the lexer promises, in terms of the expressions its automata were  *)
(* built from: an automaton accepts the language of its expression, and    *)
(* the tokens are the text cut at the longest match.                       *)
(***************************************************************************)
EXTENDS Tokenizer

CONSTANTS
  Alphabet,   \* the characters of the words automata are tried on
  MaxWord     \* bound: the length of those words

Words == UNION {[1 .. n -> Alphabet] : n \in 0 .. MaxWord}

(* The ends of the stretches of the text w from place p on that belong to  *)
(* the language of an expression.                                          *)
RECURSIVE Ends(_, _, _), EndsOfRepeats(_, _, _)
EndsOfRepeats(e, w, from) ==
  LET more == from \cup UNION {Ends(e, w, k) : k \in from}
  IN  IF more = from THEN from ELSE EndsOfRepeats(e, w, more)

Ends(e, w, p) ==
  CASE e[1] = "word" ->
         IF p + Len(e[2]) <= Len(w) /\ \A k \in DOMAIN e[2] : w[p + k] \in e[2][k]
         THEN {p + Len(e[2])} ELSE {}
    [] e[1] = "or" -> Ends(e[2], w, p) \cup Ends(e[3], w, p)
    [] e[1] = "then" -> UNION {Ends(e[3], w, k) : k \in Ends(e[2], w, p)}
    [] e[1] = "maybe" -> {p} \cup Ends(e[2], w, p)
    [] e[1] = "any" -> EndsOfRepeats(e[2], w, {p})
    [] e[1] = "many" -> EndsOfRepeats(e[2], w, Ends(e[2], w, p))

Matches(e, w) == Len(w) \in Ends(e, w, 0)

(***************************************************************************)
(* Every operator of Automata.hpp gives the automaton of its expression:   *)
(* it accepts a word exactly when the word is in the language.             *)
(***************************************************************************)
AcceptsItsLanguage ==
  \A k \in DOMAIN workbench : \A w \in Words :
    After(workbench[k].dfa, w) \in workbench[k].dfa.accepting <=> Matches(workbench[k].expr, w)

(***************************************************************************)
(* No transition leads back to the initial state of an automaton.  On this *)
(* rests that operator* and operator~ may let the empty word in by making  *)
(* initial states accepting (Automata.hpp:214-231).                        *)
(***************************************************************************)
InitialNeverReentered ==
  \A k \in DOMAIN workbench :
    LET d == workbench[k].dfa
    IN  \A q \in DOMAIN d.transitions : \A s \in DOMAIN d.transitions[q] :
          d.transitions[q][s] # d.initial

-----------------------------------------------------------------------------
(* The matches from place p of the text on: pairs of a rule and an end.    *)
Stretch(p, end) == SubSeq(input, p + 1, end)
MatchesAt(p) ==
  UNION {{<<k, end>> : end \in Ends(m_rules[k].expr, input, p) \ {p}} : k \in DOMAIN m_rules}

(* The kinds that rules of the lowest priority give the match up to `end`. *)
KindsOf(matches, end) ==
  LET matching == {k \in DOMAIN m_rules : <<k, end>> \in matches}
  IN  {m_rules[k].kind :
         k \in {i \in matching : \A j \in matching : m_rules[i].priority <= m_rules[j].priority}}

(* The place in the text where a token says it is.                         *)
LineStart(n) ==
  IF n = 1 THEN 0
  ELSE CHOOSE k \in DOMAIN input : input[k] = "\n" /\ Cardinality(NewlinesIn(0, k)) = n - 1
Place(t) == LineStart(t.line) + t.column - 1
EndOf(t) == Place(t) + Len(t.value)

Blanks == {" ", "\t", "\n", "\r"}

(***************************************************************************)
(* "Let's find the rule that accepts the longest stream (maximum munch)"   *)
(* and "Same length: lower priority rule wins" (Lexer.cpp:177, 186): each  *)
(* token is the longest match from its place on, of a kind a rule of the   *)
(* lowest priority gives it, and only a place where nothing matches is     *)
(* refused.                                                                *)
(***************************************************************************)
LongestMatch ==
  /\ m_tokens # << >> =>
       LET t == m_tokens[Len(m_tokens)]
           matches == MatchesAt(Place(t))
       IN  /\ t.kind \in KindsOf(matches, EndOf(t))
           /\ \A m \in matches : m[2] <= EndOf(t)
  /\ stage = "unknown" => MatchesAt(pos) = {}

(***************************************************************************)
(* Nothing is lost: the tokens stand in the text where their locations     *)
(* say, in order, with only blanks between them, up to the place reached.  *)
(***************************************************************************)
NothingLost ==
  stage # "rules" =>
    LET begin(k) == IF k > Len(m_tokens) THEN pos ELSE Place(m_tokens[k])
        end(k) == IF k = 0 THEN 0 ELSE EndOf(m_tokens[k])
    IN  /\ \A k \in DOMAIN m_tokens : m_tokens[k].value = Stretch(begin(k), end(k))
        /\ \A k \in 0 .. Len(m_tokens) :
             /\ end(k) <= begin(k + 1)
             /\ \A c \in end(k) + 1 .. begin(k + 1) : input[c] \in Blanks

(***************************************************************************)
(* With the rules of the language nothing depends on the order an unstable *)
(* sort leaves rules in, or on the order of a hash table: rules that win   *)
(* one stretch agree on the kind, and in no state do two ranges overlap.   *)
(***************************************************************************)
OneReading ==
  Len(m_rules) > MaxRules =>
    /\ stage = "scanning" =>
         LET matches == MatchesAt(pos)
         IN  \A m \in matches : Cardinality(KindsOf(matches, m[2])) = 1
    /\ stage = "rules" =>
         \A k \in DOMAIN m_rules : \A q \in DOMAIN m_rules[k].dfa.transitions :
           \A s, r \in DOMAIN m_rules[k].dfa.transitions[q] : s # r => s \cap r = {}

=============================================================================

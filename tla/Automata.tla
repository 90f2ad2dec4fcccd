------------------------------ MODULE Automata ------------------------------
(***************************************************************************)
(* Finite automata, src/core/Automata.hpp, over ranges of characters,      *)
(* src/core/RangeAutomata.hpp: the operators that build the automaton of a *)
(* regular expression out of those of its parts.  Each operator lifts its  *)
(* automata to nondeterministic ones, combines them, and turns the result  *)
(* into a deterministic one again by the subset construction.              *)
(*                                                                         *)
(* A range is the set of its characters; to an automaton it is one symbol, *)
(* never taken apart.  States are numbered by the code; here the states of *)
(* a union are pairs of states and those of a concatenation carry the side *)
(* they come from, and only deterministic automata number theirs.          *)
(***************************************************************************)
EXTENDS Integers, Sequences, FiniteSets, FiniteSetsExt, SequencesExt

(* A deterministic automaton that takes one character (lines 373-382), or  *)
(* the characters of a word one after the other (RangeAutomata.hpp:59-67). *)
Word(ranges) ==
  [initial |-> 0, accepting |-> {Len(ranges)}, sink |-> Len(ranges) + 1,
   transitions |-> [q \in 0 .. Len(ranges) + 1 |->
     IF q < Len(ranges) THEN [s \in {ranges[q + 1]} |-> q + 1] ELSE << >>]]

One(range) == Word(<<range>>)

(* NFA(const Automata&): the same automaton as a nondeterministic one.     *)
Lift(d) ==
  [initials |-> {d.initial}, acceptings |-> d.accepting, sink |-> d.sink,
   transitions |-> [q \in DOMAIN d.transitions |->
     [s \in DOMAIN d.transitions[q] |-> {d.transitions[q][s]}]],
   epsilon |-> [q \in DOMAIN d.transitions |-> {}]]

-----------------------------------------------------------------------------
(* operator|| (lines 81-147): both automata side by side, the one without  *)
(* a transition on the symbol going to its sink.                           *)
Onward(n, q, s) == IF s \in DOMAIN n.transitions[q] THEN n.transitions[q][s] ELSE {n.sink}

StuckTogether(a, b, q, s) ==
  IF s \in DOMAIN a.transitions[q[1]] \cap DOMAIN b.transitions[q[2]]
  THEN a.transitions[q[1]][s] \X b.transitions[q[2]][s] ELSE {<<a.sink, b.sink>>}
SideBySide(a, b, q, s) == Onward(a, q[1], s) \X Onward(b, q[2], s)

Union(a, b) ==
  LET states == (DOMAIN a.transitions) \X (DOMAIN b.transitions)
  IN  [initials |-> a.initials \X b.initials,
       acceptings |-> {q \in states : q[1] \in a.acceptings \/ q[2] \in b.acceptings},
       sink |-> <<a.sink, b.sink>>,
       transitions |-> [q \in states |->
         [s \in DOMAIN a.transitions[q[1]] \cup DOMAIN b.transitions[q[2]] |->
            SideBySide(a, b, q, s)]],
       epsilon |-> [q \in states |->
         (a.epsilon[q[1]] \X {q[2]}) \cup ({q[1]} \X b.epsilon[q[2]])]]

(* operator+ of two (lines 150-194): from the accepting states of the      *)
(* first on into the second, whose sink becomes that of the first.         *)
Concat(a, b) ==
  LET left(q) == <<1, q>>
      right(q) == IF q = b.sink THEN left(a.sink) ELSE <<2, q>>
      states == ({1} \X (DOMAIN a.transitions)) \cup ({2} \X (DOMAIN b.transitions))
      row(q) == IF q[1] = 1 THEN a.transitions[q[2]] ELSE b.transitions[q[2]]
      moved(q, targets) == IF q[1] = 1 THEN {left(t) : t \in targets} ELSE {right(t) : t \in targets}
  IN  [initials |-> {left(q) : q \in a.initials},
       acceptings |-> {right(q) : q \in b.acceptings},
       sink |-> left(a.sink),
       transitions |-> [q \in states |-> [s \in DOMAIN row(q) |-> moved(q, row(q)[s])]],
       epsilon |-> [q \in states |->
         moved(q, IF q[1] = 1 THEN a.epsilon[q[2]] ELSE b.epsilon[q[2]])
           \cup (IF q[1] = 1 /\ q[2] \in a.acceptings THEN {right(i) : i \in b.initials} ELSE {})]]

(* operator+ of one, operator* and operator~ (lines 197-224): repetition   *)
(* leads from the accepting states back to the initial ones, and the empty *)
(* word is let in by making the initial states accepting.                  *)
BackToStart(n) ==
  LET again(targets) ==
        IF targets \cap n.acceptings = {} THEN targets
        ELSE (targets \ n.acceptings) \cup n.initials
  IN  [n EXCEPT !.transitions = [q \in DOMAIN @ |-> [s \in DOMAIN @[q] |-> again(@[q][s])]],
                !.acceptings = n.initials]

Plus(n) ==
  [n EXCEPT !.epsilon = [q \in DOMAIN @ |->
     @[q] \cup (IF q \in n.acceptings THEN n.initials ELSE {})]]

Optional(n) == [n EXCEPT !.acceptings = @ \cup n.initials]
Star(n) == Optional(Plus(n))

-----------------------------------------------------------------------------
(* deterministic() (lines 228-328).                                        *)
RECURSIVE Closure(_, _)
Closure(n, qs) ==
  LET more == qs \cup UNION {n.epsilon[q] : q \in qs}
  IN  IF more = qs THEN qs ELSE Closure(n, more)

InitialSet(n) == Closure(n, n.initials)

(* From the set of states qs: the symbols that leave it, and where to.     *)
RowOf(n, qs) ==
  [s \in UNION {DOMAIN n.transitions[q] : q \in qs} |->
     Closure(n, UNION {n.transitions[q][s] : q \in {p \in qs : s \in DOMAIN n.transitions[p]}})]

(* The sets that can be reached, from the k-th on yet to be followed.      *)
RECURSIVE Reached(_, _, _)
Reached(n, sets, k) ==
  IF k > Len(sets) THEN sets
  ELSE LET row == RowOf(n, sets[k])
           new == {row[s] : s \in DOMAIN row} \ ToSet(sets)
       IN  Reached(n, FoldSet(LAMBDA qs, seq : Append(seq, qs), sets, new), k + 1)

(* The initial set is state 0; the order of the others is left to a hash   *)
(* table and means nothing.  A new sink takes what leads nowhere.          *)
Deterministic(n) ==
  LET sets == Reached(n, <<InitialSet(n)>>, 1)
      index == [qs \in ToSet(sets) |-> (CHOOSE k \in DOMAIN sets : sets[k] = qs) - 1]
      row(q) == RowOf(n, sets[q + 1])
  IN  [initial |-> 0,
       accepting |-> {index[qs] : qs \in {p \in ToSet(sets) : p \cap n.acceptings # {}}},
       sink |-> Len(sets),
       transitions |-> [q \in 0 .. Len(sets) |->
         IF q = Len(sets) THEN << >> ELSE [s \in DOMAIN row(q) |-> index[row(q)[s]]]]]

-----------------------------------------------------------------------------
(* RangeAutomata::process: the first range of the state that contains the  *)
(* character; which one is first is left to a hash table.                  *)
Follow(d, q, c) ==
  LET row == d.transitions[q]
      takes == {s \in DOMAIN row : c \in s}
  IN  IF takes = {} THEN d.sink ELSE row[CHOOSE s \in takes : TRUE]

(* The state after a whole text.                                           *)
After(d, text) == FoldLeft(LAMBDA q, c : Follow(d, q, c), d.initial, text)

=============================================================================

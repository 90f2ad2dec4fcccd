-------------------------- MODULE StatementsProofs --------------------------
(***************************************************************************)
(* For every input, the two stacks of the expression parser stay in step   *)
(* and no activation touches the operators below its floor, whoever the    *)
(* caller of it is; and the parser of statements is a caller that keeps to *)
(* what Expressions lets one do, so all of it holds of whole units.        *)
(***************************************************************************)
EXTENDS Statements, SequenceTheorems, TLAPS

-----------------------------------------------------------------------------
(* The expression parser, for any caller that Expressions admits.          *)

(* The two stacks whose elements are trees or records are sequences.       *)
IsSeq(s) == \E S : s \in Seq(S)

Inv == TypeOK /\ OperandsMatchOperators /\ IsSeq(m_parse_stack) /\ IsSeq(calls)

-----------------------------------------------------------------------------
(* What pushing and popping do to a sequence.                              *)
LEMMA Pushed ==
  ASSUME NEW s, IsSeq(s), NEW e
  PROVE  /\ IsSeq(Append(s, e))
         /\ Len(Append(s, e)) = Len(s) + 1
         /\ Len(s) \in Nat
         /\ DOMAIN s = 1 .. Len(s)
         /\ DOMAIN Append(s, e) = 1 .. Len(s) + 1
         /\ \A k \in DOMAIN s : Append(s, e)[k] = s[k]
         /\ Append(s, e)[Len(s) + 1] = e
<1>1. PICK S : s \in Seq(S)
  BY DEF IsSeq
<1>2. s \in Seq(S \cup {e}) /\ e \in S \cup {e}
  BY <1>1
<1>3. Append(s, e) \in Seq(S \cup {e})
  BY <1>2
<1> QED
  BY <1>2, <1>3 DEF IsSeq

LEMMA Popped ==
  ASSUME NEW s, IsSeq(s), s # << >>
  PROVE  /\ IsSeq(Pop(s))
         /\ Len(Pop(s)) = Len(s) - 1
         /\ Len(s) \in Nat \ {0}
         /\ DOMAIN s = 1 .. Len(s)
         /\ DOMAIN Pop(s) = 1 .. Len(s) - 1
         /\ \A k \in DOMAIN Pop(s) : Pop(s)[k] = s[k]
<1>1. PICK S : s \in Seq(S)
  BY DEF IsSeq
<1>2. Len(s) \in Nat \ {0}
  BY <1>1
<1>3. \A k \in 1 .. Len(s) - 1 : s[k] \in S
  BY <1>1, <1>2
<1>4. /\ Pop(s) \in Seq(S)
      /\ Len(Pop(s)) = Len(s) - 1
      /\ \A k \in 1 .. Len(s) - 1 : Pop(s)[k] = s[k]
  <2>1. /\ Len(Pop(s)) = IF 1 <= Len(s) - 1 THEN (Len(s) - 1) - 1 + 1 ELSE 0
        /\ Pop(s) \in Seq(S)
        /\ \A k \in 1 .. (Len(s) - 1) - 1 + 1 : Pop(s)[k] = s[1 + k - 1]
    BY <1>2, <1>3, SubSeqProperties DEF Pop
  <2>2. Len(Pop(s)) = Len(s) - 1
    <3>1. \A n \in Nat \ {0} : (IF 1 <= n - 1 THEN (n - 1) - 1 + 1 ELSE 0) = n - 1
      OBVIOUS
    <3> QED
      BY <1>2, <2>1, <3>1, Zenon
  <2>3. ASSUME NEW k \in 1 .. Len(s) - 1 PROVE Pop(s)[k] = s[k]
    <3>1. k \in 1 .. (Len(s) - 1) - 1 + 1 /\ 1 + k - 1 = k
      BY <1>2
    <3> QED
      BY <2>1, <3>1
  <2> QED
    BY <2>1, <2>2, <2>3
<1>5. DOMAIN s = 1 .. Len(s) /\ DOMAIN Pop(s) = 1 .. Len(s) - 1
  BY <1>1, <1>4
<1> QED
  BY <1>2, <1>4, <1>5 DEF IsSeq

LEMMA PoppedIn ==
  ASSUME NEW S, NEW s \in Seq(S), s # << >>
  PROVE  Pop(s) \in Seq(S)
<1>1. Len(s) \in Nat \ {0} /\ \A k \in 1 .. Len(s) - 1 : s[k] \in S
  OBVIOUS
<1> QED
  BY <1>1, SubSeqProperties DEF Pop

-----------------------------------------------------------------------------
(* The last conjunct of TypeOK, of any activations over any number of      *)
(* operators: every floor is within the stack, and floors are nested.      *)
Nested(cs, n) ==
  \A k \in DOMAIN cs :
    /\ cs[k].for \in IF k = 1 THEN {"statement"} ELSE {"group", "argument"}
    /\ cs[k].base \in 0 .. n
    /\ \A j \in 1 .. k : cs[j].base <= cs[k].base

(* An activation may be entered with its floor at the top.                 *)
LEMMA NestedPush ==
  ASSUME NEW cs, IsSeq(cs), cs # << >>, NEW n \in Nat, Nested(cs, n),
         NEW r, r.for \in {"group", "argument"}, r.base = n
  PROVE  Nested(Append(cs, r), n)
<1> DEFINE ds == Append(cs, r)
<1>1. /\ Len(cs) \in Nat \ {0}
      /\ DOMAIN cs = 1 .. Len(cs)
      /\ DOMAIN ds = 1 .. Len(cs) + 1
      /\ \A k \in 1 .. Len(cs) : ds[k] = cs[k]
      /\ ds[Len(cs) + 1] = r
  BY Pushed, Popped
<1>2. \A k \in 1 .. Len(cs) : cs[k].base \in 0 .. n
  BY <1>1 DEF Nested
<1> HIDE DEF ds
<1>3. ASSUME NEW k \in DOMAIN ds
      PROVE  /\ ds[k].for \in IF k = 1 THEN {"statement"} ELSE {"group", "argument"}
             /\ ds[k].base \in 0 .. n
             /\ \A j \in 1 .. k : ds[j].base <= ds[k].base
  <2>1. CASE k = Len(cs) + 1
    <3>1. ds[k] = r /\ k # 1
      BY <1>1, <2>1
    <3>2. ASSUME NEW j \in 1 .. k PROVE ds[j].base \in 0 .. n
      <4>1. j = k \/ j \in 1 .. Len(cs)
        BY <1>1, <2>1
      <4> QED
        BY <1>1, <1>2, <3>1, <4>1
    <3> QED
      BY <3>1, <3>2
  <2>2. CASE k \in 1 .. Len(cs)
    <3>1. \A j \in 1 .. k : j \in 1 .. Len(cs)
      BY <1>1, <2>2
    <3> QED
      BY <1>1, <2>2, <3>1 DEF Nested
  <2> QED
    BY <1>1, <2>1, <2>2
<1> QED
  BY <1>3 DEF Nested, ds

(* Leaving an activation leaves the others as they were.                   *)
LEMMA NestedPop ==
  ASSUME NEW cs, IsSeq(cs), cs # << >>, NEW n \in Nat, Nested(cs, n)
  PROVE  Nested(Pop(cs), n)
<1>1. /\ Len(cs) \in Nat \ {0}
      /\ DOMAIN cs = 1 .. Len(cs)
      /\ DOMAIN Pop(cs) = 1 .. Len(cs) - 1
      /\ \A k \in 1 .. Len(cs) - 1 : Pop(cs)[k] = cs[k]
  BY Popped
<1>2. ASSUME NEW k \in DOMAIN Pop(cs)
      PROVE  k \in DOMAIN cs /\ \A j \in 1 .. k : Pop(cs)[j] = cs[j]
  BY <1>1
<1> QED
  BY <1>1, <1>2 DEF Nested

(* An operator more never hurts; one above the last floor may go.          *)
LEMMA NestedResize ==
  ASSUME NEW cs, IsSeq(cs), cs # << >>, NEW n \in Nat, Nested(cs, n),
         NEW m \in Nat, Top(cs).base <= m
  PROVE  Nested(cs, m)
<1>1. Len(cs) \in DOMAIN cs /\ DOMAIN cs = 1 .. Len(cs)
  BY Popped
<1>2. ASSUME NEW k \in DOMAIN cs PROVE cs[k].base \in 0 .. m
  <2>1. cs[k].base <= Top(cs).base
    BY <1>1 DEF Nested, Top
  <2>2. cs[k].base \in Nat /\ Top(cs).base \in Nat
    BY <1>1 DEF Nested, Top
  <2> QED
    BY <2>1, <2>2
<1> QED
  BY <1>2 DEF Nested

-----------------------------------------------------------------------------
(* TypeOK in the terms of these lemmas.                                    *)
Typed ==
  /\ tokens \in Seq(STRING)
  /\ m_pos \in Nat \ {0}
  /\ m_operator_stack \in Seq(Operators)
  /\ at \in {"idle", "operand", "after", "done", "rejected"}
  /\ at \in {"operand", "after"} => calls # << >>
  /\ at \in {"idle", "done"} => calls = << >>
  /\ Nested(calls, Len(m_operator_stack))

LEMMA TypedIsTypeOK == TypeOK <=> Typed
BY DEF TypeOK, Typed, Nested

(* What holds between the stacks while the parser runs.                    *)
LEMMA Running ==
  ASSUME Inv, at \in {"operand", "after"}
  PROVE  /\ Typed
         /\ IsSeq(m_operator_stack) /\ Len(m_operator_stack) \in Nat
         /\ calls # << >>
         /\ Base \in 0 .. Len(m_operator_stack)
         /\ at = "after" => m_parse_stack # << >>
         /\ at = "after" => Len(m_parse_stack) = Len(m_operator_stack) + 1
         /\ at = "operand" => Len(m_parse_stack) = Len(m_operator_stack)
<1>1. Typed
  BY TypedIsTypeOK DEF Inv
<1>2. IsSeq(m_operator_stack) /\ Len(m_operator_stack) \in Nat
  BY <1>1 DEF Typed, IsSeq
<1>3. calls # << >>
  BY <1>1 DEF Typed
<1>4. Len(calls) \in DOMAIN calls
  BY <1>3, Popped DEF Inv
<1>5. Base \in 0 .. Len(m_operator_stack)
  BY <1>1, <1>4 DEF Typed, Nested, Base, Current, Top
<1>6. /\ at = "after" => Len(m_parse_stack) = Len(m_operator_stack) + 1
      /\ at = "operand" => Len(m_parse_stack) = Len(m_operator_stack)
  BY DEF Inv, OperandsMatchOperators
<1>7. at = "after" => m_parse_stack # << >>
  BY <1>2, <1>6
<1> QED
  BY <1>1, <1>2, <1>3, <1>5, <1>6, <1>7

(* The activation a step enters.                                           *)
LEMMA Entered ==
  ASSUME NEW for, NEW callee, NEW args, NEW from
  PROVE  /\ Activation(for, callee, args, from).for = for
         /\ Activation(for, callee, args, from).base = Len(m_operator_stack)
BY DEF Activation

LEMMA Folded ==
  ASSUME Inv, at = "after", Len(m_operator_stack) > Base, Fold
  PROVE  /\ Inv'
         /\ \A k \in 1 .. Base : k \in DOMAIN m_operator_stack' /\ m_operator_stack'[k] = m_operator_stack[k]
<1> DEFINE n == Len(m_operator_stack)
<1>1. /\ Typed /\ IsSeq(m_operator_stack) /\ n \in Nat /\ calls # << >> /\ Base \in 0 .. n
      /\ m_parse_stack # << >> /\ Len(m_parse_stack) = n + 1
  BY Running
<1>2. n \in Nat \ {0} /\ m_operator_stack # << >> /\ n - 1 \in Nat /\ Base <= n - 1
  BY <1>1
<1>3. /\ m_operator_stack' = Pop(m_operator_stack)
      /\ \E node : m_parse_stack' = Append(Pop(Pop(m_parse_stack)), node)
      /\ UNCHANGED <<tokens, m_pos, calls, at>>
  BY DEF Fold
<1>4. /\ m_operator_stack' \in Seq(Operators)
      /\ Len(m_operator_stack') = n - 1
      /\ DOMAIN m_operator_stack' = 1 .. n - 1
      /\ \A k \in 1 .. n - 1 : m_operator_stack'[k] = m_operator_stack[k]
  <2>1. m_operator_stack' \in Seq(Operators)
    BY <1>1, <1>2, <1>3, PoppedIn DEF Typed
  <2> QED
    BY <1>1, <1>2, <1>3, <2>1, Popped
<1>5. IsSeq(Pop(m_parse_stack)) /\ Len(Pop(m_parse_stack)) = n
  <2>1. IsSeq(Pop(m_parse_stack)) /\ Len(Pop(m_parse_stack)) = (n + 1) - 1
    BY <1>1, Popped DEF Inv
  <2> QED
    BY <1>1, <2>1
<1>6. IsSeq(Pop(Pop(m_parse_stack))) /\ Len(Pop(Pop(m_parse_stack))) = n - 1
  <2>1. Pop(m_parse_stack) # << >>
    BY <1>2, <1>5
  <2> QED
    BY <1>5, <2>1, Popped
<1>7. IsSeq(m_parse_stack') /\ Len(m_parse_stack') = n
  <2>1. IsSeq(m_parse_stack') /\ Len(m_parse_stack') = (n - 1) + 1
    BY <1>3, <1>6, Pushed
  <2> QED
    BY <1>2, <2>1
<1>8. Nested(calls, n - 1)
  BY <1>1, <1>2, NestedResize DEF Typed, Inv, Base, Current
<1>9. Typed'
  BY <1>1, <1>3, <1>4, <1>8 DEF Typed
<1>10. OperandsMatchOperators'
  BY <1>2, <1>3, <1>4, <1>7 DEF OperandsMatchOperators
<1>11. IsSeq(calls')
  BY <1>3 DEF Inv
<1>12. TypeOK'
  BY <1>9 DEF TypeOK, Typed, Nested
<1>13. Inv'
  BY <1>7, <1>10, <1>11, <1>12 DEF Inv
<1> QED
  BY <1>1, <1>2, <1>4, <1>13

(* A step that leaves the operators alone, in the terms of the lemmas.     *)
LEMMA Unfolded ==
  ASSUME Inv, at \in {"operand", "after"},
         UNCHANGED <<tokens, m_operator_stack>>,
         m_pos' \in Nat \ {0},
         at' \in {"operand", "after", "done", "rejected"},
         at' = "done" <=> calls' = << >>,
         IsSeq(calls'), Nested(calls', Len(m_operator_stack)),
         IsSeq(m_parse_stack'),
         at' # "rejected" =>
           Len(m_parse_stack') = Len(m_operator_stack) + (IF at' = "operand" THEN 0 ELSE 1)
  PROVE  /\ Inv'
         /\ \A k \in 1 .. Base : k \in DOMAIN m_operator_stack' /\ m_operator_stack'[k] = m_operator_stack[k]
<1>1. Typed /\ Base \in 0 .. Len(m_operator_stack) /\ Len(m_operator_stack) \in Nat
  BY Running
<1>2. Typed'
  BY <1>1 DEF Typed
<1>3. TypeOK'
  BY <1>2 DEF TypeOK, Typed, Nested
<1>4. OperandsMatchOperators'
  BY DEF OperandsMatchOperators
<1>5. \A k \in 1 .. Base : k \in DOMAIN m_operator_stack
  BY <1>1 DEF Typed
<1> QED
  BY <1>3, <1>4, <1>5 DEF Inv

LEMMA ParseStep ==
  ASSUME Inv, Parse
  PROVE  /\ Inv'
         /\ \A k \in 1 .. Base : k \in DOMAIN m_operator_stack' /\ m_operator_stack'[k] = m_operator_stack[k]
<1> DEFINE n == Len(m_operator_stack)
<1> USE DEF Returns, Over, FoldTighter, FoldRest
<1>1. at \in {"operand", "after"}
  BY DEF Parse, Atom, OpenGroup, NoOperand, Member, NoMember, EmptyCall, OpenCall, PushOperator,
         CloseGroup, NextArgument, CloseCall, EndExpression, NotClosed
<1>2. /\ Typed /\ IsSeq(m_operator_stack) /\ n \in Nat /\ calls # << >> /\ Base \in 0 .. n
      /\ at = "after" => m_parse_stack # << >> /\ Len(m_parse_stack) = n + 1
      /\ at = "operand" => Len(m_parse_stack) = n
  BY <1>1, Running
<1>3. /\ IsSeq(m_parse_stack) /\ IsSeq(calls)
      /\ Nested(calls, n) /\ m_pos + 1 \in Nat \ {0} /\ m_pos + 2 \in Nat \ {0}
  BY <1>2 DEF Inv, Typed
<1>4. /\ IsSeq(Pop(calls)) /\ Nested(Pop(calls), n)
      /\ Pop(calls) = << >> <=> Current.for = "statement"
  <2>1. /\ IsSeq(Pop(calls)) /\ Len(Pop(calls)) = Len(calls) - 1
        /\ Len(calls) \in Nat \ {0} /\ Len(calls) \in DOMAIN calls
    BY <1>2, <1>3, Popped
  <2>2. Current.for = "statement" <=> Len(calls) = 1
    BY <1>3, <2>1 DEF Nested, Current, Top
  <2>3. Pop(calls) = << >> <=> Len(Pop(calls)) = 0
    BY <2>1 DEF IsSeq
  <2> QED
    BY <1>2, <1>3, <2>1, <2>2, <2>3, NestedPop
<1>5. ASSUME NEW r, r.for \in {"group", "argument"}, r.base = n
      PROVE  /\ IsSeq(Append(calls, r)) /\ Nested(Append(calls, r), n) /\ Append(calls, r) # << >>
             /\ Current.for # "statement" =>
                  /\ IsSeq(Append(Pop(calls), r)) /\ Nested(Append(Pop(calls), r), n)
                  /\ Append(Pop(calls), r) # << >>
  <2>1. ASSUME NEW cs, IsSeq(cs), cs # << >>, Nested(cs, n)
        PROVE  IsSeq(Append(cs, r)) /\ Nested(Append(cs, r), n) /\ Append(cs, r) # << >>
    <3>1. IsSeq(Append(cs, r)) /\ Len(Append(cs, r)) = Len(cs) + 1 /\ Len(cs) \in Nat
      BY <2>1, Pushed
    <3>2. Append(cs, r) # << >>
      BY <3>1
    <3> QED
      BY <1>2, <1>5, <2>1, <3>1, <3>2, NestedPush
  <2> QED
    BY <1>2, <1>3, <1>4, <2>1
<1>6. at = "after" => IsSeq(Pop(m_parse_stack)) /\ Len(Pop(m_parse_stack)) = n
  <2>1. at = "after" => IsSeq(Pop(m_parse_stack)) /\ Len(Pop(m_parse_stack)) = (n + 1) - 1
    BY <1>2, <1>3, Popped
  <2> QED
    BY <1>2, <2>1
<1>7. at = "after" => \A e : IsSeq(Append(Pop(m_parse_stack), e)) /\ Len(Append(Pop(m_parse_stack), e)) = n + 1
  BY <1>6, Pushed
<1>8. at = "operand" => \A e : IsSeq(Append(m_parse_stack, e)) /\ Len(Append(m_parse_stack, e)) = n + 1
  BY <1>2, <1>3, Pushed
<1>9. CASE Reject
  <2>1. UNCHANGED calls /\ calls # << >> /\ at' = "rejected" /\ m_pos \in Nat \ {0}
    BY <1>2, <1>9 DEF Reject, Typed
  <2> QED
    BY <1>1, <1>3, <1>9, <2>1, Unfolded DEF Reject
<1>10. CASE Atom
  <2>1. /\ at = "operand" /\ at' = "after" /\ m_pos' = m_pos + 1
        /\ \E e : m_parse_stack' = Append(m_parse_stack, e)
        /\ UNCHANGED <<tokens, m_operator_stack, calls>>
    BY <1>10 DEF Atom
  <2> QED
    BY <1>1, <1>2, <1>3, <1>8, <2>1, Unfolded
<1>11. CASE OpenGroup
  <2>1. /\ at = "operand" /\ at' = "operand" /\ m_pos' = m_pos + 1
        /\ calls' = Append(calls, Activation("group", << >>, << >>, m_pos + 1))
        /\ UNCHANGED <<tokens, m_parse_stack, m_operator_stack>>
    BY <1>11 DEF OpenGroup
  <2>2. IsSeq(calls') /\ Nested(calls', n) /\ calls' # << >>
    BY <1>5, <2>1, Entered
  <2> QED
    BY <1>1, <1>2, <1>3, <2>1, <2>2, Unfolded
<1>12. CASE Member \/ EmptyCall
  <2>1. /\ at = "after" /\ at' = "after" /\ m_pos' = m_pos + 2
        /\ \E e : m_parse_stack' = Append(Pop(m_parse_stack), e)
        /\ UNCHANGED <<tokens, m_operator_stack, calls>>
    BY <1>12 DEF Member, EmptyCall
  <2> QED
    BY <1>1, <1>2, <1>3, <1>7, <2>1, Unfolded
<1>13. CASE OpenCall
  <2>1. /\ at = "after" /\ at' = "operand" /\ m_pos' = m_pos + 1
        /\ m_parse_stack' = Pop(m_parse_stack)
        /\ \E callee : calls' = Append(calls, Activation("argument", callee, << >>, m_pos + 1))
        /\ UNCHANGED <<tokens, m_operator_stack>>
    BY <1>13 DEF OpenCall
  <2>2. IsSeq(calls') /\ Nested(calls', n) /\ calls' # << >>
    BY <1>5, <2>1, Entered
  <2> QED
    BY <1>1, <1>2, <1>3, <1>6, <2>1, <2>2, Unfolded
<1>14. CASE FoldTighter \/ FoldRest
  <2>1. at = "after" /\ n > Base /\ Fold
    BY <1>14 DEF FoldsBefore
  <2> QED
    BY <2>1, Folded
<1>15. CASE PushOperator
  <2>1. /\ at = "after" /\ at' = "operand" /\ m_pos' = m_pos + 1 /\ Token \in Operators
        /\ m_operator_stack' = Append(m_operator_stack, Token)
        /\ UNCHANGED <<tokens, m_parse_stack, calls>>
    BY <1>15 DEF PushOperator
  <2>2. /\ m_operator_stack' \in Seq(Operators)
        /\ Len(m_operator_stack') = n + 1
        /\ DOMAIN m_operator_stack' = 1 .. n + 1
        /\ \A k \in 1 .. n : m_operator_stack'[k] = m_operator_stack[k]
    <3>1. m_operator_stack \in Seq(Operators)
      BY <1>2 DEF Typed
    <3> QED
      BY <2>1, <3>1
  <2>3. Nested(calls, n + 1)
    <3>1. Base <= n + 1 /\ n + 1 \in Nat
      BY <1>2
    <3> QED
      BY <1>2, <1>3, <3>1, NestedResize DEF Base, Current
  <2>4. Typed'
    BY <1>2, <1>3, <2>1, <2>2, <2>3 DEF Typed
  <2>5. TypeOK'
    BY <2>4 DEF TypeOK, Typed, Nested
  <2>6. OperandsMatchOperators'
    BY <1>2, <2>1, <2>2 DEF OperandsMatchOperators
  <2>7. \A k \in 1 .. Base : k \in 1 .. n /\ k \in 1 .. n + 1
    BY <1>2
  <2> QED
    BY <1>3, <2>1, <2>2, <2>5, <2>6, <2>7 DEF Inv
<1>16. CASE CloseGroup
  <2>1. /\ at = "after" /\ at' = "after" /\ m_pos' = m_pos + 1
        /\ calls' = Pop(calls) /\ Current.for = "group"
        /\ UNCHANGED <<tokens, m_parse_stack, m_operator_stack>>
    BY <1>16 DEF CloseGroup
  <2> QED
    BY <1>1, <1>2, <1>3, <1>4, <2>1, Unfolded
<1>17. CASE NextArgument
  <2>1. /\ at = "after" /\ at' = "operand" /\ m_pos' = m_pos + 1 /\ Current.for = "argument"
        /\ m_parse_stack' = Pop(m_parse_stack)
        /\ \E callee, args : calls' = Append(Pop(calls), Activation("argument", callee, args, m_pos + 1))
        /\ UNCHANGED <<tokens, m_operator_stack>>
    BY <1>17 DEF NextArgument, TakesArgument
  <2>2. IsSeq(calls') /\ Nested(calls', n) /\ calls' # << >>
    BY <1>5, <2>1, Entered
  <2> QED
    BY <1>1, <1>2, <1>3, <1>6, <2>1, <2>2, Unfolded
<1>18. CASE CloseCall
  <2>1. /\ at = "after" /\ at' = "after" /\ m_pos' = m_pos + 1
        /\ \E e : m_parse_stack' = Append(Pop(m_parse_stack), e)
        /\ calls' = Pop(calls) /\ Current.for = "argument"
        /\ UNCHANGED <<tokens, m_operator_stack>>
    BY <1>18 DEF CloseCall, TakesArgument
  <2> QED
    BY <1>1, <1>2, <1>3, <1>4, <1>7, <2>1, Unfolded
<1>19. CASE EndExpression
  <2>1. /\ at = "after" /\ at' = "done" /\ m_pos' \in Nat \ {0}
        /\ calls' = Pop(calls) /\ Current.for = "statement"
        /\ UNCHANGED <<tokens, m_parse_stack, m_operator_stack>>
    BY <1>2, <1>19 DEF EndExpression, Typed
  <2> QED
    BY <1>1, <1>2, <1>3, <1>4, <2>1, Unfolded
<1> QED
  BY <1>9, <1>10, <1>11, <1>12, <1>13, <1>14, <1>15, <1>16, <1>17, <1>18, <1>19
  DEF Parse, NoOperand, NoMember, NotClosed

(* What the caller does, it does with no operator waiting on its account.  *)
LEMMA CallerStep ==
  ASSUME Inv, Caller
  PROVE  Inv' /\ calls = << >>
<1> DEFINE n == Len(m_operator_stack)
<1>1. at \in {"idle", "done"} /\ Typed
  <2>1. at \in {"idle", "done"}
    BY DEF Caller, TakeNode, LeaveNode, Refuse, MoveTo, StartExpression
  <2> QED
    BY <2>1, TypedIsTypeOK DEF Inv
<1>2. calls = << >> /\ n \in Nat
  BY <1>1 DEF Typed
<1>3. IsSeq(m_parse_stack) /\ Len(m_parse_stack) = n + (IF at = "idle" THEN 0 ELSE 1)
  BY <1>1 DEF Inv, OperandsMatchOperators
<1>4. CASE Refuse \/ \E p \in Nat \ {0} : MoveTo(p)
  <2>1. /\ UNCHANGED <<tokens, m_parse_stack, m_operator_stack, calls>>
        /\ m_pos' \in Nat \ {0} /\ (at' = "rejected" \/ (at = "idle" /\ at' = "idle"))
    BY <1>1, <1>4 DEF Refuse, Reject, MoveTo, Typed
  <2>2. TypeOK'
    BY <1>1, <1>2, <2>1 DEF TypeOK, Typed, Nested
  <2>3. OperandsMatchOperators'
    BY <1>3, <2>1 DEF OperandsMatchOperators
  <2> QED
    BY <1>2, <2>1, <2>2, <2>3 DEF Inv, IsSeq
<1>5. ASSUME NEW p \in Nat \ {0}, TakeNode(p) PROVE Inv'
  <2>1. /\ UNCHANGED <<tokens, m_operator_stack, calls>> /\ m_pos' = p
        /\ at = "done" /\ at' = "idle" /\ m_parse_stack' = Pop(m_parse_stack)
    BY <1>5 DEF TakeNode
  <2>2. m_parse_stack # << >>
    BY <1>2, <1>3, <2>1
  <2>3. IsSeq(m_parse_stack') /\ Len(m_parse_stack') = (n + 1) - 1
    BY <1>3, <2>1, <2>2, Popped
  <2>4. TypeOK'
    BY <1>1, <1>2, <2>1 DEF TypeOK, Typed, Nested
  <2>5. OperandsMatchOperators'
    BY <1>2, <2>1, <2>3 DEF OperandsMatchOperators
  <2>6. IsSeq(calls')
    BY <2>1 DEF Inv
  <2> QED
    BY <1>2, <2>3, <2>4, <2>5, <2>6 DEF Inv
<1>7. ASSUME NEW p \in Nat \ {0}, NEW node, LeaveNode(node, p) PROVE Inv'
  <2>1. /\ UNCHANGED <<tokens, m_operator_stack, calls>> /\ m_pos' = p
        /\ at = "idle" /\ at' = "done" /\ m_parse_stack' = Append(m_parse_stack, node)
    BY <1>7 DEF LeaveNode
  <2>2. IsSeq(m_parse_stack') /\ Len(m_parse_stack') = n + 1
    BY <1>3, <2>1, Pushed
  <2>3. TypeOK'
    BY <1>1, <1>2, <2>1 DEF TypeOK, Typed, Nested
  <2>4. OperandsMatchOperators'
    BY <1>2, <2>1, <2>2 DEF OperandsMatchOperators
  <2>5. IsSeq(calls')
    BY <2>1 DEF Inv
  <2> QED
    BY <2>2, <2>3, <2>4, <2>5 DEF Inv
<1>6. ASSUME NEW p \in Nat \ {0}, StartExpression(p) PROVE Inv'
  <2>1. /\ UNCHANGED <<tokens, m_parse_stack, m_operator_stack>>
        /\ m_pos' = p /\ at = "idle" /\ at' = "operand"
        /\ calls' = <<Activation("statement", << >>, << >>, p)>>
    BY <1>6 DEF StartExpression
  <2> DEFINE r == Activation("statement", << >>, << >>, p)
  <2>2. r.for = "statement" /\ r.base = n
    BY DEF Activation
  <2> HIDE DEF r
  <2>3. DOMAIN calls' = {1} /\ calls'[1] = r /\ calls' # << >>
    BY <2>1 DEF r
  <2>4. Nested(calls', n)
    BY <1>2, <2>2, <2>3 DEF Nested
  <2>5. TypeOK'
    BY <1>1, <2>1, <2>3, <2>4 DEF TypeOK, Typed, Nested
  <2>6. OperandsMatchOperators'
    BY <1>3, <2>1 DEF OperandsMatchOperators
  <2>7. IsSeq(calls')
    <3>1. calls' \in Seq({calls'[1]})
      BY <2>1
    <3> QED
      BY <3>1 DEF IsSeq
  <2> QED
    BY <1>3, <2>1, <2>5, <2>6, <2>7 DEF Inv, IsSeq
<1> QED
  BY <1>2, <1>4, <1>5, <1>6, <1>7 DEF Caller

LEMMA Step ==
  ASSUME Inv, Next
  PROVE  /\ Inv'
         /\ calls # << >> =>
              \A k \in 1 .. Base :
                k \in DOMAIN m_operator_stack' /\ m_operator_stack'[k] = m_operator_stack[k]
BY ParseStep, CallerStep DEF Next

LEMMA Start ==
  ASSUME Init
  PROVE  Inv
<1>1. /\ tokens \in Seq(STRING) /\ m_pos = 1 /\ m_parse_stack = << >> /\ m_operator_stack = << >>
      /\ calls = << >> /\ at = "idle"
  BY InputsAssumption DEF Init
<1>2. << >> \in Seq({})
  OBVIOUS
<1> QED
  BY <1>1, <1>2 DEF Inv, TypeOK, OperandsMatchOperators, IsSeq

LEMMA Stutter ==
  ASSUME Inv, UNCHANGED vars
  PROVE  Inv'
BY DEF Inv, TypeOK, OperandsMatchOperators, vars, IsSeq

(* The invariant the theorems rest on.                                     *)
LEMMA Invariant == Spec => []Inv
<1>1. Inv /\ [Next]_vars => Inv'
  BY Step, Stutter
<1> QED
  BY <1>1, Start, PTL DEF Spec

(* The stacks and floors are well formed, for every set of inputs: a       *)
(* statement is in no other expression and no floor is below its caller's. *)
THEOREM ExpressionsTypeCorrect == Spec => []TypeOK
<1>1. Inv => TypeOK
  BY DEF Inv
<1> QED
  BY <1>1, Invariant, PTL

(* parseBinaryExpr always finds the two operands it pops (lines 211-212).  *)
THEOREM OperandsNeverUnderflow == Spec => []OperandsMatchOperators
<1>1. Inv => OperandsMatchOperators
  BY DEF Inv
<1> QED
  BY <1>1, Invariant, PTL

(* No activation folds an operator its caller left behind (lines 178-179). *)
THEOREM FloorRespected == Spec => FloorKept
<1> DEFINE Kept == calls # << >> =>
                     \A k \in 1 .. Base :
                       k \in DOMAIN m_operator_stack' /\ m_operator_stack'[k] = m_operator_stack[k]
<1>1. Inv /\ [Next]_vars => [Kept]_vars
  BY Step
<1> QED
  BY <1>1, Invariant, PTL DEF Spec, FloorKept

-----------------------------------------------------------------------------
(* The parser of statements as the caller.                                 *)

(* A function that enters, returns, takes a node or throws does what the   *)
(* caller may.                                                             *)
LEMMA Moves ==
  ASSUME NEW p \in Nat \ {0}
  PROVE  /\ \A node : Return(node, p) => Next
         /\ \A frame : Enter(frame, p) => Next
         /\ EnterBlock(p) => Next
         /\ \A frame : Await(frame, p) => Next
         /\ MoveTo(p) => Next
         /\ Takes(p) => Next
         /\ Throw => Next
BY DEF Return, Enter, EnterBlock, Await, Takes, Throw, Next, Caller

(* Every step of the unit is one of the caller or of the expression.       *)
LEMMA UnitStep ==
  ASSUME TypeOK, UnitNext
  PROVE  Next
<1>1. m_pos \in Nat \ {0} /\ m_pos + 1 \in Nat \ {0} /\ m_pos + 2 \in Nat \ {0}
      /\ m_pos + 3 \in Nat \ {0} /\ m_pos + 4 \in Nat \ {0}
  BY DEF TypeOK
<1>2. ASSUME NEW type, NEW p \in Nat \ {0}, Body(type, p) PROVE Next
  <2>1. p + 1 \in Nat \ {0}
    OBVIOUS
  <2>2. CASE TokenAt(p) = "{"
    BY <1>2, <2>1, <2>2, Moves DEF Body
  <2>3. CASE TokenAt(p) # "{"
    BY <1>2, <2>3, Moves DEF Body
  <2> QED
    BY <2>2, <2>3
<1>3. CASE Parse
  BY <1>3 DEF Next
<1>4. CASE TakesPart \/ TakesParameter \/ NoComma
  BY <1>1, <1>4, Moves DEF TakesPart, TakesParameter, NoComma
<1>14. CASE BuildAST
  BY <1>1, <1>14 DEF BuildAST, Next, Caller
<1>5. CASE EndUnit \/ CloseBlock \/ UnclosedModule
  BY <1>1, <1>5, Moves DEF EndUnit, CloseBlock, UnclosedModule
<1>6. CASE ExpressionStatement \/ DeclarationStatement \/ ReturnStatement \/ IfStatement \/ WhileStatement
  BY <1>1, <1>6, Moves
  DEF ExpressionStatement, DeclarationStatement, ReturnStatement, IfStatement, WhileStatement
<1>7. CASE Module \/ Function \/ NoName
  BY <1>1, <1>7, Moves DEF Module, Function, NoName
<1>8. CASE EndStatement \/ NoSemicolon
  BY <1>1, <1>8, Moves DEF EndStatement, NoSemicolon
<1>9. CASE DeclareOnly \/ DeclareAndInitialize \/ NoDeclaration
  BY <1>1, <1>9, Moves DEF DeclareOnly, DeclareAndInitialize, NoDeclaration
<1>10. CASE EndDeclaration
  BY <1>1, <1>10, Moves DEF EndDeclaration
<1>11. CASE EndParameters
  <2>1. \/ Body(Absent, m_pos + 1) \/ Body(Name(m_pos + 2), m_pos + 3) \/ Throw
    BY <1>11 DEF EndParameters
  <2> QED
    BY <1>1, <1>2, <2>1, Moves
<1>12. CASE OpenBody \/ NoBody \/ IfWithoutBody \/ IfWithoutElse \/ EndWithBlock
  BY <1>1, <1>12, Moves DEF OpenBody, NoBody, IfWithoutBody, IfWithoutElse, EndWithBlock
<1>13. CASE OpenElse
  <2>1. EnterBlock(m_pos + 2) \/ EnterBlock(m_pos + 1)
    BY <1>13 DEF OpenElse
  <2> QED
    BY <1>1, <2>1, Moves
<1> QED
  BY <1>3, <1>4, <1>5, <1>6, <1>7, <1>8, <1>9, <1>10, <1>11, <1>12, <1>13, <1>14 DEF UnitNext

LEMMA UnitInvariant == UnitSpec => []Inv
<1>1. UnitInit => Inv
  BY Start DEF UnitInit
<1>2. Inv /\ [UnitNext]_unitVars => Inv'
  <2>1. ASSUME Inv, UnitNext PROVE Inv'
    BY <2>1, UnitStep, Step DEF Inv
  <2>2. ASSUME Inv, UNCHANGED unitVars PROVE Inv'
    BY <2>2, Stutter DEF unitVars
  <2> QED
    BY <2>1, <2>2
<1> QED
  BY <1>1, <1>2, PTL DEF UnitSpec

(* Parsing a unit implements the abstract caller of Expressions: every     *)
(* step of parseStmt and of what it calls is a step of it or leaves the    *)
(* cursor and the stacks alone.                                            *)
THEOREM UnitCallsExpressions == UnitSpec => Spec
<1>1. UnitInit => Init
  BY DEF UnitInit
<1>2. Inv /\ [UnitNext]_unitVars => [Next]_vars
  <2>1. ASSUME Inv, UnitNext PROVE Next
    BY <2>1, UnitStep DEF Inv
  <2>2. ASSUME UNCHANGED unitVars PROVE UNCHANGED vars
    BY <2>2 DEF unitVars
  <2> QED
    BY <2>1, <2>2
<1> QED
  BY <1>1, <1>2, UnitInvariant, PTL DEF UnitSpec, Spec

(* The stacks and floors are well formed while any unit is parsed          *)
(* (parseExpr, lines 177-209).                                             *)
THEOREM UnitTypeCorrect == UnitSpec => []TypeOK
BY UnitCallsExpressions, ExpressionsTypeCorrect, PTL

(* Whatever statement an expression is in, each fold finds its operands    *)
(* and popAs its one tree (lines 211-212).                                 *)
THEOREM UnitOperandsMatch == UnitSpec => []OperandsMatchOperators
BY UnitCallsExpressions, OperandsNeverUnderflow, PTL

(* No activation folds an operator its caller left behind, in any          *)
(* statement (lines 178-179).                                              *)
THEOREM UnitFloorRespected == UnitSpec => FloorKept
BY UnitCallsExpressions, FloorRespected, PTL

-----------------------------------------------------------------------------
(* What each node is of follows from where each function is called, with   *)
(* what a frame is made of, what an expression being parsed is for, and    *)
(* what is on the parse stack.                                             *)

(* Where a function of a kind is called: by a frame `by` with n parts.     *)
CalledBy(is, by, n) ==
  CASE is = "block" -> <<by, n>> \in {<<"if", 1>>, <<"if", 2>>, <<"while", 1>>, <<"func", 3>>}
    [] is = "var" -> <<by, n>> \in {<<"expr", 0>>, <<"func", 2>>}
    [] is \in {"expr", "return", "if", "while", "func", "module"} -> by \in Lists
    [] OTHER -> FALSE

WellMade(f) ==
  /\ f = Frame(f.is, f.parts)
  /\ IsSeq(f.parts)
  /\ f.is = "block" => Len(f.parts) >= 1
  /\ f.is = "func" => Len(f.parts) >= 2

Stacked(os) ==
  /\ IsSeq(os)
  /\ \A k \in DOMAIN os :
       /\ WellMade(os[k])
       /\ k = 1 <=> os[k].is = "unit"
       /\ k > 1 => CalledBy(os[k].is, os[k - 1].is, Len(os[k - 1].parts))

(* A frame that has called parseExpr.                                      *)
Awaits(f) ==
  <<f.is, Len(f.parts)>> \in {<<"expr", 0>>, <<"return", 0>>, <<"if", 0>>, <<"while", 0>>, <<"var", 2>>}

(* The node a function has left is the one its caller has called for.      *)
Delivered(os, kind) ==
  IF os = << >> THEN kind = "unit"
  ELSE \/ Awaits(Top(os)) /\ kind \in Exprs
       \/ CalledBy(kind, Top(os).is, Len(Top(os).parts))

AllExprs(s) == \A k \in DOMAIN s : s[k][1] \in Exprs

Trees ==
  /\ at \in {"idle", "operand", "after"} => AllExprs(m_parse_stack)
  /\ at = "done" => AllExprs(Pop(m_parse_stack))

UnitInv ==
  /\ Inv
  /\ Stacked(open)
  /\ at \in {"operand", "after"} => open # << >> /\ Awaits(Here)
  /\ at = "done" => Delivered(open, Top(m_parse_stack)[1])
  /\ Trees

(* What is delivered is what is wanted, definitions in a list excepted.    *)
LEMMA DeliveredIsWanted ==
  ASSUME UnitInv
  PROVE  OnlyDefinitionsMiscast
<1> DEFINE kind == Top(m_parse_stack)[1]
<1>1. at \in {"operand", "after"} => Operands
  BY DEF UnitInv, Trees, AllExprs, Operands
<1>2. ASSUME at = "done"
      PROVE  kind \in Wanted \/ (open # << >> /\ Here.is \in Lists /\ kind \in {"func", "module"})
  <2> DEFINE n == Len(Here.parts)
  <2>1. Delivered(open, kind)
    BY <1>2 DEF UnitInv
  <2> HIDE DEF kind
  <2>2. CASE open = << >>
    BY <2>1, <2>2 DEF Delivered, Wanted, AtParameter
  <2>3. CASE open # << >> /\ Awaits(Here) /\ kind \in Exprs
    <3>1. Here.is \notin Lists /\ Here.is # "func"
          /\ <<Here.is, n>> \notin {<<"if", 1>>, <<"if", 2>>, <<"while", 1>>, <<"func", 3>>}
      BY <2>3 DEF Awaits, Lists
    <3> QED
      BY <2>3, <3>1 DEF Wanted, AtParameter
  <2>4. CASE open # << >> /\ CalledBy(kind, Here.is, n)
    <3>1. CASE kind = "block"
      <4>1. /\ <<Here.is, n>> \in {<<"if", 1>>, <<"if", 2>>, <<"while", 1>>, <<"func", 3>>}
            /\ Here.is \notin Lists /\ ~AtParameter
        BY <2>4, <3>1 DEF CalledBy, Lists, AtParameter
      <4> QED
        BY <2>4, <3>1, <4>1 DEF Wanted
    <3>2. CASE kind = "var"
      <4>1. <<Here.is, n>> \in {<<"expr", 0>>, <<"func", 2>>} /\ Here.is \notin Lists
            /\ <<Here.is, n>> \notin {<<"if", 1>>, <<"if", 2>>, <<"while", 1>>, <<"func", 3>>}
        BY <2>4, <3>2 DEF CalledBy, Lists
      <4> QED
        BY <2>4, <3>2, <4>1 DEF Wanted, Exprs
    <3>3. CASE kind \in {"expr", "return", "if", "while", "func", "module"}
      <4>1. /\ Here.is \in Lists /\ ~AtParameter
            /\ <<Here.is, n>> \notin {<<"if", 1>>, <<"if", 2>>, <<"while", 1>>, <<"func", 3>>}
        BY <2>4, <3>3 DEF CalledBy, Lists, AtParameter
      <4>2. Wanted = Stmts
        BY <2>4, <4>1 DEF Wanted
      <4> QED
        BY <2>4, <3>3, <4>1, <4>2 DEF Stmts
    <3>4. kind \in {"block", "var", "expr", "return", "if", "while", "func", "module"}
      BY <2>4 DEF CalledBy
    <3> QED
      BY <3>1, <3>2, <3>3, <3>4
  <2> QED
    BY <2>1, <2>2, <2>3, <2>4 DEF Delivered, Here
<1> QED
  BY <1>1, <1>2 DEF OnlyDefinitionsMiscast

(* Frames as records.                                                      *)
LEMMA FrameFields ==
  ASSUME NEW is, NEW parts
  PROVE  /\ Frame(is, parts).is = is
         /\ Frame(is, parts).parts = parts
         /\ Frame(is, parts) = Frame(Frame(is, parts).is, Frame(is, parts).parts)
BY DEF Frame

LEMMA WithFields ==
  ASSUME NEW f, f = Frame(f.is, f.parts), NEW node
  PROVE  With(f, node) = Frame(f.is, Append(f.parts, node))
<1>1. PICK is, parts : f = [is |-> is, parts |-> parts]
  BY DEF Frame
<1> QED
  BY <1>1 DEF With, Frame

LEMMA Updated ==
  ASSUME NEW s, IsSeq(s), NEW i \in DOMAIN s, NEW e
  PROVE  /\ IsSeq([s EXCEPT ![i] = e])
         /\ Len([s EXCEPT ![i] = e]) = Len(s)
         /\ DOMAIN [s EXCEPT ![i] = e] = DOMAIN s
         /\ \A k \in DOMAIN s : [s EXCEPT ![i] = e][k] = IF k = i THEN e ELSE s[k]
<1>1. PICK S : s \in Seq(S)
  BY DEF IsSeq
<1>2. s \in Seq(S \cup {e}) /\ e \in S \cup {e}
  BY <1>1
<1>3. [s EXCEPT ![i] = e] \in Seq(S \cup {e}) /\ Len([s EXCEPT ![i] = e]) = Len(s)
  BY <1>2
<1>4. \A k \in DOMAIN s : [s EXCEPT ![i] = e][k] = IF k = i THEN e ELSE s[k]
  BY <1>1
<1> QED
  BY <1>3, <1>4 DEF IsSeq

(* A node more leaves a frame well made, and so does what a function does  *)
(* with the node of one it has called for.                                 *)
LEMMA WithWellMade ==
  ASSUME NEW f, WellMade(f), NEW node
  PROVE  /\ WellMade(With(f, node)) /\ With(f, node).is = f.is
         /\ Len(With(f, node).parts) = Len(f.parts) + 1
<1> DEFINE ps == Append(f.parts, node)
<1>1. With(f, node) = Frame(f.is, ps)
  BY WithFields DEF WellMade
<1>2. With(f, node).is = f.is /\ With(f, node).parts = ps
  BY <1>1 DEF Frame
<1>3. IsSeq(ps) /\ Len(ps) = Len(f.parts) + 1 /\ Len(f.parts) \in Nat
  BY Pushed DEF WellMade
<1> HIDE DEF ps
<1>4. With(f, node) = Frame(With(f, node).is, With(f, node).parts)
  BY <1>1, <1>2
<1> QED
  BY <1>2, <1>3, <1>4 DEF WellMade

LEMMA KeepWellMade ==
  ASSUME NEW f, WellMade(f), NEW node
  PROVE  WellMade(Keep(f, node)) /\ Keep(f, node).is = f.is
<1>1. IsSeq(f.parts) /\ Len(f.parts) \in Nat /\ DOMAIN f.parts = 1 .. Len(f.parts)
  BY Pushed DEF WellMade
<1>2. ASSUME NEW i \in DOMAIN f.parts, NEW e, Keep(f, node) = [f EXCEPT !.parts = [f.parts EXCEPT ![i] = e]]
      PROVE  WellMade(Keep(f, node)) /\ Keep(f, node).is = f.is
  <2> DEFINE ps == [f.parts EXCEPT ![i] = e]
  <2>1. IsSeq(ps) /\ Len(ps) = Len(f.parts)
    BY <1>1, Updated
  <2>2. Keep(f, node) = Frame(f.is, ps)
    <3>1. PICK is, parts : f = [is |-> is, parts |-> parts]
      BY DEF WellMade, Frame
    <3> QED
      BY <1>2, <3>1 DEF Frame
  <2> HIDE DEF ps
  <2>3. Keep(f, node).is = f.is /\ Keep(f, node).parts = ps
    BY <2>2, FrameFields
  <2>4. Keep(f, node) = Frame(Keep(f, node).is, Keep(f, node).parts)
    BY <2>2, <2>3
  <2> QED
    BY <1>1, <2>1, <2>3, <2>4 DEF WellMade
<1>3. CASE f.is = "block" /\ node[1] = "return"
  <2>1. 1 \in DOMAIN f.parts
    BY <1>1, <1>3 DEF WellMade
  <2>2. Keep(f, node) = [f EXCEPT !.parts = [f.parts EXCEPT ![1] = node]]
    BY <1>3 DEF Keep
  <2> QED
    BY <1>2, <2>1, <2>2
<1>4. CASE f.is = "func" /\ node[1] = "var"
  <2>1. 2 \in DOMAIN f.parts
    BY <1>1, <1>4 DEF WellMade
  <2>2. Keep(f, node) = [f EXCEPT !.parts = [f.parts EXCEPT ![2] = Append(f.parts[2], node)]]
    BY <1>4 DEF Keep
  <2> QED
    BY <1>2, <2>1, <2>2
<1>5. CASE ~(f.is = "block" /\ node[1] = "return") /\ ~(f.is = "func" /\ node[1] = "var")
  <2>1. Keep(f, node) = With(f, node)
    BY <1>5 DEF Keep
  <2> QED
    BY <2>1, WithWellMade
<1> QED
  BY <1>3, <1>4, <1>5

(* What entering, going on and leaving do to the frames.                   *)
LEMMA StackedPush ==
  ASSUME NEW os, Stacked(os), os # << >>, NEW f, WellMade(f), f.is # "unit",
         CalledBy(f.is, Top(os).is, Len(Top(os).parts))
  PROVE  Stacked(Append(os, f)) /\ Append(os, f) # << >> /\ Top(Append(os, f)) = f
<1> DEFINE ds == Append(os, f)
<1>1. IsSeq(os)
  BY DEF Stacked
<1>2. /\ IsSeq(ds) /\ Len(ds) = Len(os) + 1 /\ Len(os) \in Nat \ {0}
      /\ DOMAIN os = 1 .. Len(os) /\ DOMAIN ds = 1 .. Len(os) + 1
      /\ \A k \in DOMAIN os : ds[k] = os[k]
      /\ ds[Len(os) + 1] = f
  BY <1>1, Pushed, Popped
<1> HIDE DEF ds
<1>3. ASSUME NEW k \in DOMAIN ds
      PROVE  /\ WellMade(ds[k])
             /\ k = 1 <=> ds[k].is = "unit"
             /\ k > 1 => CalledBy(ds[k].is, ds[k - 1].is, Len(ds[k - 1].parts))
  <2>1. CASE k \in DOMAIN os
    <3>1. ds[k] = os[k] /\ (k > 1 => ds[k - 1] = os[k - 1])
      BY <1>2, <2>1
    <3> QED
      BY <2>1, <3>1 DEF Stacked
  <2>2. CASE k = Len(os) + 1
    <3>1. ds[k] = f /\ k # 1 /\ ds[k - 1] = Top(os)
      BY <1>2, <2>2 DEF Top
    <3> QED
      BY <3>1
  <2> QED
    BY <1>2, <2>1, <2>2
<1>4. Stacked(ds)
  BY <1>2, <1>3 DEF Stacked
<1>5. ds # << >>
  BY <1>2
<1>6. Top(ds) = f
  BY <1>2 DEF Top
<1> QED
  BY <1>4, <1>5, <1>6 DEF ds

LEMMA StackedPop ==
  ASSUME NEW os, Stacked(os), os # << >>
  PROVE  /\ Stacked(Pop(os))
         /\ WellMade(Top(os))
         /\ Pop(os) = << >> <=> Top(os).is = "unit"
         /\ Pop(os) # << >> =>
              CalledBy(Top(os).is, Top(Pop(os)).is, Len(Top(Pop(os)).parts))
         /\ Len(os) > 1 => Pop(os) # << >>
<1>1. IsSeq(os)
  BY DEF Stacked
<1>2. /\ IsSeq(Pop(os)) /\ Len(Pop(os)) = Len(os) - 1 /\ Len(os) \in Nat \ {0}
      /\ DOMAIN os = 1 .. Len(os) /\ DOMAIN Pop(os) = 1 .. Len(os) - 1
      /\ \A k \in DOMAIN Pop(os) : Pop(os)[k] = os[k]
  BY <1>1, Popped
<1>3. Len(os) \in DOMAIN os /\ WellMade(Top(os)) /\ (Len(os) = 1 <=> Top(os).is = "unit")
  BY <1>2 DEF Stacked, Top
<1>4. Pop(os) = << >> <=> Len(os) = 1
  <2>1. Pop(os) = << >> <=> Len(Pop(os)) = 0
    BY <1>2 DEF IsSeq
  <2> QED
    BY <1>2, <2>1
<1>5. Pop(os) # << >> => CalledBy(Top(os).is, Top(Pop(os)).is, Len(Top(Pop(os)).parts))
  <2> SUFFICES ASSUME Pop(os) # << >>
               PROVE  CalledBy(Top(os).is, Top(Pop(os)).is, Len(Top(Pop(os)).parts))
    OBVIOUS
  <2>1. Len(os) > 1 /\ Len(os) - 1 \in DOMAIN Pop(os)
    BY <1>2, <1>4
  <2>2. Top(Pop(os)) = os[Len(os) - 1]
    BY <1>2, <2>1 DEF Top
  <2> QED
    BY <1>3, <2>1, <2>2 DEF Stacked, Top
<1>6. ASSUME NEW k \in DOMAIN Pop(os)
      PROVE  /\ WellMade(Pop(os)[k])
             /\ k = 1 <=> Pop(os)[k].is = "unit"
             /\ k > 1 => CalledBy(Pop(os)[k].is, Pop(os)[k - 1].is, Len(Pop(os)[k - 1].parts))
  <2>1. k \in DOMAIN os /\ Pop(os)[k] = os[k] /\ (k > 1 => Pop(os)[k - 1] = os[k - 1])
    BY <1>2
  <2> QED
    BY <2>1 DEF Stacked
<1> QED
  BY <1>2, <1>3, <1>4, <1>5, <1>6 DEF Stacked

LEMMA StackedSwap ==
  ASSUME NEW os, Stacked(os), os # << >>, NEW f, WellMade(f), f.is = Top(os).is
  PROVE  Stacked(Append(Pop(os), f)) /\ Append(Pop(os), f) # << >> /\ Top(Append(Pop(os), f)) = f
<1>1. CASE Pop(os) # << >>
  <2>1. f.is # "unit"
    BY <1>1, StackedPop
  <2> QED
    BY <1>1, <2>1, StackedPop, StackedPush
<1>2. CASE Pop(os) = << >>
  <2>1. f.is = "unit" /\ Append(Pop(os), f) = <<f>>
    BY <1>2, StackedPop
  <2>2. IsSeq(<<f>>)
    <3>1. <<f>> \in Seq({f})
      OBVIOUS
    <3> QED
      BY <3>1 DEF IsSeq
  <2>3. DOMAIN <<f>> = {1} /\ <<f>>[1] = f /\ <<f>> # << >> /\ Len(<<f>>) = 1
    OBVIOUS
  <2>4. Stacked(<<f>>)
    BY <2>1, <2>2, <2>3 DEF Stacked
  <2> QED
    BY <2>1, <2>3, <2>4 DEF Top
<1> QED
  BY <1>1, <1>2

(* The node of a frame is named for it.                                    *)
LEMMA NodeKind ==
  ASSUME NEW f, IsSeq(f.parts), NEW s, IsSeq(s)
  PROVE  Node(f)[1] = f.is /\ (Node(f) \o s)[1] = f.is
<1>1. PICK S : f.parts \in Seq(S)
  BY DEF IsSeq
<1>2. PICK T : s \in Seq(T)
  BY DEF IsSeq
<1> DEFINE U == S \cup T \cup {f.is}
<1>3. <<f.is>> \in Seq(U) /\ f.parts \in Seq(U) /\ s \in Seq(U)
  BY <1>1, <1>2
<1> HIDE DEF U
<1>4. /\ Node(f) \in Seq(U) /\ Len(Node(f)) = 1 + Len(f.parts) /\ Len(f.parts) \in Nat
      /\ Node(f)[1] = f.is
  BY <1>3 DEF Node
<1>5. /\ Len(Node(f) \o s) = Len(Node(f)) + Len(s) /\ Len(s) \in Nat
      /\ (Node(f) \o s)[1] = Node(f)[1]
  BY <1>3, <1>4
<1> QED
  BY <1>4, <1>5

-----------------------------------------------------------------------------
(* What is on the parse stack are expressions.                             *)
LEMMA PushedExprs ==
  ASSUME NEW s, IsSeq(s), AllExprs(s), NEW e, e[1] \in Exprs
  PROVE  AllExprs(Append(s, e))
BY Pushed DEF AllExprs

LEMMA PoppedExprs ==
  ASSUME NEW s, IsSeq(s), s # << >>, AllExprs(s)
  PROVE  IsSeq(Pop(s)) /\ AllExprs(Pop(s))
<1>1. IsSeq(Pop(s)) /\ DOMAIN s = 1 .. Len(s) /\ DOMAIN Pop(s) = 1 .. Len(s) - 1
      /\ Len(s) \in Nat \ {0} /\ \A k \in DOMAIN Pop(s) : Pop(s)[k] = s[k]
  BY Popped
<1> QED
  BY <1>1 DEF AllExprs

LEMMA TreesStep ==
  ASSUME UnitInv, Parse
  PROVE  AllExprs(m_parse_stack')
<1>1. at \in {"operand", "after"}
  BY DEF Parse, Atom, OpenGroup, NoOperand, Member, NoMember, EmptyCall, OpenCall, PushOperator,
         CloseGroup, NextArgument, CloseCall, EndExpression, NotClosed, Returns, Over, FoldTighter, FoldRest
<1>2. /\ Typed /\ IsSeq(m_operator_stack)
      /\ at = "after" => m_parse_stack # << >>
      /\ at = "after" => Len(m_parse_stack) = Len(m_operator_stack) + 1
      /\ Len(m_operator_stack) \in Nat /\ Base \in 0 .. Len(m_operator_stack)
  BY <1>1, Running DEF UnitInv
<1>3. IsSeq(m_parse_stack)
  BY DEF UnitInv, Inv
<1>4. AllExprs(m_parse_stack)
  BY <1>1 DEF UnitInv, Trees
<1>5. ASSUME NEW s, IsSeq(s), s # << >>, AllExprs(s)
      PROVE  IsSeq(Pop(s)) /\ AllExprs(Pop(s))
  BY <1>5, PoppedExprs
<1>6. \A a, b : /\ <<"atom", a>>[1] \in Exprs
                /\ <<"member", a, b>>[1] \in Exprs
                /\ <<"call", a, b>>[1] \in Exprs
                /\ \A op \in Operators : <<op, a, b>>[1] \in Exprs
  BY DEF Exprs
<1>7. CASE UNCHANGED m_parse_stack
  BY <1>4, <1>7
<1>8. CASE Atom
  <2>1. m_parse_stack' = Append(m_parse_stack, <<"atom", m_pos>>)
    BY <1>8 DEF Atom
  <2> QED
    BY <1>3, <1>4, <1>6, <2>1, PushedExprs
<1>9. CASE Member \/ EmptyCall \/ CloseCall
  <2>1. at = "after" /\ \E e : e[1] \in Exprs /\ m_parse_stack' = Append(Pop(m_parse_stack), e)
    BY <1>6, <1>9 DEF Member, EmptyCall, CloseCall, TakesArgument, Returns, Over
  <2>2. IsSeq(Pop(m_parse_stack)) /\ AllExprs(Pop(m_parse_stack))
    BY <1>2, <1>3, <1>4, <1>5, <2>1
  <2> QED
    BY <2>1, <2>2, PushedExprs
<1>10. CASE OpenCall \/ NextArgument
  <2>1. at = "after" /\ m_parse_stack' = Pop(m_parse_stack)
    BY <1>10 DEF OpenCall, NextArgument, TakesArgument, Returns, Over
  <2> QED
    BY <1>2, <1>3, <1>4, <1>5, <2>1
<1>11. CASE FoldTighter \/ FoldRest
  <2>1. at = "after" /\ Len(m_operator_stack) > Base /\ Fold
    BY <1>11 DEF FoldTighter, FoldRest, FoldsBefore, Over
  <2>2. Top(m_operator_stack) \in Operators /\ Len(m_parse_stack) >= 2
    BY <1>2, <2>1 DEF Typed, Top
  <2>3. IsSeq(Pop(m_parse_stack)) /\ Pop(m_parse_stack) # << >> /\ AllExprs(Pop(m_parse_stack))
    <3>1. Len(Pop(m_parse_stack)) = Len(m_parse_stack) - 1 /\ Len(m_parse_stack) \in Nat
      BY <1>2, <1>3, <2>1, Popped
    <3>2. Pop(m_parse_stack) # << >>
      BY <2>2, <3>1
    <3> QED
      BY <1>2, <1>3, <1>4, <1>5, <2>1, <3>2
  <2>4. IsSeq(Pop(Pop(m_parse_stack))) /\ AllExprs(Pop(Pop(m_parse_stack)))
    BY <1>5, <2>3
  <2>5. \E e : e[1] \in Exprs /\ m_parse_stack' = Append(Pop(Pop(m_parse_stack)), e)
    BY <1>6, <2>1, <2>2 DEF Fold
  <2> QED
    BY <2>4, <2>5, PushedExprs
<1> QED
  BY <1>7, <1>8, <1>9, <1>10, <1>11
  DEF Parse, OpenGroup, NoOperand, NoMember, PushOperator, CloseGroup, EndExpression, NotClosed, Reject

(* The conjuncts of UnitInv that speak of the frames, after a step.        *)
Framed(os, now, stack) ==
  /\ Stacked(os)
  /\ now \in {"operand", "after"} => os # << >> /\ Awaits(Top(os))
  /\ now = "done" => Delivered(os, Top(stack)[1])
  /\ now \in {"idle", "operand", "after"} => AllExprs(stack)
  /\ now = "done" => AllExprs(Pop(stack))

(* A function that returns leaves the node its caller has called for.      *)
LEMMA Returned ==
  ASSUME UnitInv, open # << >>,
         NEW node, node[1] = Here.is, NEW p, Return(node, p)
  PROVE  Framed(open', at', m_parse_stack')
<1>1. /\ open' = Pop(open) /\ at = "idle" /\ at' = "done"
      /\ m_parse_stack' = Append(m_parse_stack, node)
  BY DEF Return, LeaveNode
<1>2. IsSeq(m_parse_stack) /\ AllExprs(m_parse_stack)
  BY <1>1 DEF UnitInv, Inv, Trees
<1>3. Top(m_parse_stack') = node /\ AllExprs(Pop(m_parse_stack'))
  <2>1. /\ IsSeq(m_parse_stack') /\ Len(m_parse_stack') = Len(m_parse_stack) + 1
        /\ Len(m_parse_stack) \in Nat /\ DOMAIN m_parse_stack = 1 .. Len(m_parse_stack)
        /\ \A k \in DOMAIN m_parse_stack : m_parse_stack'[k] = m_parse_stack[k]
        /\ m_parse_stack'[Len(m_parse_stack) + 1] = node
    BY <1>1, <1>2, Pushed
  <2>2. m_parse_stack' # << >>
    BY <2>1
  <2>3. /\ DOMAIN Pop(m_parse_stack') = 1 .. Len(m_parse_stack') - 1
        /\ \A k \in DOMAIN Pop(m_parse_stack') : Pop(m_parse_stack')[k] = m_parse_stack'[k]
    BY <2>1, <2>2, Popped
  <2>4. DOMAIN Pop(m_parse_stack') = DOMAIN m_parse_stack
    BY <2>1, <2>3
  <2> QED
    BY <1>2, <2>1, <2>3, <2>4 DEF Top, AllExprs
<1>4. /\ Stacked(Pop(open)) /\ (Pop(open) = << >> <=> Here.is = "unit")
      /\ Pop(open) # << >> => CalledBy(Here.is, Top(Pop(open)).is, Len(Top(Pop(open)).parts))
  BY StackedPop DEF UnitInv, Here
<1>5. Delivered(open', node[1])
  BY <1>1, <1>4 DEF Delivered
<1> QED
  BY <1>1, <1>3, <1>4, <1>5 DEF Framed

(* So does one that takes it.                                              *)
LEMMA Taken ==
  ASSUME UnitInv, open # << >>, NEW p, Takes(p)
  PROVE  Framed(open', at', m_parse_stack')
<1> DEFINE f == Keep(Here, Top(m_parse_stack))
<1>1. /\ open' = Append(Pop(open), f) /\ at = "done" /\ at' = "idle"
      /\ m_parse_stack' = Pop(m_parse_stack)
  BY DEF Takes, TakeNode
<1>2. Stacked(open) /\ AllExprs(Pop(m_parse_stack))
  BY <1>1 DEF UnitInv, Trees
<1>3. WellMade(f) /\ f.is = Top(open).is
  BY <1>2, StackedPop, KeepWellMade DEF Here
<1> HIDE DEF f
<1>4. Stacked(open')
  BY <1>1, <1>2, <1>3, StackedSwap
<1> QED
  BY <1>1, <1>2, <1>4 DEF Framed

(* A step of the unit keeps the frames stacked: an expression is parsed    *)
(* only for a frame that waits for one, and each node is left to a caller. *)
LEMMA FramesStep ==
  ASSUME UnitInv, UnitNext
  PROVE  Framed(open', at', m_parse_stack')
<1>1. Stacked(open)
  BY DEF UnitInv
<1>2. open # << >> => WellMade(Here) /\ IsSeq(Here.parts) /\ Len(Here.parts) \in Nat
  <2>1. open # << >> => WellMade(Here)
    BY <1>1, StackedPop DEF Here
  <2> QED
    BY <2>1, Pushed DEF WellMade
<1>3. IsSeq(<< >>) /\ (\A a : IsSeq(<<a>>)) /\ (\A a, b : IsSeq(<<a, b>>))
  <2>1. << >> \in Seq({}) /\ (\A a : <<a>> \in Seq({a})) /\ (\A a, b : <<a, b>> \in Seq({a, b}))
    OBVIOUS
  <2> QED
    BY <2>1 DEF IsSeq
<1>4. ASSUME NEW s, IsSeq(s), open # << >>, NEW p, Return(Node(Here), p) \/ Return(Node(Here) \o s, p)
      PROVE  Framed(open', at', m_parse_stack')
  <2>1. Node(Here)[1] = Here.is /\ (Node(Here) \o s)[1] = Here.is
    BY <1>2, <1>4, NodeKind
  <2> QED
    BY <1>4, <2>1, Returned
<1>5. ASSUME NEW f, WellMade(f), f.is # "unit", open # << >>,
             CalledBy(f.is, Here.is, Len(Here.parts)), NEW p, Enter(f, p)
      PROVE  Framed(open', at', m_parse_stack')
  <2>1. at = "idle" /\ at' = "idle" /\ open' = Append(open, f) /\ m_parse_stack' = m_parse_stack
    BY <1>5 DEF Enter, MoveTo
  <2>2. Stacked(open')
    BY <1>1, <1>5, <2>1, StackedPush DEF Here
  <2> QED
    BY <2>1, <2>2 DEF Framed, UnitInv, Trees
<1>6. ASSUME NEW f, WellMade(f), f.is # "unit", open # << >>, Awaits(f),
             CalledBy(f.is, Here.is, Len(Here.parts)), NEW p, Await(f, p)
      PROVE  Framed(open', at', m_parse_stack')
  <2>1. at = "idle" /\ at' = "operand" /\ open' = Append(open, f) /\ m_parse_stack' = m_parse_stack
    BY <1>6 DEF Await, StartExpression
  <2>2. Stacked(open') /\ open' # << >> /\ Top(open') = f
    BY <1>1, <1>6, <2>1, StackedPush DEF Here
  <2> QED
    BY <1>6, <2>1, <2>2 DEF Framed, UnitInv, Trees
<1>7. CASE Throw
  <2>1. open' = open /\ at' = "rejected"
    BY <1>7 DEF Throw, Refuse, Reject
  <2> QED
    BY <1>1, <2>1 DEF Framed
<1>8. CASE Parse /\ UNCHANGED <<open, root>>
  <2>1. at \in {"operand", "after"} /\ at' \in {"operand", "after", "done", "rejected"}
    BY <1>8 DEF Parse, Atom, OpenGroup, NoOperand, Member, NoMember, EmptyCall, OpenCall, PushOperator,
         CloseGroup, NextArgument, CloseCall, EndExpression, NotClosed, Returns, Over, FoldTighter, FoldRest,
         Fold, Reject
  <2>2. open # << >> /\ Awaits(Top(open)) /\ AllExprs(m_parse_stack')
    BY <1>8, <2>1, TreesStep DEF UnitInv, Here
  <2>3. ASSUME at' = "done" PROVE Top(m_parse_stack')[1] \in Exprs /\ AllExprs(Pop(m_parse_stack'))
    <3>1. IsSeq(m_parse_stack') /\ m_parse_stack' # << >>
      <4>1. Inv'
        BY <1>8, ParseStep DEF UnitInv
      <4>2. Len(m_operator_stack') \in Nat /\ Len(m_parse_stack') = Len(m_operator_stack') + 1
        BY <2>3, <4>1 DEF Inv, TypeOK, OperandsMatchOperators
      <4>3. m_parse_stack' # << >>
        BY <4>2
      <4> QED
        BY <4>1, <4>3 DEF Inv, IsSeq
    <3>2. Len(m_parse_stack') \in DOMAIN m_parse_stack'
      BY <3>1, Popped
    <3> QED
      BY <2>2, <3>1, <3>2, PoppedExprs DEF AllExprs, Top
  <2> QED
    BY <1>1, <1>8, <2>1, <2>2, <2>3 DEF Framed, Delivered
<1>9. CASE TakesPart \/ TakesParameter
  BY <1>9, Taken DEF TakesPart, TakesParameter, AtParameter
<1>10. CASE BuildAST
  <2>1. /\ open' = open /\ at = "done" /\ at' = "idle" /\ m_parse_stack' = Pop(m_parse_stack)
    BY <1>10 DEF BuildAST, TakeNode
  <2> QED
    BY <1>1, <2>1 DEF Framed, UnitInv, Trees
<1>11. CASE EndUnit \/ CloseBlock
  BY <1>3, <1>4, <1>11 DEF EndUnit, CloseBlock
<1>12. CASE EndStatement \/ EndDeclaration
  BY <1>3, <1>4, <1>12 DEF EndStatement, EndDeclaration, AtSemicolon, Holds
<1>13. CASE IfWithoutBody \/ IfWithoutElse \/ EndWithBlock
  <2>1. /\ open # << >>
        /\ \E s, p : IsSeq(s) /\ (Return(Node(Here), p) \/ Return(Node(Here) \o s, p))
    BY <1>3, <1>13 DEF IfWithoutBody, IfWithoutElse, EndWithBlock, Holds
  <2> QED
    BY <1>4, <2>1
<1>14. /\ \A is \in {"expr", "return", "if", "while"} : WellMade(Frame(is, << >>)) /\ Awaits(Frame(is, << >>))
       /\ WellMade(Frame("block", <<Absent>>))
       /\ \A p : WellMade(Frame("module", <<Name(p)>>)) /\ WellMade(Frame("func", <<Name(p), << >>>>))
       /\ \A p, q : WellMade(Frame("var", <<Name(p), Name(q)>>)) /\ Awaits(Frame("var", <<Name(p), Name(q)>>))
  <2>1. ASSUME NEW is, NEW parts, IsSeq(parts), is = "block" => Len(parts) >= 1, is = "func" => Len(parts) >= 2
        PROVE  WellMade(Frame(is, parts))
    BY <2>1, FrameFields DEF WellMade
  <2>2. \A a : Len(<<a>>) = 1
    OBVIOUS
  <2>3. \A a, b : Len(<<a, b>>) = 2
    OBVIOUS
  <2>4. ASSUME NEW is \in {"expr", "return", "if", "while"}
        PROVE  WellMade(Frame(is, << >>)) /\ Awaits(Frame(is, << >>))
    <3>1. WellMade(Frame(is, << >>))
      BY <1>3, <2>1
    <3> QED
      BY <3>1, FrameFields DEF Awaits
  <2>5. WellMade(Frame("block", <<Absent>>))
    BY <1>3, <2>1, <2>2
  <2>6. \A p : WellMade(Frame("module", <<Name(p)>>)) /\ WellMade(Frame("func", <<Name(p), << >>>>))
    BY <1>3, <2>1, <2>2, <2>3
  <2>7. \A p, q : WellMade(Frame("var", <<Name(p), Name(q)>>)) /\ Awaits(Frame("var", <<Name(p), Name(q)>>))
    BY <1>3, <2>1, <2>3, FrameFields DEF Awaits
  <2> QED
    BY <2>4, <2>5, <2>6, <2>7
<1>15. CASE ExpressionStatement \/ DeclarationStatement \/ ReturnStatement \/ IfStatement \/ WhileStatement
  <2>1. open # << >> /\ Here.is \in Lists
    BY <1>15 DEF ExpressionStatement, DeclarationStatement, ReturnStatement, IfStatement, WhileStatement, Continues
  <2>2. \E is \in {"expr", "return", "if", "while"} :
          \E p : Await(Frame(is, << >>), p) \/ Enter(Frame(is, << >>), p)
    BY <1>15 DEF ExpressionStatement, DeclarationStatement, ReturnStatement, IfStatement, WhileStatement
  <2>3. \A is \in {"expr", "return", "if", "while"} : CalledBy(is, Here.is, Len(Here.parts)) /\ is # "unit"
    BY <2>1 DEF CalledBy
  <2> QED
    BY <1>5, <1>6, <1>14, <2>1, <2>2, <2>3, FrameFields
<1>16. CASE Module \/ Function
  <2>1. open # << >> /\ Here.is \in Lists
    BY <1>16 DEF Module, Function, Continues
  <2>2. \E p, q : Enter(Frame("module", <<Name(p)>>), q) \/ Enter(Frame("func", <<Name(p), << >>>>), q)
    BY <1>16 DEF Module, Function
  <2>3. CalledBy("module", Here.is, Len(Here.parts)) /\ CalledBy("func", Here.is, Len(Here.parts))
    BY <2>1 DEF CalledBy
  <2> QED
    BY <1>5, <1>14, <2>1, <2>2, <2>3, FrameFields
<1>17. CASE DeclareOnly \/ DeclareAndInitialize
  <2>1. open # << >> /\ CalledBy("var", Here.is, Len(Here.parts))
    BY <1>17 DEF DeclareOnly, DeclareAndInitialize, AtDeclaration, InParameters, Holds, CalledBy
  <2>2. WellMade(Declared) /\ Declared.is = "var" /\ Awaits(Declared)
    BY <1>14, FrameFields DEF Declared
  <2>3. WellMade(With(Declared, Absent)) /\ With(Declared, Absent).is = "var"
    BY <2>2, WithWellMade
  <2>4. \E p : Enter(With(Declared, Absent), p) \/ Await(Declared, p)
    BY <1>17 DEF DeclareOnly, DeclareAndInitialize
  <2> QED
    BY <1>5, <1>6, <2>1, <2>2, <2>3, <2>4
<1>18. CASE EndParameters
  <2>1. open # << >> /\ Here.is = "func" /\ Len(Here.parts) = 2
    BY <1>18 DEF EndParameters, InParameters, Holds
  <2>2. Throw \/ \E type, p : Body(type, p)
    BY <1>18 DEF EndParameters
  <2>3. ASSUME NEW type, NEW p, Body(type, p), ~Throw
        PROVE  Framed(open', at', m_parse_stack')
    <3> DEFINE f == With(Here, type)
    <3>1. /\ open' = Append(Append(Pop(open), f), Frame("block", <<Absent>>))
          /\ at = "idle" /\ at' = "idle" /\ m_parse_stack' = m_parse_stack
      BY <2>3 DEF Body, MoveTo
    <3>2. WellMade(f) /\ f.is = "func" /\ Len(f.parts) = 3
      <4>1. Len(Here.parts) + 1 = 3
        BY <2>1
      <4> QED
        BY <1>2, <2>1, <4>1, WithWellMade
    <3> HIDE DEF f
    <3>3. Stacked(Append(Pop(open), f)) /\ Append(Pop(open), f) # << >> /\ Top(Append(Pop(open), f)) = f
      BY <1>1, <2>1, <3>2, StackedSwap DEF Here
    <3>4. CalledBy("block", f.is, Len(f.parts))
      BY <3>2 DEF CalledBy
    <3>5. Stacked(open')
      BY <1>14, <3>1, <3>3, <3>4, StackedPush, FrameFields
    <3> QED
      BY <3>1, <3>5 DEF Framed, UnitInv, Trees
  <2> QED
    BY <1>7, <2>2, <2>3
<1>19. CASE OpenBody \/ OpenElse
  <2>1. open # << >> /\ CalledBy("block", Here.is, Len(Here.parts))
    BY <1>19 DEF OpenBody, OpenElse, Holds, CalledBy
  <2>2. \E p : Enter(Frame("block", <<Absent>>), p)
    BY <1>19 DEF OpenBody, OpenElse, EnterBlock
  <2> QED
    BY <1>5, <1>14, <2>1, <2>2, FrameFields
<1>20. CASE UnclosedModule \/ NoName \/ NoSemicolon \/ NoDeclaration \/ NoComma \/ NoBody
  BY <1>7, <1>20 DEF UnclosedModule, NoName, NoSemicolon, NoDeclaration, NoComma, NoBody
<1> QED
  BY <1>8, <1>9, <1>10, <1>11, <1>12, <1>13, <1>15, <1>16, <1>17, <1>18, <1>19, <1>20 DEF UnitNext

LEMMA UnitInvInductive == UnitSpec => []UnitInv
<1>1. UnitInit => UnitInv
  <2> SUFFICES ASSUME UnitInit PROVE UnitInv
    OBVIOUS
  <2>1. Inv /\ open = <<Frame("unit", << >>)>> /\ at = "idle" /\ m_parse_stack = << >>
    BY Start DEF UnitInit, Init
  <2>2. << >> \in Seq({}) /\ open \in Seq({Frame("unit", << >>)})
    BY <2>1
  <2>3. IsSeq(open) /\ IsSeq(<< >>)
    BY <2>2 DEF IsSeq
  <2>4. DOMAIN open = {1} /\ open[1] = Frame("unit", << >>)
    BY <2>1
  <2>5. WellMade(open[1]) /\ open[1].is = "unit"
    BY <2>3, <2>4, FrameFields DEF WellMade
  <2>6. Stacked(open)
    BY <2>3, <2>4, <2>5 DEF Stacked
  <2> QED
    BY <2>1, <2>6 DEF UnitInv, Trees, AllExprs
<1>2. UnitInv /\ [UnitNext]_unitVars => UnitInv'
  <2>1. ASSUME UnitInv, UnitNext PROVE UnitInv'
    <3>1. Inv'
      BY <2>1, UnitStep, Step DEF UnitInv, Inv
    <3>2. Framed(open', at', m_parse_stack')
      BY <2>1, FramesStep
    <3> QED
      BY <3>1, <3>2 DEF Framed, UnitInv, Trees, Here
  <2>2. ASSUME UnitInv, UNCHANGED unitVars PROVE UnitInv'
    <3>1. Inv' /\ UNCHANGED <<open, at, m_parse_stack>>
      BY <2>2, Stutter DEF UnitInv, unitVars, vars
    <3> QED
      BY <2>2, <3>1 DEF UnitInv, Trees, AllExprs, Stacked, Delivered, Here
  <2> QED
    BY <2>1, <2>2
<1> QED
  BY <1>1, <1>2, PTL DEF UnitSpec

(* The casts of popAs (Parser.hpp lines 47-52) hold in every unit, but for *)
(* the definition of a function or a module that a list pops as a Stmt     *)
(* (lines 164, 289 and 443).                                               *)
THEOREM OtherCastsNeedNoCheck == UnitSpec => []OnlyDefinitionsMiscast
<1>1. UnitInv => OnlyDefinitionsMiscast
  BY DeliveredIsWanted
<1> QED
  BY <1>1, UnitInvInductive, PTL

=============================================================================

-------------------------- MODULE ResolvedUnitProofs ---------------------------
(***************************************************************************)
(* Proofs about ResolvedUnit for every unit: the scopes that ScopeResolver *)
(* opens and leaves find what the text of the unit says.                   *)
(*                                                                         *)
(* The invariant of the walk is Walk(rs), where rs are the regions that    *)
(* are open at pos, innermost last (Stack).  It has a part for each table: *)
(*   Tree       the scopes are the regions met so far, numbered in the     *)
(*              order they were opened in, with the parents lookup follows *)
(*   WalkAt     the current scope and the saved ones are those of rs       *)
(*   Named      a scope has the names its region declares before pos, each *)
(*              with the symbol of its declarations                        *)
(*   Described  what is known of the symbols of declarations               *)
(*   Distinct   declarations share a symbol in one region, by one name     *)
(*   Meanings   the nodes before pos keep the rules, and have the symbol   *)
(*              of what they denote                                        *)
(* From Stack follows that rs are the regions around pos, though these are *)
(* defined by what comes after (StackIsAround), and from Tree and Named    *)
(* that lookup finds what a name denotes (LookupIsBinding).                *)
(*                                                                         *)
(* The invariant of the second walk, over types, is TypeWalk.  The nodes   *)
(* that wait at pos (Waiting) have their results on the stack, in order:   *)
(*   Stacked    each has the result that its kind of node leaves           *)
(*   Sound      the block on the stack that a return was joined into is in *)
(*              the function of that return, and in none inside that one   *)
(*   Complete   a return of a function not yet closed is in some block     *)
(*   Judged     the type of a block is that of its returns, and it has none*)
(*              exactly if one of them has none                            *)
(*   MethodsOf  there is one method for each function met by the first walk*)
(*   Signed     those of the functions already closed have the type of     *)
(*              their returns, and no two of one symbol the same parameters*)
(* Returns are the statements of Returning, so an `if` without a block is  *)
(* one.  From a function on top the walk goes to each of its parameters in *)
(* turn and then to its body (AmongParams); no result changes on that way. *)
(* When the unit ends nothing waits, every function is closed, and Signed  *)
(* is what was to be shown.  TypingSound joins the two walks.              *)
(***************************************************************************)
EXTENDS ResolvedUnit, FiniteSetTheorems, SequenceTheorems, WellFoundedInduction, TLAPS

USE DEF Returning

-----------------------------------------------------------------------------
(* Numbers and counting.                                                   *)
LEMMA LeastNumber ==
  ASSUME NEW T, T \subseteq Nat, T # {}
  PROVE  \E n \in T : \A m \in T : n <= m
<1> DEFINE below == {p \in Nat \X Nat : p[1] < p[2]}
<1>1. OpToRel(<, Nat) = below
  BY DEF OpToRel
<1>2. IsWellFoundedOn(below, Nat)
  BY <1>1, NatLessThanWellFounded
<1> HIDE DEF below
<1>3. PICK n \in T : \A m \in T : <<m, n>> \notin below
  BY <1>2, WFMin
<1>4. ASSUME NEW m \in T PROVE n <= m
  <2>1. n \in Nat /\ m \in Nat /\ <<m, n>> \notin below
    BY <1>3
  <2> QED BY <2>1 DEF below
<1> QED BY <1>4

LEMMA MinIsLeast ==
  ASSUME NEW S, S \subseteq Nat, S # {}
  PROVE  Min(S) \in S /\ \A x \in S : Min(S) <= x
<1>1. PICK n \in S : \A m \in S : n <= m
  BY LeastNumber
<1> QED BY <1>1 DEF Min

LEMMA MaxIsGreatest ==
  ASSUME NEW S, NEW b \in Nat, S \subseteq 0 .. b, S # {}
  PROVE  Max(S) \in S /\ \A x \in S : Max(S) >= x
<1> DEFINE T == {b - x : x \in S}
<1>1. T \subseteq Nat /\ T # {}
  <2>1. \A x \in S : b - x \in Nat
    OBVIOUS
  <2>2. PICK x \in S : TRUE
    OBVIOUS
  <2> QED BY <2>1, <2>2
<1>2. PICK n \in T : \A m \in T : n <= m
  BY <1>1, LeastNumber
<1>3. PICK x \in S : n = b - x
  BY <1>2
<1>4. \A y \in S : x >= y
  <2> SUFFICES ASSUME NEW y \in S PROVE x >= y
    OBVIOUS
  <2>1. b - y \in T
    OBVIOUS
  <2>2. n <= b - y
    BY <1>2, <2>1
  <2> QED BY <1>3, <2>2
<1> QED BY <1>4 DEF Max

LEMMA MaxUnique ==
  ASSUME NEW S, S \subseteq Nat, NEW x \in S, \A y \in S : x >= y
  PROVE  Max(S) = x
<1>1. Max(S) \in S /\ \A y \in S : Max(S) >= y
  BY DEF Max
<1>2. Max(S) >= x /\ x >= Max(S) /\ Max(S) \in Nat
  BY <1>1
<1> QED BY <1>2

LEMMA CountIsNat ==
  ASSUME NEW u, NEW kinds, NEW p \in Nat, NEW q \in Int
  PROVE  Count(u, kinds, p, q) \in Nat
<1>1. IsFiniteSet(p .. q)
  BY FS_Interval
<1>2. IsFiniteSet({k \in p .. q : u[k].n \in kinds})
  BY <1>1, FS_Subset
<1> QED BY <1>2, FS_CardinalityType DEF Count

LEMMA CountNone ==
  ASSUME NEW u, NEW kinds, NEW p \in Nat, NEW q \in Int, q < p
  PROVE  Count(u, kinds, p, q) = 0
<1>1. {k \in p .. q : u[k].n \in kinds} = {}
  OBVIOUS
<1> QED BY <1>1, FS_EmptySet DEF Count

LEMMA CountOneMore ==
  ASSUME NEW u, NEW kinds, NEW p \in Nat, NEW q \in Nat, p <= q
  PROVE  Count(u, kinds, p, q) = Count(u, kinds, p, q - 1) + (IF u[q].n \in kinds THEN 1 ELSE 0)
<1> DEFINE S == {k \in p .. q - 1 : u[k].n \in kinds}
           T == {k \in p .. q : u[k].n \in kinds}
<1>1. IsFiniteSet(p .. q - 1)
  BY FS_Interval
<1>2. IsFiniteSet(S)
  BY <1>1, FS_Subset
<1>3. q \notin S
  OBVIOUS
<1>4. Cardinality(S \cup {q}) = Cardinality(S) + 1
  BY <1>2, <1>3, FS_AddElement
<1>5. Cardinality(S) \in Nat
  BY <1>2, FS_CardinalityType
<1>6. T = IF u[q].n \in kinds THEN S \cup {q} ELSE S
  <2>1. p .. q = (p .. q - 1) \cup {q}
    OBVIOUS
  <2> DEFINE before == p .. q - 1
  <2> HIDE DEF before
  <2>2. {k \in before \cup {q} : u[k].n \in kinds}
                = {k \in before : u[k].n \in kinds} \cup (IF u[q].n \in kinds THEN {q} ELSE {})
    OBVIOUS
  <2>3. T = {k \in before \cup {q} : u[k].n \in kinds}
    BY <2>1 DEF before
  <2>4. S = {k \in before : u[k].n \in kinds}
    BY DEF before
  <2> HIDE DEF S, T
  <2> QED BY <2>2, <2>3, <2>4
<1>7. Count(u, kinds, p, q) = Cardinality(T) /\ Count(u, kinds, p, q - 1) = Cardinality(S)
  BY Zenon DEF Count
<1> HIDE DEF S, T
<1> QED BY <1>4, <1>5, <1>6, <1>7

(* How many regions opened since o are open after q.                       *)
Balance(u, o, q) == Count(u, Opens, o, q) - Count(u, Closes, o, q)

Step(n) == IF n \in Opens THEN 1 ELSE IF n \in Closes THEN -1 ELSE 0

LEMMA BalanceSteps ==
  ASSUME NEW u, NEW o \in Nat, NEW q \in Nat, o <= q
  PROVE  /\ Balance(u, o, q - 1) \in Int
         /\ Balance(u, o, q) = Balance(u, o, q - 1) + Step(u[q].n)
<1>1. /\ Count(u, Opens, o, q - 1) \in Nat
      /\ Count(u, Closes, o, q - 1) \in Nat
  BY CountIsNat
<1>2. Opens \cap Closes = {}
  BY DEF Opens, Closes
<1> QED BY <1>1, <1>2, CountOneMore DEF Balance, Step

LEMMA BalanceNone ==
  ASSUME NEW u, NEW o \in Nat
  PROVE  Balance(u, o, o - 1) = 0
BY CountNone DEF Balance

-----------------------------------------------------------------------------
(* Regions, as the stack of those that are open before node p.             *)
Ancestry(u, p, rs) ==
  /\ rs \in Seq(Nat) /\ rs # << >> /\ rs[1] = 0
  /\ \A k \in 2 .. Len(rs) : rs[k] \in 1 .. p - 1 /\ u[rs[k]].n \in Opens
  /\ \A j, k \in 1 .. Len(rs) : j < k => rs[j] < rs[k]

Open(rs) == {rs[k] : k \in 1 .. Len(rs)}
Top(rs) == rs[Len(rs)]

Balances(u, p, rs) ==
  /\ Balance(u, 1, p - 1) = Len(rs) - 1
  /\ \A k \in 2 .. Len(rs) : Balance(u, rs[k], p - 1) = Len(rs) - k + 1

StillOpen(u, p, rs) ==
  \A k \in 2 .. Len(rs) : \A q \in rs[k] .. p - 1 : Balance(u, rs[k], q) # 0
Closed(u, p, rs) ==
  \A o \in 1 .. p - 1 : (u[o].n \in Opens /\ o \notin Open(rs)) => \E q \in o .. p - 1 : Balance(u, o, q) = 0

(* Between a function and the last of its parameters nothing is opened.    *)
InParams(u, f, p) == u[f].n = "function" /\ \A q \in f + 1 .. p - 1 : u[q].n \in {"param", "identifier"}
AtParams(u, p, rs) == \A f \in 1 .. p - 1 : InParams(u, f, p) => Top(rs) = f

Stack(u, p, rs) ==
  /\ Ancestry(u, p, rs)
  /\ Balances(u, p, rs)
  /\ StillOpen(u, p, rs)
  /\ Closed(u, p, rs)
  /\ AtParams(u, p, rs)

LEMMA StackAtFirst ==
  ASSUME NEW u
  PROVE  Stack(u, 1, <<0>>)
<1>1. Balance(u, 1, 0) = 0
  BY BalanceNone
<1> QED BY <1>1 DEF Stack, Ancestry, Balances, StillOpen, Closed, AtParams, Open, Top

(* A node that opens nothing and closes nothing.                           *)
LEMMA StackPasses ==
  ASSUME NEW u, NEW p \in Nat \ {0}, NEW rs, Stack(u, p, rs), u[p].n \notin Opens \cup Closes
  PROVE  Stack(u, p + 1, rs)
<1>1. Len(rs) \in Nat /\ \A k \in 1 .. Len(rs) : rs[k] \in Nat
  BY DEF Stack, Ancestry
<1>2. \A o \in 1 .. p : Balance(u, o, p) = Balance(u, o, p - 1)
  <2>1. Step(u[p].n) = 0
    BY DEF Step
  <2> QED BY <2>1, BalanceSteps
<1>3. Ancestry(u, p + 1, rs)
  BY <1>1 DEF Stack, Ancestry
<1>4. \A k \in 2 .. Len(rs) : rs[k] \in 1 .. p /\ rs[k] <= p - 1
  BY <1>1 DEF Stack, Ancestry
<1>5. Balances(u, p + 1, rs)
  BY <1>1, <1>2, <1>4 DEF Stack, Balances
<1>6. StillOpen(u, p + 1, rs)
  <2> SUFFICES ASSUME NEW k \in 2 .. Len(rs), NEW q \in rs[k] .. p PROVE Balance(u, rs[k], q) # 0
    BY DEF StillOpen
  <2>1. CASE q \in rs[k] .. p - 1
    BY <2>1 DEF Stack, StillOpen
  <2>2. CASE q = p
    <3>1. p - 1 \in rs[k] .. p - 1
      BY <1>4, <1>1
    <3> QED BY <3>1, <2>2, <1>2, <1>4 DEF Stack, StillOpen
  <2> QED BY <2>1, <2>2, <1>4
<1>7. Closed(u, p + 1, rs)
  <2> SUFFICES ASSUME NEW o \in 1 .. p, u[o].n \in Opens, o \notin Open(rs)
               PROVE  \E q \in o .. p : Balance(u, o, q) = 0
    BY DEF Closed
  <2>0. o # p
    OBVIOUS
  <2>1. o \in 1 .. p - 1
    BY <2>0
  <2> QED BY <2>1 DEF Stack, Closed
<1>8. AtParams(u, p + 1, rs)
  <2> SUFFICES ASSUME NEW f \in 1 .. p, InParams(u, f, p + 1) PROVE Top(rs) = f
    BY DEF AtParams
  <2>1. f # p
    BY DEF InParams, Opens
  <2>2. f \in 1 .. p - 1 /\ InParams(u, f, p)
    BY <2>1 DEF InParams
  <2> QED BY <2>2 DEF Stack, AtParams
<1> QED BY <1>3, <1>5, <1>6, <1>7, <1>8 DEF Stack

(* A node that opens a region.                                             *)
LEMMA StackOpens ==
  ASSUME NEW u, NEW p \in Nat \ {0}, NEW rs, Stack(u, p, rs), u[p].n \in Opens
  PROVE  Stack(u, p + 1, Append(rs, p))
<1> DEFINE ss == Append(rs, p)
<1>0. u[p].n \notin Closes /\ Step(u[p].n) = 1
  BY DEF Opens, Closes, Step
<1>1. /\ rs \in Seq(Nat) /\ rs # << >> /\ Len(rs) \in Nat \ {0}
      /\ rs[1] = 0 /\ \A k \in 1 .. Len(rs) : rs[k] \in Nat
      /\ \A k \in 2 .. Len(rs) : rs[k] \in 1 .. p - 1 /\ u[rs[k]].n \in Opens
      /\ \A j, k \in 1 .. Len(rs) : j < k => rs[j] < rs[k]
  BY DEF Stack, Ancestry
<1>2. /\ ss \in Seq(Nat) /\ Len(ss) = Len(rs) + 1
      /\ \A k \in 1 .. Len(rs) : ss[k] = rs[k]
      /\ ss[Len(rs) + 1] = p
  BY <1>1
<1> HIDE DEF ss
<1>3. \A k \in 1 .. Len(rs) : rs[k] < p
  BY <1>1
<1>4. Ancestry(u, p + 1, ss)
  <2>1. ss # << >> /\ ss[1] = 0
    BY <1>1, <1>2
  <2>2. ASSUME NEW k \in 2 .. Len(ss) PROVE ss[k] \in 1 .. p /\ u[ss[k]].n \in Opens
    <3>1. CASE k = Len(rs) + 1
      BY <3>1, <1>2
    <3>2. CASE k \in 2 .. Len(rs)
      <4>1. ss[k] = rs[k] /\ rs[k] \in 1 .. p - 1 /\ u[rs[k]].n \in Opens
        BY <3>2, <1>1, <1>2
      <4> QED BY <4>1
    <3> QED BY <3>1, <3>2, <1>1, <1>2
  <2>3. ASSUME NEW j \in 1 .. Len(ss), NEW k \in 1 .. Len(ss), j < k PROVE ss[j] < ss[k]
    <3>1. j \in 1 .. Len(rs)
      BY <1>1, <1>2, <2>3
    <3>2. CASE k = Len(rs) + 1
      BY <3>1, <3>2, <1>2, <1>3
    <3>3. CASE k \in 1 .. Len(rs)
      BY <3>1, <3>3, <2>3, <1>1, <1>2
    <3> QED BY <3>2, <3>3, <1>1, <1>2
  <2> QED BY <1>2, <2>1, <2>2, <2>3 DEF Ancestry
<1>5. \A o \in 1 .. p : Balance(u, o, p) = Balance(u, o, p - 1) + 1
  BY <1>0, BalanceSteps
<1>6. Balance(u, p, p) = 1
  BY <1>5, BalanceNone
<1>7. Balances(u, p + 1, ss)
  <2>1. Balance(u, 1, p) = Len(ss) - 1
    BY <1>1, <1>2, <1>5 DEF Stack, Balances
  <2>2. ASSUME NEW k \in 2 .. Len(ss) PROVE Balance(u, ss[k], p) = Len(ss) - k + 1
    <3>1. CASE k = Len(rs) + 1
      BY <3>1, <1>1, <1>2, <1>6
    <3>2. CASE k \in 2 .. Len(rs)
      <4>1. Balance(u, rs[k], p) = Balance(u, rs[k], p - 1) + 1
        BY <3>2, <1>1, <1>5
      <4>2. Balance(u, rs[k], p - 1) = Len(rs) - k + 1
        BY <3>2 DEF Stack, Balances
      <4> QED BY <4>1, <4>2, <3>2, <1>1, <1>2
    <3> QED BY <3>1, <3>2, <1>1, <1>2
  <2> QED BY <2>1, <2>2 DEF Balances
<1>8. StillOpen(u, p + 1, ss)
  <2> SUFFICES ASSUME NEW k \in 2 .. Len(ss), NEW q \in ss[k] .. p PROVE Balance(u, ss[k], q) # 0
    BY DEF StillOpen
  <2>1. CASE k = Len(rs) + 1
    BY <2>1, <1>1, <1>2, <1>6
  <2>2. CASE k \in 2 .. Len(rs) /\ q # p
    <3>1. ss[k] = rs[k] /\ rs[k] \in 1 .. p - 1
      BY <2>2, <1>1, <1>2
    <3>2. q \in rs[k] .. p - 1
      BY <3>1, <2>2
    <3> QED BY <2>2, <3>1, <3>2 DEF Stack, StillOpen
  <2>3. CASE k \in 2 .. Len(rs) /\ q = p
    BY <2>3, <1>1, <1>2, <1>7 DEF Balances
  <2> QED BY <2>1, <2>2, <2>3, <1>1, <1>2
<1>9. Closed(u, p + 1, ss)
  <2> SUFFICES ASSUME NEW o \in 1 .. p, u[o].n \in Opens, o \notin Open(ss)
               PROVE  \E q \in o .. p : Balance(u, o, q) = 0
    BY DEF Closed
  <2>1. o # p
    BY <1>1, <1>2, SMTT(40) DEF Open
  <2>2. o \notin Open(rs)
    BY <1>1, <1>2, SMTT(20) DEF Open
  <2>3. o \in 1 .. p - 1
    BY <2>1
  <2> QED BY <2>2, <2>3 DEF Stack, Closed
<1>10. AtParams(u, p + 1, ss)
  <2> SUFFICES ASSUME NEW f \in 1 .. p, InParams(u, f, p + 1) PROVE Top(ss) = f
    BY DEF AtParams
  <2>1. f = p
    BY DEF InParams, Opens
  <2> QED BY <2>1, <1>1, <1>2 DEF Top
<1>11. Stack(u, p + 1, ss)
  BY <1>4, <1>7, <1>8, <1>9, <1>10 DEF Stack
<1> QED BY <1>11 DEF ss

(* A node that closes the region opened last.                              *)
LEMMA StackCloses ==
  ASSUME NEW u, NEW p \in Nat \ {0}, NEW rs, Stack(u, p, rs), u[p].n \in Closes, Balance(u, 1, p) >= 0
  PROVE  Len(rs) > 1 /\ Stack(u, p + 1, SubSeq(rs, 1, Len(rs) - 1))
<1> DEFINE ss == SubSeq(rs, 1, Len(rs) - 1)
<1>0. u[p].n \notin Opens /\ Step(u[p].n) = -1
  BY DEF Opens, Closes, Step
<1>1. /\ rs \in Seq(Nat) /\ rs # << >> /\ Len(rs) \in Nat \ {0}
      /\ rs[1] = 0 /\ \A k \in 1 .. Len(rs) : rs[k] \in Nat
      /\ \A k \in 2 .. Len(rs) : rs[k] \in 1 .. p - 1 /\ u[rs[k]].n \in Opens
      /\ \A j, k \in 1 .. Len(rs) : j < k => rs[j] < rs[k]
  BY DEF Stack, Ancestry
<1>2. \A o \in 1 .. p : Balance(u, o, p) = Balance(u, o, p - 1) - 1
  BY <1>0, BalanceSteps
<1>3. Len(rs) > 1
  BY <1>1, <1>2 DEF Stack, Balances
<1>4. /\ ss \in Seq(Nat) /\ Len(ss) = Len(rs) - 1
      /\ \A k \in 1 .. Len(rs) - 1 : ss[k] = rs[k]
  BY <1>1, <1>3
<1> HIDE DEF ss
<1>5. Ancestry(u, p + 1, ss)
  <2>1. ss # << >> /\ ss[1] = 0
    BY <1>1, <1>3, <1>4, SMTT(40)
  <2>2. ASSUME NEW k \in 2 .. Len(ss) PROVE ss[k] \in 1 .. p /\ u[ss[k]].n \in Opens
    <3>1. k \in 2 .. Len(rs) /\ ss[k] = rs[k]
      BY <1>1, <1>4
    <3> QED BY <3>1, <1>1
  <2>3. ASSUME NEW j \in 1 .. Len(ss), NEW k \in 1 .. Len(ss), j < k PROVE ss[j] < ss[k]
    <3>1. ss[j] = rs[j] /\ ss[k] = rs[k] /\ j \in 1 .. Len(rs) /\ k \in 1 .. Len(rs)
      BY <1>1, <1>4, SMTT(40)
    <3> QED BY <3>1, <2>3, <1>1
  <2> QED BY <1>4, <2>1, <2>2, <2>3 DEF Ancestry
<1>6. Balances(u, p + 1, ss)
  <2>1. Balance(u, 1, p) = Len(ss) - 1
    BY <1>1, <1>2, <1>4 DEF Stack, Balances
  <2>2. ASSUME NEW k \in 2 .. Len(ss) PROVE Balance(u, ss[k], p) = Len(ss) - k + 1
    <3>1. k \in 2 .. Len(rs) /\ rs[k] \in 1 .. p - 1 /\ ss[k] = rs[k]
      BY <1>1, <1>4, SMTT(40)
    <3>2. Balance(u, rs[k], p) = Balance(u, rs[k], p - 1) - 1
      BY <3>1, <1>2
    <3>3. Balance(u, rs[k], p - 1) = Len(rs) - k + 1
      BY <3>1 DEF Stack, Balances
    <3> QED BY <3>1, <3>2, <3>3, <1>1, <1>4
  <2> QED BY <2>1, <2>2 DEF Balances
<1>7. StillOpen(u, p + 1, ss)
  <2> SUFFICES ASSUME NEW k \in 2 .. Len(ss), NEW q \in ss[k] .. p PROVE Balance(u, ss[k], q) # 0
    BY DEF StillOpen
  <2>1. k \in 2 .. Len(rs) /\ rs[k] \in 1 .. p - 1 /\ ss[k] = rs[k]
    BY <1>1, <1>4, SMTT(40)
  <2>2. CASE q # p
    BY <2>1, <2>2 DEF Stack, StillOpen
  <2>3. CASE q = p
    BY <2>3, <1>1, <1>4, <1>6 DEF Balances
  <2> QED BY <2>2, <2>3
<1>8. Closed(u, p + 1, ss)
  <2> SUFFICES ASSUME NEW o \in 1 .. p, u[o].n \in Opens, o \notin Open(ss)
               PROVE  \E q \in o .. p : Balance(u, o, q) = 0
    BY DEF Closed
  <2>1. o \in 1 .. p - 1
    BY <1>0
  <2>2. CASE o \notin Open(rs)
    BY <2>1, <2>2 DEF Stack, Closed
  <2>3. CASE o \in Open(rs)
    <3>1. PICK k \in 1 .. Len(rs) : o = rs[k]
      BY <2>3 DEF Open
    <3>2. k = Len(rs)
      <4> SUFFICES ASSUME k # Len(rs) PROVE FALSE
        OBVIOUS
      <4>1. k \in 1 .. Len(ss) /\ ss[k] = o
        BY <3>1, <1>1, <1>4, SMTT(20)
      <4> QED BY <4>1 DEF Open
    <3>3. Balance(u, o, p - 1) = 1
      BY <3>1, <3>2, <1>1, <1>3 DEF Stack, Balances
    <3> QED BY <3>3, <1>2, <2>1
  <2> QED BY <2>2, <2>3
<1>9. AtParams(u, p + 1, ss)
  <2> SUFFICES ASSUME NEW f \in 1 .. p, InParams(u, f, p + 1) PROVE FALSE
    BY DEF AtParams
  <2> QED BY <1>0 DEF InParams, Opens, Closes
<1>10. Stack(u, p + 1, ss)
  BY <1>5, <1>6, <1>7, <1>8, <1>9 DEF Stack
<1> QED BY <1>3, <1>10 DEF ss

LEMMA RegionBounds ==
  ASSUME NEW u, NEW p \in Nat \ {0}
  PROVE  /\ RegionsAround(u, p) \subseteq 0 .. p - 1
         /\ RegionOf(u, p) \in RegionsAround(u, p)
         /\ \A r \in RegionsAround(u, p) : RegionOf(u, p) >= r
<1>1. RegionsAround(u, p) \subseteq 0 .. p - 1 /\ 0 \in RegionsAround(u, p)
  BY DEF RegionsAround
<1>2. RegionsAround(u, p) # {} /\ p - 1 \in Nat
  BY <1>1
<1> QED BY <1>1, <1>2, MaxIsGreatest DEF RegionOf

LEMMA StackIsAround ==
  ASSUME NEW u, IsUnit(u), NEW p \in 1 .. Len(u) + 1, NEW rs, Stack(u, p, rs)
  PROVE  /\ RegionsAround(u, p) = Open(rs)
         /\ RegionOf(u, p) = Top(rs)
<1>0. Len(u) \in Nat /\ DOMAIN u = 1 .. Len(u)
  BY DEF IsUnit
<1>1. /\ rs \in Seq(Nat) /\ rs # << >> /\ Len(rs) \in Nat \ {0}
      /\ rs[1] = 0 /\ \A k \in 1 .. Len(rs) : rs[k] \in Nat
      /\ \A k \in 2 .. Len(rs) : rs[k] \in 1 .. p - 1 /\ u[rs[k]].n \in Opens
      /\ \A j, k \in 1 .. Len(rs) : j < k => rs[j] < rs[k]
  BY DEF Stack, Ancestry
<1>2. ASSUME NEW o \in 1 .. p - 1, u[o].n \in Opens
      PROVE  CloserOf(u, o) >= p <=> o \in Open(rs)
  <2> DEFINE closers == {q \in o .. Len(u) : Count(u, Opens, o, q) = Count(u, Closes, o, q)}
  <2>1. closers \subseteq Nat
    OBVIOUS
  <2>2. closers # {}
    BY <1>0, <1>2, SMTT(40) DEF IsUnit, Balanced
  <2>3. CloserOf(u, o) \in closers /\ \A q \in closers : CloserOf(u, o) <= q
    BY <2>1, <2>2, MinIsLeast DEF CloserOf
  <2>4. \A q \in o .. Len(u) : q \in closers <=> Balance(u, o, q) = 0
    <3> SUFFICES ASSUME NEW q \in o .. Len(u) PROVE q \in closers <=> Balance(u, o, q) = 0
      OBVIOUS
    <3>1. Count(u, Opens, o, q) \in Nat /\ Count(u, Closes, o, q) \in Nat
      BY CountIsNat
    <3> QED BY <3>1 DEF Balance
  <2>5. CloserOf(u, o) \in o .. Len(u) /\ Balance(u, o, CloserOf(u, o)) = 0
    BY <2>3, <2>4
  <2> HIDE DEF closers
  <2>6. CASE o \in Open(rs)
    <3>1. PICK k \in 2 .. Len(rs) : o = rs[k]
      BY <1>1, <2>6 DEF Open
    <3>2. CloserOf(u, o) \notin rs[k] .. p - 1
      BY <3>1, <2>5 DEF Stack, StillOpen
    <3> QED BY <3>1, <3>2, <2>5, <2>6, <1>0
  <2>7. CASE o \notin Open(rs)
    <3>1. PICK q \in o .. p - 1 : Balance(u, o, q) = 0
      BY <1>2, <2>7 DEF Stack, Closed
    <3>2. q \in o .. Len(u)
      BY <1>0
    <3>3. q \in closers
      BY <3>1, <3>2, <2>4
    <3> QED BY <3>3, <2>3, <2>5, <2>7, <1>0
  <2> QED BY <2>6, <2>7
<1>3. ASSUME NEW o PROVE o \in RegionsAround(u, p) <=> o \in Open(rs)
  <2>1. o \in Open(rs) <=> o = 0 \/ (o \in 1 .. p - 1 /\ u[o].n \in Opens /\ o \in Open(rs))
    <3>1. 0 \in Open(rs)
      BY <1>1 DEF Open
    <3>2. o \in Open(rs) => o = 0 \/ \E k \in 2 .. Len(rs) : o = rs[k]
      BY <1>1 DEF Open
    <3> QED BY <3>1, <3>2, <1>1
  <2> QED BY <1>2, <2>1, Zenon DEF RegionsAround
<1>4. RegionsAround(u, p) = Open(rs)
  BY <1>3
<1>5. Top(rs) \in Open(rs) /\ \A o \in Open(rs) : Top(rs) >= o
  BY <1>1, SMTT(20) DEF Top, Open
<1>6. Open(rs) \subseteq Nat
  BY <1>1 DEF Open
<1> QED BY <1>4, <1>5, <1>6, MaxUnique DEF RegionOf

-----------------------------------------------------------------------------
(* What a name denotes.                                                    *)
LEMMA DeclaresFacts ==
  ASSUME NEW u, NEW r, NEW x, NEW p \in Nat
  PROVE  /\ Declares(u, r, x, p) \subseteq Nat
         /\ Declares(u, r, x, p) # {} => Min(Declares(u, r, x, p)) \in Declares(u, r, x, p)
<1>1. Declares(u, r, x, p) \subseteq Nat
  BY DEF Declares
<1> QED BY <1>1, MinIsLeast

Denotable(u, p) ==
  {NothingThere} \cup {<<"core", x>> : x \in CoreNames}
    \cup {<<"decl", d>> : d \in {e \in 1 .. p - 1 : u[e].n \in DeclaringNodes}}

LEMMA InRegionDenotable ==
  ASSUME NEW u, NEW r, NEW x, NEW p \in Nat
  PROVE  InRegion(u, r, x, p) \in Denotable(u, p)
<1>1. CASE Declares(u, r, x, p) = {}
  BY <1>1 DEF InRegion, Denotable
<1>2. CASE Declares(u, r, x, p) # {}
  <2>1. Min(Declares(u, r, x, p)) \in Declares(u, r, x, p)
    BY <1>2, DeclaresFacts
  <2>2. Min(Declares(u, r, x, p)) \in {e \in 1 .. p - 1 : u[e].n \in DeclaringNodes}
    BY <2>1 DEF Declares
  <2> QED BY <1>2, <2>2 DEF InRegion, Denotable
<1> QED BY <1>1, <1>2

LEMMA InCoreDenotable ==
  ASSUME NEW u, NEW x, NEW p
  PROVE  InCore(x) \in Denotable(u, p)
BY Zenon DEF InCore, Denotable

LEMMA MemberDenotable ==
  ASSUME NEW u, NEW of, NEW x, NEW p \in Nat
  PROVE  MemberBinding(u, of, x, p) \in Denotable(u, p)
BY InRegionDenotable, InCoreDenotable, Zenon DEF MemberBinding, Denotable

LEMMA BindingDenotable ==
  ASSUME NEW u, NEW x, NEW p \in Nat \ {0}
  PROVE  Binding(u, p, x) \in Denotable(u, p)
<1> DEFINE regions == {r \in Visible(u, p) : Declares(u, r, x, p) # {}}
<1>1. CASE regions = {}
  BY <1>1, InCoreDenotable DEF Binding
<1>2. CASE regions # {}
  <2>1. Visible(u, p) \subseteq RegionsAround(u, p)
    BY DEF Visible
  <2>2. regions \subseteq 0 .. p - 1 /\ p - 1 \in Nat
    BY <2>1, RegionBounds
  <2>3. Max(regions) \in regions
    BY <1>2, <2>2, MaxIsGreatest
  <2>4. Binding(u, p, x) = InRegion(u, Max(regions), x, p)
    BY <1>2, <2>3 DEF Binding, InRegion
  <2> QED BY <2>4, InRegionDenotable
<1> QED BY <1>1, <1>2

(* What node p denotes, if f says what those before it do.                 *)
Denotes(u, f, p) ==
  CASE p # 0 /\ u[p].n = "identifier" -> Binding(u, p, u[p].name)
    [] p # 0 /\ u[p].n = "member" -> MemberBinding(u, f[p - 1], u[p].name, p)
    [] p # 0 /\ u[p].n = "call" -> f[p - u[p].callee]
    [] OTHER -> NothingThere

LEMMA DenotesByEarlier ==
  ASSUME NEW u, HasOperands(u), NEW p \in {0} \cup DOMAIN u, p \in Nat,
         NEW f, NEW g, \A q \in 0 .. p - 1 : f[q] = g[q]
  PROVE  Denotes(u, f, p) = Denotes(u, g, p)
<1>1. CASE p # 0 /\ u[p].n = "member"
  <2>1. f[p - 1] = g[p - 1]
    BY <1>1
  <2> QED BY <1>1, <2>1 DEF Denotes
<1>2. CASE p # 0 /\ u[p].n = "call"
  <2>1. u[p].callee \in 1 .. p - 1
    BY <1>2 DEF HasOperands
  <2>2. f[p - u[p].callee] = g[p - u[p].callee]
    BY <2>1
  <2> QED BY <1>2, <2>2 DEF Denotes
<1>3. CASE p = 0 \/ u[p].n \notin {"member", "call"}
  BY <1>3 DEF Denotes
<1> QED BY <1>1, <1>2, <1>3

LEMMA DenotationExists ==
  ASSUME NEW u, IsUnit(u)
  PROVE  \A n \in Nat : \E f : \A p \in 0 .. Len(u) : p < n => f[p] = Denotes(u, f, p)
<1>0. Len(u) \in Nat /\ DOMAIN u = 1 .. Len(u) /\ HasOperands(u)
  BY DEF IsUnit
<1> DEFINE Up(f, n) == \A p \in 0 .. Len(u) : p < n => f[p] = Denotes(u, f, p)
           Bad == {n \in Nat : ~\E f : Up(f, n)}
<1> SUFFICES ASSUME Bad # {} PROVE FALSE
  OBVIOUS
<1>1. PICK n \in Bad : \A m \in Bad : n <= m
  BY LeastNumber
<1>2. n \in Nat /\ n # 0
  <2>1. Up(<< >>, 0)
    OBVIOUS
  <2> QED BY <1>1, <2>1
<1>3. PICK f : Up(f, n - 1)
  <2>1. n - 1 \in Nat /\ ~(n <= n - 1)
    BY <1>2
  <2>2. n - 1 \notin Bad
    <3> HIDE DEF Bad
    <3> QED BY <1>1, <2>1
  <2> QED BY <2>1, <2>2, Zenon
<1> DEFINE g == [p \in 0 .. Len(u) |-> IF p = n - 1 THEN Denotes(u, f, p) ELSE f[p]]
<1>5. \A p \in 0 .. Len(u) : g[p] = IF p = n - 1 THEN Denotes(u, f, p) ELSE f[p]
  OBVIOUS
<1> HIDE DEF g
<1>6. ASSUME NEW p \in 0 .. Len(u), p < n PROVE g[p] = Denotes(u, g, p)
  <2>1. \A q \in 0 .. p - 1 : f[q] = g[q]
    BY <1>5, <1>6, <1>2
  <2>2. Denotes(u, f, p) = Denotes(u, g, p)
    BY <1>0, <2>1, DenotesByEarlier
  <2>3. g[p] = Denotes(u, f, p)
    BY <1>2, <1>3, <1>5, <1>6
  <2> QED BY <2>2, <2>3
<1>7. Up(g, n)
  BY <1>6
<1> QED BY <1>1, <1>7

LEMMA DenotationSteps ==
  ASSUME NEW u, IsUnit(u)
  PROVE  \A p \in 0 .. Len(u) : Denotation(u)[p] = Denotes(u, Denotation(u), p)
<1> DEFINE Is(f) == f = [p \in 0 .. Len(u) |->
                          CASE p # 0 /\ u[p].n = "identifier" -> Binding(u, p, u[p].name)
                            [] p # 0 /\ u[p].n = "member" -> MemberBinding(u, f[p - 1], u[p].name, p)
                            [] p # 0 /\ u[p].n = "call" -> f[p - u[p].callee]
                            [] OTHER -> NothingThere]
<1>0. Len(u) \in Nat /\ DOMAIN u = 1 .. Len(u) /\ HasOperands(u)
  BY DEF IsUnit
<1>1. Denotation(u) = CHOOSE f : Is(f)
  BY DEF Denotation
<1>2. \E f : Is(f)
  <2>1. PICK f : \A p \in 0 .. Len(u) : p < Len(u) + 1 => f[p] = Denotes(u, f, p)
    BY <1>0, DenotationExists
  <2> DEFINE g == [p \in 0 .. Len(u) |-> f[p]]
  <2>2. \A p \in 0 .. Len(u) : Denotes(u, f, p) = Denotes(u, g, p)
    <3> TAKE p \in 0 .. Len(u)
    <3>1. \A q \in 0 .. p - 1 : f[q] = g[q]
      BY <1>0
    <3> HIDE DEF g
    <3> QED BY <1>0, <3>1, DenotesByEarlier
  <2>3. g = [p \in 0 .. Len(u) |-> Denotes(u, g, p)]
    BY <1>0, <2>1, <2>2
  <2> HIDE DEF g
  <2>4. Is(g)
    BY <2>3, Zenon DEF Denotes
  <2> QED BY <2>4
<1>3. Is(Denotation(u))
  BY <1>1, <1>2
<1> HIDE DEF Is
<1>4. Denotation(u) = [p \in 0 .. Len(u) |-> Denotes(u, Denotation(u), p)]
  BY <1>3, Zenon DEF Denotes, Is
<1> QED BY <1>4

LEMMA DenotationDenotable ==
  ASSUME NEW u, IsUnit(u)
  PROVE  \A p \in 0 .. Len(u) : Denotation(u)[p] \in Denotable(u, p)
<1>0. Len(u) \in Nat /\ DOMAIN u = 1 .. Len(u) /\ HasOperands(u)
  BY DEF IsUnit
<1> DEFINE d == Denotation(u)
           Bad == {p \in 0 .. Len(u) : d[p] \notin Denotable(u, p)}
<1> SUFFICES ASSUME Bad # {} PROVE FALSE
  OBVIOUS
<1>1. Bad \subseteq Nat
  OBVIOUS
<1>2. PICK p \in Bad : \A q \in Bad : p <= q
  BY <1>1, LeastNumber
<1>3. d[p] = Denotes(u, d, p)
  BY <1>2, DenotationSteps
<1> HIDE DEF d
<1>4. CASE p # 0 /\ u[p].n = "call"
  <2>1. u[p].callee \in 1 .. p - 1
    BY <1>0, <1>2, <1>4 DEF HasOperands
  <2> DEFINE q == p - u[p].callee
  <2>2. q \in 0 .. Len(u) /\ q < p
    BY <2>1, <1>0
  <2>3. d[q] \in Denotable(u, q)
    BY <1>2, <2>2
  <2>4. Denotable(u, q) \subseteq Denotable(u, p)
    <3>1. {e \in 1 .. q - 1 : u[e].n \in DeclaringNodes} \subseteq {e \in 1 .. p - 1 : u[e].n \in DeclaringNodes}
      BY <2>2
    <3> QED BY <3>1, Zenon DEF Denotable
  <2>5. d[p] = d[q]
    BY <1>3, <1>4 DEF Denotes
  <2> QED BY <2>3, <2>4, <2>5, <1>2
<1>5. CASE p # 0 /\ u[p].n = "identifier"
  BY <1>2, <1>3, <1>5, BindingDenotable DEF Denotes
<1>6. CASE p # 0 /\ u[p].n = "member"
  BY <1>2, <1>3, <1>6, MemberDenotable DEF Denotes
<1>7. CASE p = 0 \/ u[p].n \notin {"identifier", "member", "call"}
  <2>1. d[p] = NothingThere
    BY <1>3, <1>7 DEF Denotes
  <2> QED BY <2>1, <1>2 DEF Denotable
<1> QED BY <1>4, <1>5, <1>6, <1>7

-----------------------------------------------------------------------------
(* Scopes are numbered in the order in which their regions are opened.     *)
ScopeOf(u, r) == Main + Count(u, Opens, 1, r)
Opened(u, p) == {0} \cup {o \in 1 .. p - 1 : u[o].n \in Opens}
Declared(u, p) == {d \in 1 .. p - 1 : u[d].n \in DeclaringNodes}

LEMMA CountGrows ==
  ASSUME NEW u, NEW kinds, NEW q \in Nat, NEW r \in Nat, q <= r
  PROVE  Count(u, kinds, 1, q) <= Count(u, kinds, 1, r)
<1> DEFINE S == {k \in 1 .. q : u[k].n \in kinds}
           T == {k \in 1 .. r : u[k].n \in kinds}
<1>1. IsFiniteSet(1 .. r)
  BY FS_Interval
<1>2. IsFiniteSet(T)
  BY <1>1, FS_Subset
<1>3. S \subseteq T
  OBVIOUS
<1>4. Cardinality(S) <= Cardinality(T)
  BY <1>2, <1>3, FS_Subset
<1> QED BY <1>4 DEF Count

LEMMA ScopeNumbers ==
  ASSUME NEW u, NEW p \in Nat \ {0}
  PROVE  /\ \A r \in Nat : ScopeOf(u, r) \in Nat /\ ScopeOf(u, r) >= Main
         /\ ScopeOf(u, 0) = Main
         /\ \A r \in 0 .. p - 1 : ScopeOf(u, r) <= ScopeOf(u, p - 1)
         /\ \A r, o \in Opened(u, p) : r < o => ScopeOf(u, r) < ScopeOf(u, o)
         /\ \A r, o \in Opened(u, p) : ScopeOf(u, r) = ScopeOf(u, o) => r = o
<1>1. \A r \in Nat : Count(u, Opens, 1, r) \in Nat
  BY CountIsNat
<1>2. \A r \in 0 .. p - 1 : ScopeOf(u, r) <= ScopeOf(u, p - 1)
  BY <1>1, CountGrows DEF ScopeOf, Main
<1>3. ASSUME NEW r \in Opened(u, p), NEW o \in Opened(u, p), r < o
      PROVE  ScopeOf(u, r) < ScopeOf(u, o)
  <2>1. r \in Nat /\ o \in 1 .. p - 1 /\ u[o].n \in Opens /\ o - 1 \in Nat /\ r <= o - 1
    BY <1>3 DEF Opened
  <2>2. Count(u, Opens, 1, o) = Count(u, Opens, 1, o - 1) + 1
    BY <2>1, CountOneMore
  <2>3. Count(u, Opens, 1, r) <= Count(u, Opens, 1, o - 1)
    BY <2>1, CountGrows
  <2> QED BY <1>1, <2>1, <2>2, <2>3 DEF ScopeOf, Main
<1>4. ScopeOf(u, 0) = Main
  BY CountNone DEF ScopeOf, Main
<1>5. ASSUME NEW r \in Opened(u, p), NEW o \in Opened(u, p), ScopeOf(u, r) = ScopeOf(u, o)
      PROVE  r = o
  <2>1. r \in Nat /\ o \in Nat /\ ScopeOf(u, r) \in Nat
    BY <1>1 DEF Opened, ScopeOf, Main
  <2>2. ~(r < o) /\ ~(o < r)
    BY <1>3, <1>5, <2>1
  <2> QED BY <2>1, <2>2
<1> QED BY <1>1, <1>2, <1>3, <1>4, <1>5 DEF ScopeOf, Main

LEMMA ScopeIsNat ==
  ASSUME NEW u, NEW r \in Nat
  PROVE  ScopeOf(u, r) \in Nat /\ ScopeOf(u, r) >= Main
<1>1. Count(u, Opens, 1, r) \in Nat
  BY CountIsNat
<1> QED BY <1>1 DEF ScopeOf, Main

LEMMA NewScopeNumber ==
  ASSUME NEW u, NEW p \in Nat \ {0}
  PROVE  ScopeOf(u, p) = IF u[p].n \in Opens THEN ScopeOf(u, p - 1) + 1 ELSE ScopeOf(u, p - 1)
<1>1. Count(u, Opens, 1, p - 1) \in Nat
  BY CountIsNat
<1> QED BY <1>1, CountOneMore DEF ScopeOf, Main

LEMMA RegionsOpened ==
  ASSUME NEW u, NEW p \in Nat \ {0}
  PROVE  /\ RegionOf(u, p) \in Opened(u, p)
         /\ \A q \in 1 .. p : RegionOf(u, q) \in Opened(u, p)
         /\ \A q \in 1 .. p : Opened(u, q) \subseteq Opened(u, p)
<1>1. ASSUME NEW q \in 1 .. p PROVE RegionOf(u, q) \in Opened(u, q)
  <2>1. RegionOf(u, q) \in RegionsAround(u, q)
    BY RegionBounds
  <2> QED BY <2>1 DEF RegionsAround, Opened
<1>2. ASSUME NEW q \in 1 .. p PROVE Opened(u, q) \subseteq Opened(u, p)
  BY DEF Opened
<1> QED BY <1>1, <1>2

LEMMA StackOpened ==
  ASSUME NEW u, NEW p \in Nat \ {0}, NEW rs, Stack(u, p, rs)
  PROVE  \A k \in 1 .. Len(rs) : rs[k] \in Opened(u, p)
BY DEF Stack, Ancestry, Opened

(* A module cuts the regions in sight.                                     *)
LEMMA VisibleFrom ==
  ASSUME NEW u, IsUnit(u), NEW p \in 1 .. Len(u) + 1, NEW rs, Stack(u, p, rs)
  PROVE  \E j \in 1 .. Len(rs) :
           /\ Visible(u, p) = {rs[k] : k \in j .. Len(rs)}
           /\ \A k \in j + 1 .. Len(rs) : u[rs[k]].n # "module"
           /\ j = 1 \/ u[rs[j]].n = "module"
<1>0. Len(u) \in Nat /\ p \in Nat /\ p - 1 \in Nat
  BY DEF IsUnit
<1>1. /\ Len(rs) \in Nat \ {0}
      /\ rs[1] = 0 /\ \A k \in 1 .. Len(rs) : rs[k] \in Nat
      /\ \A k \in 2 .. Len(rs) : rs[k] \in 1 .. p - 1
      /\ \A j, k \in 1 .. Len(rs) : j < k => rs[j] < rs[k]
  BY DEF Stack, Ancestry
<1> DEFINE modules == {r \in RegionsAround(u, p) : r # 0 /\ u[r].n = "module"}
<1>2. RegionsAround(u, p) = Open(rs)
  BY StackIsAround
<1>3. CASE modules = {}
  <2>1. Visible(u, p) = {rs[k] : k \in 1 .. Len(rs)}
    BY <1>2, <1>3 DEF Visible, Open
  <2>2. ASSUME NEW k \in 2 .. Len(rs) PROVE u[rs[k]].n # "module"
    BY <1>1, <1>2, <1>3 DEF Open
  <2> QED BY <2>1, <2>2, <1>1, SMTT(40)
<1>4. CASE modules # {}
  <2>1. modules \subseteq 0 .. p - 1
    BY <1>0, RegionBounds
  <2>2. Max(modules) \in modules /\ \A r \in modules : Max(modules) >= r
    BY <1>0, <1>4, <2>1, MaxIsGreatest
  <2>3. PICK j \in 1 .. Len(rs) : Max(modules) = rs[j]
    BY <1>2, <2>2 DEF Open
  <2>4. u[rs[j]].n = "module"
    BY <2>2, <2>3
  <2>5. Visible(u, p) = {r \in RegionsAround(u, p) : r >= rs[j]}
    BY <1>4, <2>3 DEF Visible
  <2>6. \A k \in 1 .. Len(rs) : rs[k] >= rs[j] <=> k \in j .. Len(rs)
    <3> TAKE k \in 1 .. Len(rs)
    <3>1. k < j => rs[k] < rs[j]
      BY <1>1
    <3>2. j < k => rs[j] < rs[k]
      BY <1>1
    <3> QED BY <3>1, <3>2, <1>1
  <2>7. Visible(u, p) = {rs[k] : k \in j .. Len(rs)}
    <3>1. \A r : r \in Visible(u, p) <=> \E k \in 1 .. Len(rs) : r = rs[k] /\ rs[k] >= rs[j]
      BY <2>5, <1>2 DEF Open
    <3> QED BY <3>1, <2>6, <1>1
  <2>8. ASSUME NEW k \in j + 1 .. Len(rs), u[rs[k]].n = "module" PROVE FALSE
    <3>1. k \in 2 .. Len(rs) /\ rs[k] # 0 /\ rs[j] < rs[k]
      BY <1>1
    <3>2. rs[k] \in modules
      BY <3>1, <2>8, <1>2 DEF Open
    <3> HIDE DEF modules
    <3> QED BY <3>1, <3>2, <2>2, <2>3, <1>1
  <2> QED BY <2>4, <2>7, <2>8, <1>1
<1> QED BY <1>3, <1>4

LEMMA SameAllAlong ==
  ASSUME NEW g, NEW n \in Nat, NEW i \in 1 .. n, \A k \in i + 1 .. n : g[k] = g[k - 1]
  PROVE  g[n] = g[i]
<1> DEFINE Bad == {k \in i .. n : g[k] # g[i]}
<1> SUFFICES ASSUME Bad # {} PROVE FALSE
  OBVIOUS
<1>1. Bad \subseteq Nat
  OBVIOUS
<1>2. PICK k \in Bad : \A l \in Bad : k <= l
  BY <1>1, LeastNumber
<1>3. k \in i + 1 .. n /\ k - 1 \in i .. n /\ ~(k <= k - 1)
  BY <1>2
<1>4. k - 1 \notin Bad
  <2> HIDE DEF Bad
  <2> QED BY <1>2, <1>3
<1> QED BY <1>2, <1>3, <1>4

-----------------------------------------------------------------------------
(* The walk: the scopes are the regions met so far, each with the names    *)
(* declared in it.                                                         *)
IsSeq(s) == s \in Seq({s[i] : i \in DOMAIN s})
BoundTo(m, p) == IF p \in DOMAIN m THEN m[p] ELSE 0

Tree(u, p, rs, sc) ==
  /\ IsSeq(sc) /\ Len(sc) = ScopeOf(u, p - 1)
  /\ \A s \in 1 .. Len(sc) : DOMAIN sc[s] = {"kind", "parent", "names"} /\ sc[s].parent \in 0 .. s - 1
  /\ sc[Core].parent = 0 /\ sc[Main].parent = Core
  /\ \A k \in 2 .. Len(rs) :
       sc[ScopeOf(u, rs[k])].parent = IF u[rs[k]].n = "module" THEN Core ELSE ScopeOf(u, rs[k - 1])

CoreScope(sc) ==
  /\ DOMAIN sc[Core].names = CoreNames
  /\ \A x \in CoreNames : sc[Core].names[x] \in 1 .. 5
  /\ sc[Core].names["Core"] = 4 /\ sc[Core].names["Main"] = 5
  /\ \A x \in CoreNames : sc[Core].names[x] \in {4, 5} => x \in {"Core", "Main"}

WalkAt(u, rs, cur, sv) ==
  /\ cur = ScopeOf(u, Top(rs))
  /\ sv \in Seq(Nat) /\ Len(sv) = Len(rs) - 1
  /\ \A k \in 1 .. Len(sv) : sv[k] = ScopeOf(u, rs[k])

Home(u, d) == ScopeOf(u, RegionOf(u, d))
Named(u, p, sc, m) ==
  /\ \A d \in Declared(u, p) : /\ u[d].name \in DOMAIN sc[Home(u, d)].names
                               /\ sc[Home(u, d)].names[u[d].name] = BoundTo(m, d)
  /\ \A r \in Opened(u, p) : \A x \in DOMAIN sc[ScopeOf(u, r)].names : Declares(u, r, x, p) # {}

Described(u, p, sy, m) ==
  /\ IsSeq(sy) /\ Len(sy) >= 5
  /\ \A s \in 1 .. 3 : sy[s].kind # "Module"
  /\ sy[4].kind = "Module" /\ sy[4].moduleScope = Core
  /\ sy[5].kind = "Module" /\ sy[5].moduleScope = Main
  /\ \A d \in Declared(u, p) :
       /\ BoundTo(m, d) \in 6 .. Len(sy)
       /\ u[d].n = "function" <=> sy[BoundTo(m, d)].kind = "Function"
       /\ u[d].n = "module" <=> sy[BoundTo(m, d)].kind = "Module"
       /\ u[d].n = "module" => sy[BoundTo(m, d)].moduleScope = ScopeOf(u, d)

Distinct(u, p, m) ==
  \A d, e \in Declared(u, p) :
    BoundTo(m, d) = BoundTo(m, e) => u[d].name = u[e].name /\ RegionOf(u, d) = RegionOf(u, e)

LEMMA LookupSteps ==
  ASSUME Len(scopes) \in Nat, \A s \in 1 .. Len(scopes) : scopes[s].parent \in 0 .. s - 1,
         m_current_scope \in 1 .. Len(scopes), NEW x
  PROVE  \E f : /\ f[0] = 0
                /\ \A s \in 1 .. Len(scopes) :
                     f[s] = IF LookupLocal(s, x) # 0 THEN LookupLocal(s, x) ELSE f[scopes[s].parent]
                /\ Lookup(x) = f[m_current_scope]
<1> DEFINE Here(f, s) == IF s = 0 THEN 0
                         ELSE IF LookupLocal(s, x) # 0 THEN LookupLocal(s, x)
                         ELSE f[scopes[s].parent]
           Up(f, n) == \A s \in 0 .. Len(scopes) : s < n => f[s] = Here(f, s)
           Bad == {n \in Nat : ~\E f : Up(f, n)}
           Is(f) == f = [s \in 0 .. Len(scopes) |-> Here(f, s)]
<1>1. ASSUME NEW s \in 0 .. Len(scopes), NEW f, NEW g, \A q \in 0 .. s - 1 : f[q] = g[q]
      PROVE  Here(f, s) = Here(g, s)
  <2>1. s # 0 => f[scopes[s].parent] = g[scopes[s].parent]
    BY <1>1
  <2> QED BY <2>1
<1>7. \A f, s : Here(f, s) = IF s = 0 THEN 0
                            ELSE IF LookupLocal(s, x) # 0 THEN LookupLocal(s, x)
                            ELSE f[scopes[s].parent]
  OBVIOUS
<1>2. Bad = {}
  <2> SUFFICES ASSUME Bad # {} PROVE FALSE
    OBVIOUS
  <2>1. PICK n \in Bad : \A m \in Bad : n <= m
    BY LeastNumber
  <2>2. n \in Nat /\ n # 0
    <3>1. Up(<< >>, 0)
      OBVIOUS
    <3> QED BY <2>1, <3>1
  <2>3. PICK f : Up(f, n - 1)
    <3>1. n - 1 \in Nat /\ ~(n <= n - 1)
      BY <2>2
    <3>2. n - 1 \notin Bad
      <4> HIDE DEF Bad
      <4> QED BY <2>1, <3>1
    <3> QED BY <3>1, <3>2, Zenon
  <2> DEFINE g == [s \in 0 .. Len(scopes) |-> IF s = n - 1 THEN Here(f, s) ELSE f[s]]
  <2>4. \A s \in 0 .. Len(scopes) : g[s] = IF s = n - 1 THEN Here(f, s) ELSE f[s]
    OBVIOUS
  <2> HIDE DEF g, Here, Bad
  <2>5. ASSUME NEW s \in 0 .. Len(scopes), s < n PROVE g[s] = Here(g, s)
    <3>1. \A q \in 0 .. s - 1 : f[q] = g[q]
      <4> TAKE q \in 0 .. s - 1
      <4>1. q \in 0 .. Len(scopes) /\ q # n - 1
        BY <2>2, <2>5
      <4> QED BY <2>4, <4>1
    <3>2. Here(f, s) = Here(g, s)
      BY <1>1, <3>1
    <3>3. s = n - 1 => g[s] = Here(f, s)
      BY <2>4
    <3>4. s < n - 1 => g[s] = f[s] /\ f[s] = Here(f, s)
      BY <2>2, <2>3, <2>4
    <3>5. g[s] = Here(f, s)
      BY <2>2, <2>5, <3>3, <3>4
    <3> QED BY <3>2, <3>5
  <2>6. Up(g, n)
    BY <2>5
  <2>7. n \notin Bad
    <3> HIDE DEF Up
    <3> QED BY <2>6 DEF Bad
  <2> QED BY <2>7
<1>3. \E f : Is(f)
  <2>1. Len(scopes) + 1 \in Nat
    OBVIOUS
  <2>2. PICK f : Up(f, Len(scopes) + 1)
    <3> HIDE DEF Up
    <3> QED BY <1>2, <2>1, Zenon
  <2> DEFINE g == [s \in 0 .. Len(scopes) |-> f[s]]
  <2>3. \A s \in 0 .. Len(scopes) : g[s] = f[s]
    OBVIOUS
  <2>4. \A s \in 0 .. Len(scopes) : g[s] = Here(g, s)
    <3> TAKE s \in 0 .. Len(scopes)
    <3> HIDE DEF g
    <3>1. \A q \in 0 .. s - 1 : f[q] = g[q]
      BY <2>3
    <3>2. Here(f, s) = Here(g, s)
      BY <1>1, <3>1
    <3> HIDE DEF Here
    <3>3. f[s] = Here(f, s)
      BY <2>2, SMTT(20)
    <3> QED BY <2>3, <3>2, <3>3
  <2>5. g = [s \in 0 .. Len(scopes) |-> Here(g, s)]
    <3> HIDE DEF Here
    <3> QED BY <2>4
  <2> QED BY <2>5
<1> DEFINE c == CHOOSE f : Is(f)
<1>4. Lookup(x) = c[m_current_scope]
  BY DEF Lookup
<1>5. Is(c)
  BY <1>3
<1> HIDE DEF c
<1>6. \A s \in 0 .. Len(scopes) : c[s] = Here(c, s)
  <2> HIDE DEF Here
  <2> QED BY <1>5
<1> QED BY <1>4, <1>6

Meant(sc, m, denoted) ==
  CASE denoted[1] = "decl" -> BoundTo(m, denoted[2])
    [] denoted[1] = "core" -> sc[Core].names[denoted[2]]
    [] denoted[1] = "none" -> 0
Meanings(u, p, sc, m) ==
  \A q \in 1 .. p - 1 :
    /\ FollowsRules(u, q, Denotation(u))
    /\ u[q].n \notin DeclaringNodes => BoundTo(m, q) = Meant(sc, m, Denotation(u)[q])

Walk(rs) ==
  /\ IsUnit(unit) /\ pos \in 1 .. Len(unit) + 1
  /\ Stack(unit, pos, rs)
  /\ Tree(unit, pos, rs, scopes)
  /\ WalkAt(unit, rs, m_current_scope, saved)
  /\ CoreScope(scopes)
  /\ Named(unit, pos, scopes, m_node_symbls)
  /\ Described(unit, pos, symbols, m_node_symbls)
  /\ Distinct(unit, pos, m_node_symbls)
  /\ DOMAIN m_node_symbls \subseteq 1 .. pos - 1
  /\ Meanings(unit, pos, scopes, m_node_symbls)

LEMMA SymbolOfMeant ==
  \A denoted : SymbolOf(denoted) = Meant(scopes, m_node_symbls, denoted)
BY Zenon DEF SymbolOf, Meant, SymbolAt, BoundTo

LEMMA MeantOfEach ==
  ASSUME NEW sc, NEW m
  PROVE  /\ \A q : Meant(sc, m, <<"decl", q>>) = BoundTo(m, q)
         /\ \A x : Meant(sc, m, <<"core", x>>) = sc[Core].names[x]
         /\ Meant(sc, m, NothingThere) = 0
BY DEF Meant, NothingThere

LEMMA MeantOfDeclaration ==
  ASSUME NEW sc, NEW m, NEW e
  PROVE  Meant(sc, m, <<"decl", e>>) = BoundTo(m, e)
BY DEF Meant

LEMMA SymbolOfEach ==
  /\ \A d : SymbolOf(<<"decl", d>>) = BoundTo(m_node_symbls, d)
  /\ \A x : SymbolOf(<<"core", x>>) = scopes[Core].names[x]
  /\ SymbolOf(NothingThere) = 0
BY SymbolOfMeant, MeantOfEach, Zenon

LEMMA NothingIsNothing ==
  ASSUME NEW u, NEW p, NEW sc, NEW m, NEW sy, NEW d \in Denotable(u, p),
         CoreScope(sc), Described(u, p, sy, m)
  PROVE  Meant(sc, m, d) \in Nat /\ (Meant(sc, m, d) = 0 <=> d = NothingThere)
<1>1. CASE d = NothingThere
  BY <1>1, MeantOfEach
<1>2. CASE \E x \in CoreNames : d = <<"core", x>>
  <2>1. PICK x \in CoreNames : d = <<"core", x>>
    BY <1>2
  <2>2. Meant(sc, m, d) = sc[Core].names[x]
    BY <2>1, MeantOfEach
  <2>3. d # NothingThere
    BY <2>1 DEF NothingThere
  <2> QED BY <2>2, <2>3 DEF CoreScope
<1>3. CASE \E e \in 1 .. p - 1 : u[e].n \in DeclaringNodes /\ d = <<"decl", e>>
  <2>1. PICK e \in 1 .. p - 1 : u[e].n \in DeclaringNodes /\ d = <<"decl", e>>
    BY <1>3
  <2>2. Meant(sc, m, d) = BoundTo(m, e)
    BY <2>1, MeantOfEach
  <2>3. d # NothingThere
    BY <2>1 DEF NothingThere
  <2>4. BoundTo(m, e) \in 6 .. Len(sy) /\ Len(sy) \in Nat
    BY <2>1 DEF Described, Declared, IsSeq
  <2> QED BY <2>2, <2>3, <2>4
<1> QED BY <1>1, <1>2, <1>3 DEF Denotable

LEMMA LocalNames ==
  ASSUME NEW rs, Walk(rs), NEW x
  PROVE  /\ \A r \in Opened(unit, pos) : LookupLocal(ScopeOf(unit, r), x) = SymbolOf(InRegion(unit, r, x, pos))
         /\ LookupLocal(Core, x) = SymbolOf(InCore(x))
<1>0. pos \in Nat \ {0}
  BY DEF Walk, IsUnit
<1>1. LookupLocal(Core, x) = SymbolOf(InCore(x))
  <2>1. CASE x \in CoreNames
    <3>1. InCore(x) = <<"core", x>>
      BY <2>1 DEF InCore
    <3>2. SymbolOf(InCore(x)) = scopes[Core].names[x]
      BY <3>1, SymbolOfEach, Zenon
    <3>3. x \in DOMAIN scopes[Core].names
      BY <2>1 DEF Walk, CoreScope
    <3> QED BY <3>2, <3>3 DEF LookupLocal
  <2>2. CASE x \notin CoreNames
    <3>1. InCore(x) = NothingThere
      BY <2>2 DEF InCore
    <3> QED BY <2>2, <3>1, SymbolOfEach DEF LookupLocal, Walk, CoreScope
  <2> QED BY <2>1, <2>2
<1>2. ASSUME NEW r \in Opened(unit, pos)
      PROVE  LookupLocal(ScopeOf(unit, r), x) = SymbolOf(InRegion(unit, r, x, pos))
  <2> DEFINE D == Declares(unit, r, x, pos)
  <2>1. CASE D = {}
    <3>1. InRegion(unit, r, x, pos) = NothingThere
      BY <2>1 DEF InRegion
    <3>2. x \notin DOMAIN scopes[ScopeOf(unit, r)].names
      BY <2>1, <1>2 DEF Walk, Named
    <3> QED BY <3>1, <3>2, SymbolOfEach DEF LookupLocal
  <2>2. CASE D # {}
    <3>1. Min(D) \in D
      BY <2>2, <1>0, DeclaresFacts
    <3>2. InRegion(unit, r, x, pos) = <<"decl", Min(D)>>
      BY <2>2 DEF InRegion
    <3>3. Min(D) \in Declared(unit, pos) /\ unit[Min(D)].name = x /\ Home(unit, Min(D)) = ScopeOf(unit, r)
      BY <3>1 DEF Declares, Declared, Home
    <3>4. x \in DOMAIN scopes[ScopeOf(unit, r)].names
          /\ scopes[ScopeOf(unit, r)].names[x] = BoundTo(m_node_symbls, Min(D))
      BY <3>3 DEF Walk, Named
    <3>5. SymbolOf(InRegion(unit, r, x, pos)) = BoundTo(m_node_symbls, Min(D))
      BY <3>2, SymbolOfEach, Zenon
    <3> HIDE DEF D
    <3> QED BY <3>4, <3>5 DEF LookupLocal
  <2> QED BY <2>1, <2>2
<1> QED BY <1>1, <1>2

LEMMA LookupIsBinding ==
  ASSUME NEW rs, Walk(rs), NEW x
  PROVE  Lookup(x) = SymbolOf(Binding(unit, pos, x))
<1>0. /\ pos \in 1 .. Len(unit) + 1 /\ pos \in Nat \ {0} /\ pos - 1 \in Nat
      /\ IsUnit(unit) /\ Stack(unit, pos, rs)
  BY DEF Walk, IsUnit
<1>1. /\ Len(rs) \in Nat \ {0}
      /\ rs[1] = 0 /\ \A k \in 1 .. Len(rs) : rs[k] \in Nat
      /\ \A k \in 1 .. Len(rs) : rs[k] \in 0 .. pos - 1
      /\ \A j, k \in 1 .. Len(rs) : j < k => rs[j] < rs[k]
  BY <1>0 DEF Stack, Ancestry
<1>2. \A k \in 1 .. Len(rs) : rs[k] \in Opened(unit, pos)
  BY <1>0, StackOpened
<1>3. /\ Len(scopes) \in Nat
      /\ \A s \in 1 .. Len(scopes) : scopes[s].parent \in 0 .. s - 1
      /\ \A k \in 1 .. Len(rs) : ScopeOf(unit, rs[k]) \in 2 .. Len(scopes)
      /\ m_current_scope = ScopeOf(unit, rs[Len(rs)])
  <2>1. Len(scopes) = ScopeOf(unit, pos - 1) /\ Len(scopes) \in Nat
    BY DEF Walk, Tree, IsSeq
  <2>2. \A k \in 1 .. Len(rs) : ScopeOf(unit, rs[k]) \in 2 .. Len(scopes)
    <3> TAKE k \in 1 .. Len(rs)
    <3>1. rs[k] \in Nat /\ rs[k] \in 0 .. pos - 1
      BY <1>1
    <3>2. ScopeOf(unit, rs[k]) \in Nat /\ ScopeOf(unit, rs[k]) >= Main
      BY <3>1, <1>0, ScopeNumbers
    <3>3. ScopeOf(unit, rs[k]) <= ScopeOf(unit, pos - 1)
      BY <3>1, <1>0, ScopeNumbers
    <3> QED BY <2>1, <3>2, <3>3 DEF Main
  <2>3. \A s \in 1 .. Len(scopes) : scopes[s].parent \in 0 .. s - 1
    BY DEF Walk, Tree
  <2>4. m_current_scope = ScopeOf(unit, rs[Len(rs)])
    BY DEF Walk, WalkAt, Top
  <2> QED BY <2>1, <2>2, <2>3, <2>4
<1>4. m_current_scope \in 1 .. Len(scopes)
  BY <1>1, <1>3
<1>5. PICK f : /\ f[0] = 0
               /\ \A s \in 1 .. Len(scopes) :
                    f[s] = IF LookupLocal(s, x) # 0 THEN LookupLocal(s, x) ELSE f[scopes[s].parent]
               /\ Lookup(x) = f[m_current_scope]
  BY <1>3, <1>4, LookupSteps
<1>6. PICK j \in 1 .. Len(rs) :
           /\ Visible(unit, pos) = {rs[k] : k \in j .. Len(rs)}
           /\ \A k \in j + 1 .. Len(rs) : unit[rs[k]].n # "module"
           /\ j = 1 \/ unit[rs[j]].n = "module"
  BY <1>0, VisibleFrom
<1> DEFINE has(k) == Declares(unit, rs[k], x, pos) # {}
           g == [k \in 1 .. Len(rs) |-> f[ScopeOf(unit, rs[k])]]
<1>7. \A k \in 1 .. Len(rs) : /\ has(k) => g[k] = SymbolOf(InRegion(unit, rs[k], x, pos))
                              /\ ~has(k) => g[k] = f[scopes[ScopeOf(unit, rs[k])].parent]
  <2> TAKE k \in 1 .. Len(rs)
  <2>1. LookupLocal(ScopeOf(unit, rs[k]), x) = SymbolOf(InRegion(unit, rs[k], x, pos))
    BY <1>2, LocalNames
  <2>2. InRegion(unit, rs[k], x, pos) \in Denotable(unit, pos)
    BY <1>0, InRegionDenotable
  <2>3. InRegion(unit, rs[k], x, pos) = NothingThere <=> ~has(k)
    BY DEF InRegion, NothingThere
  <2>4. LookupLocal(ScopeOf(unit, rs[k]), x) = 0 <=> ~has(k)
    BY <2>1, <2>2, <2>3, NothingIsNothing, SymbolOfMeant DEF Walk
  <2>5. g[k] = f[ScopeOf(unit, rs[k])] /\ ScopeOf(unit, rs[k]) \in 1 .. Len(scopes)
    BY <1>3
  <2> HIDE DEF has, g
  <2> QED BY <1>5, <2>1, <2>4, <2>5
<1>8. \A k \in j + 1 .. Len(rs) : ~has(k) => g[k] = g[k - 1]
  <2> TAKE k \in j + 1 .. Len(rs)
  <2>1. k \in 2 .. Len(rs) /\ k - 1 \in 1 .. Len(rs) /\ unit[rs[k]].n # "module"
    BY <1>1, <1>6
  <2>2. scopes[ScopeOf(unit, rs[k])].parent = ScopeOf(unit, rs[k - 1])
    BY <2>1 DEF Walk, Tree
  <2>3. g[k - 1] = f[ScopeOf(unit, rs[k - 1])]
    BY <2>1
  <2> HIDE DEF has, g
  <2> QED BY <2>1, <2>2, <2>3, <1>7
<1>9. Lookup(x) = g[Len(rs)]
  BY <1>1, <1>3, <1>5
<1> HIDE DEF g
<1> DEFINE regions == {r \in Visible(unit, pos) : Declares(unit, r, x, pos) # {}}
<1>10. CASE regions = {}
  <2>1. \A k \in j .. Len(rs) : ~has(k)
    BY <1>6, <1>10
  <2>2. g[Len(rs)] = g[j]
    <3> HIDE DEF has
    <3>1. \A k \in j + 1 .. Len(rs) : g[k] = g[k - 1]
      BY <2>1, <1>8, <1>1
    <3> QED BY <3>1, <1>1, SameAllAlong
  <2>3. scopes[ScopeOf(unit, rs[j])].parent = Core
    <3>1. CASE j = 1
      <4>1. ScopeOf(unit, rs[j]) = Main
        BY <3>1, <1>0, <1>1, ScopeNumbers
      <4> QED BY <4>1 DEF Walk, Tree
    <3>2. CASE j # 1
      BY <3>2, <1>1, <1>6 DEF Walk, Tree
    <3> QED BY <3>1, <3>2
  <2>4. g[j] = f[Core]
    <3>1. j \in j .. Len(rs)
      BY <1>1
    <3> HIDE DEF has
    <3> QED BY <1>7, <2>1, <2>3, <3>1
  <2>5. f[Core] = LookupLocal(Core, x)
    <3>1. Core \in 1 .. Len(scopes) /\ scopes[Core].parent = 0
      BY <1>1, <1>3 DEF Walk, Tree, Core
    <3> QED BY <3>1, <1>5
  <2>6. Binding(unit, pos, x) = InCore(x)
    BY <1>10 DEF Binding
  <2> QED BY <1>9, <2>2, <2>4, <2>5, <2>6, LocalNames
<1>11. CASE regions # {}
  <2>1. regions \subseteq 0 .. pos - 1
    BY <1>6, <1>1
  <2>2. Max(regions) \in regions /\ \A r \in regions : Max(regions) >= r
    BY <2>1, <1>0, <1>11, MaxIsGreatest
  <2>3. PICK i \in j .. Len(rs) : Max(regions) = rs[i]
    BY <1>6, <2>2
  <2>4. has(i) /\ i \in 1 .. Len(rs)
    BY <1>1, <2>2, <2>3
  <2>5. \A k \in i + 1 .. Len(rs) : ~has(k)
    <3> SUFFICES ASSUME NEW k \in i + 1 .. Len(rs), has(k) PROVE FALSE
      OBVIOUS
    <3>1. k \in j .. Len(rs) /\ k \in 1 .. Len(rs) /\ rs[i] < rs[k] /\ rs[i] \in Nat /\ rs[k] \in Nat
      BY <1>1, <2>4
    <3>2. rs[k] \in regions
      BY <3>1, <1>6
    <3> HIDE DEF regions
    <3> QED BY <3>1, <3>2, <2>2, <2>3
  <2>6. g[Len(rs)] = g[i]
    <3> HIDE DEF has
    <3>1. \A k \in i + 1 .. Len(rs) : g[k] = g[k - 1]
      <4> TAKE k \in i + 1 .. Len(rs)
      <4>1. k \in j + 1 .. Len(rs)
        BY <1>1
      <4> QED BY <4>1, <2>5, <1>8
    <3> QED BY <3>1, <2>4, <1>1, SameAllAlong
  <2>7. Binding(unit, pos, x) = InRegion(unit, rs[i], x, pos)
    <3>1. Binding(unit, pos, x) = <<"decl", Min(Declares(unit, Max(regions), x, pos))>>
      BY <1>11 DEF Binding
    <3> HIDE DEF regions
    <3> QED BY <3>1, <2>3, <2>4 DEF InRegion
  <2>8. g[i] = SymbolOf(InRegion(unit, rs[i], x, pos))
    BY <1>7, <2>4
  <2> QED BY <1>9, <2>6, <2>7, <2>8, Zenon
<1> QED BY <1>10, <1>11

-----------------------------------------------------------------------------
(* What the operations do to scopes and tables.                            *)
LEMMA SequenceFacts ==
  ASSUME NEW s, IsSeq(s)
  PROVE  Len(s) \in Nat /\ DOMAIN s = 1 .. Len(s)
BY DEF IsSeq

LEMMA AppendFacts ==
  ASSUME NEW s, IsSeq(s), NEW e
  PROVE  /\ IsSeq(Append(s, e)) /\ Len(Append(s, e)) = Len(s) + 1
         /\ \A i \in 1 .. Len(s) : Append(s, e)[i] = s[i]
         /\ Append(s, e)[Len(s) + 1] = e
<1> DEFINE T == {s[i] : i \in DOMAIN s} \cup {e}
           t == Append(s, e)
<1>1. s \in Seq(T)
  BY DEF IsSeq
<1>2. e \in T
  OBVIOUS
<1> HIDE DEF T
<1>3. /\ t \in Seq(T) /\ Len(t) = Len(s) + 1
      /\ \A i \in 1 .. Len(s) : t[i] = s[i]
      /\ t[Len(s) + 1] = e
  BY <1>1, <1>2
<1>4. IsSeq(t)
  <2> HIDE DEF t
  <2> QED BY <1>3 DEF IsSeq
<1> QED BY <1>3, <1>4

LEMMA AllButLast ==
  ASSUME NEW s \in Seq(Nat), NEW n \in Nat, Len(s) = n + 1, NEW t, t = SubSeq(s, 1, Len(s) - 1)
  PROVE  t \in Seq(Nat) /\ Len(t) = n /\ \A k \in 1 .. n : t[k] = s[k]
<1>1. t = SubSeq(s, 1, n) /\ \A i \in 1 .. n : s[i] \in Nat
  OBVIOUS
<1>2. /\ SubSeq(s, 1, n) \in Seq(Nat)
      /\ Len(SubSeq(s, 1, n)) = IF 1 <= n THEN n - 1 + 1 ELSE 0
      /\ \A i \in 1 .. n - 1 + 1 : SubSeq(s, 1, n)[i] = s[1 + i - 1]
  BY <1>1, SubSeqProperties
<1>3. \A k \in 1 .. n : SubSeq(s, 1, n)[k] = s[k]
  BY <1>2
<1>4. Len(SubSeq(s, 1, n)) = n
  BY <1>2
<1> QED BY <1>1, <1>2, <1>3, <1>4

LEMMA FunctionIsSequence ==
  ASSUME NEW n \in Nat, NEW f, f = [i \in 1 .. n |-> f[i]]
  PROVE  IsSeq(f) /\ Len(f) = n
<1> DEFINE T == {f[i] : i \in DOMAIN f}
<1>1. DOMAIN f = 1 .. n
  OBVIOUS
<1>2. f \in [1 .. n -> T]
  BY <1>1
<1> HIDE DEF T
<1>3. f \in Seq(T)
  BY <1>2, SeqDef
<1>4. Len(f) \in Nat /\ 1 .. Len(f) = 1 .. n
  BY <1>1, <1>3
<1>5. ASSUME NEW a \in Nat, NEW b \in Nat, 1 .. a = 1 .. b PROVE a <= b
  <2> SUFFICES ASSUME b < a PROVE FALSE
    OBVIOUS
  <2>1. a \in 1 .. a /\ a \notin 1 .. b
    OBVIOUS
  <2> QED BY <2>1, <1>5
<1>6. Len(f) = n
  BY <1>4, <1>5
<1> QED BY <1>3, <1>6 DEF IsSeq, T

Keeps(sc, sc2) ==
  \A s \in 1 .. Len(sc) : DOMAIN sc2[s] = DOMAIN sc[s] /\ sc2[s].parent = sc[s].parent

Adds(old, new, x, v) ==
  /\ DOMAIN new = DOMAIN old \cup {x}
  /\ \A y \in DOMAIN old : new[y] = old[y]
  /\ x \notin DOMAIN old => new[x] = v

WithNameAt(sc, c, x, v) == [sc EXCEPT ![c].names = With(@, x, v)]

LEMMA WithNameFacts ==
  ASSUME NEW sc, IsSeq(sc), NEW c \in 1 .. Len(sc), "names" \in DOMAIN sc[c], NEW x, NEW v,
         NEW sc2, sc2 = WithNameAt(sc, c, x, v)
  PROVE  /\ IsSeq(sc2) /\ Len(sc2) = Len(sc) /\ Keeps(sc, sc2)
         /\ \A s \in 1 .. Len(sc) : s # c => sc2[s] = sc[s]
         /\ Adds(sc[c].names, sc2[c].names, x, v)
<1>0. sc2 = [sc EXCEPT ![c].names = With(@, x, v)]
  BY DEF WithNameAt
<1>1. DOMAIN sc = 1 .. Len(sc) /\ Len(sc) \in Nat
  BY SequenceFacts
<1>2. DOMAIN sc2 = DOMAIN sc /\ sc2 = [s \in 1 .. Len(sc) |-> sc2[s]]
  BY <1>0, <1>1
<1>3. IsSeq(sc2) /\ Len(sc2) = Len(sc)
  BY ONLY <1>1, <1>2, FunctionIsSequence, Zenon
<1>4. \A s \in 1 .. Len(sc) : s # c => sc2[s] = sc[s]
  BY <1>0, <1>1
<1>5. sc2[c] = [sc[c] EXCEPT !.names = With(sc[c].names, x, v)]
  BY <1>0, <1>1
<1>6. DOMAIN sc2[c] = DOMAIN sc[c] /\ sc2[c].parent = sc[c].parent /\ sc2[c].names = With(sc[c].names, x, v)
  BY <1>5
<1>7. \A f : Adds(f, With(f, x, v), x, v)
  BY DEF Adds, With
<1> QED BY <1>3, <1>4, <1>6, <1>7 DEF Keeps

LEMMA BindFacts ==
  ASSUME NEW m, NEW p \in Nat, DOMAIN m \subseteq 1 .. p - 1, NEW v, NEW m2, m2 = With(m, p, v)
  PROVE  /\ DOMAIN m2 \subseteq 1 .. p \cup {p}
         /\ \A q \in 1 .. p - 1 : BoundTo(m2, q) = BoundTo(m, q)
         /\ BoundTo(m2, p) = v
<1>1. DOMAIN m2 = DOMAIN m \cup {p} /\ p \notin DOMAIN m
  BY DEF With
<1>2. \A q \in DOMAIN m2 : m2[q] = IF q \in DOMAIN m THEN m[q] ELSE v
  BY DEF With
<1>3. \A q \in 1 .. p - 1 : q # p
  OBVIOUS
<1> QED BY <1>1, <1>2, <1>3 DEF BoundTo

-----------------------------------------------------------------------------
(* Each part of the walk is kept by a step over node p.                    *)
LEMMA TreePasses ==
  ASSUME NEW u, NEW p \in Nat \ {0}, u[p].n \notin Opens, NEW rs, NEW sc, Tree(u, p, rs, sc), Len(rs) \in Nat,
         NEW sc2, IsSeq(sc2), Len(sc2) = Len(sc), Keeps(sc, sc2),
         \A k \in 1 .. Len(rs) : ScopeOf(u, rs[k]) \in 1 .. Len(sc)
  PROVE  Tree(u, p + 1, rs, sc2)
<1>1. ScopeOf(u, p) = ScopeOf(u, p - 1)
  BY NewScopeNumber
<1>2. Len(sc2) = ScopeOf(u, p)
  BY <1>1 DEF Tree
<1>3. \A k \in 2 .. Len(rs) : sc2[ScopeOf(u, rs[k])].parent = sc[ScopeOf(u, rs[k])].parent
  BY DEF Keeps
<1>4. Core \in 1 .. Len(sc) /\ Main \in 1 .. Len(sc)
  <2>1. Len(sc) \in Nat /\ Len(sc) >= Main
    <3>1. p - 1 \in Nat /\ Len(sc) = ScopeOf(u, p - 1)
      BY DEF Tree
    <3> QED BY <3>1, ScopeIsNat
  <2> QED BY <2>1 DEF Core, Main
<1>5. sc2[Core].parent = 0 /\ sc2[Main].parent = Core
  BY <1>4 DEF Tree, Keeps
<1> QED BY <1>2, <1>3, <1>5 DEF Tree, Keeps

LEMMA TreeCloses ==
  ASSUME NEW u, NEW p \in Nat \ {0}, u[p].n \notin Opens, NEW rs \in Seq(Nat), NEW sc, Tree(u, p, rs, sc), Len(rs) > 1
  PROVE  Tree(u, p + 1, SubSeq(rs, 1, Len(rs) - 1), sc)
<1>1. ScopeOf(u, p) = ScopeOf(u, p - 1)
  BY NewScopeNumber
<1> DEFINE ss == SubSeq(rs, 1, Len(rs) - 1)
<1>2. /\ Len(rs) \in Nat /\ Len(ss) = Len(rs) - 1
      /\ \A k \in 1 .. Len(rs) - 1 : ss[k] = rs[k]
  OBVIOUS
<1> HIDE DEF ss
<1>3. \A k \in 2 .. Len(ss) : sc[ScopeOf(u, ss[k])].parent = IF u[ss[k]].n = "module" THEN Core ELSE ScopeOf(u, ss[k - 1])
  <2> TAKE k \in 2 .. Len(ss)
  <2>1. k \in 2 .. Len(rs) /\ ss[k] = rs[k] /\ ss[k - 1] = rs[k - 1]
    BY <1>2
  <2> QED BY <2>1 DEF Tree
<1>4. Tree(u, p + 1, ss, sc)
  BY <1>1, <1>3 DEF Tree
<1> QED BY <1>4 DEF ss

LEMMA TreeOpens ==
  ASSUME NEW u, NEW p \in Nat \ {0}, u[p].n \in Opens, NEW rs, NEW sc, Tree(u, p, rs, sc), Stack(u, p, rs),
         NEW sc2, IsSeq(sc2), Len(sc2) = Len(sc) + 1, Keeps(sc, sc2),
         DOMAIN sc2[Len(sc2)] = {"kind", "parent", "names"},
         sc2[Len(sc2)].parent = IF u[p].n = "module" THEN Core ELSE ScopeOf(u, Top(rs))
  PROVE  Tree(u, p + 1, Append(rs, p), sc2)
<1>1. ScopeOf(u, p) = ScopeOf(u, p - 1) + 1
  BY NewScopeNumber
<1>2. Len(sc2) = ScopeOf(u, p) /\ Len(sc) \in Nat /\ Len(sc) >= Main /\ Len(sc) = ScopeOf(u, p - 1)
  <2>1. p - 1 \in Nat /\ Len(sc) = ScopeOf(u, p - 1)
    BY DEF Tree
  <2>2. Len(sc) \in Nat /\ Len(sc) >= Main
    BY <2>1, ScopeIsNat
  <2> QED BY <1>1, <2>1, <2>2
<1>3. /\ rs \in Seq(Nat) /\ Len(rs) \in Nat \ {0}
      /\ rs[1] = 0 /\ \A k \in 1 .. Len(rs) : rs[k] \in 0 .. p - 1
  BY DEF Stack, Ancestry
<1> DEFINE ss == Append(rs, p)
<1>4. /\ Len(ss) = Len(rs) + 1
      /\ \A k \in 1 .. Len(rs) : ss[k] = rs[k]
      /\ ss[Len(rs) + 1] = p
  BY <1>3
<1> HIDE DEF ss
<1>5. \A k \in 1 .. Len(rs) : ScopeOf(u, rs[k]) \in 2 .. Len(sc)
  <2> TAKE k \in 1 .. Len(rs)
  <2>1. rs[k] \in Nat /\ rs[k] \in 0 .. p - 1
    BY <1>3
  <2>2. ScopeOf(u, rs[k]) \in Nat /\ ScopeOf(u, rs[k]) >= Main /\ ScopeOf(u, rs[k]) <= ScopeOf(u, p - 1)
    BY <2>1, ScopeNumbers
  <2> QED BY <1>2, <2>2 DEF Main
<1>6. \A s \in 1 .. Len(sc2) : DOMAIN sc2[s] = {"kind", "parent", "names"} /\ sc2[s].parent \in 0 .. s - 1
  <2> TAKE s \in 1 .. Len(sc2)
  <2>1. CASE s \in 1 .. Len(sc)
    BY <2>1 DEF Tree, Keeps
  <2>2. CASE s = Len(sc2)
    <3>1. Top(rs) = rs[Len(rs)] /\ ScopeOf(u, rs[Len(rs)]) \in 2 .. Len(sc)
      BY <1>3, <1>5 DEF Top
    <3> QED BY <2>2, <3>1, <1>2 DEF Core, Main
  <2> QED BY <2>1, <2>2, <1>2
<1>7. ASSUME NEW k \in 2 .. Len(ss)
      PROVE  sc2[ScopeOf(u, ss[k])].parent = IF u[ss[k]].n = "module" THEN Core ELSE ScopeOf(u, ss[k - 1])
  <2>1. CASE k = Len(rs) + 1
    <3>1. ss[k] = p /\ ss[k - 1] = Top(rs)
      BY <2>1, <1>3, <1>4 DEF Top
    <3> QED BY <3>1, <1>2
  <2>2. CASE k \in 2 .. Len(rs)
    <3>0. k \in 1 .. Len(rs) /\ k - 1 \in 1 .. Len(rs)
      BY <2>2, <1>3
    <3>1. ss[k] = rs[k] /\ ss[k - 1] = rs[k - 1] /\ ScopeOf(u, rs[k]) \in 1 .. Len(sc)
      <4>1. ss[k] = rs[k] /\ ss[k - 1] = rs[k - 1]
        BY <3>0, <1>4
      <4>2. ScopeOf(u, rs[k]) \in 1 .. Len(sc)
        BY <3>0, <1>5
      <4> QED BY <4>1, <4>2
    <3>2. sc2[ScopeOf(u, rs[k])].parent = sc[ScopeOf(u, rs[k])].parent
      BY <3>1 DEF Keeps
    <3>3. sc[ScopeOf(u, rs[k])].parent = IF u[rs[k]].n = "module" THEN Core ELSE ScopeOf(u, rs[k - 1])
      BY <2>2 DEF Tree
    <3> QED BY <3>1, <3>2, <3>3
  <2> QED BY <2>1, <2>2, <1>3, <1>4
<1>8. sc2[Core].parent = 0 /\ sc2[Main].parent = Core
  <2>1. Core \in 1 .. Len(sc) /\ Main \in 1 .. Len(sc)
    BY <1>2 DEF Core, Main
  <2> QED BY <2>1 DEF Tree, Keeps
<1>9. Tree(u, p + 1, ss, sc2)
  BY <1>2, <1>6, <1>7, <1>8 DEF Tree
<1> QED BY <1>9 DEF ss

SameBefore(m, m2, p) == \A q \in 1 .. p - 1 : BoundTo(m2, q) = BoundTo(m, q)

LEMMA DeclaresGrows ==
  ASSUME NEW u, NEW p \in Nat \ {0}, NEW r, NEW x
  PROVE  /\ Declares(u, r, x, p) \subseteq Declares(u, r, x, p + 1)
         /\ u[p].n \in DeclaringNodes /\ u[p].name = x /\ RegionOf(u, p) = r => p \in Declares(u, r, x, p + 1)
BY DEF Declares

(* Node p declares nothing.                                                *)
LEMMA NamedPasses ==
  ASSUME NEW u, NEW p \in Nat \ {0}, u[p].n \notin DeclaringNodes,
         NEW sc, NEW m, Named(u, p, sc, m), NEW sc2, NEW m2, SameBefore(m, m2, p),
         \A r \in Opened(u, p) : sc2[ScopeOf(u, r)].names = sc[ScopeOf(u, r)].names,
         u[p].n \in Opens => DOMAIN sc2[ScopeOf(u, p)].names = {}
  PROVE  Named(u, p + 1, sc2, m2)
<1>1. Declared(u, p + 1) = Declared(u, p)
  BY DEF Declared
<1>2. \A d \in Declared(u, p) : d \in 1 .. p - 1 /\ RegionOf(u, d) \in Opened(u, p)
  BY RegionsOpened DEF Declared
<1>3. ASSUME NEW d \in Declared(u, p + 1)
      PROVE  /\ u[d].name \in DOMAIN sc2[Home(u, d)].names
             /\ sc2[Home(u, d)].names[u[d].name] = BoundTo(m2, d)
  <2>1. d \in Declared(u, p) /\ d \in 1 .. p - 1 /\ RegionOf(u, d) \in Opened(u, p)
    BY <1>1, <1>2
  <2>2. sc2[Home(u, d)].names = sc[Home(u, d)].names /\ BoundTo(m2, d) = BoundTo(m, d)
    BY <2>1 DEF Home, SameBefore
  <2> QED BY <2>1, <2>2 DEF Named
<1>4. ASSUME NEW r \in Opened(u, p + 1), NEW x \in DOMAIN sc2[ScopeOf(u, r)].names
      PROVE  Declares(u, r, x, p + 1) # {}
  <2>1. r \in Opened(u, p) \/ (r = p /\ u[p].n \in Opens)
    BY DEF Opened
  <2>2. r \in Opened(u, p)
    BY <2>1, <1>4
  <2>3. Declares(u, r, x, p) # {}
    BY <2>2, <1>4 DEF Named
  <2> QED BY <2>3, DeclaresGrows
<1> QED BY <1>3, <1>4 DEF Named

Declaration(old, new, x, v) ==
  /\ DOMAIN new = DOMAIN old \cup {x}
  /\ \A y \in DOMAIN old : new[y] = old[y]
  /\ new[x] = v

(* Node p declares its name in the scope it is in.                         *)
LEMMA NamedDeclares ==
  ASSUME NEW u, NEW p \in Nat \ {0}, u[p].n \in DeclaringNodes,
         NEW sc, NEW m, Named(u, p, sc, m), NEW sc2, NEW m2, SameBefore(m, m2, p),
         \A r \in Opened(u, p) : r # RegionOf(u, p) => sc2[ScopeOf(u, r)].names = sc[ScopeOf(u, r)].names,
         Declaration(sc[Home(u, p)].names, sc2[Home(u, p)].names, u[p].name, BoundTo(m2, p)),
         u[p].n \in Opens => DOMAIN sc2[ScopeOf(u, p)].names = {}
  PROVE  Named(u, p + 1, sc2, m2)
<1> DEFINE old == sc[Home(u, p)].names
           new == sc2[Home(u, p)].names
<1>0. /\ DOMAIN new = DOMAIN old \cup {u[p].name}
      /\ \A y \in DOMAIN old : new[y] = old[y]
      /\ new[u[p].name] = BoundTo(m2, p)
  BY DEF Declaration
<1>1. Declared(u, p + 1) = Declared(u, p) \cup {p}
  BY DEF Declared
<1>2. \A d \in Declared(u, p) : d \in 1 .. p - 1 /\ RegionOf(u, d) \in Opened(u, p)
  BY RegionsOpened DEF Declared
<1>3. ASSUME NEW d \in Declared(u, p + 1)
      PROVE  /\ u[d].name \in DOMAIN sc2[Home(u, d)].names
             /\ sc2[Home(u, d)].names[u[d].name] = BoundTo(m2, d)
  <2>1. CASE d = p
    BY <1>0, <2>1
  <2>2. CASE d # p
    <3>1. d \in Declared(u, p) /\ d \in 1 .. p - 1 /\ RegionOf(u, d) \in Opened(u, p)
      BY <1>1, <1>2, <2>2
    <3>2. BoundTo(m2, d) = BoundTo(m, d)
      BY <3>1 DEF SameBefore
    <3>3. u[d].name \in DOMAIN sc[Home(u, d)].names /\ sc[Home(u, d)].names[u[d].name] = BoundTo(m, d)
      BY <3>1 DEF Named
    <3>4. CASE RegionOf(u, d) = RegionOf(u, p)
      <4>1. Home(u, d) = Home(u, p)
        BY <3>4 DEF Home
      <4> QED BY <1>0, <4>1, <3>2, <3>3
    <3>5. CASE RegionOf(u, d) # RegionOf(u, p)
      <4>1. sc2[Home(u, d)].names = sc[Home(u, d)].names
        BY <3>1, <3>5 DEF Home
      <4> QED BY <4>1, <3>2, <3>3
    <3> QED BY <3>4, <3>5
  <2> QED BY <2>1, <2>2
<1>4. ASSUME NEW r \in Opened(u, p + 1), NEW x \in DOMAIN sc2[ScopeOf(u, r)].names
      PROVE  Declares(u, r, x, p + 1) # {}
  <2>1. r \in Opened(u, p) \/ (r = p /\ u[p].n \in Opens)
    BY DEF Opened
  <2>2. r \in Opened(u, p)
    BY <2>1, <1>4
  <2>3. CASE x \in DOMAIN sc[ScopeOf(u, r)].names
    <3>1. Declares(u, r, x, p) # {}
      BY <2>2, <2>3 DEF Named
    <3> QED BY <3>1, DeclaresGrows
  <2>4. CASE x \notin DOMAIN sc[ScopeOf(u, r)].names
    <3>1. r = RegionOf(u, p)
      BY <2>2, <2>4, <1>4
    <3>2. x = u[p].name
      BY <1>0, <3>1, <2>4, <1>4 DEF Home
    <3> QED BY <3>1, <3>2, DeclaresGrows
  <2> QED BY <2>3, <2>4
<1> QED BY <1>3, <1>4 DEF Named

Extends(sy, sy2) ==
  /\ IsSeq(sy2) /\ Len(sy) <= Len(sy2)
  /\ \A s \in 1 .. Len(sy) : sy2[s].kind = sy[s].kind /\ sy2[s].moduleScope = sy[s].moduleScope

Describes(u, d, s, sy) ==
  /\ s \in 6 .. Len(sy)
  /\ u[d].n = "function" <=> sy[s].kind = "Function"
  /\ u[d].n = "module" <=> sy[s].kind = "Module"
  /\ u[d].n = "module" => sy[s].moduleScope = ScopeOf(u, d)

LEMMA DescribedPasses ==
  ASSUME NEW u, NEW p \in Nat \ {0}, NEW sy, NEW m, Described(u, p, sy, m), NEW sy2, Extends(sy, sy2),
         NEW m2, SameBefore(m, m2, p),
         u[p].n \in DeclaringNodes => Describes(u, p, BoundTo(m2, p), sy2)
  PROVE  Described(u, p + 1, sy2, m2)
<1>1. Len(sy) \in Nat /\ Len(sy) >= 5 /\ Len(sy2) \in Nat
  BY SequenceFacts DEF Described, Extends
<1>2. /\ \A s \in 1 .. 3 : sy2[s].kind # "Module"
      /\ sy2[4].kind = "Module" /\ sy2[4].moduleScope = Core
      /\ sy2[5].kind = "Module" /\ sy2[5].moduleScope = Main
  <2>1. /\ \A s \in 1 .. 3 : sy[s].kind # "Module"
        /\ sy[4].kind = "Module" /\ sy[4].moduleScope = Core
        /\ sy[5].kind = "Module" /\ sy[5].moduleScope = Main
    BY DEF Described
  <2>2. \A s \in 1 .. 5 : sy2[s].kind = sy[s].kind /\ sy2[s].moduleScope = sy[s].moduleScope
    <3>1. \A s \in 1 .. 5 : s \in 1 .. Len(sy)
      BY <1>1
    <3> QED BY <3>1 DEF Extends
  <2>3. 4 \in 1 .. 5 /\ 5 \in 1 .. 5 /\ \A s \in 1 .. 3 : s \in 1 .. 5
    OBVIOUS
  <2> QED BY <2>1, <2>2, <2>3
<1>3. ASSUME NEW d \in Declared(u, p + 1)
      PROVE  Describes(u, d, BoundTo(m2, d), sy2)
  <2>1. CASE d = p
    BY <2>1 DEF Declared
  <2>2. CASE d # p
    <3>1. d \in Declared(u, p) /\ BoundTo(m2, d) = BoundTo(m, d)
      BY <2>2 DEF Declared, SameBefore
    <3>2. Describes(u, d, BoundTo(m, d), sy)
      BY <3>1 DEF Described, Describes
    <3> QED BY <3>1, <3>2, <1>1 DEF Describes, Extends
  <2> QED BY <2>1, <2>2
<1> QED BY <1>1, <1>2, <1>3 DEF Described, Describes, Extends

LEMMA DistinctPasses ==
  ASSUME NEW u, NEW p \in Nat \ {0}, NEW m, Distinct(u, p, m), NEW m2, SameBefore(m, m2, p),
         u[p].n \in DeclaringNodes =>
           \A d \in Declared(u, p) : BoundTo(m, d) = BoundTo(m2, p) =>
             u[d].name = u[p].name /\ RegionOf(u, d) = RegionOf(u, p)
  PROVE  Distinct(u, p + 1, m2)
<1> SUFFICES ASSUME NEW d \in Declared(u, p + 1), NEW e \in Declared(u, p + 1), BoundTo(m2, d) = BoundTo(m2, e)
             PROVE  u[d].name = u[e].name /\ RegionOf(u, d) = RegionOf(u, e)
  BY DEF Distinct
<1>1. \A c \in Declared(u, p + 1) : \/ c \in Declared(u, p) /\ BoundTo(m2, c) = BoundTo(m, c)
                                    \/ c = p /\ u[p].n \in DeclaringNodes
  BY DEF Declared, SameBefore
<1> QED BY <1>1 DEF Distinct

LEMMA MeaningsPass ==
  ASSUME NEW u, IsUnit(u), NEW p \in 1 .. Len(u), NEW sc, NEW m, Meanings(u, p, sc, m),
         NEW sc2, sc2[Core].names = sc[Core].names, NEW m2, SameBefore(m, m2, p),
         FollowsRules(u, p, Denotation(u)),
         u[p].n \notin DeclaringNodes => BoundTo(m2, p) = Meant(sc, m, Denotation(u)[p])
  PROVE  Meanings(u, p + 1, sc2, m2)
<1>0. p \in Nat /\ Len(u) \in Nat
  BY DEF IsUnit
<1>1. ASSUME NEW q \in 1 .. p PROVE Meant(sc2, m2, Denotation(u)[q]) = Meant(sc, m, Denotation(u)[q])
  <2> DEFINE d == Denotation(u)[q]
  <2>1. d \in Denotable(u, q)
    BY <1>0, DenotationDenotable
  <2>2. CASE d = NothingThere
    BY <2>2, MeantOfEach
  <2>3. CASE \E x \in CoreNames : d = <<"core", x>>
    <3>1. PICK x \in CoreNames : d = <<"core", x>>
      BY <2>3
    <3>2. Meant(sc2, m2, d) = sc2[Core].names[x] /\ Meant(sc, m, d) = sc[Core].names[x]
      <4> HIDE DEF d
      <4> QED BY <3>1, MeantOfEach, ZenonT(40)
    <3> QED BY <3>2
  <2>4. CASE \E e \in 1 .. q - 1 : d = <<"decl", e>>
    <3>1. PICK e \in 1 .. q - 1 : d = <<"decl", e>>
      BY <2>4
    <3>2. Meant(sc2, m2, d) = BoundTo(m2, e) /\ Meant(sc, m, d) = BoundTo(m, e)
      <4>1. Meant(sc2, m2, <<"decl", e>>) = BoundTo(m2, e) /\ Meant(sc, m, <<"decl", e>>) = BoundTo(m, e)
        BY MeantOfDeclaration
      <4> HIDE DEF d
      <4> QED BY <3>1, <4>1
    <3>3. e \in 1 .. p - 1
      BY <1>0
    <3> QED BY <3>2, <3>3 DEF SameBefore
  <2>5. d = NothingThere \/ (\E x \in CoreNames : d = <<"core", x>>) \/ (\E e \in 1 .. q - 1 : d = <<"decl", e>>)
    <3> HIDE DEF d
    <3> QED BY <2>1 DEF Denotable
  <2> QED BY <2>2, <2>3, <2>4, <2>5
<1> SUFFICES ASSUME NEW q \in 1 .. p
             PROVE  /\ FollowsRules(u, q, Denotation(u))
                    /\ u[q].n \notin DeclaringNodes => BoundTo(m2, q) = Meant(sc2, m2, Denotation(u)[q])
  BY <1>0 DEF Meanings
<1>2. CASE q = p
  BY <1>1, <1>2
<1>3. CASE q # p
  <2>1. q \in 1 .. p - 1 /\ BoundTo(m2, q) = BoundTo(m, q)
    BY <1>0, <1>3 DEF SameBefore
  <2> QED BY <1>1, <2>1 DEF Meanings
<1> QED BY <1>2, <1>3

-----------------------------------------------------------------------------
(* What each operation starts from.                                        *)
LEMMA WalkFacts ==
  ASSUME NEW rs, Walk(rs)
  PROVE  /\ pos \in Nat \ {0} /\ Len(unit) \in Nat /\ DOMAIN unit = 1 .. Len(unit)
         /\ rs \in Seq(Nat) /\ Len(rs) \in Nat \ {0}
         /\ RegionOf(unit, pos) = Top(rs) /\ m_current_scope = Home(unit, pos)
         /\ IsSeq(scopes) /\ Len(scopes) \in Nat /\ Len(scopes) = ScopeOf(unit, pos - 1)
         /\ IsSeq(symbols) /\ Len(symbols) \in Nat /\ Len(symbols) >= 5
         /\ \A r \in Opened(unit, pos) : ScopeOf(unit, r) \in 2 .. Len(scopes)
         /\ \A k \in 1 .. Len(rs) : ScopeOf(unit, rs[k]) \in 1 .. Len(scopes)
         /\ \A r \in Opened(unit, pos) : r # RegionOf(unit, pos) => ScopeOf(unit, r) # m_current_scope
         /\ m_current_scope \in 2 .. Len(scopes)
         /\ \A s \in 1 .. Len(scopes) : DOMAIN scopes[s] = {"kind", "parent", "names"}
<1>1. pos \in Nat \ {0} /\ pos - 1 \in Nat /\ Len(unit) \in Nat /\ DOMAIN unit = 1 .. Len(unit) /\ pos \in 1 .. Len(unit) + 1
  BY DEF Walk, IsUnit
<1>2. rs \in Seq(Nat) /\ Len(rs) \in Nat \ {0} /\ Stack(unit, pos, rs)
  BY DEF Walk, Stack, Ancestry
<1>3. RegionOf(unit, pos) = Top(rs)
  BY <1>1, <1>2, StackIsAround DEF Walk
<1>4. m_current_scope = Home(unit, pos)
  BY <1>3 DEF Walk, WalkAt, Home
<1>5. IsSeq(scopes) /\ Len(scopes) \in Nat /\ Len(scopes) = ScopeOf(unit, pos - 1)
  BY SequenceFacts DEF Walk, Tree
<1>6. IsSeq(symbols) /\ Len(symbols) \in Nat /\ Len(symbols) >= 5
  BY SequenceFacts DEF Walk, Described
<1>7. ASSUME NEW r \in Opened(unit, pos) PROVE ScopeOf(unit, r) \in 2 .. Len(scopes)
  <2>1. r \in 0 .. pos - 1 /\ r \in Nat
    BY <1>1 DEF Opened
  <2>2. ScopeOf(unit, r) \in Nat /\ ScopeOf(unit, r) >= Main
    BY <2>1, ScopeIsNat
  <2>3. ScopeOf(unit, r) <= ScopeOf(unit, pos - 1)
    BY <1>1, <2>1, ScopeNumbers
  <2> QED BY <2>2, <2>3, <1>5 DEF Main
<1>8. \A k \in 1 .. Len(rs) : ScopeOf(unit, rs[k]) \in 1 .. Len(scopes)
  <2> TAKE k \in 1 .. Len(rs)
  <2>1. rs[k] \in Opened(unit, pos)
    BY <1>1, <1>2, StackOpened
  <2>2. ScopeOf(unit, rs[k]) \in 2 .. Len(scopes)
    BY <1>7, <2>1
  <2> QED BY <2>2, <1>5
<1>9. RegionOf(unit, pos) \in Opened(unit, pos)
  BY <1>1, RegionsOpened
<1>10. ASSUME NEW r \in Opened(unit, pos), r # RegionOf(unit, pos) PROVE ScopeOf(unit, r) # m_current_scope
  BY <1>1, <1>4, <1>9, <1>10, ScopeNumbers DEF Home
<1>11. m_current_scope \in 2 .. Len(scopes)
  BY <1>4, <1>7, <1>9 DEF Home
<1>12. \A s \in 1 .. Len(scopes) : DOMAIN scopes[s] = {"kind", "parent", "names"}
  BY DEF Walk, Tree
<1> QED BY <1>1, <1>2, <1>3, <1>4, <1>5, <1>6, <1>7, <1>8, <1>10, <1>11, <1>12

LEMMA SymbolHere ==
  ASSUME NEW rs, Walk(rs)
  PROVE  /\ HasSymbol <=> Declares(unit, RegionOf(unit, pos), Name, pos) # {}
         /\ HasSymbol <=> Name \in DOMAIN scopes[m_current_scope].names
         /\ \A d \in Declares(unit, RegionOf(unit, pos), Name, pos) :
              LookupLocal(m_current_scope, Name) = BoundTo(m_node_symbls, d)
<1> DEFINE D == Declares(unit, RegionOf(unit, pos), Name, pos)
<1>1. m_current_scope = ScopeOf(unit, RegionOf(unit, pos)) /\ RegionOf(unit, pos) \in Opened(unit, pos)
  BY WalkFacts, RegionsOpened DEF Home
<1>2. ASSUME NEW d \in D
      PROVE  /\ Name \in DOMAIN scopes[m_current_scope].names
             /\ LookupLocal(m_current_scope, Name) = BoundTo(m_node_symbls, d)
             /\ LookupLocal(m_current_scope, Name) # 0
  <2>1. d \in Declared(unit, pos) /\ unit[d].name = Name /\ Home(unit, d) = m_current_scope
    BY <1>1 DEF Declares, Declared, Home
  <2>2. Name \in DOMAIN scopes[m_current_scope].names /\ scopes[m_current_scope].names[Name] = BoundTo(m_node_symbls, d)
    BY <2>1 DEF Walk, Named
  <2>3. BoundTo(m_node_symbls, d) \in 6 .. Len(symbols) /\ Len(symbols) \in Nat
    BY <2>1, WalkFacts DEF Walk, Described
  <2> QED BY <2>2, <2>3 DEF LookupLocal
<1>3. Name \in DOMAIN scopes[m_current_scope].names => D # {}
  BY <1>1 DEF Walk, Named
<1>4. HasSymbol => Name \in DOMAIN scopes[m_current_scope].names
  BY DEF HasSymbol, LookupLocal
<1>5. D # {} => HasSymbol
  BY <1>2 DEF HasSymbol
<1> HIDE DEF D
<1>6. /\ HasSymbol <=> D # {}
      /\ HasSymbol <=> Name \in DOMAIN scopes[m_current_scope].names
      /\ \A d \in D : LookupLocal(m_current_scope, Name) = BoundTo(m_node_symbls, d)
  BY <1>2, <1>3, <1>4, <1>5
<1> QED BY <1>6 DEF D

Quiet(n) == n \notin Opens \cup Closes \cup DeclaringNodes

LEMMA PlainStep ==
  ASSUME NEW rs, Walk(rs), pos \in 1 .. Len(unit), Quiet(unit[pos].n),
         unit' = unit, pos' = pos + 1, UNCHANGED <<scopes, symbols, m_current_scope, saved>>,
         SameBefore(m_node_symbls, m_node_symbls', pos), DOMAIN m_node_symbls' \subseteq 1 .. pos,
         FollowsRules(unit, pos, Denotation(unit)),
         BoundTo(m_node_symbls', pos) = Meant(scopes, m_node_symbls, Denotation(unit)[pos])
  PROVE  Walk(rs)'
<1>1. pos \in Nat \ {0} /\ Len(unit) \in Nat /\ IsUnit(unit) /\ Len(rs) \in Nat
  BY WalkFacts DEF Walk
<1>2. unit[pos].n \notin Opens /\ unit[pos].n \notin Closes /\ unit[pos].n \notin DeclaringNodes
  BY DEF Quiet
<1>3. pos + 1 \in 1 .. Len(unit) + 1 /\ pos + 1 - 1 = pos
  BY <1>1
<1>4. Stack(unit, pos + 1, rs)
  BY <1>1, <1>2, StackPasses DEF Walk
<1>5. Tree(unit, pos + 1, rs, scopes)
  <2>1. IsSeq(scopes) /\ Keeps(scopes, scopes) /\ \A k \in 1 .. Len(rs) : ScopeOf(unit, rs[k]) \in 1 .. Len(scopes)
    BY WalkFacts DEF Keeps
  <2> QED BY <1>1, <1>2, <2>1, TreePasses DEF Walk
<1>6. Named(unit, pos + 1, scopes, m_node_symbls')
  BY <1>1, <1>2, NamedPasses DEF Walk
<1>7. Described(unit, pos + 1, symbols, m_node_symbls')
  <2>1. Extends(symbols, symbols)
    BY WalkFacts DEF Extends
  <2> QED BY <1>1, <1>2, <2>1, DescribedPasses DEF Walk
<1>8. Distinct(unit, pos + 1, m_node_symbls')
  BY <1>1, <1>2, DistinctPasses DEF Walk
<1>9. Meanings(unit, pos + 1, scopes, m_node_symbls')
  BY <1>1, <1>2, MeaningsPass DEF Walk
<1> QED BY <1>1, <1>3, <1>4, <1>5, <1>6, <1>7, <1>8, <1>9 DEF Walk

-----------------------------------------------------------------------------
(* The steps of the first walk.                                            *)
LEMMA DenotableGrows ==
  ASSUME NEW u, NEW p \in Nat, NEW q \in Nat, q <= p
  PROVE  Denotable(u, q) \subseteq Denotable(u, p)
<1>1. {e \in 1 .. q - 1 : u[e].n \in DeclaringNodes} \subseteq {e \in 1 .. p - 1 : u[e].n \in DeclaringNodes}
  OBVIOUS
<1> QED BY <1>1, Zenon DEF Denotable

(* What node pos denotes, by its kind.                                     *)
LEMMA DenotedHere ==
  ASSUME NEW rs, Walk(rs), pos \in 1 .. Len(unit)
  PROVE  LET d == Denotation(unit)
         IN  /\ d[pos] \in Denotable(unit, pos)
             /\ unit[pos].n = "identifier" => d[pos] = Binding(unit, pos, Name)
             /\ unit[pos].n = "member" => d[pos] = MemberBinding(unit, d[pos - 1], Name, pos)
             /\ unit[pos].n = "call" => d[pos] = d[pos - unit[pos].callee]
             /\ unit[pos].n \notin {"identifier", "member", "call"} => d[pos] = NothingThere
<1>1. IsUnit(unit) /\ Len(unit) \in Nat /\ pos \in 0 .. Len(unit) /\ pos # 0
  BY WalkFacts DEF Walk
<1>2. Denotation(unit)[pos] = Denotes(unit, Denotation(unit), pos)
  BY <1>1, DenotationSteps
<1>3. Denotation(unit)[pos] \in Denotable(unit, pos)
  BY <1>1, DenotationDenotable
<1> QED BY <1>1, <1>2, <1>3 DEF Denotes, Name

(* An operand has the symbol of what it denotes.                           *)
LEMMA OperandMeant ==
  ASSUME NEW rs, Walk(rs), pos \in 1 .. Len(unit), NEW q \in 1 .. pos - 1, unit[q].n \in ExpressionNodes
  PROVE  /\ SymbolAt(q) = Meant(scopes, m_node_symbls, Denotation(unit)[q])
         /\ Denotation(unit)[q] \in Denotable(unit, pos)
         /\ SymbolAt(q) \in Nat /\ (SymbolAt(q) = 0 <=> Denotation(unit)[q] = NothingThere)
<1>0. IsUnit(unit) /\ pos \in Nat /\ Len(unit) \in Nat /\ q \in Nat /\ q \in 0 .. Len(unit) /\ q <= pos
  BY WalkFacts DEF Walk
<1>1. SymbolAt(q) = Meant(scopes, m_node_symbls, Denotation(unit)[q])
  <2>1. unit[q].n \notin DeclaringNodes
    BY DEF ExpressionNodes, DeclaringNodes
  <2> QED BY <2>1 DEF Walk, Meanings, SymbolAt, BoundTo
<1>2. Denotation(unit)[q] \in Denotable(unit, pos)
  <2>1. Denotation(unit)[q] \in Denotable(unit, q)
    BY <1>0, DenotationDenotable
  <2>2. Denotable(unit, q) \subseteq Denotable(unit, pos)
    BY <1>0, DenotableGrows
  <2> QED BY <2>1, <2>2
<1>3. CoreScope(scopes) /\ Described(unit, pos, symbols, m_node_symbls)
  BY DEF Walk
<1> DEFINE d == Denotation(unit)[q]
<1>4. Meant(scopes, m_node_symbls, d) \in Nat /\ (Meant(scopes, m_node_symbls, d) = 0 <=> d = NothingThere)
  <2>1. d \in Denotable(unit, pos)
    BY <1>2
  <2> HIDE DEF d
  <2> QED BY <1>3, <2>1, NothingIsNothing
<1> QED BY <1>1, <1>2, <1>4

(* A member of a module is looked up in the region of the module, and      *)
(* what is no module has no members.                                       *)
LEMMA MemberMeant ==
  ASSUME NEW rs, Walk(rs), pos \in 1 .. Len(unit), unit[pos].n = "member"
  PROVE  /\ Base = 0 => Denotation(unit)[pos - 1] = NothingThere /\ Denotation(unit)[pos] = NothingThere
         /\ Base # 0 => Denotation(unit)[pos - 1] # NothingThere
         /\ Base # 0 /\ symbols[Base].kind = "Module" =>
              MemberOf(Base) = Meant(scopes, m_node_symbls, Denotation(unit)[pos])
         /\ Base # 0 /\ symbols[Base].kind # "Module" => Denotation(unit)[pos] = NothingThere
<1> DEFINE of == Denotation(unit)[pos - 1]
           meant == MemberBinding(unit, of, Name, pos)
<1>0. pos \in Nat \ {0} /\ IsUnit(unit) /\ DOMAIN unit = 1 .. Len(unit) /\ Len(unit) \in Nat
  BY WalkFacts DEF Walk
<1>1. pos - 1 \in 1 .. pos - 1 /\ unit[pos - 1].n \in ExpressionNodes
  BY <1>0 DEF IsUnit, HasOperands
<1>2. /\ Base = Meant(scopes, m_node_symbls, of)
      /\ of \in Denotable(unit, pos)
      /\ Base = 0 <=> of = NothingThere
  BY <1>1, OperandMeant DEF Base
<1>3. Denotation(unit)[pos] = meant
  BY DenotedHere
<1>4. \A r \in Opened(unit, pos) : LookupLocal(ScopeOf(unit, r), Name) = Meant(scopes, m_node_symbls, InRegion(unit, r, Name, pos))
  BY LocalNames, SymbolOfMeant
<1>5. LookupLocal(Core, Name) = Meant(scopes, m_node_symbls, InCore(Name))
  BY LocalNames, SymbolOfMeant
<1> HIDE DEF of
<1>6. of = NothingThere => meant = NothingThere
  BY DEF MemberBinding, NothingThere
<1>7. ASSUME NEW x \in CoreNames, of = <<"core", x>>
      PROVE  IF symbols[Base].kind = "Module" THEN MemberOf(Base) = Meant(scopes, m_node_symbls, meant)
                                              ELSE meant = NothingThere
  <2>1. Base = scopes[Core].names[x]
    BY <1>2, <1>7, MeantOfEach, Zenon
  <2>2. Base \in 1 .. 5 /\ (Base \in {4, 5} => x \in {"Core", "Main"})
    BY <2>1 DEF Walk, CoreScope
  <2>3. x = "Core" => Base = 4 /\ symbols[4].kind = "Module" /\ symbols[4].moduleScope = Core
    BY <2>1 DEF Walk, CoreScope, Described
  <2>4. x = "Main" => Base = 5 /\ symbols[5].kind = "Module" /\ symbols[5].moduleScope = Main
    BY <2>1 DEF Walk, CoreScope, Described
  <2>5. x \notin {"Core", "Main"} => Base \in 1 .. 3 /\ symbols[Base].kind # "Module"
    <3>1. x \notin {"Core", "Main"} => Base \in 1 .. 3
      BY <2>2
    <3> QED BY <3>1 DEF Walk, Described
  <2>6. x = "Core" => meant = InCore(Name)
    BY <1>7 DEF MemberBinding
  <2>7. x = "Main" => meant = InRegion(unit, 0, Name, pos)
    BY <1>7 DEF MemberBinding
  <2>8. x \notin {"Core", "Main"} => meant = NothingThere
    BY <1>7 DEF MemberBinding
  <2>9. ScopeOf(unit, 0) = Main /\ 0 \in Opened(unit, pos)
    BY <1>0, ScopeNumbers DEF Opened
  <2> HIDE DEF meant
  <2>10. CASE x = "Core"
    BY <2>3, <2>6, <2>10, <1>5 DEF MemberOf
  <2>11. CASE x = "Main"
    BY <2>4, <2>7, <2>9, <2>11, <1>4 DEF MemberOf
  <2>12. CASE x \notin {"Core", "Main"}
    BY <2>5, <2>8, <2>12
  <2> QED BY <2>10, <2>11, <2>12
<1>8. ASSUME NEW e \in 1 .. pos - 1, unit[e].n \in DeclaringNodes, of = <<"decl", e>>
      PROVE  IF symbols[Base].kind = "Module" THEN MemberOf(Base) = Meant(scopes, m_node_symbls, meant)
                                              ELSE meant = NothingThere
  <2>1. Base = BoundTo(m_node_symbls, e)
    BY <1>2, <1>8, MeantOfEach, Zenon
  <2>2. e \in Declared(unit, pos)
    BY <1>8 DEF Declared
  <2>3. /\ unit[e].n = "module" <=> symbols[Base].kind = "Module"
        /\ unit[e].n = "module" => symbols[Base].moduleScope = ScopeOf(unit, e)
    BY <2>1, <2>2 DEF Walk, Described
  <2>4. unit[e].n = "module" => meant = InRegion(unit, e, Name, pos)
    BY <1>8 DEF MemberBinding
  <2>5. unit[e].n # "module" => meant = NothingThere
    BY <1>8 DEF MemberBinding
  <2>6. unit[e].n = "module" => e \in Opened(unit, pos)
    BY DEF Opened, Opens
  <2> HIDE DEF meant
  <2>7. CASE unit[e].n = "module"
    BY <2>3, <2>4, <2>6, <2>7, <1>4 DEF MemberOf
  <2>8. CASE unit[e].n # "module"
    BY <2>3, <2>5, <2>8
  <2> QED BY <2>7, <2>8
<1>9. of = NothingThere \/ (\E x \in CoreNames : of = <<"core", x>>)
      \/ (\E e \in 1 .. pos - 1 : unit[e].n \in DeclaringNodes /\ of = <<"decl", e>>)
  BY <1>2 DEF Denotable
<1> HIDE DEF meant
<1>10. Base # 0 => IF symbols[Base].kind = "Module" THEN MemberOf(Base) = Meant(scopes, m_node_symbls, meant)
                                                    ELSE meant = NothingThere
  BY <1>2, <1>7, <1>8, <1>9
<1>11. /\ Base = 0 => of = NothingThere /\ meant = NothingThere
       /\ Base # 0 => of # NothingThere
  BY <1>2, <1>6
<1> QED BY <1>3, <1>10, <1>11 DEF of

(* A node that is bound to the symbol of what it denotes.                  *)
LEMMA BoundStep ==
  ASSUME NEW rs, Walk(rs), pos \in 1 .. Len(unit), Quiet(unit[pos].n),
         unit' = unit, pos' = pos + 1, UNCHANGED <<scopes, symbols, m_current_scope, saved>>,
         NEW s, Bind(s), s = Meant(scopes, m_node_symbls, Denotation(unit)[pos]),
         FollowsRules(unit, pos, Denotation(unit))
  PROVE  Walk(rs)'
<1>1. pos \in Nat /\ DOMAIN m_node_symbls \subseteq 1 .. pos - 1 /\ pos # 0
  BY WalkFacts DEF Walk
<1>2. m_node_symbls' = With(m_node_symbls, pos, s)
  BY DEF Bind
<1>3. /\ DOMAIN m_node_symbls' \subseteq 1 .. pos \cup {pos}
      /\ \A q \in 1 .. pos - 1 : BoundTo(m_node_symbls', q) = BoundTo(m_node_symbls, q)
      /\ BoundTo(m_node_symbls', pos) = s
  BY <1>1, <1>2, BindFacts
<1>4. SameBefore(m_node_symbls, m_node_symbls', pos) /\ DOMAIN m_node_symbls' \subseteq 1 .. pos
  BY <1>1, <1>3 DEF SameBefore
<1> QED BY <1>3, <1>4, PlainStep

LEMMA UnboundStep ==
  ASSUME NEW rs, Walk(rs), pos \in 1 .. Len(unit), Quiet(unit[pos].n),
         unit' = unit, pos' = pos + 1, UNCHANGED <<scopes, symbols, m_current_scope, saved, m_node_symbls>>,
         Denotation(unit)[pos] = NothingThere,
         FollowsRules(unit, pos, Denotation(unit))
  PROVE  Walk(rs)'
<1>1. pos \in Nat /\ DOMAIN m_node_symbls \subseteq 1 .. pos - 1 /\ pos # 0
  BY WalkFacts DEF Walk
<1>2. pos \notin DOMAIN m_node_symbls
  BY <1>1
<1>3. BoundTo(m_node_symbls', pos) = 0
  BY <1>2 DEF BoundTo
<1>4. SameBefore(m_node_symbls, m_node_symbls', pos) /\ DOMAIN m_node_symbls' \subseteq 1 .. pos
  BY <1>1 DEF SameBefore
<1>5. Meant(scopes, m_node_symbls, Denotation(unit)[pos]) = 0
  BY MeantOfEach
<1> QED BY <1>3, <1>4, <1>5, PlainStep

LEMMA IdentifierStep ==
  ASSUME NEW rs, Walk(rs), Identifier
  PROVE  Walk(rs)'
<1>1. pos \in 1 .. Len(unit) /\ unit[pos].n = "identifier" /\ Quiet(unit[pos].n)
  BY WalkFacts DEF Identifier, At, Quiet, Opens, Closes, DeclaringNodes
<1>2. Denotation(unit)[pos] = Binding(unit, pos, Name)
  BY <1>1, DenotedHere
<1>3. Lookup(Name) = Meant(scopes, m_node_symbls, Denotation(unit)[pos])
  BY <1>2, LookupIsBinding, SymbolOfMeant
<1>4. FollowsRules(unit, pos, Denotation(unit))
  <2>1. Denotation(unit)[pos] # NothingThere
    BY <1>3, MeantOfEach DEF Identifier
  <2> QED BY <1>1, <2>1 DEF FollowsRules
<1> QED BY <1>1, <1>3, <1>4, BoundStep DEF Identifier, Forward

LEMMA CallStep ==
  ASSUME NEW rs, Walk(rs), Call
  PROVE  Walk(rs)'
<1>1. pos \in 1 .. Len(unit) /\ unit[pos].n = "call" /\ Quiet(unit[pos].n)
  BY WalkFacts DEF Call, At, Quiet, Opens, Closes, DeclaringNodes
<1> DEFINE q == pos - unit[pos].callee
<1>2. q \in 1 .. pos - 1 /\ unit[q].n \in ExpressionNodes
  <2>1. HasOperands(unit) /\ pos \in DOMAIN unit /\ pos \in Nat
    BY <1>1, WalkFacts DEF Walk, IsUnit
  <2>2. unit[pos].callee \in 1 .. pos - 1 /\ unit[q].n \in ExpressionNodes
    BY <1>1, <2>1 DEF HasOperands
  <2> QED BY <2>1, <2>2
<1>3. SymbolAt(q) = Meant(scopes, m_node_symbls, Denotation(unit)[q])
  BY <1>1, <1>2, OperandMeant
<1>4. Denotation(unit)[pos] = Denotation(unit)[q]
  BY <1>1, DenotedHere
<1>5. FollowsRules(unit, pos, Denotation(unit))
  BY <1>1 DEF FollowsRules
<1>6. Bind(SymbolAt(q))
  BY DEF Call
<1> HIDE DEF q
<1> QED BY <1>1, <1>3, <1>4, <1>5, <1>6, BoundStep DEF Call, Forward

LEMMA MemberStep ==
  ASSUME NEW rs, Walk(rs), Member
  PROVE  Walk(rs)'
<1>1. pos \in 1 .. Len(unit) /\ unit[pos].n = "member" /\ Quiet(unit[pos].n)
  BY WalkFacts DEF Member, At, Quiet, Opens, Closes, DeclaringNodes
<1>2. CASE Base = 0
  <2>1. Denotation(unit)[pos - 1] = NothingThere /\ Denotation(unit)[pos] = NothingThere
    BY <1>1, <1>2, MemberMeant
  <2>2. FollowsRules(unit, pos, Denotation(unit))
    BY <1>1, <2>1 DEF FollowsRules
  <2> QED BY <1>1, <1>2, <2>1, <2>2, UnboundStep DEF Member, Forward
<1>3. CASE Base # 0
  <2>1. symbols[Base].kind = "Module" /\ MemberOf(Base) # 0 /\ Bind(MemberOf(Base))
    BY <1>3 DEF Member
  <2>2. MemberOf(Base) = Meant(scopes, m_node_symbls, Denotation(unit)[pos])
    BY <1>1, <1>3, <2>1, MemberMeant
  <2>3. Denotation(unit)[pos] # NothingThere
    BY <2>1, <2>2, MeantOfEach
  <2>4. FollowsRules(unit, pos, Denotation(unit))
    BY <1>1, <2>3 DEF FollowsRules
  <2> QED BY <1>1, <2>1, <2>2, <2>4, BoundStep DEF Member, Forward
<1> QED BY <1>2, <1>3

LEMMA PassByStep ==
  ASSUME NEW rs, Walk(rs), PassBy
  PROVE  Walk(rs)'
<1>1. /\ pos \in 1 .. Len(unit) /\ Quiet(unit[pos].n)
      /\ unit[pos].n \in {"literal", "binary", "assign", "expr", "return", "if", "bareif", "while"}
  BY WalkFacts DEF PassBy, At, Quiet, Opens, Closes, DeclaringNodes
<1>2. Denotation(unit)[pos] = NothingThere
  BY <1>1, DenotedHere
<1>3. FollowsRules(unit, pos, Denotation(unit))
  BY <1>1 DEF FollowsRules
<1> QED BY <1>1, <1>2, <1>3, UnboundStep DEF PassBy, Forward, svars

(* What a node that declares its name for the first time in its region     *)
(* leaves, whether it opens a region or not.                               *)
Suits(sym) ==
  /\ unit[pos].n = "function" <=> sym.kind = "Function"
  /\ unit[pos].n = "module" <=> sym.kind = "Module"
  /\ unit[pos].n = "module" => sym.moduleScope = NewScope
DeclaresFirst(sym, sy2, m2, sc1, sc2) ==
  /\ unit[pos].n \in DeclaringNodes /\ ~HasSymbol
  /\ Suits(sym) /\ sy2 = Append(symbols, sym)
  /\ m2 = With(m_node_symbls, pos, NewSymbol)
  /\ sc1 = WithName(Name)
  /\ \A s \in 1 .. Len(scopes) : sc2[s] = sc1[s]
  /\ unit[pos].n \in Opens => DOMAIN sc2[ScopeOf(unit, pos)].names = {}

LEMMA FirstDeclares ==
  ASSUME NEW rs, Walk(rs), pos \in 1 .. Len(unit),
         NEW sym, NEW sy2, NEW m2, NEW sc1, NEW sc2, DeclaresFirst(sym, sy2, m2, sc1, sc2)
  PROVE  /\ IsSeq(sc1) /\ Len(sc1) = Len(scopes) /\ Keeps(scopes, sc1)
         /\ CoreScope(sc2)
         /\ Named(unit, pos + 1, sc2, m2)
         /\ Described(unit, pos + 1, sy2, m2)
         /\ Distinct(unit, pos + 1, m2)
         /\ DOMAIN m2 \subseteq 1 .. pos
         /\ Meanings(unit, pos + 1, sc2, m2)
<1>a. unit[pos].n \in DeclaringNodes /\ ~HasSymbol
  BY DEF DeclaresFirst
<1>b. \A s \in 1 .. Len(scopes) : sc2[s] = sc1[s]
  BY DEF DeclaresFirst
<1>c. unit[pos].n \in Opens => DOMAIN sc2[ScopeOf(unit, pos)].names = {}
  BY DEF DeclaresFirst
<1>1. /\ pos \in Nat \ {0} /\ Len(unit) \in Nat /\ IsUnit(unit)
      /\ m_current_scope = Home(unit, pos) /\ m_current_scope \in 2 .. Len(scopes) /\ m_current_scope \in 1 .. Len(scopes)
      /\ IsSeq(scopes) /\ Len(scopes) \in Nat /\ Len(scopes) = ScopeOf(unit, pos - 1)
      /\ IsSeq(symbols) /\ Len(symbols) \in Nat /\ Len(symbols) >= 5
      /\ \A r \in Opened(unit, pos) : ScopeOf(unit, r) \in 1 .. Len(scopes)
      /\ \A r \in Opened(unit, pos) : r # RegionOf(unit, pos) => ScopeOf(unit, r) # m_current_scope
  BY WalkFacts DEF Walk
<1>2. "names" \in DOMAIN scopes[m_current_scope]
  BY <1>1, WalkFacts
<1>3. sc1 = WithNameAt(scopes, m_current_scope, Name, NewSymbol)
  BY DEF DeclaresFirst, WithName, WithNameAt
<1>4. /\ IsSeq(sc1) /\ Len(sc1) = Len(scopes) /\ Keeps(scopes, sc1)
      /\ \A s \in 1 .. Len(scopes) : s # m_current_scope => sc1[s] = scopes[s]
      /\ Adds(scopes[m_current_scope].names, sc1[m_current_scope].names, Name, NewSymbol)
  BY <1>1, <1>2, <1>3, WithNameFacts, SMTT(20)
<1>5. /\ DOMAIN m2 \subseteq 1 .. pos /\ SameBefore(m_node_symbls, m2, pos)
      /\ BoundTo(m2, pos) = Len(symbols) + 1
  <2>1. DOMAIN m_node_symbls \subseteq 1 .. pos - 1
    BY DEF Walk
  <2>2. /\ DOMAIN m2 \subseteq 1 .. pos \cup {pos}
        /\ \A q \in 1 .. pos - 1 : BoundTo(m2, q) = BoundTo(m_node_symbls, q)
        /\ BoundTo(m2, pos) = NewSymbol
    <3>1. m2 = With(m_node_symbls, pos, NewSymbol)
      BY DEF DeclaresFirst
    <3> QED BY ONLY <1>1, <2>1, <3>1, BindFacts, SMTT(20)
  <2> QED BY <1>1, <2>2 DEF SameBefore, NewSymbol
<1>6. Name \notin DOMAIN scopes[m_current_scope].names /\ Declares(unit, RegionOf(unit, pos), Name, pos) = {}
  BY <1>a, SymbolHere
<1>7. sc2[Core] = scopes[Core]
  <2>1. Core \in 1 .. Len(scopes) /\ Core # m_current_scope
    BY <1>1 DEF Core
  <2> QED BY <1>4, <1>b, <2>1
<1>8. CoreScope(sc2)
  BY <1>7 DEF Walk, CoreScope
<1>9. Named(unit, pos + 1, sc2, m2)
  <2>1. \A r \in Opened(unit, pos) : r # RegionOf(unit, pos) => sc2[ScopeOf(unit, r)].names = scopes[ScopeOf(unit, r)].names
    BY <1>1, <1>4, <1>b
  <2>2. Declaration(scopes[Home(unit, pos)].names, sc2[Home(unit, pos)].names, unit[pos].name, BoundTo(m2, pos))
    BY <1>1, <1>4, <1>5, <1>6, <1>b DEF Adds, Declaration, Name, NewSymbol
  <2>3. Named(unit, pos, scopes, m_node_symbls)
    BY DEF Walk
  <2> QED BY <1>1, <1>5, <1>a, <1>c, <2>1, <2>2, <2>3, NamedDeclares
<1>10. /\ IsSeq(sy2) /\ Len(sy2) = Len(symbols) + 1
       /\ \A i \in 1 .. Len(symbols) : sy2[i] = symbols[i]
       /\ sy2[Len(symbols) + 1] = sym
  BY <1>1, AppendFacts DEF DeclaresFirst
<1>11. Described(unit, pos + 1, sy2, m2)
  <2>1. Extends(symbols, sy2)
    BY <1>1, <1>10 DEF Extends
  <2>2. ScopeOf(unit, pos) = ScopeOf(unit, pos - 1) + 1 \/ unit[pos].n # "module"
    BY <1>1, NewScopeNumber DEF Opens
  <2>3. Describes(unit, pos, BoundTo(m2, pos), sy2)
    BY <1>1, <1>5, <1>10, <2>2 DEF DeclaresFirst, Suits, Describes, NewScope
  <2>4. Described(unit, pos, symbols, m_node_symbls)
    BY DEF Walk
  <2> QED BY <1>1, <1>5, <2>1, <2>3, <2>4, DescribedPasses
<1>12. Distinct(unit, pos + 1, m2)
  <2>1. \A d \in Declared(unit, pos) : BoundTo(m_node_symbls, d) # BoundTo(m2, pos)
    <3>1. \A d \in Declared(unit, pos) : BoundTo(m_node_symbls, d) \in 6 .. Len(symbols)
      BY DEF Walk, Described
    <3> QED BY <1>1, <1>5, <3>1
  <2>2. Distinct(unit, pos, m_node_symbls)
    BY DEF Walk
  <2> QED BY <1>1, <1>5, <2>1, <2>2, DistinctPasses
<1>13. Meanings(unit, pos + 1, sc2, m2)
  <2>1. FollowsRules(unit, pos, Denotation(unit))
    BY <1>6, <1>a DEF FollowsRules, DeclaringNodes, Name
  <2>2. Meanings(unit, pos, scopes, m_node_symbls)
    BY DEF Walk
  <2> QED BY <1>1, <1>5, <1>7, <1>a, <2>1, <2>2, MeaningsPass
<1> QED BY <1>4, <1>5, <1>8, <1>9, <1>11, <1>12, <1>13

LEMMA DeclaringStep ==
  ASSUME NEW rs, Walk(rs), pos \in 1 .. Len(unit), unit[pos].n \in {"var", "param"}, ~HasSymbol,
         unit' = unit, pos' = pos + 1, UNCHANGED <<m_current_scope, saved>>,
         NEW sym, sym.kind \notin {"Function", "Module"}, symbols' = Append(symbols, sym),
         scopes' = WithName(Name), Bind(NewSymbol)
  PROVE  Walk(rs)'
<1>1. /\ pos \in Nat \ {0} /\ Len(unit) \in Nat /\ IsUnit(unit) /\ Len(rs) \in Nat
      /\ \A k \in 1 .. Len(rs) : ScopeOf(unit, rs[k]) \in 1 .. Len(scopes)
  BY WalkFacts DEF Walk
<1>2. unit[pos].n \in DeclaringNodes /\ unit[pos].n \notin Opens /\ unit[pos].n \notin Closes
  BY DEF DeclaringNodes, Opens, Closes
<1>3. /\ IsSeq(scopes') /\ Len(scopes') = Len(scopes) /\ Keeps(scopes, scopes')
      /\ CoreScope(scopes')
      /\ Named(unit, pos + 1, scopes', m_node_symbls')
      /\ Described(unit, pos + 1, symbols', m_node_symbls')
      /\ Distinct(unit, pos + 1, m_node_symbls')
      /\ DOMAIN m_node_symbls' \subseteq 1 .. pos
      /\ Meanings(unit, pos + 1, scopes', m_node_symbls')
  <2>1. m_node_symbls' = With(m_node_symbls, pos, NewSymbol)
    BY DEF Bind
  <2>2. DeclaresFirst(sym, symbols', m_node_symbls', scopes', scopes')
    BY <1>2, <2>1 DEF DeclaresFirst, Suits
  <2> QED BY <2>2, FirstDeclares
<1>4. Stack(unit, pos + 1, rs)
  BY <1>1, <1>2, StackPasses DEF Walk
<1>5. Tree(unit, pos + 1, rs, scopes')
  BY <1>1, <1>2, <1>3, TreePasses DEF Walk
<1>6. pos + 1 \in 1 .. Len(unit) + 1 /\ pos + 1 - 1 = pos
  BY <1>1
<1> QED BY <1>1, <1>3, <1>4, <1>5, <1>6 DEF Walk

LEMMA VarDeclStep ==
  ASSUME NEW rs, Walk(rs), VarDecl
  PROVE  Walk(rs)'
<1>1. pos \in 1 .. Len(unit) /\ unit[pos].n \in {"var", "param"}
  BY WalkFacts DEF VarDecl, At
<1> DEFINE sym == Symbol("Variable", Name, NOTYPE, 0)
<1>2. sym.kind \notin {"Function", "Module"}
  BY DEF Symbol
<1>3. symbols' = Append(symbols, sym) /\ scopes' = WithName(Name) /\ Bind(NewSymbol) /\ ~HasSymbol
  BY DEF VarDecl
<1> HIDE DEF sym
<1> QED BY <1>1, <1>2, <1>3, DeclaringStep DEF VarDecl, Forward

(* The name of a parameter is not taken.                                   *)
LEMMA ParamIsNew ==
  ASSUME NEW rs, Walk(rs), pos \in 1 .. Len(unit), unit[pos].n = "param"
  PROVE  ~HasSymbol
<1> SUFFICES ASSUME HasSymbol PROVE FALSE
  OBVIOUS
<1>0. pos \in Nat \ {0} /\ DOMAIN unit = 1 .. Len(unit) /\ RegionOf(unit, pos) = Top(rs) /\ ParamsFirst(unit)
  BY WalkFacts DEF Walk, IsUnit
<1>1. PICK f \in 1 .. pos - 1 :
        /\ unit[f].n = "function"
        /\ \A q \in f + 1 .. pos - 1 : /\ unit[q].n \in {"param", "identifier"}
                                       /\ unit[q].n = "param" => unit[q].name # unit[pos].name
  BY <1>0 DEF ParamsFirst
<1>2. RegionOf(unit, pos) = f
  BY <1>0, <1>1 DEF Walk, Stack, AtParams, InParams
<1>3. PICK d : d \in Declares(unit, f, Name, pos)
  BY <1>2, SymbolHere
<1>4. d \in 1 .. pos - 1 /\ unit[d].n \in DeclaringNodes /\ unit[d].name = unit[pos].name /\ RegionOf(unit, d) = f
  BY <1>3 DEF Declares, Name
<1>5. f \in 0 .. d - 1
  <2>1. d \in Nat \ {0}
    BY <1>0, <1>4
  <2> QED BY <1>4, <2>1, RegionBounds
<1>6. d \in f + 1 .. pos - 1
  BY <1>0, <1>4, <1>5
<1> QED BY <1>1, <1>4, <1>6 DEF DeclaringNodes

LEMMA ParamStep ==
  ASSUME NEW rs, Walk(rs), Param
  PROVE  Walk(rs)'
<1>1. pos \in 1 .. Len(unit) /\ unit[pos].n = "param" /\ unit[pos].n \in {"var", "param"}
  BY WalkFacts DEF Param, At
<1>2. ~HasSymbol
  BY <1>1, ParamIsNew
<1> DEFINE sym == Symbol("Parameter", Name, NOTYPE, 0)
<1>3. sym.kind \notin {"Function", "Module"}
  BY DEF Symbol
<1>4. symbols' = Append(symbols, sym) /\ scopes' = WithName(Name) /\ Bind(NewSymbol)
  BY <1>2 DEF Param
<1> HIDE DEF sym
<1> QED BY <1>1, <1>2, <1>3, <1>4, DeclaringStep DEF Param, Forward

(* A node that opens a region, given what it declares.                     *)
LEMMA OpeningStep ==
  ASSUME NEW rs, Walk(rs), pos \in 1 .. Len(unit), unit[pos].n \in Opens,
         unit' = unit, pos' = pos + 1, Into(NewScope),
         NEW sc1, IsSeq(sc1), Len(sc1) = Len(scopes), Keeps(scopes, sc1),
         NEW new, DOMAIN new = {"kind", "parent", "names"},
         new.parent = IF unit[pos].n = "module" THEN Core ELSE m_current_scope,
         scopes' = Append(sc1, new),
         CoreScope(scopes'),
         Named(unit, pos + 1, scopes', m_node_symbls'),
         Described(unit, pos + 1, symbols', m_node_symbls'),
         Distinct(unit, pos + 1, m_node_symbls'),
         DOMAIN m_node_symbls' \subseteq 1 .. pos,
         Meanings(unit, pos + 1, scopes', m_node_symbls')
  PROVE  \E ss : Walk(ss)'
<1> PICK ss : ss = Append(rs, pos)
  OBVIOUS
<1>1. /\ pos \in Nat \ {0} /\ Len(unit) \in Nat /\ IsUnit(unit)
      /\ rs \in Seq(Nat) /\ Len(rs) \in Nat \ {0}
      /\ Len(scopes) \in Nat /\ Len(scopes) = ScopeOf(unit, pos - 1)
      /\ m_current_scope \in 2 .. Len(scopes)
  BY WalkFacts DEF Walk
<1>0. m_current_scope = ScopeOf(unit, Top(rs)) /\ m_current_scope \in Nat
  BY <1>1 DEF Walk, WalkAt
<1>2. Stack(unit, pos + 1, ss)
  BY <1>1, StackOpens DEF Walk
<1>3. Tree(unit, pos + 1, ss, scopes')
  <2>1. /\ IsSeq(scopes') /\ Len(scopes') = Len(scopes) + 1
        /\ \A s \in 1 .. Len(scopes) : scopes'[s] = sc1[s]
        /\ scopes'[Len(scopes')] = new
    BY AppendFacts
  <2>2. Keeps(scopes, scopes')
    BY <2>1 DEF Keeps
  <2>3. Tree(unit, pos, rs, scopes) /\ Stack(unit, pos, rs)
    BY DEF Walk
  <2> QED BY <1>0, <1>1, <2>1, <2>2, <2>3, TreeOpens
<1>4. WalkAt(unit, ss, m_current_scope', saved')
  <2>1. Len(ss) = Len(rs) + 1 /\ (\A k \in 1 .. Len(rs) : ss[k] = rs[k]) /\ Top(ss) = pos
    BY <1>1 DEF Top
  <2>2. saved \in Seq(Nat) /\ Len(saved) = Len(rs) - 1 /\ \A k \in 1 .. Len(saved) : saved[k] = ScopeOf(unit, rs[k])
    BY DEF Walk, WalkAt
  <2>3. saved' = Append(saved, m_current_scope) /\ m_current_scope' = Len(scopes) + 1
    BY DEF Into, NewScope
  <2>4. ScopeOf(unit, pos) = ScopeOf(unit, pos - 1) + 1
    BY <1>1, NewScopeNumber
  <2>5. /\ saved' \in Seq(Nat) /\ Len(saved') = Len(rs)
        /\ \A k \in 1 .. Len(rs) - 1 : saved'[k] = saved[k]
        /\ saved'[Len(rs)] = m_current_scope
    BY <1>0, <1>1, <2>2, <2>3, SMTT(40)
  <2>6. \A k \in 1 .. Len(saved') : saved'[k] = ScopeOf(unit, ss[k])
    <3> TAKE k \in 1 .. Len(saved')
    <3>1. CASE k = Len(rs)
      BY <3>1, <1>0, <1>1, <2>1, <2>5 DEF Top
    <3>2. CASE k \in 1 .. Len(rs) - 1
      <4>1. k \in 1 .. Len(rs) /\ k \in 1 .. Len(saved)
        BY <3>2, <1>1, <2>2
      <4> QED BY <3>2, <4>1, <2>1, <2>2, <2>5
    <3> QED BY <3>1, <3>2, <1>1, <2>5, SMTT(40)
  <2>7. m_current_scope' = ScopeOf(unit, Top(ss))
    BY <1>1, <2>1, <2>3, <2>4
  <2>8. Len(saved') = Len(ss) - 1
    BY <1>1, <2>1, <2>5
  <2> QED BY <2>5, <2>6, <2>7, <2>8 DEF WalkAt
<1>5. pos + 1 \in 1 .. Len(unit) + 1 /\ pos + 1 - 1 = pos
  BY <1>1
<1>6. Walk(ss)'
  BY <1>0, <1>1, <1>2, <1>3, <1>4, <1>5 DEF Walk
<1> QED BY <1>6

(* A region opened by a node that declares nothing new.                    *)
LEMMA OpenedStep ==
  ASSUME NEW rs, Walk(rs), pos \in 1 .. Len(unit), unit[pos].n \in {"block", "function"},
         unit' = unit, pos' = pos + 1, Into(NewScope), UNCHANGED symbols,
         NEW kind, scopes' = Append(scopes, Scope(kind, m_current_scope)),
         SameBefore(m_node_symbls, m_node_symbls', pos), DOMAIN m_node_symbls' \subseteq 1 .. pos,
         FollowsRules(unit, pos, Denotation(unit)),
         IF unit[pos].n = "block" THEN BoundTo(m_node_symbls', pos) = 0
         ELSE \E d \in Declares(unit, RegionOf(unit, pos), Name, pos) :
                unit[d].n = "function" /\ BoundTo(m_node_symbls', pos) = BoundTo(m_node_symbls, d)
  PROVE  \E ss : Walk(ss)'
<1>1. /\ pos \in Nat \ {0} /\ Len(unit) \in Nat /\ IsUnit(unit)
      /\ IsSeq(scopes) /\ Len(scopes) \in Nat /\ Len(scopes) = ScopeOf(unit, pos - 1)
      /\ IsSeq(symbols) /\ Len(symbols) \in Nat /\ Len(symbols) >= 5
      /\ m_current_scope = Home(unit, pos) /\ m_current_scope \in 2 .. Len(scopes)
      /\ \A r \in Opened(unit, pos) : ScopeOf(unit, r) \in 2 .. Len(scopes)
  BY WalkFacts DEF Walk
<1>2. unit[pos].n \in Opens /\ unit[pos].n # "module"
  BY DEF Opens
<1> DEFINE new == Scope(kind, m_current_scope)
<1>3. DOMAIN new = {"kind", "parent", "names"} /\ new.parent = m_current_scope /\ DOMAIN new.names = {}
  BY DEF Scope
<1>4. scopes' = Append(scopes, new)
  OBVIOUS
<1> HIDE DEF new
<1>5. /\ IsSeq(scopes') /\ Len(scopes') = Len(scopes) + 1
      /\ \A s \in 1 .. Len(scopes) : scopes'[s] = scopes[s]
      /\ scopes'[Len(scopes) + 1] = new
  BY <1>1, <1>4, AppendFacts
<1>6. ScopeOf(unit, pos) = Len(scopes) + 1
  BY <1>1, <1>2, NewScopeNumber
<1>7. \A r \in Opened(unit, pos) : scopes'[ScopeOf(unit, r)] = scopes[ScopeOf(unit, r)]
  <2>1. \A r \in Opened(unit, pos) : ScopeOf(unit, r) \in 1 .. Len(scopes)
    BY <1>1
  <2> QED BY <1>5, <2>1
<1>8. scopes'[Core] = scopes[Core]
  BY <1>1, <1>5 DEF Core
<1>9. CoreScope(scopes')
  BY <1>8 DEF Walk, CoreScope
<1>10. DOMAIN scopes'[ScopeOf(unit, pos)].names = {}
  BY <1>3, <1>5, <1>6
<1> DEFINE fcts == Declares(unit, RegionOf(unit, pos), Name, pos)
<1>11. unit[pos].n = "function" =>
         \E d \in Declared(unit, pos) :
           /\ unit[d].n = "function" /\ unit[d].name = unit[pos].name /\ RegionOf(unit, d) = RegionOf(unit, pos)
           /\ BoundTo(m_node_symbls', pos) = BoundTo(m_node_symbls, d)
  BY DEF Declares, Declared, Name
<1>12. Named(unit, pos, scopes, m_node_symbls) /\ Described(unit, pos, symbols, m_node_symbls)
       /\ Distinct(unit, pos, m_node_symbls) /\ Meanings(unit, pos, scopes, m_node_symbls)
  BY DEF Walk
<1>13. Named(unit, pos + 1, scopes', m_node_symbls')
  <2>1. CASE unit[pos].n = "block"
    <3>1. unit[pos].n \notin DeclaringNodes
      BY <2>1 DEF DeclaringNodes
    <3> QED BY <1>1, <1>7, <1>10, <1>12, <3>1, NamedPasses
  <2>2. CASE unit[pos].n = "function"
    <3>1. PICK d \in Declared(unit, pos) :
            /\ unit[d].name = unit[pos].name /\ RegionOf(unit, d) = RegionOf(unit, pos)
            /\ BoundTo(m_node_symbls', pos) = BoundTo(m_node_symbls, d)
      BY <1>11, <2>2
    <3>2. /\ unit[pos].name \in DOMAIN scopes[Home(unit, pos)].names
          /\ scopes[Home(unit, pos)].names[unit[pos].name] = BoundTo(m_node_symbls', pos)
      <4>1. Home(unit, d) = Home(unit, pos)
        BY <3>1 DEF Home
      <4> QED BY <3>1, <4>1, <1>12 DEF Named
    <3>3. scopes'[Home(unit, pos)].names = scopes[Home(unit, pos)].names
      BY <1>1, <1>5
    <3>4. Declaration(scopes[Home(unit, pos)].names, scopes'[Home(unit, pos)].names, unit[pos].name, BoundTo(m_node_symbls', pos))
      BY <3>2, <3>3 DEF Declaration
    <3>5. unit[pos].n \in DeclaringNodes
      BY <2>2 DEF DeclaringNodes
    <3> QED BY <1>1, <1>7, <1>10, <1>12, <3>4, <3>5, NamedDeclares
  <2> QED BY <2>1, <2>2
<1>14. Described(unit, pos + 1, symbols', m_node_symbls')
  <2>1. Extends(symbols, symbols')
    BY <1>1 DEF Extends
  <2>2. unit[pos].n \in DeclaringNodes => Describes(unit, pos, BoundTo(m_node_symbls', pos), symbols')
    BY <1>11, <1>12 DEF DeclaringNodes, Described, Describes
  <2> QED BY <1>1, <1>12, <2>1, <2>2, DescribedPasses
<1>15. Distinct(unit, pos + 1, m_node_symbls')
  <2>1. unit[pos].n \in DeclaringNodes =>
          \A d \in Declared(unit, pos) : BoundTo(m_node_symbls, d) = BoundTo(m_node_symbls', pos) =>
            unit[d].name = unit[pos].name /\ RegionOf(unit, d) = RegionOf(unit, pos)
    BY <1>11, <1>12 DEF DeclaringNodes, Distinct
  <2> QED BY <1>1, <1>12, <2>1, DistinctPasses
<1>16. Meanings(unit, pos + 1, scopes', m_node_symbls')
  <2>1. unit[pos].n \notin DeclaringNodes => BoundTo(m_node_symbls', pos) = Meant(scopes, m_node_symbls, Denotation(unit)[pos])
    <3>1. Denotation(unit)[pos] = NothingThere
      BY DenotedHere
    <3>2. Meant(scopes, m_node_symbls, Denotation(unit)[pos]) = 0
      BY <3>1, MeantOfEach
    <3> QED BY <3>2 DEF DeclaringNodes
  <2> QED BY <1>1, <1>8, <1>12, <2>1, MeaningsPass
<1>17. Keeps(scopes, scopes) /\ new.parent = IF unit[pos].n = "module" THEN Core ELSE m_current_scope
  BY <1>2, <1>3 DEF Keeps
<1> QED BY <1>1, <1>2, <1>3, <1>4, <1>9, <1>13, <1>14, <1>15, <1>16, <1>17, OpeningStep

LEMMA BlockStep ==
  ASSUME NEW rs, Walk(rs), Block
  PROVE  \E ss : Walk(ss)'
<1>1. pos \in 1 .. Len(unit) /\ unit[pos].n = "block" /\ unit[pos].n \in {"block", "function"} /\ pos \in Nat \ {0}
  BY WalkFacts DEF Block, At
<1>2. FollowsRules(unit, pos, Denotation(unit))
  BY <1>1 DEF FollowsRules
<1>3. DOMAIN m_node_symbls \subseteq 1 .. pos - 1
  BY DEF Walk
<1>4. /\ SameBefore(m_node_symbls, m_node_symbls', pos) /\ DOMAIN m_node_symbls' \subseteq 1 .. pos
      /\ BoundTo(m_node_symbls', pos) = 0
  <2>1. m_node_symbls' = m_node_symbls
    BY DEF Block
  <2>2. pos \notin DOMAIN m_node_symbls
    BY <1>1, <1>3
  <2> QED BY <1>1, <1>3, <2>1, <2>2 DEF SameBefore, BoundTo
<1> QED BY <1>1, <1>2, <1>4, OpenedStep DEF Block, Forward

LEMMA OverloadStep ==
  ASSUME NEW rs, Walk(rs), Overload
  PROVE  \E ss : Walk(ss)'
<1> DEFINE fcts == LookupLocal(m_current_scope, Name)
           D == Declares(unit, RegionOf(unit, pos), Name, pos)
<1>1. /\ pos \in 1 .. Len(unit) /\ unit[pos].n = "function" /\ unit[pos].n \in {"block", "function"}
      /\ pos \in Nat \ {0} /\ IsUnit(unit)
  BY WalkFacts DEF Overload, At, Walk
<1>2. HasSymbol /\ symbols[fcts].kind = "Function" /\ Bind(fcts)
  BY DEF Overload
<1>3. D # {} /\ \A d \in D : fcts = BoundTo(m_node_symbls, d)
  BY <1>2, SymbolHere
<1> HIDE DEF fcts
<1>4. \A d \in D : unit[d].n = "function"
  <2>1. D \subseteq Declared(unit, pos)
    BY DEF Declares, Declared
  <2> HIDE DEF D
  <2> QED BY <1>2, <1>3, <2>1 DEF Walk, Described
<1>5. FollowsRules(unit, pos, Denotation(unit))
  BY <1>1, <1>4 DEF FollowsRules, Name
<1>6. /\ SameBefore(m_node_symbls, m_node_symbls', pos) /\ DOMAIN m_node_symbls' \subseteq 1 .. pos
      /\ BoundTo(m_node_symbls', pos) = fcts
  <2>1. m_node_symbls' = With(m_node_symbls, pos, fcts)
    BY <1>2 DEF Bind
  <2>2. DOMAIN m_node_symbls \subseteq 1 .. pos - 1
    BY DEF Walk
  <2>3. /\ DOMAIN m_node_symbls' \subseteq 1 .. pos \cup {pos}
        /\ \A q \in 1 .. pos - 1 : BoundTo(m_node_symbls', q) = BoundTo(m_node_symbls, q)
        /\ BoundTo(m_node_symbls', pos) = fcts
    BY <1>1, <2>1, <2>2, BindFacts
  <2> QED BY <1>1, <2>3 DEF SameBefore
<1>7. PICK d \in D : unit[d].n = "function" /\ BoundTo(m_node_symbls', pos) = BoundTo(m_node_symbls, d)
  BY <1>3, <1>4, <1>6
<1>8. unit[pos].n # "block"
  BY <1>1
<1> QED BY <1>1, <1>5, <1>6, <1>7, <1>8, OpenedStep DEF Overload, Forward

LEMMA NewRegionStep ==
  ASSUME NEW rs, Walk(rs), pos \in 1 .. Len(unit), unit[pos].n \in {"function", "module"}, ~HasSymbol,
         unit' = unit, pos' = pos + 1, Into(NewScope),
         NEW sym, Suits(sym), symbols' = Append(symbols, sym), Bind(NewSymbol),
         NEW kind, NEW parent, parent = IF unit[pos].n = "module" THEN Core ELSE m_current_scope,
         scopes' = Append(WithName(Name), Scope(kind, parent))
  PROVE  \E ss : Walk(ss)'
<1>1. /\ pos \in Nat \ {0} /\ Len(unit) \in Nat /\ IsUnit(unit)
      /\ IsSeq(scopes) /\ Len(scopes) \in Nat /\ Len(scopes) = ScopeOf(unit, pos - 1)
      /\ m_current_scope \in 1 .. Len(scopes)
  BY WalkFacts DEF Walk
<1>2. unit[pos].n \in Opens /\ unit[pos].n \in DeclaringNodes
  BY DEF Opens, DeclaringNodes
<1>0. PICK sc1, new : sc1 = WithName(Name) /\ new = Scope(kind, parent)
  OBVIOUS
<1>3. DOMAIN new = {"kind", "parent", "names"} /\ new.parent = parent /\ DOMAIN new.names = {}
  BY <1>0 DEF Scope
<1>4. scopes' = Append(sc1, new)
  BY <1>0
<1>5. sc1 = WithNameAt(scopes, m_current_scope, Name, NewSymbol)
  BY <1>0 DEF WithName, WithNameAt
<1>6. IsSeq(sc1) /\ Len(sc1) = Len(scopes)
  <2>1. "names" \in DOMAIN scopes[m_current_scope]
    BY <1>1, WalkFacts
  <2> QED BY <1>1, <1>5, <2>1, WithNameFacts
<1>7. /\ \A s \in 1 .. Len(scopes) : scopes'[s] = sc1[s]
      /\ scopes'[Len(scopes) + 1] = new
  BY ONLY <1>1, <1>4, <1>6, AppendFacts
<1>8. ScopeOf(unit, pos) = Len(scopes) + 1
  BY <1>1, <1>2, NewScopeNumber
<1>9. DOMAIN scopes'[ScopeOf(unit, pos)].names = {}
  BY <1>3, <1>7, <1>8
<1>10. m_node_symbls' = With(m_node_symbls, pos, NewSymbol)
  BY DEF Bind
<1>11. /\ Keeps(scopes, sc1)
       /\ CoreScope(scopes')
       /\ Named(unit, pos + 1, scopes', m_node_symbls')
       /\ Described(unit, pos + 1, symbols', m_node_symbls')
       /\ Distinct(unit, pos + 1, m_node_symbls')
       /\ DOMAIN m_node_symbls' \subseteq 1 .. pos
       /\ Meanings(unit, pos + 1, scopes', m_node_symbls')
  <2>1. DeclaresFirst(sym, symbols', m_node_symbls', sc1, scopes')
    BY <1>2, <1>7, <1>9, <1>10, <1>0 DEF DeclaresFirst
  <2> QED BY <2>1, FirstDeclares
<1> QED BY <1>2, <1>3, <1>4, <1>6, <1>11, OpeningStep

LEMMA ModuleDeclStep ==
  ASSUME NEW rs, Walk(rs), ModuleDecl
  PROVE  \E ss : Walk(ss)'
<1>1. pos \in 1 .. Len(unit) /\ unit[pos].n = "module" /\ unit[pos].n \in {"function", "module"}
  BY WalkFacts DEF ModuleDecl, At
<1> DEFINE sym == Symbol("Module", Name, NOTYPE, NewScope)
<1>2. Suits(sym)
  BY <1>1 DEF Symbol, Suits
<1>3. symbols' = Append(symbols, sym) /\ Bind(NewSymbol) /\ ~HasSymbol
      /\ scopes' = Append(WithName(Name), Scope("Module", Core)) /\ Into(NewScope)
  BY DEF ModuleDecl, ModuleParent
<1> HIDE DEF sym
<1> QED BY <1>1, <1>2, <1>3, NewRegionStep DEF ModuleDecl, Forward

LEMMA NewFunctionStep ==
  ASSUME NEW rs, Walk(rs), NewFunction
  PROVE  \E ss : Walk(ss)'
<1>1. pos \in 1 .. Len(unit) /\ unit[pos].n = "function" /\ unit[pos].n \in {"function", "module"}
  BY WalkFacts DEF NewFunction, At
<1> DEFINE sym == Symbol("Function", Name, NOTYPE, 0)
<1>2. Suits(sym)
  BY <1>1 DEF Symbol, Suits
<1>3. symbols' = Append(symbols, sym) /\ Bind(NewSymbol) /\ ~HasSymbol
      /\ scopes' = Append(WithName(Name), Scope("Function", m_current_scope)) /\ Into(NewScope)
  BY DEF NewFunction
<1> HIDE DEF sym
<1> QED BY <1>1, <1>2, <1>3, NewRegionStep DEF NewFunction, Forward

LEMMA LeaveStep ==
  ASSUME NEW rs, Walk(rs), Leave
  PROVE  \E ss : Walk(ss)'
<1>1. /\ pos \in 1 .. Len(unit) /\ unit[pos].n \in {"endblock", "endmodule", "endfunction"}
      /\ unit[pos].n \in Closes /\ unit[pos].n \notin Opens /\ unit[pos].n \notin DeclaringNodes
  BY WalkFacts DEF Leave, At, Opens, Closes, DeclaringNodes
<1>2. /\ pos \in Nat \ {0} /\ Len(unit) \in Nat /\ IsUnit(unit) /\ DOMAIN unit = 1 .. Len(unit)
      /\ rs \in Seq(Nat) /\ Len(rs) \in Nat \ {0}
  BY WalkFacts DEF Walk
<1>3. /\ Stack(unit, pos, rs) /\ Tree(unit, pos, rs, scopes) /\ WalkAt(unit, rs, m_current_scope, saved)
      /\ CoreScope(scopes) /\ Named(unit, pos, scopes, m_node_symbls)
      /\ Described(unit, pos, symbols, m_node_symbls) /\ Distinct(unit, pos, m_node_symbls)
      /\ DOMAIN m_node_symbls \subseteq 1 .. pos - 1 /\ Meanings(unit, pos, scopes, m_node_symbls)
  BY DEF Walk
<1>4. /\ unit' = unit /\ pos' = pos + 1 /\ UNCHANGED <<symbols, scopes, m_node_symbls>>
      /\ m_current_scope' = saved[Len(saved)] /\ saved' = SubSeq(saved, 1, Len(saved) - 1)
  BY DEF Leave, Back, Forward
<1>5. Balance(unit, 1, pos) >= 0
  <2>1. Count(unit, Opens, 1, pos) \in Nat /\ Count(unit, Closes, 1, pos) \in Nat
    BY <1>2, CountIsNat
  <2>2. Count(unit, Closes, 1, pos) <= Count(unit, Opens, 1, pos)
    BY <1>1, <1>2 DEF IsUnit, Balanced
  <2> QED BY <2>1, <2>2 DEF Balance
<1> PICK ss : ss = SubSeq(rs, 1, Len(rs) - 1)
  OBVIOUS
<1>6. Len(rs) > 1 /\ Stack(unit, pos + 1, ss)
  BY <1>1, <1>2, <1>3, <1>5, StackCloses
<1>7. Len(ss) = Len(rs) - 1 /\ \A k \in 1 .. Len(rs) - 1 : ss[k] = rs[k]
  BY <1>2, <1>6
<1>8. Tree(unit, pos + 1, ss, scopes)
  BY <1>1, <1>2, <1>3, <1>6, TreeCloses
<1>9. WalkAt(unit, ss, m_current_scope', saved')
  <2>1. saved \in Seq(Nat) /\ Len(saved) = Len(rs) - 1 /\ \A k \in 1 .. Len(saved) : saved[k] = ScopeOf(unit, rs[k])
    BY <1>3 DEF WalkAt
  <2>2. m_current_scope' = ScopeOf(unit, Top(ss))
    <3>1. Len(saved) \in 1 .. Len(saved) /\ Len(ss) = Len(saved) /\ ss[Len(ss)] = rs[Len(ss)]
      BY <1>2, <1>6, <1>7, <2>1
    <3> QED BY <1>4, <2>1, <3>1 DEF Top
  <2>3. saved' \in Seq(Nat) /\ Len(saved') = Len(rs) - 2 /\ \A k \in 1 .. Len(rs) - 2 : saved'[k] = saved[k]
    <3>0. Len(saved) \in Nat /\ Len(saved) = Len(rs) - 1 /\ Len(rs) > 1 /\ Len(rs) \in Nat
      BY <1>2, <1>6, <2>1
    <3>1. Len(rs) - 2 \in Nat /\ Len(saved) = Len(rs) - 2 + 1
      BY <3>0
    <3>2. saved' = SubSeq(saved, 1, Len(saved) - 1)
      BY <1>4
    <3> QED BY <2>1, <3>1, <3>2, AllButLast
  <2>4. \A k \in 1 .. Len(saved') : saved'[k] = ScopeOf(unit, ss[k])
    <3> TAKE k \in 1 .. Len(saved')
    <3>1. k \in 1 .. Len(rs) - 2 /\ k \in 1 .. Len(saved) /\ k \in 1 .. Len(rs) - 1
      BY <1>2, <2>1, <2>3
    <3>2. saved'[k] = saved[k] /\ saved[k] = ScopeOf(unit, rs[k]) /\ ss[k] = rs[k]
      BY <1>7, <2>1, <2>3, <3>1
    <3> QED BY <3>2
  <2> QED BY <1>2, <1>7, <2>2, <2>3, <2>4 DEF WalkAt
<1>10. SameBefore(m_node_symbls, m_node_symbls, pos)
  BY DEF SameBefore
<1>11. Named(unit, pos + 1, scopes, m_node_symbls)
  BY <1>1, <1>2, <1>3, <1>10, NamedPasses
<1>12. Described(unit, pos + 1, symbols, m_node_symbls)
  <2>1. Extends(symbols, symbols)
    BY WalkFacts DEF Extends
  <2> QED BY <1>1, <1>2, <1>3, <1>10, <2>1, DescribedPasses
<1>13. Distinct(unit, pos + 1, m_node_symbls)
  BY <1>1, <1>2, <1>3, <1>10, DistinctPasses
<1>14. Meanings(unit, pos + 1, scopes, m_node_symbls)
  <2>1. Denotation(unit)[pos] = NothingThere
    BY <1>1, DenotedHere
  <2>2. Meant(scopes, m_node_symbls, Denotation(unit)[pos]) = 0
    BY <2>1, MeantOfEach
  <2>3. BoundTo(m_node_symbls, pos) = 0
    <3>1. pos \notin DOMAIN m_node_symbls
      BY <1>2, <1>3
    <3> QED BY <3>1 DEF BoundTo
  <2>4. FollowsRules(unit, pos, Denotation(unit))
    BY <1>1 DEF FollowsRules
  <2> QED BY <1>1, <1>2, <1>3, <1>10, <2>2, <2>3, <2>4, MeaningsPass
<1>15. pos + 1 \in 1 .. Len(unit) + 1 /\ pos + 1 - 1 = pos /\ DOMAIN m_node_symbls \subseteq 1 .. pos
  BY <1>1, <1>2, <1>3
<1>16. Walk(ss)'
  BY <1>2, <1>3, <1>4, <1>6, <1>8, <1>9, <1>11, <1>12, <1>13, <1>14, <1>15 DEF Walk
<1> QED BY <1>16

-----------------------------------------------------------------------------
(* What the walk ends with.                                                *)
LEMMA WalkRefuses ==
  ASSUME NEW rs, Walk(rs), Refuse
  PROVE  ~WellScoped(unit)
<1> DEFINE d == Denotation(unit)
           D == Declares(unit, RegionOf(unit, pos), Name, pos)
<1>0. /\ pos \in 1 .. Len(unit) /\ DOMAIN unit = 1 .. Len(unit)
      /\ unit[pos].n \in {"var", "module", "identifier", "member", "function"}
  BY WalkFacts DEF Refuse, At
<1>1. ASSUME ~FollowsRules(unit, pos, d) PROVE ~WellScoped(unit)
  BY <1>0, <1>1 DEF WellScoped
<1>2. d[pos] \in Denotable(unit, pos) /\ CoreScope(scopes) /\ Described(unit, pos, symbols, m_node_symbls)
  BY <1>0, DenotedHere DEF Walk
<1>3. Meant(scopes, m_node_symbls, d[pos]) = 0 => d[pos] = NothingThere
  <2> HIDE DEF d
  <2> QED BY <1>2, NothingIsNothing
<1>4. CASE unit[pos].n \in {"var", "module"}
  <2>1. D # {}
    BY <1>4, SymbolHere DEF Refuse, At
  <2> QED BY <1>1, <1>4, <2>1 DEF FollowsRules, Name
<1>5. CASE unit[pos].n = "identifier"
  <2>1. Lookup(Name) = 0
    BY <1>5 DEF Refuse, At
  <2>2. Lookup(Name) = Meant(scopes, m_node_symbls, d[pos])
    BY <1>0, <1>5, DenotedHere, LookupIsBinding, SymbolOfMeant
  <2>3. d[pos] = NothingThere
    BY <1>3, <2>1, <2>2
  <2> QED BY <1>1, <1>5, <2>3 DEF FollowsRules
<1>6. CASE unit[pos].n = "member"
  <2>1. Base # 0 /\ (symbols[Base].kind = "Module" => MemberOf(Base) = 0)
    BY <1>6 DEF Refuse, At
  <2>2. d[pos - 1] # NothingThere
    BY <1>0, <1>6, <2>1, MemberMeant
  <2>3. symbols[Base].kind = "Module" => MemberOf(Base) = Meant(scopes, m_node_symbls, d[pos])
    BY <1>0, <1>6, <2>1, MemberMeant
  <2>4. symbols[Base].kind # "Module" => d[pos] = NothingThere
    BY <1>0, <1>6, <2>1, MemberMeant
  <2>5. d[pos] = NothingThere
    <3> HIDE DEF d
    <3> QED BY <1>3, <2>1, <2>3, <2>4
  <2> QED BY <1>1, <1>6, <2>2, <2>5 DEF FollowsRules
<1>7. CASE unit[pos].n = "function"
  <2>1. HasSymbol /\ symbols[LookupLocal(m_current_scope, Name)].kind # "Function"
    BY <1>7 DEF Refuse, At
  <2>2. PICK e \in D : LookupLocal(m_current_scope, Name) = BoundTo(m_node_symbls, e)
    BY <2>1, SymbolHere
  <2>3. e \in Declared(unit, pos)
    BY DEF Declares, Declared
  <2>4. unit[e].n # "function"
    BY <1>2, <2>1, <2>2, <2>3 DEF Described
  <2>5. e \in Declares(unit, RegionOf(unit, pos), unit[pos].name, pos)
    BY DEF Name
  <2>6. ~FollowsRules(unit, pos, d)
    BY <1>7, <2>4, <2>5 DEF FollowsRules
  <2> QED BY <1>1, <2>6
<1> QED BY <1>0, <1>4, <1>5, <1>6, <1>7

LEMMA WalkEnds ==
  ASSUME NEW rs, Walk(rs), pos > Len(unit)
  PROVE  WellScoped(unit) /\ RightBindings
<1>1. /\ pos = Len(unit) + 1 /\ pos - 1 = Len(unit) /\ DOMAIN unit = 1 .. Len(unit) /\ Len(unit) \in Nat
      /\ pos \in Nat \ {0}
  BY WalkFacts DEF Walk
<1>2. Meanings(unit, pos, scopes, m_node_symbls)
  BY DEF Walk
<1>3. WellScoped(unit)
  BY <1>1, <1>2 DEF WellScoped, Meanings
<1>4. \A p \in DOMAIN unit :
        unit[p].n \in {"identifier", "member", "call"} => SymbolAt(p) = SymbolOf(Denotation(unit)[p])
  <2> SUFFICES ASSUME NEW p \in 1 .. Len(unit), unit[p].n \in {"identifier", "member", "call"}
               PROVE  SymbolAt(p) = SymbolOf(Denotation(unit)[p])
    BY <1>1
  <2>1. unit[p].n \notin DeclaringNodes
    BY DEF DeclaringNodes
  <2>2. BoundTo(m_node_symbls, p) = Meant(scopes, m_node_symbls, Denotation(unit)[p])
    BY <1>1, <1>2, <2>1 DEF Meanings
  <2>3. SymbolAt(p) = BoundTo(m_node_symbls, p)
    BY DEF SymbolAt, BoundTo
  <2> QED BY <2>2, <2>3, SymbolOfMeant
<1>5. \A d, e \in {c \in DOMAIN unit : unit[c].n \in DeclaringNodes} :
        SymbolAt(d) = SymbolAt(e) <=> unit[d].name = unit[e].name /\ RegionOf(unit, d) = RegionOf(unit, e)
  <2> SUFFICES ASSUME NEW d \in Declared(unit, pos), NEW e \in Declared(unit, pos)
               PROVE  SymbolAt(d) = SymbolAt(e) <=> unit[d].name = unit[e].name /\ RegionOf(unit, d) = RegionOf(unit, e)
    BY <1>1 DEF Declared
  <2>1. SymbolAt(d) = BoundTo(m_node_symbls, d) /\ SymbolAt(e) = BoundTo(m_node_symbls, e)
    BY DEF SymbolAt, BoundTo
  <2>2. SymbolAt(d) = SymbolAt(e) => unit[d].name = unit[e].name /\ RegionOf(unit, d) = RegionOf(unit, e)
    BY <2>1 DEF Walk, Distinct
  <2>3. ASSUME unit[d].name = unit[e].name, RegionOf(unit, d) = RegionOf(unit, e) PROVE SymbolAt(d) = SymbolAt(e)
    <3>1. Home(unit, d) = Home(unit, e)
      BY <2>3 DEF Home
    <3>2. /\ scopes[Home(unit, d)].names[unit[d].name] = BoundTo(m_node_symbls, d)
          /\ scopes[Home(unit, e)].names[unit[e].name] = BoundTo(m_node_symbls, e)
      BY DEF Walk, Named
    <3> QED BY <2>1, <2>3, <3>1, <3>2
  <2> QED BY <2>2, <2>3
<1> QED BY <1>3, <1>4, <1>5 DEF RightBindings

LEMMA WalkStarts ==
  ASSUME Init
  PROVE  Walk(<<0>>)
<1>1. /\ IsUnit(unit) /\ pos = 1 /\ pos \in 1 .. Len(unit) + 1 /\ saved = << >> /\ m_node_symbls = << >>
      /\ m_current_scope = Main
  <2>1. unit \in Units /\ pos = 1 /\ saved = << >> /\ m_node_symbls = << >> /\ m_current_scope = Main
    BY DEF Init
  <2>2. IsUnit(unit)
    BY <2>1, UnitsAssumption
  <2>3. Len(unit) \in Nat
    BY <2>2 DEF IsUnit
  <2> QED BY <2>1, <2>2, <2>3
<1>2. symbols = << Symbol("Type", "Int", INT, 0), Symbol("Type", "Nothing", NOTHING, 0),
                   Symbol("Function", "print", FunctionType(<<INT>>, NOTHING), 0),
                   Symbol("Module", "Core", NOTYPE, Core), Symbol("Module", "Main", NOTYPE, Main) >>
  BY DEF Init
<1>3. /\ symbols[1].name = "Int" /\ symbols[2].name = "Nothing" /\ symbols[3].name = "print"
      /\ symbols[4].name = "Core" /\ symbols[5].name = "Main"
  BY <1>2 DEF Symbol
<1> DEFINE names == [x \in {symbols[s].name : s \in 1 .. 5} |-> CHOOSE s \in 1 .. 5 : symbols[s].name = x]
<1>4. scopes = << [Scope("Module", 0) EXCEPT !.names = names], Scope("Module", Core) >>
  BY DEF Init
<1>5. DOMAIN names = CoreNames
  <2>1. 1 .. 5 = {1, 2, 3, 4, 5}
    OBVIOUS
  <2> QED BY <1>3, <2>1 DEF CoreNames
<1>6. \A x \in CoreNames : names[x] \in 1 .. 5 /\ symbols[names[x]].name = x
  <2> SUFFICES ASSUME NEW x \in CoreNames
               PROVE  names[x] \in 1 .. 5 /\ symbols[names[x]].name = x
    OBVIOUS
  <2>1. \E s \in 1 .. 5 : symbols[s].name = x
    BY <1>5
  <2>2. names[x] = CHOOSE s \in 1 .. 5 : symbols[s].name = x
    BY <1>5
  <2> HIDE DEF names
  <2> QED BY <2>1, <2>2
<1> HIDE DEF names
<1>7. /\ IsSeq(scopes) /\ Len(scopes) = 2
      /\ scopes[1] = [Scope("Module", 0) EXCEPT !.names = names] /\ scopes[2] = Scope("Module", Core)
  BY <1>4 DEF IsSeq
<1>8. /\ DOMAIN scopes[1] = {"kind", "parent", "names"} /\ scopes[1].parent = 0 /\ scopes[1].names = names
      /\ DOMAIN scopes[2] = {"kind", "parent", "names"} /\ scopes[2].parent = Core /\ DOMAIN scopes[2].names = {}
  BY <1>7 DEF Scope
<1>9. ScopeOf(unit, 0) = Main
  <2>1. 1 \in Nat \ {0}
    OBVIOUS
  <2> QED BY <2>1, ScopeNumbers
<1>10. Tree(unit, 1, <<0>>, scopes)
  BY <1>7, <1>8, <1>9 DEF Tree, Core, Main
<1>11. WalkAt(unit, <<0>>, m_current_scope, saved)
  BY <1>1, <1>9 DEF WalkAt, Top
<1>12. CoreScope(scopes)
  <2>1. scopes[Core].names = names
    BY <1>8 DEF Core
  <2>2. names["Core"] = 4 /\ names["Main"] = 5
    <3>1. "Core" \in CoreNames /\ "Main" \in CoreNames
      BY DEF CoreNames
    <3>2. 1 .. 5 = {1, 2, 3, 4, 5}
      OBVIOUS
    <3> QED BY <1>3, <1>6, <3>1, <3>2
  <2>3. \A x \in CoreNames : names[x] \in {4, 5} => x \in {"Core", "Main"}
    BY <1>3, <1>6
  <2> QED BY <1>5, <1>6, <2>1, <2>2, <2>3 DEF CoreScope
<1>13. Named(unit, 1, scopes, m_node_symbls)
  <2>1. Declared(unit, 1) = {} /\ Opened(unit, 1) = {0}
    BY DEF Declared, Opened
  <2> QED BY <1>8, <1>9, <2>1 DEF Named, Main
<1>14. Described(unit, 1, symbols, m_node_symbls)
  <2>1. IsSeq(symbols) /\ Len(symbols) = 5
    BY <1>2 DEF IsSeq
  <2>2. /\ symbols[1].kind = "Type" /\ symbols[2].kind = "Type" /\ symbols[3].kind = "Function"
        /\ symbols[4].kind = "Module" /\ symbols[4].moduleScope = Core
        /\ symbols[5].kind = "Module" /\ symbols[5].moduleScope = Main
    BY <1>2 DEF Symbol
  <2>3. \A s \in 1 .. 3 : symbols[s].kind # "Module"
    BY <2>2
  <2>4. Declared(unit, 1) = {}
    BY DEF Declared
  <2> QED BY <2>1, <2>2, <2>3, <2>4 DEF Described
<1>15. Distinct(unit, 1, m_node_symbls) /\ Meanings(unit, 1, scopes, m_node_symbls)
  BY DEF Distinct, Declared, Meanings
<1>16. DOMAIN m_node_symbls \subseteq 1 .. 0
  BY <1>1
<1> QED BY <1>1, <1>10, <1>11, <1>12, <1>13, <1>14, <1>15, <1>16, StackAtFirst DEF Walk

-----------------------------------------------------------------------------
(* The invariant: while names are resolved the state is a walk, and what   *)
(* the walk ends with holds ever after.                                    *)
Scoping ==
  /\ stage \in {"names", "types", "done", "unresolved", "mistyped"}
  /\ stage = "names" => \E rs : Walk(rs)
  /\ stage = "unresolved" => ~WellScoped(unit)
  /\ stage \in {"types", "done", "mistyped"} => WellScoped(unit) /\ RightBindings

LEMMA ScopingStarts == TInit => Scoping
<1> SUFFICES ASSUME TInit PROVE Scoping
  OBVIOUS
<1>1. Init
  BY DEF TInit
<1>2. stage = "names"
  BY <1>1 DEF Init
<1>3. Walk(<<0>>)
  BY <1>1, WalkStarts
<1> QED BY <1>2, <1>3 DEF Scoping

(* Every step of the walk leads to a walk, but for the last.               *)
LEMMA WalkSteps ==
  ASSUME NEW rs, Walk(rs),
         \/ VarDecl \/ Identifier \/ Call \/ Member \/ ModuleDecl \/ Block \/ Leave
         \/ NewFunction \/ Overload \/ Param \/ PassBy
  PROVE  stage' = "names" /\ \E ss : Walk(ss)'
<1>1. stage' = "names"
  BY DEF VarDecl, Identifier, Call, Member, ModuleDecl, Block, Leave, NewFunction, Overload, Param, PassBy, Forward, At
<1>2. VarDecl => Walk(rs)'
  BY VarDeclStep
<1>3. Identifier => Walk(rs)'
  BY IdentifierStep
<1>4. Call => Walk(rs)'
  BY CallStep
<1>5. Member => Walk(rs)'
  BY MemberStep
<1>6. ModuleDecl => \E ss : Walk(ss)'
  BY ModuleDeclStep
<1>7. Block => \E ss : Walk(ss)'
  BY BlockStep
<1>8. Leave => \E ss : Walk(ss)'
  BY LeaveStep
<1>9. NewFunction => \E ss : Walk(ss)'
  BY NewFunctionStep
<1>10. Overload => \E ss : Walk(ss)'
  BY OverloadStep
<1>11. Param => Walk(rs)'
  BY ParamStep
<1>12. PassBy => Walk(rs)'
  BY PassByStep
<1> QED BY <1>1, <1>2, <1>3, <1>4, <1>5, <1>6, <1>7, <1>8, <1>9, <1>10, <1>11, <1>12

(* What the second walk leaves alone.                                      *)
LEMMA TypesKeepNames ==
  ASSUME ResolveTypes
  PROVE  /\ stage = "types" /\ stage' \in {"types", "done", "mistyped"}
         /\ UNCHANGED <<unit, scopes, m_node_symbls>>
<1>1. CASE RefuseType
  BY <1>1 DEF RefuseType, Mistyped, At, svars
<1>2. CASE Typed
  BY <1>2 DEF Typed, svars
<1>3. CASE TypeVarDecl \/ TypeFunction \/ TypeParam
  BY <1>3 DEF TypeVarDecl, TypeFunction, TypeParam, At, svars
<1>4. CASE TypeEndFunction
  BY <1>4 DEF TypeEndFunction, At, Forward
<1>5. CASE TypeLiteral \/ TypeIdentifier \/ TypeOperation \/ TypeCall \/ TypeMember
  BY <1>5 DEF TypeLiteral, TypeIdentifier, TypeOperation, TypeCall, TypeMember, At, Forward, svars
<1>6. CASE TypeExprStmt \/ TypeReturn \/ TypeControl \/ TypeBareIf \/ TypeBlock \/ TypeEndBlock \/ TypeModule \/ TypeEndModule
  BY <1>6 DEF TypeExprStmt, TypeReturn, TypeControl, TypeBareIf, TypeBlock, TypeEndBlock, TypeModule, TypeEndModule, At, Forward, svars
<1> QED BY <1>1, <1>2, <1>3, <1>4, <1>5, <1>6 DEF ResolveTypes

LEMMA BindingsKept ==
  ASSUME RightBindings, UNCHANGED <<unit, scopes, m_node_symbls>>
  PROVE  RightBindings'
BY ZenonT(40) DEF RightBindings, SymbolAt, SymbolOf

LEMMA ScopingSteps == Scoping /\ [Next]_vars => Scoping'
<1> SUFFICES ASSUME Scoping, [Next]_vars PROVE Scoping'
  OBVIOUS
<1>1. ASSUME NEW rs, Walk(rs), Refuse PROVE Scoping'
  <2>1. stage' = "unresolved" /\ unit' = unit
    BY <1>1 DEF Refuse, Unresolved
  <2>2. ~WellScoped(unit)
    BY <1>1, WalkRefuses
  <2> QED BY <2>1, <2>2 DEF Scoping
<1>2. ASSUME NEW rs, Walk(rs), Resolved PROVE Scoping'
  <2>1. stage' = "types" /\ UNCHANGED <<unit, scopes, m_node_symbls>>
    BY <1>2 DEF Resolved, svars
  <2>2. WellScoped(unit) /\ RightBindings
    BY <1>2, WalkEnds DEF Resolved
  <2>3. RightBindings'
    BY <2>1, <2>2, BindingsKept
  <2> QED BY <2>1, <2>2, <2>3 DEF Scoping
<1>3. CASE ResolveNames
  <2>1. stage = "names"
    BY <1>3 DEF ResolveNames, VarDecl, Identifier, Call, Member, ModuleDecl, Block, Leave,
                NewFunction, Overload, Param, PassBy, Refuse, Resolved, At
  <2>2. PICK rs : Walk(rs)
    BY <2>1 DEF Scoping
  <2>3. CASE VarDecl \/ Identifier \/ Call \/ Member \/ ModuleDecl \/ Block \/ Leave
             \/ NewFunction \/ Overload \/ Param \/ PassBy
    BY <2>2, <2>3, WalkSteps DEF Scoping
  <2> QED BY <1>1, <1>2, <1>3, <2>2, <2>3 DEF ResolveNames
<1>4. CASE ResolveTypes
  <2>1. /\ stage = "types" /\ stage' \in {"types", "done", "mistyped"}
        /\ UNCHANGED <<unit, scopes, m_node_symbls>>
    BY <1>4, TypesKeepNames
  <2>2. WellScoped(unit) /\ RightBindings
    BY <2>1 DEF Scoping
  <2>3. RightBindings'
    BY <2>1, <2>2, BindingsKept
  <2> QED BY <2>1, <2>2, <2>3 DEF Scoping
<1>5. CASE UNCHANGED vars
  <2>1. UNCHANGED <<unit, pos, stage, symbols, scopes, m_current_scope, saved, m_node_symbls>>
    BY <1>5 DEF vars, svars
  <2>2. ASSUME NEW rs, Walk(rs) PROVE Walk(rs)'
    BY <2>1, <2>2 DEF Walk
  <2>3. RightBindings => RightBindings'
    BY <2>1, BindingsKept
  <2> QED BY <2>1, <2>2, <2>3 DEF Scoping
<1> QED BY <1>3, <1>4, <1>5 DEF Next

THEOREM ScopingAlways == Spec => []Scoping
<1> QED BY ScopingStarts, ScopingSteps, PTL DEF Spec

(***************************************************************************)
(* ScopeResolver refuses a unit only if it breaks the rules of scoping,    *)
(* and accepts it only if it keeps them all.                               *)
(***************************************************************************)
THEOREM RefusalsAreExact == Spec => []RefusesExactlyIllScoped
<1>1. Scoping => RefusesExactlyIllScoped
  BY DEF Scoping, RefusesExactlyIllScoped
<1> QED BY <1>1, ScopingAlways, PTL

(***************************************************************************)
(* In an accepted unit each name has the symbol of the declaration that    *)
(* lexical scoping calls for, and two declarations share a symbol exactly  *)
(* if they declare the same name in the same region.                       *)
(***************************************************************************)
THEOREM NamesResolveToInnermost == Spec => []ResolvesToInnermost
<1>1. Scoping => ResolvesToInnermost
  BY DEF Scoping, ResolvesToInnermost
<1> QED BY <1>1, ScopingAlways, PTL

-----------------------------------------------------------------------------
(* The nodes that wait, node by node.                                      *)
WaitsFrom(u, f, p) == IF p = 1 THEN << >> ELSE WaitingAfter(u, f[p - 1], p - 1)

LEMMA WaitingExists ==
  ASSUME NEW u, Len(u) \in Nat
  PROVE  \A n \in Nat : \E f : \A p \in 1 .. Len(u) + 1 : p < n => f[p] = WaitsFrom(u, f, p)
<1> DEFINE Up(f, n) == \A p \in 1 .. Len(u) + 1 : p < n => f[p] = WaitsFrom(u, f, p)
           Bad == {n \in Nat : ~\E f : Up(f, n)}
<1> SUFFICES ASSUME Bad # {} PROVE FALSE
  OBVIOUS
<1>1. PICK n \in Bad : \A m \in Bad : n <= m
  BY LeastNumber
<1>2. n \in Nat /\ n # 0
  <2>1. Up(<< >>, 0)
    OBVIOUS
  <2> QED BY <1>1, <2>1
<1>3. PICK f : Up(f, n - 1)
  <2>1. n - 1 \in Nat /\ ~(n <= n - 1)
    BY <1>2
  <2>2. n - 1 \notin Bad
    <3> HIDE DEF Bad
    <3> QED BY <1>1, <2>1
  <2> QED BY <2>1, <2>2, Zenon
<1> DEFINE g == [p \in 1 .. Len(u) + 1 |-> IF p = n - 1 THEN WaitsFrom(u, f, p) ELSE f[p]]
<1>4. \A p \in 1 .. Len(u) + 1 : g[p] = IF p = n - 1 THEN WaitsFrom(u, f, p) ELSE f[p]
  OBVIOUS
<1> HIDE DEF g
<1>5. ASSUME NEW p \in 1 .. Len(u) + 1, p < n PROVE g[p] = WaitsFrom(u, g, p)
  <2>1. p # 1 => g[p - 1] = f[p - 1]
    BY <1>4, <1>5, <1>2
  <2>2. WaitsFrom(u, f, p) = WaitsFrom(u, g, p)
    BY <2>1 DEF WaitsFrom
  <2>3. g[p] = WaitsFrom(u, f, p)
    BY <1>2, <1>3, <1>4, <1>5
  <2> QED BY <2>2, <2>3
<1>6. Up(g, n)
  BY <1>5
<1> QED BY <1>1, <1>6

LEMMA WaitingSteps ==
  ASSUME NEW u, Len(u) \in Nat
  PROVE  /\ Waiting(u)[1] = << >>
         /\ \A p \in 1 .. Len(u) : Waiting(u)[p + 1] = WaitingAfter(u, Waiting(u)[p], p)
<1> DEFINE Is(f) == f = [p \in 1 .. Len(u) + 1 |->
                          IF p = 1 THEN << >> ELSE WaitingAfter(u, f[p - 1], p - 1)]
<1>1. Waiting(u) = CHOOSE f : Is(f)
  BY DEF Waiting
<1>2. \E f : Is(f)
  <2>1. PICK f : \A p \in 1 .. Len(u) + 1 : p < Len(u) + 2 => f[p] = WaitsFrom(u, f, p)
    BY WaitingExists
  <2> DEFINE g == [p \in 1 .. Len(u) + 1 |-> f[p]]
  <2>2. \A p \in 1 .. Len(u) + 1 : WaitsFrom(u, f, p) = WaitsFrom(u, g, p)
    <3> TAKE p \in 1 .. Len(u) + 1
    <3>1. p # 1 => g[p - 1] = f[p - 1]
      OBVIOUS
    <3> HIDE DEF g
    <3> QED BY <3>1 DEF WaitsFrom
  <2>3. g = [p \in 1 .. Len(u) + 1 |-> WaitsFrom(u, g, p)]
    BY <2>1, <2>2
  <2> HIDE DEF g
  <2>4. Is(g)
    BY <2>3, Zenon DEF WaitsFrom
  <2> QED BY <2>4
<1>3. Is(Waiting(u))
  BY <1>1, <1>2
<1> HIDE DEF Is
<1>4. Waiting(u) = [p \in 1 .. Len(u) + 1 |-> WaitsFrom(u, Waiting(u), p)]
  BY <1>3, Zenon DEF WaitsFrom, Is
<1>5. \A p \in 1 .. Len(u) + 1 : Waiting(u)[p] = WaitsFrom(u, Waiting(u), p)
  BY <1>4
<1>6. \A p \in 1 .. Len(u) : p + 1 \in 1 .. Len(u) + 1 /\ p + 1 # 1 /\ (p + 1) - 1 = p
  OBVIOUS
<1> QED BY <1>5, <1>6 DEF WaitsFrom

LEMMA Dropped ==
  ASSUME NEW s, IsSeq(s), NEW k \in 0 .. Len(s), NEW t, t = SubSeq(s, 1, Len(s) - k)
  PROVE  IsSeq(t) /\ Len(t) = Len(s) - k /\ \A i \in 1 .. Len(s) - k : t[i] = s[i]
<1>1. PICK S : s \in Seq(S)
  BY DEF IsSeq
<1>2. PICK n \in Nat : n = Len(s) - k
  <2>1. PICK l \in Nat : l = Len(s)
    BY SequenceFacts
  <2>2. l - k \in Nat
    BY <2>1
  <2> QED BY <2>1, <2>2
<1>3. \A i \in 1 .. n : s[i] \in S
  BY <1>1, <1>2
<1>4. /\ t \in Seq(S) /\ Len(t) = n
      /\ \A i \in 1 .. n : t[i] = s[i]
  <2>1. /\ SubSeq(s, 1, n) \in Seq(S)
        /\ Len(SubSeq(s, 1, n)) = IF 1 <= n THEN n - 1 + 1 ELSE 0
        /\ \A i \in 1 .. n - 1 + 1 : SubSeq(s, 1, n)[i] = s[1 + i - 1]
    BY <1>1, <1>3, SubSeqProperties
  <2>2. \A i \in 1 .. n : SubSeq(s, 1, n)[i] = s[i]
    BY <2>1
  <2> QED BY <1>2, <2>1, <2>2
<1>5. IsSeq(t)
  <2>1. t = [i \in 1 .. n |-> t[i]]
    BY <1>4
  <2> QED BY <2>1, FunctionIsSequence
<1> QED BY <1>2, <1>4, <1>5

-----------------------------------------------------------------------------
(* The nodes that wait, in order of place; the regions among them are the  *)
(* ones that are open.                                                     *)
Sorted(u, p, h) ==
  /\ IsSeq(h)
  /\ \A k \in 1 .. Len(h) : h[k] \in 1 .. p - 1 /\ Waits(u[h[k]].n)
  /\ \A j, k \in 1 .. Len(h) : j < k => h[j] < h[k]
Held(u, p, h, rs) ==
  /\ Sorted(u, p, h)
  /\ Stack(u, p, rs)
  /\ \A o : o \in Open(rs) <=> o = 0 \/ \E k \in 1 .. Len(h) : h[k] = o /\ u[o].n \in Opens

(* Node p is one of the tree, not a part of the declaration it is in.      *)
Stands(u, p, h) ==
  ~InDeclaration(u, h, p) /\ TakesItsParts(u, h, p) /\ IsOfAList(u, h, p) /\ HasItsParts(u, p)

LEMMA Kinds ==
  /\ ExpressionNodes \cap (Opens \cup Closes \cup {"var", "param"}) = {}
  /\ Opens \cap Closes = {} /\ "var" \notin Opens /\ "endblock" \notin Opens
  /\ \A n \in ExpressionNodes \cup Opens \cup {"var", "endblock"} : Waits(n)
BY DEF ExpressionNodes, Opens, Closes, Waits

(* The last of the nodes that wait, if it is a region, is the region       *)
(* opened last.                                                            *)
LEMMA HeldTop ==
  ASSUME NEW u, NEW p \in Nat \ {0}, NEW h, NEW rs, Held(u, p, h, rs),
         NEW k \in 1 .. Len(h), u[h[k]].n \in Opens, \A j \in k + 1 .. Len(h) : u[h[j]].n \notin Opens
  PROVE  Top(rs) = h[k] /\ Len(rs) > 1
<1>1. /\ Len(rs) \in Nat /\ Len(rs) > 0 /\ \A i \in 1 .. Len(rs) : rs[i] \in Nat
      /\ \A i, j \in 1 .. Len(rs) : i < j => rs[i] < rs[j]
      /\ rs[1] = 0
  BY DEF Held, Stack, Ancestry
<1>2. h[k] \in Open(rs) /\ h[k] \in 1 .. p - 1 /\ Len(h) \in Nat
  BY SequenceFacts DEF Held, Sorted
<1>3. PICK i \in 1 .. Len(rs) : rs[i] = h[k]
  BY <1>2 DEF Open
<1>4. Top(rs) \in Open(rs) /\ Top(rs) >= rs[i]
  BY <1>1 DEF Top, Open
<1>5. Top(rs) # 0
  BY <1>1, <1>2, <1>3, <1>4
<1>6. PICK j \in 1 .. Len(h) : h[j] = Top(rs) /\ u[h[j]].n \in Opens
  BY <1>4, <1>5 DEF Held
<1>7. j <= k
  BY <1>2, <1>6
<1>8. h[j] <= h[k] /\ h[j] \in Nat
  <2>1. CASE j = k
    BY <1>2, <2>1
  <2>2. CASE j < k
    BY <1>2, <2>2 DEF Held, Sorted
  <2>3. h[j] \in Nat
    BY DEF Held, Sorted
  <2> QED BY <1>2, <1>7, <2>1, <2>2, <2>3
<1>9. Top(rs) = h[k]
  BY <1>1, <1>2, <1>3, <1>4, <1>6, <1>8
<1> QED BY <1>1, <1>5, <1>9 DEF Top

WithLast(h, p, h2) ==
  /\ Len(h) \in Nat /\ Len(h2) = Len(h) + 1 /\ h2[Len(h) + 1] = p
  /\ \A k \in 1 .. Len(h) : h2[k] = h[k]
WithoutLast(h, k, t) ==
  Len(h) \in Nat /\ Len(t) = Len(h) - k /\ \A i \in 1 .. Len(h) - k : t[i] = h[i] /\ i \in 1 .. Len(h)

LEMMA HeldAppends ==
  ASSUME NEW u, NEW p \in Nat \ {0}, NEW h, Sorted(u, p, h), Waits(u[p].n), NEW h2, h2 = Append(h, p)
  PROVE  WithLast(h, p, h2) /\ Sorted(u, p + 1, h2)
<1>0. /\ IsSeq(h)
      /\ \A k \in 1 .. Len(h) : h[k] \in 1 .. p - 1 /\ Waits(u[h[k]].n)
      /\ \A j, k \in 1 .. Len(h) : j < k => h[j] < h[k]
  BY DEF Sorted
<1>1. IsSeq(h2) /\ Len(h2) = Len(h) + 1 /\ h2[Len(h) + 1] = p /\ Len(h) \in Nat
  BY <1>0, AppendFacts, SequenceFacts
<1>2. \A k \in 1 .. Len(h) : h2[k] = h[k]
  BY <1>0, AppendFacts
<1>3. ASSUME NEW k \in 1 .. Len(h2) PROVE h2[k] \in 1 .. p /\ Waits(u[h2[k]].n)
  <2>1. CASE k = Len(h) + 1
    BY <1>1, <2>1
  <2>2. CASE k \in 1 .. Len(h)
    BY <1>0, <1>2, <2>2
  <2> QED BY <1>1, <2>1, <2>2
<1>4. ASSUME NEW j \in 1 .. Len(h2), NEW k \in 1 .. Len(h2), j < k PROVE h2[j] < h2[k]
  <2>1. j \in 1 .. Len(h) /\ h2[j] = h[j] /\ h[j] \in 1 .. p - 1
    BY <1>0, <1>1, <1>2, <1>4
  <2>2. CASE k = Len(h) + 1
    BY <1>1, <2>1, <2>2
  <2>3. CASE k \in 1 .. Len(h)
    BY <1>0, <1>2, <1>4, <2>1, <2>3
  <2> QED BY <1>1, <2>2, <2>3
<1>5. \A k \in 1 .. Len(h2) : h2[k] \in 1 .. (p + 1) - 1
  BY <1>3
<1> QED BY <1>1, <1>2, <1>3, <1>4, <1>5 DEF Sorted, WithLast

LEMMA HeldDrops ==
  ASSUME NEW u, NEW p \in Nat \ {0}, NEW h, Sorted(u, p, h),
         NEW k \in 0 .. Len(h), NEW t, t = SubSeq(h, 1, Len(h) - k)
  PROVE  WithoutLast(h, k, t) /\ Sorted(u, p, t)
<1>1. IsSeq(t) /\ Len(t) = Len(h) - k /\ \A i \in 1 .. Len(h) - k : t[i] = h[i]
  BY Dropped DEF Sorted
<1>2. PICK l \in Nat : l = Len(h)
  BY SequenceFacts DEF Sorted
<1>3. \A i \in 1 .. l - k : i \in 1 .. l
  BY <1>2
<1>4. \A i \in 1 .. Len(t) : t[i] \in 1 .. p - 1 /\ Waits(u[t[i]].n)
  BY <1>1, <1>2, <1>3 DEF Sorted
<1>5. \A i, j \in 1 .. Len(t) : i < j => t[i] < t[j]
  BY <1>1, <1>2, <1>3 DEF Sorted
<1> QED BY <1>1, <1>2, <1>3, <1>4, <1>5 DEF Sorted, WithoutLast

LEMMA SortedLater ==
  ASSUME NEW u, NEW p \in Nat \ {0}, NEW h, Sorted(u, p, h)
  PROVE  Sorted(u, p + 1, h)
<1>1. \A k \in 1 .. Len(h) : h[k] \in 1 .. (p + 1) - 1
  BY DEF Sorted
<1> QED BY <1>1 DEF Sorted

(* Nodes are taken off that are no regions, but for the one that a closing *)
(* node closes.                                                            *)
LEMMA TakenKinds ==
  ASSUME NEW u, NEW p, NEW h, TakesItsParts(u, h, p)
  PROVE  /\ Takes(u[p]) \in 0 .. Len(h)
         /\ u[p].n \notin Closes => \A j \in 0 .. Takes(u[p]) - 1 : Kind(u, h, j) \notin Opens
         /\ u[p].n = "endblock" => Takes(u[p]) = 1 /\ Kind(u, h, 0) = "block"
         /\ u[p].n = "endmodule" => Takes(u[p]) = 1 /\ Kind(u, h, 0) = "module"
         /\ u[p].n = "endfunction" => Takes(u[p]) = 2 /\ Kind(u, h, 0) = "endblock" /\ Kind(u, h, 1) = "function"
<1>1. Takes(u[p]) \in 0 .. Len(h)
  BY DEF TakesItsParts
<1>2. u[p].n = "endblock" => Takes(u[p]) = 1 /\ Kind(u, h, 0) = "block"
  BY DEF TakesItsParts, Takes
<1>3. u[p].n = "endmodule" => Takes(u[p]) = 1 /\ Kind(u, h, 0) = "module"
  BY DEF TakesItsParts, Takes
<1>4. u[p].n = "endfunction" => Takes(u[p]) = 2 /\ Kind(u, h, 0) = "endblock" /\ Kind(u, h, 1) = "function"
  BY DEF TakesItsParts, Takes
<1>5. ASSUME u[p].n \notin Closes, NEW j \in 0 .. Takes(u[p]) - 1 PROVE Kind(u, h, j) \notin Opens
  <2>1. CASE u[p].n \in {"binary", "assign", "call", "member", "return", "bareif"}
    <3>1. Kind(u, h, j) \in ExpressionNodes
      BY <2>1 DEF TakesItsParts
    <3> QED BY <3>1, Kinds
  <2>2. CASE u[p].n = "expr"
    <3>1. Takes(u[p]) = 1 /\ Kind(u, h, 0) \in ExpressionNodes \cup {"var"}
      BY <2>2 DEF TakesItsParts, Takes
    <3>2. j = 0
      BY <3>1
    <3> QED BY <3>1, <3>2, Kinds
  <2>3. CASE u[p].n \in {"if", "while"}
    <3>1. /\ \A i \in 0 .. Takes(u[p]) - 2 : Kind(u, h, i) = "endblock"
          /\ Kind(u, h, Takes(u[p]) - 1) \in ExpressionNodes
      BY <2>3 DEF TakesItsParts
    <3>2. j \in 0 .. Takes(u[p]) - 2 \/ j = Takes(u[p]) - 1
      BY <1>1
    <3> QED BY <3>1, <3>2, Kinds
  <2>4. CASE u[p].n \notin {"binary", "assign", "call", "member", "return", "bareif", "expr", "if", "while"} \cup Closes
    <3>1. Takes(u[p]) = 0
      BY <2>4 DEF Takes, Closes
    <3> QED BY <3>1
  <2> QED BY <1>5, <2>1, <2>2, <2>3, <2>4
<1> QED BY <1>1, <1>2, <1>3, <1>4, <1>5

LEMMA HeldPasses ==
  ASSUME NEW u, NEW p \in Nat \ {0}, NEW h, NEW rs, Held(u, p, h, rs), u[p].n \notin Opens \cup Closes
  PROVE  Held(u, p + 1, h, rs)
<1>1. Stack(u, p + 1, rs)
  BY StackPasses DEF Held
<1> QED BY <1>1, SortedLater DEF Held

(* A node that is no region takes k nodes off that are none either.        *)
LEMMA HeldTakes ==
  ASSUME NEW u, NEW p \in Nat \ {0}, NEW h, NEW rs, Held(u, p, h, rs), u[p].n \notin Opens \cup Closes,
         NEW k \in 0 .. Len(h), \A j \in 0 .. k - 1 : Kind(u, h, j) \notin Opens,
         NEW t, t = SubSeq(h, 1, Len(h) - k)
  PROVE  Held(u, p + 1, t, rs)
<1>0. WithoutLast(h, k, t) /\ Sorted(u, p, t)
  <2>1. Sorted(u, p, h)
    BY DEF Held
  <2> QED BY <2>1, HeldDrops, Zenon
<1>1. /\ Len(h) \in Nat /\ Len(t) = Len(h) - k /\ \A i \in 1 .. Len(h) - k : t[i] = h[i] /\ i \in 1 .. Len(h)
      /\ Sorted(u, p, t)
  BY <1>0 DEF WithoutLast
<1>2. Stack(u, p + 1, rs)
  BY StackPasses DEF Held
<1>3. ASSUME NEW o PROVE (\E i \in 1 .. Len(t) : t[i] = o /\ u[o].n \in Opens)
                           <=> \E i \in 1 .. Len(h) : h[i] = o /\ u[o].n \in Opens
  <2>1. ASSUME NEW i \in 1 .. Len(h), h[i] = o, u[o].n \in Opens PROVE i \in 1 .. Len(t) /\ t[i] = o
    <3>1. Len(h) \in Nat
      BY <1>1
    <3>2. CASE i > Len(h) - k
      <4>1. Len(h) - i \in 0 .. k - 1 /\ Len(h) - (Len(h) - i) = i
        BY <3>1, <3>2
      <4>2. Kind(u, h, Len(h) - i) \notin Opens
        BY <4>1
      <4> QED BY <2>1, <4>1, <4>2 DEF Kind
    <3>3. CASE i <= Len(h) - k
      <4>1. i \in 1 .. Len(h) - k
        BY <3>1, <3>3
      <4> QED BY <1>1, <2>1, <4>1
    <3> QED BY <3>1, <3>2, <3>3
  <2>2. \A i \in 1 .. Len(t) : i \in 1 .. Len(h) /\ t[i] = h[i]
    BY <1>1
  <2> QED BY <2>1, <2>2
<1>4. Sorted(u, p + 1, t)
  BY <1>1, SortedLater
<1>5. \A o : o \in Open(rs) <=> o = 0 \/ \E i \in 1 .. Len(t) : t[i] = o /\ u[o].n \in Opens
  BY <1>3 DEF Held
<1> QED BY <1>1, <1>2, <1>4, <1>5 DEF Held

(* It may then wait itself.                                                *)
LEMMA HeldWaits ==
  ASSUME NEW u, NEW p \in Nat \ {0}, NEW h, NEW rs, Held(u, p + 1, h, rs), Sorted(u, p, h),
         Waits(u[p].n), u[p].n \notin Opens, NEW h2, h2 = Append(h, p)
  PROVE  Held(u, p + 1, h2, rs)
<1>0. WithLast(h, p, h2) /\ Sorted(u, p + 1, h2)
  BY HeldAppends, Zenon
<1>1. /\ Len(h2) = Len(h) + 1 /\ h2[Len(h) + 1] = p /\ \A k \in 1 .. Len(h) : h2[k] = h[k]
      /\ Sorted(u, p + 1, h2)
  BY <1>0 DEF WithLast
<1>2. Len(h) \in Nat
  BY SequenceFacts DEF Held, Sorted
<1>3. \A o : (\E i \in 1 .. Len(h2) : h2[i] = o /\ u[o].n \in Opens)
               <=> \E i \in 1 .. Len(h) : h[i] = o /\ u[o].n \in Opens
  <2>1. \A i \in 1 .. Len(h2) : i \in 1 .. Len(h) \/ h2[i] = p
    BY <1>1, <1>2
  <2>2. \A i \in 1 .. Len(h) : i \in 1 .. Len(h2)
    BY <1>1, <1>2
  <2> QED BY <1>1, <2>1, <2>2
<1>4. \A o : o \in Open(rs) <=> o = 0 \/ \E i \in 1 .. Len(h2) : h2[i] = o /\ u[o].n \in Opens
  BY <1>3 DEF Held
<1>6. Stack(u, p + 1, rs)
  BY DEF Held
<1> QED BY <1>1, <1>4, <1>6 DEF Held

LEMMA HeldOpens ==
  ASSUME NEW u, NEW p \in Nat \ {0}, NEW h, NEW rs, Held(u, p, h, rs), u[p].n \in Opens,
         NEW h2, h2 = Append(h, p)
  PROVE  Held(u, p + 1, h2, Append(rs, p))
<1>0. WithLast(h, p, h2) /\ Sorted(u, p + 1, h2)
  <2>1. Sorted(u, p, h) /\ Waits(u[p].n)
    BY Kinds DEF Held
  <2> QED BY <2>1, HeldAppends, Zenon
<1>1. /\ Len(h2) = Len(h) + 1 /\ h2[Len(h) + 1] = p /\ \A k \in 1 .. Len(h) : h2[k] = h[k]
      /\ Sorted(u, p + 1, h2)
  BY <1>0 DEF WithLast
<1>2. Len(h) \in Nat
  BY SequenceFacts DEF Held, Sorted
<1>3. PICK ss : ss = Append(rs, p)
  OBVIOUS
<1>4. Stack(u, p + 1, ss)
  BY <1>3, StackOpens DEF Held
<1>5. Len(ss) = Len(rs) + 1 /\ ss[Len(rs) + 1] = p /\ Len(rs) \in Nat /\ \A k \in 1 .. Len(rs) : ss[k] = rs[k]
  <2>1. rs \in Seq(Nat)
    BY DEF Held, Stack, Ancestry
  <2> QED BY <1>3, <2>1
<1>6. \A o : o \in Open(ss) <=> o \in Open(rs) \/ o = p
  <2>1. \A i \in 1 .. Len(ss) : i \in 1 .. Len(rs) \/ ss[i] = p
    BY <1>5
  <2>2. \A i \in 1 .. Len(rs) : i \in 1 .. Len(ss)
    BY <1>5
  <2>3. Len(ss) \in 1 .. Len(ss) /\ ss[Len(ss)] = p
    BY <1>5
  <2> QED BY <1>5, <2>1, <2>2, <2>3 DEF Open
<1>7. \A o : (\E i \in 1 .. Len(h2) : h2[i] = o /\ u[o].n \in Opens)
               <=> o = p \/ \E i \in 1 .. Len(h) : h[i] = o /\ u[o].n \in Opens
  <2>1. \A i \in 1 .. Len(h2) : i \in 1 .. Len(h) \/ h2[i] = p
    BY <1>1, <1>2
  <2>2. \A i \in 1 .. Len(h) : i \in 1 .. Len(h2)
    BY <1>1, <1>2
  <2>3. Len(h2) \in 1 .. Len(h2) /\ h2[Len(h2)] = p
    BY <1>1, <1>2
  <2> QED BY <1>1, <2>1, <2>2, <2>3
<1>8. \A o : o \in Open(ss) <=> o = 0 \/ \E i \in 1 .. Len(h2) : h2[i] = o /\ u[o].n \in Opens
  BY <1>6, <1>7 DEF Held
<1>10. Held(u, p + 1, h2, ss)
  BY <1>1, <1>4, <1>8 DEF Held
<1> QED BY <1>3, <1>10

(* The region closed is the last one that waits.                           *)
LEMMA HeldCloses ==
  ASSUME NEW u, NEW p \in Nat \ {0}, NEW h, NEW rs, Held(u, p, h, rs), u[p].n \in Closes, Balance(u, 1, p) >= 0,
         NEW k \in 1 .. Len(h), NEW o, o = h[Len(h) - k + 1], u[o].n \in Opens,
         \A j \in Len(h) - k + 2 .. Len(h) : u[h[j]].n \notin Opens,
         NEW t, t = SubSeq(h, 1, Len(h) - k)
  PROVE  \E ss : Held(u, p + 1, t, ss)
<1>0. WithoutLast(h, k, t) /\ Sorted(u, p, t)
  <2>1. Sorted(u, p, h)
    BY DEF Held
  <2>2. k \in 0 .. Len(h)
    OBVIOUS
  <2> QED BY <2>1, <2>2, HeldDrops, Zenon
<1>1. /\ Len(h) \in Nat /\ Len(t) = Len(h) - k /\ \A i \in 1 .. Len(h) - k : t[i] = h[i] /\ i \in 1 .. Len(h)
      /\ Sorted(u, p, t)
  BY <1>0 DEF WithoutLast
<1>2. Top(rs) = o /\ Len(rs) > 1
  <2>1. PICK i : i = Len(h) - k + 1
    OBVIOUS
  <2>2. i \in 1 .. Len(h) /\ i + 1 = Len(h) - k + 2
    BY <1>1, <2>1
  <2>3. u[h[i]].n \in Opens /\ \A j \in i + 1 .. Len(h) : u[h[j]].n \notin Opens
    BY <2>1, <2>2
  <2>4. Top(rs) = h[i] /\ Len(rs) > 1
    BY <2>2, <2>3, HeldTop, Zenon
  <2> QED BY <2>1, <2>4
<1>3. PICK ss : ss = SubSeq(rs, 1, Len(rs) - 1)
  OBVIOUS
<1>4. Stack(u, p + 1, ss) /\ Stack(u, p, rs)
  <2>1. Stack(u, p, rs)
    BY DEF Held
  <2>2. Stack(u, p + 1, SubSeq(rs, 1, Len(rs) - 1))
    BY <2>1, StackCloses, Zenon
  <2> QED BY <1>3, <2>1, <2>2
<1>5. /\ rs \in Seq(Nat) /\ Len(rs) \in Nat /\ rs[1] = 0
      /\ \A i \in 1 .. Len(rs) : rs[i] \in Nat
      /\ \A i, j \in 1 .. Len(rs) : i < j => rs[i] < rs[j]
  <2>1. /\ rs \in Seq(Nat) /\ rs[1] = 0
        /\ \A i, j \in 1 .. Len(rs) : i < j => rs[i] < rs[j]
    BY <1>4, Zenon DEF Stack, Ancestry
  <2>2. Len(rs) \in Nat /\ \A i \in 1 .. Len(rs) : rs[i] \in Nat
    BY <2>1
  <2> QED BY <2>1, <2>2
<1>6. Len(ss) = Len(rs) - 1 /\ \A i \in 1 .. Len(rs) - 1 : ss[i] = rs[i]
  BY <1>2, <1>3, <1>5
<1>7. ASSUME NEW q PROVE q \in Open(ss) <=> q \in Open(rs) /\ q # o
  <2>1. ASSUME NEW i \in 1 .. Len(ss) PROVE i \in 1 .. Len(rs) /\ ss[i] = rs[i] /\ rs[i] # o
    <3>1. i \in 1 .. Len(rs) /\ Len(rs) \in 1 .. Len(rs) /\ i < Len(rs) /\ ss[i] = rs[i]
      BY <1>2, <1>5, <1>6, SMTT(20)
    <3>2. rs[i] < rs[Len(rs)] /\ rs[i] \in Nat
      BY <1>5, <3>1
    <3> QED BY <1>2, <3>1, <3>2 DEF Top
  <2>2. ASSUME NEW i \in 1 .. Len(rs), rs[i] # o PROVE i \in 1 .. Len(ss) /\ ss[i] = rs[i]
    <3>1. i # Len(rs)
      BY <1>2, <2>2 DEF Top
    <3> QED BY <1>5, <1>6, <3>1
  <2> QED BY <2>1, <2>2, SMTT(20) DEF Open
<1>8. ASSUME NEW q PROVE (\E i \in 1 .. Len(t) : t[i] = q /\ u[q].n \in Opens)
                           <=> (q # o /\ \E i \in 1 .. Len(h) : h[i] = q /\ u[q].n \in Opens)
  <2>0. /\ \A i \in 1 .. Len(h) : h[i] \in Nat
        /\ \A i, j \in 1 .. Len(h) : i < j => h[i] < h[j]
    BY DEF Held, Sorted
  <2>1. ASSUME NEW i \in 1 .. Len(t) PROVE i \in 1 .. Len(h) /\ t[i] = h[i] /\ h[i] # o
    <3>1. i \in 1 .. Len(h) /\ t[i] = h[i] /\ Len(h) - k + 1 \in 1 .. Len(h) /\ i < Len(h) - k + 1
      BY <1>1
    <3> QED BY <2>0, <3>1, SMTT(20)
  <2>2. ASSUME NEW i \in 1 .. Len(h), h[i] = q, u[q].n \in Opens, q # o PROVE i \in 1 .. Len(t) /\ t[i] = h[i]
    <3>1. i # Len(h) - k + 1
      BY <2>2
    <3>2. ~(i >= Len(h) - k + 2)
      <4>1. CASE i >= Len(h) - k + 2
        <5>1. i \in Len(h) - k + 2 .. Len(h)
          BY <1>1, <4>1
        <5>2. u[h[i]].n \notin Opens
          BY <5>1
        <5> QED BY <2>2, <5>2
      <4> QED BY <4>1
    <3>3. PICK l \in Nat : l = Len(h)
      BY <1>1
    <3>4. i \in 1 .. l /\ i # l - k + 1 /\ ~(i >= l - k + 2) /\ k \in 1 .. l
      BY <3>1, <3>2, <3>3
    <3>5. i \in 1 .. l - k
      BY <3>4
    <3>6. i \in 1 .. Len(h) - k
      BY <3>3, <3>5
    <3> QED BY <1>1, <3>6
  <2> QED BY <2>1, <2>2
<1>9. o # 0
  <2>1. Len(h) - k + 1 \in 1 .. Len(h)
    BY <1>1
  <2>2. h[Len(h) - k + 1] \in 1 .. p - 1
    BY <2>1 DEF Held, Sorted
  <2> QED BY <2>2
<1>10. \A q : q \in Open(ss) <=> q = 0 \/ \E i \in 1 .. Len(t) : t[i] = q /\ u[q].n \in Opens
  <2>1. \A q : q \in Open(rs) <=> q = 0 \/ \E i \in 1 .. Len(h) : h[i] = q /\ u[q].n \in Opens
    BY DEF Held
  <2> QED BY <1>7, <1>8, <1>9, <2>1
<1>11. Sorted(u, p + 1, t)
  BY <1>1, SortedLater
<1> QED BY <1>4, <1>10, <1>11 DEF Held

LEMMA HeldSteps ==
  ASSUME NEW u, IsUnit(u), NEW p \in 1 .. Len(u), NEW h, NEW rs, Held(u, p, h, rs),
         InDeclaration(u, h, p) \/ Stands(u, p, h)
  PROVE  \E ss : Held(u, p + 1, WaitingAfter(u, h, p), ss)
<1>0. Len(u) \in Nat /\ DOMAIN u = 1 .. Len(u) /\ p \in Nat \ {0} /\ Sorted(u, p, h) /\ Len(h) \in Nat
  BY SequenceFacts DEF IsUnit, Held, Sorted
<1>1. CASE InDeclaration(u, h, p)
  <2>1. u[p].n \notin Opens \cup Closes
    BY <1>1, Kinds DEF InDeclaration, Opens, Closes
  <2>2. WaitingAfter(u, h, p) = h
    BY <1>1 DEF WaitingAfter
  <2>3. Held(u, p + 1, h, rs)
    BY <1>0, <2>1, HeldPasses, Zenon
  <2> QED BY <2>2, <2>3
<1>2. CASE Stands(u, p, h)
  <2>1. PICK k : k = Takes(u[p])
    OBVIOUS
  <2>2. PICK t : t = SubSeq(h, 1, Len(h) - k)
    OBVIOUS
  <2>3. WaitingAfter(u, h, p) = IF Waits(u[p].n) THEN Append(t, p) ELSE t
    BY <1>2, <2>1, <2>2 DEF Stands, WaitingAfter
  <2>4. TakesItsParts(u, h, p)
    BY <1>2 DEF Stands
  <2>5. /\ k \in 0 .. Len(h)
        /\ u[p].n \notin Closes => \A j \in 0 .. k - 1 : Kind(u, h, j) \notin Opens
        /\ u[p].n = "endblock" => k = 1 /\ Kind(u, h, 0) = "block"
        /\ u[p].n = "endmodule" => k = 1 /\ Kind(u, h, 0) = "module"
        /\ u[p].n = "endfunction" => k = 2 /\ Kind(u, h, 0) = "endblock" /\ Kind(u, h, 1) = "function"
    BY <2>1, <2>4, TakenKinds
  <2>6. CASE u[p].n \in Opens
    <3>1. k = 0
      BY <2>1, <2>6 DEF Takes, Opens
    <3>2. t = h
      <4>1. WithoutLast(h, k, t) /\ Sorted(u, p, t)
        BY <1>0, <2>2, <2>5, HeldDrops, Zenon
      <4>2. Len(t) = Len(h) /\ \A i \in 1 .. Len(h) : t[i] = h[i]
        BY <3>1, <4>1 DEF WithoutLast
      <4>3. h = [i \in 1 .. Len(h) |-> h[i]] /\ t = [i \in 1 .. Len(t) |-> t[i]]
        BY <1>0, <4>1 DEF Sorted, IsSeq
      <4> QED BY <4>2, <4>3
    <3>3. Waits(u[p].n)
      BY <2>6, Kinds
    <3>4. PICK h2 : h2 = Append(h, p)
      OBVIOUS
    <3>5. Held(u, p + 1, h2, Append(rs, p))
      BY <1>0, <2>6, <3>4, HeldOpens, Zenon
    <3> QED BY <2>3, <3>2, <3>3, <3>4, <3>5
  <2>7. CASE u[p].n \notin Opens \cup Closes
    <3>1. Held(u, p + 1, t, rs)
      BY <1>0, <2>2, <2>5, <2>7, HeldTakes
    <3>2. CASE ~Waits(u[p].n)
      BY <2>3, <3>1, <3>2
    <3>3. CASE Waits(u[p].n)
      <4>1. Sorted(u, p, t)
        BY <1>0, <2>2, <2>5, HeldDrops, Zenon
      <4>2. PICK h2 : h2 = Append(t, p)
        OBVIOUS
      <4>3. Held(u, p + 1, h2, rs)
        BY <1>0, <2>7, <3>1, <3>3, <4>1, <4>2, HeldWaits
      <4> QED BY <2>3, <3>3, <4>2, <4>3
    <3> QED BY <3>2, <3>3
  <2>8. CASE u[p].n \in Closes
    <3>1. Balance(u, 1, p) >= 0
      <4>1. Count(u, Opens, 1, p) \in Nat /\ Count(u, Closes, 1, p) \in Nat
        BY <1>0, CountIsNat
      <4>2. Count(u, Closes, 1, p) <= Count(u, Opens, 1, p)
        BY <1>0 DEF IsUnit, Balanced
      <4> QED BY <4>1, <4>2 DEF Balance
    <3>2. PICK o : o = h[Len(h) - k + 1]
      OBVIOUS
    <3>3. /\ k \in 1 .. Len(h) /\ u[o].n \in Opens
          /\ \A j \in Len(h) - k + 2 .. Len(h) : u[h[j]].n \notin Opens
      <4>1. CASE u[p].n \in {"endblock", "endmodule"}
        <5>1. k = 1 /\ Kind(u, h, 0) \in Opens
          BY <2>5, <4>1 DEF Opens
        <5>2. o = h[Len(h)]
          BY <1>0, <3>2, <5>1
        <5>3. Len(h) - 0 = Len(h)
          BY <1>0
        <5> QED BY <1>0, <2>5, <5>1, <5>2, <5>3 DEF Kind
      <4>2. CASE u[p].n = "endfunction"
        <5>1. k = 2 /\ Kind(u, h, 0) = "endblock" /\ Kind(u, h, 1) = "function"
          BY <2>5, <4>2
        <5>2. o = h[Len(h) - 1] /\ Len(h) - 0 = Len(h)
          BY <1>0, <3>2, <5>1
        <5>3. u[o].n \in Opens
          BY <5>1, <5>2 DEF Kind, Opens
        <5>4. ASSUME NEW j \in Len(h) - k + 2 .. Len(h) PROVE u[h[j]].n \notin Opens
          <6>1. j = Len(h)
            BY <1>0, <5>1
          <6> QED BY <5>1, <5>2, <6>1, Kinds DEF Kind
        <5>5. k \in 1 .. Len(h)
          BY <2>5, <5>1
        <5> QED BY <5>3, <5>4, <5>5
      <4> QED BY <2>8, <4>1, <4>2 DEF Closes
    <3>4. \E ss : Held(u, p + 1, t, ss)
      BY <1>0, <2>2, <2>8, <3>1, <3>2, <3>3, HeldCloses
    <3>5. PICK ss : Held(u, p + 1, t, ss)
      BY <3>4
    <3>6. CASE ~Waits(u[p].n)
      BY <2>3, <3>5, <3>6
    <3>7. CASE Waits(u[p].n)
      <4>1. Sorted(u, p, t)
        BY <1>0, <2>2, <2>5, HeldDrops, Zenon
      <4>2. PICK h2 : h2 = Append(t, p)
        OBVIOUS
      <4>3. u[p].n \notin Opens
        BY <2>8, Kinds
      <4>4. Held(u, p + 1, h2, ss)
        BY <1>0, <3>5, <3>7, <4>1, <4>2, <4>3, HeldWaits
      <4> QED BY <2>3, <3>7, <4>2, <4>4
    <3> QED BY <3>6, <3>7
  <2> QED BY <2>6, <2>7, <2>8
<1> QED BY <1>1, <1>2

LEMMA HeldAlways ==
  ASSUME NEW u, IsUnit(u)
  PROVE  \A p \in 1 .. Len(u) + 1 : \E rs : Held(u, p, Waiting(u)[p], rs)
<1>0. Len(u) \in Nat /\ DOMAIN u = 1 .. Len(u)
  BY DEF IsUnit
<1> DEFINE Good(p) == \E rs : Held(u, p, Waiting(u)[p], rs)
           Bad == {p \in 1 .. Len(u) + 1 : ~Good(p)}
<1> SUFFICES ASSUME Bad # {} PROVE FALSE
  OBVIOUS
<1>1. PICK n \in Bad : \A m \in Bad : n <= m
  <2>1. Bad \subseteq Nat
    BY <1>0
  <2> HIDE DEF Bad
  <2> QED BY <2>1, LeastNumber
<1>2. n # 1
  <2>1. PICK e : e = << >>
    OBVIOUS
  <2>2. Sorted(u, 1, e)
    BY <2>1 DEF Sorted, IsSeq
  <2>3. Stack(u, 1, <<0>>) /\ Open(<<0>>) = {0}
    BY StackAtFirst DEF Open
  <2>4. Held(u, 1, e, <<0>>)
    BY <2>1, <2>2, <2>3 DEF Held
  <2>5. Waiting(u)[1] = e
    BY <1>0, <2>1, WaitingSteps
  <2>6. Good(1)
    BY <2>4, <2>5
  <2> QED BY <1>1, <2>6
<1>3. PICK q \in 1 .. Len(u) : n = q + 1
  <2>1. n \in 2 .. Len(u) + 1
    BY <1>0, <1>1, <1>2
  <2>2. n - 1 \in 1 .. Len(u) /\ n = (n - 1) + 1
    BY <1>0, <2>1
  <2> QED BY <2>2
<1>4. Good(q)
  <2>1. q \in 1 .. Len(u) + 1 /\ ~(n <= q)
    BY <1>0, <1>3
  <2>2. q \notin Bad
    <3> HIDE DEF Bad
    <3> QED BY <1>1, <2>1
  <2> QED BY <2>1, <2>2
<1>5. PICK rs : Held(u, q, Waiting(u)[q], rs)
  BY <1>4
<1>6. InDeclaration(u, Waiting(u)[q], q) \/ Stands(u, q, Waiting(u)[q])
  BY <1>0 DEF IsUnit, IsTree, Stands
<1>7. Waiting(u)[q + 1] = WaitingAfter(u, Waiting(u)[q], q)
  BY <1>0, WaitingSteps
<1>8. Good(q + 1)
  BY <1>5, <1>6, <1>7, HeldSteps
<1> QED BY <1>1, <1>3, <1>8

(* The regions around a node.                                              *)
LEMMA HeldIsAround ==
  ASSUME NEW u, IsUnit(u), NEW p \in 1 .. Len(u) + 1, NEW h, h = Waiting(u)[p]
  PROVE  /\ Sorted(u, p, h) /\ Len(h) \in Nat
         /\ \A o : o \in RegionsAround(u, p) <=> o = 0 \/ \E k \in 1 .. Len(h) : h[k] = o /\ u[o].n \in Opens
<1>1. PICK rs : Held(u, p, h, rs)
  BY HeldAlways
<1>2. RegionsAround(u, p) = Open(rs)
  BY <1>1, StackIsAround DEF Held
<1>3. Sorted(u, p, h) /\ \A o : o \in Open(rs) <=> o = 0 \/ \E k \in 1 .. Len(h) : h[k] = o /\ u[o].n \in Opens
  BY <1>1 DEF Held
<1>4. Len(h) \in Nat
  BY <1>3, SequenceFacts DEF Sorted
<1> QED BY <1>2, <1>3, <1>4

-----------------------------------------------------------------------------
(* The nodes the second walk stands at.                                    *)
LEMMA SameSequence ==
  ASSUME NEW s, NEW t, IsSeq(s), IsSeq(t), Len(s) = Len(t), \A i \in 1 .. Len(t) : s[i] = t[i]
  PROVE  s = t
<1>1. s = [i \in 1 .. Len(s) |-> s[i]]
  BY DEF IsSeq
<1>2. t = [i \in 1 .. Len(t) |-> t[i]]
  BY DEF IsSeq
<1> QED BY <1>1, <1>2

LEMMA DeclarationsPass ==
  ASSUME NEW u, IsUnit(u), NEW a \in 1 .. Len(u) + 1, NEW b \in a .. Len(u) + 1, NEW h, h = Waiting(u)[a],
         \A r \in a .. b - 1 : InDeclaration(u, h, r)
  PROVE  Waiting(u)[b] = h
<1>0. Len(u) \in Nat
  BY DEF IsUnit
<1> DEFINE Bad == {c \in a .. b : Waiting(u)[c] # h}
<1> SUFFICES ASSUME Bad # {} PROVE FALSE
  BY <1>0
<1>1. PICK c \in Bad : \A d \in Bad : c <= d
  <2>1. Bad \subseteq Nat
    BY <1>0
  <2> HIDE DEF Bad
  <2> QED BY <2>1, LeastNumber
<1>2. c \in a + 1 .. b
  BY <1>0, <1>1
<1>3. c - 1 \in a .. b /\ ~(c <= c - 1)
  BY <1>0, <1>2
<1>4. c - 1 \notin Bad
  <2> HIDE DEF Bad
  <2> QED BY <1>1, <1>3
<1>5. Waiting(u)[c - 1] = h
  BY <1>3, <1>4
<1>6. c - 1 \in 1 .. Len(u) /\ (c - 1) + 1 = c /\ c - 1 \in a .. b - 1
  BY <1>0, <1>2
<1>7. Waiting(u)[(c - 1) + 1] = WaitingAfter(u, Waiting(u)[c - 1], c - 1)
  BY <1>0, <1>6, WaitingSteps
<1>8. WaitingAfter(u, h, c - 1) = h
  BY <1>6 DEF WaitingAfter
<1>9. Waiting(u)[c] = h
  BY <1>5, <1>6, <1>7, <1>8
<1> QED BY <1>1, <1>9

(* What a node leaves of those that wait.                                  *)
Left(u, p, h) == SubSeq(h, 1, Len(h) - Takes(u[p]))

LEMMA WaitingNext ==
  ASSUME NEW u, IsUnit(u), NEW p \in 1 .. Len(u), NEW h, h = Waiting(u)[p], Stands(u, p, h)
  PROVE  /\ p + 1 \in 1 .. Len(u) + 1 /\ Len(u) \in Nat /\ p \in Nat \ {0}
         /\ Sorted(u, p, h) /\ Len(h) \in Nat /\ Takes(u[p]) \in 0 .. Len(h)
         /\ Waiting(u)[p + 1] = IF Waits(u[p].n) THEN Append(Left(u, p, h), p) ELSE Left(u, p, h)
         /\ WithoutLast(h, Takes(u[p]), Left(u, p, h)) /\ Sorted(u, p, Left(u, p, h))
<1>0. Len(u) \in Nat /\ p \in Nat \ {0} /\ p \in 1 .. Len(u) + 1 /\ p + 1 \in 1 .. Len(u) + 1
  BY DEF IsUnit
<1>1. Sorted(u, p, h) /\ Len(h) \in Nat
  BY <1>0, HeldIsAround
<1>2. Takes(u[p]) \in 0 .. Len(h)
  BY DEF Stands, TakesItsParts
<1>3. Waiting(u)[p + 1] = WaitingAfter(u, h, p)
  BY <1>0, WaitingSteps
<1>4. WaitingAfter(u, h, p) = IF Waits(u[p].n) THEN Append(Left(u, p, h), p) ELSE Left(u, p, h)
  BY DEF WaitingAfter, Left, Stands
<1>5. PICK t : t = Left(u, p, h)
  OBVIOUS
<1>6. t = SubSeq(h, 1, Len(h) - Takes(u[p]))
  BY <1>5 DEF Left
<1>7. WithoutLast(h, Takes(u[p]), t) /\ Sorted(u, p, t)
  BY <1>0, <1>1, <1>2, <1>6, HeldDrops, Zenon
<1> QED BY <1>0, <1>1, <1>2, <1>3, <1>4, <1>5, <1>7

LEMMA StandsAt ==
  ASSUME NEW u, IsUnit(u), NEW p \in 1 .. Len(u), ~InDeclaration(u, Waiting(u)[p], p)
  PROVE  Stands(u, p, Waiting(u)[p])
<1>1. p \in DOMAIN u
  BY DEF IsUnit
<1> QED BY <1>1 DEF IsUnit, IsTree, Stands

LEMMA VisitsNext ==
  ASSUME NEW u, IsUnit(u), NEW p \in 1 .. Len(u), NEW h, h = Waiting(u)[p], Stands(u, p, h),
         u[p].n \notin {"var", "function"}, Waits(u[p].n) \/ u[p].n \in Statements,
         NEW h2, h2 = Waiting(u)[p + 1], p + 1 <= Len(u)
  PROVE  Stands(u, p + 1, h2)
<1>1. PICK t : t = Left(u, p, h)
  OBVIOUS
<1>2. PICK k : k = Takes(u[p])
  OBVIOUS
<1>3. /\ Len(u) \in Nat /\ p \in Nat \ {0}
      /\ Sorted(u, p, h) /\ Len(h) \in Nat /\ k \in 0 .. Len(h)
      /\ h2 = IF Waits(u[p].n) THEN Append(t, p) ELSE t
      /\ WithoutLast(h, k, t) /\ Sorted(u, p, t)
  BY <1>1, <1>2, WaitingNext
<1>4. ~InDeclaration(u, h2, p + 1)
  <2>1. CASE Waits(u[p].n)
    <3>1. WithLast(t, p, h2)
      BY <1>3, <2>1, HeldAppends, Zenon
    <3>2. h2[Len(h2)] = p /\ Len(h2) - 0 = Len(h2)
      BY <3>1 DEF WithLast
    <3>3. Kind(u, h2, 0) = u[p].n
      BY <3>2 DEF Kind
    <3> QED BY <3>3 DEF InDeclaration
  <2>2. CASE ~Waits(u[p].n)
    <3>1. h2 = t /\ u[p].n \in Statements
      BY <1>3, <2>2
    <3>2. Len(h) = k \/ Kind(u, h, k) \in {"block", "module"}
      BY <1>2, <3>1 DEF Stands, IsOfAList
    <3>3. CASE Len(h) = k
      <4>1. Len(t) = 0 /\ IsSeq(t)
        BY <1>3, <3>3 DEF WithoutLast, Sorted
      <4>2. t = << >>
        BY <4>1 DEF IsSeq
      <4> QED BY <3>1, <4>2 DEF InDeclaration
    <3>4. CASE Len(h) # k /\ Kind(u, h, k) \in {"block", "module"}
      <4>1. Len(h) - k \in 1 .. Len(h) - k /\ Len(t) = Len(h) - k /\ Len(t) - 0 = Len(h) - k
        BY <1>3, <3>4 DEF WithoutLast
      <4>2. t[Len(h) - k] = h[Len(h) - k]
        BY <1>3, <4>1 DEF WithoutLast
      <4>3. Kind(u, t, 0) = Kind(u, h, k)
        BY <4>1, <4>2 DEF Kind
      <4> QED BY <3>1, <3>4, <4>3 DEF InDeclaration
    <3> QED BY <3>2, <3>3, <3>4
  <2> QED BY <2>1, <2>2
<1>5. p + 1 \in 1 .. Len(u)
  BY <1>3
<1> QED BY <1>4, <1>5, StandsAt

(* A variable and its parts are one step of the walk; a function is        *)
(* followed by its parameters, or its body.                                *)
DeclaredTo(u, p, q) ==
  \A r \in p + 1 .. q - 1 : u[r].n \in IF u[p].n = "var" THEN ExpressionNodes ELSE {"param", "identifier"}
EndsAt(u, q) == u[q].n \notin ExpressionNodes \cup {"param"}

DeclaresWith(u, p, q) == u[p].n \in {"var", "function"} /\ q \in p + 1 .. Len(u) /\ DeclaredTo(u, p, q)
StandsIn(u, q, h2) == Waiting(u)[q] = h2 /\ (EndsAt(u, q) => Stands(u, q, h2))

LEMMA VisitsAfter ==
  ASSUME NEW u, IsUnit(u), NEW p \in 1 .. Len(u), NEW h, h = Waiting(u)[p], Stands(u, p, h),
         NEW q, DeclaresWith(u, p, q), NEW h2, h2 = Append(h, p)
  PROVE  StandsIn(u, q, h2)
<1>d. u[p].n \in {"var", "function"} /\ q \in p + 1 .. Len(u) /\ DeclaredTo(u, p, q)
  BY DEF DeclaresWith
<1> USE <1>d DEF DeclaredTo
<1>1. PICK t : t = Left(u, p, h)
  OBVIOUS
<1>2. /\ Len(u) \in Nat /\ p \in Nat \ {0} /\ p + 1 \in 1 .. Len(u) + 1
      /\ Sorted(u, p, h) /\ Len(h) \in Nat
      /\ Waiting(u)[p + 1] = IF Waits(u[p].n) THEN Append(t, p) ELSE t
      /\ WithoutLast(h, Takes(u[p]), t) /\ Sorted(u, p, t)
  <2>1. /\ p + 1 \in 1 .. Len(u) + 1 /\ Len(u) \in Nat /\ p \in Nat \ {0}
        /\ Sorted(u, p, h) /\ Len(h) \in Nat /\ Takes(u[p]) \in 0 .. Len(h)
        /\ Waiting(u)[p + 1] = IF Waits(u[p].n) THEN Append(Left(u, p, h), p) ELSE Left(u, p, h)
        /\ WithoutLast(h, Takes(u[p]), Left(u, p, h)) /\ Sorted(u, p, Left(u, p, h))
    BY WaitingNext, Zenon
  <2> QED BY <1>1, <2>1, Zenon
<1>3. Takes(u[p]) = 0 /\ Waits(u[p].n)
  BY DEF Takes, Waits, Opens
<1>4. t = h
  <2>1. Len(t) = Len(h) /\ \A i \in 1 .. Len(h) : t[i] = h[i]
    BY <1>2, <1>3 DEF WithoutLast
  <2>2. IsSeq(t) /\ IsSeq(h)
    BY <1>2 DEF Sorted
  <2> QED BY <2>1, <2>2, SameSequence
<1>5. Waiting(u)[p + 1] = h2
  BY <1>2, <1>3, <1>4
<1>6. WithLast(h, p, h2) /\ Sorted(u, p + 1, h2)
  BY <1>2, <1>3, HeldAppends, Zenon
<1>7. h2 # << >> /\ Kind(u, h2, 0) = u[p].n
  <2>1. Len(h2) = Len(h) + 1 /\ h2[Len(h2)] = p /\ Len(h2) - 0 = Len(h2)
    BY <1>6 DEF WithLast
  <2>2. h2 # << >>
    BY <1>2, <2>1
  <2> QED BY <2>1, <2>2 DEF Kind
<1>8. \A r \in p + 1 .. q - 1 : InDeclaration(u, h2, r)
  BY <1>7 DEF InDeclaration
<1>9. Waiting(u)[q] = h2
  <2>1. q \in p + 1 .. Len(u) + 1
    BY <1>2
  <2> QED BY <1>2, <1>5, <1>8, <2>1, DeclarationsPass
<1>11. ASSUME EndsAt(u, q) PROVE Stands(u, q, h2)
  <2>1. q \in 1 .. Len(u)
    BY <1>2
  <2>2. ~InDeclaration(u, h2, q)
    BY <1>7, <1>11 DEF InDeclaration, ExpressionNodes, EndsAt
  <2> QED BY <1>9, <2>1, <2>2, StandsAt, ZenonT(40)
<1> QED BY <1>9, <1>11 DEF StandsIn

-----------------------------------------------------------------------------
(* The results of the visits under way are those of the nodes that wait.   *)
OfKind(n) == IF n \in Opens THEN n ELSE "value"
ResultOf(u, o, r) == DOMAIN r = {"of", "node", "type"} /\ r.node = o /\ r.of = OfKind(u[o].n)
Stacked(u, h, R) ==
  /\ IsSeq(R) /\ Len(R) = Len(h) /\ Len(h) \in Nat
  /\ \A k \in 1 .. Len(h) : ResultOf(u, h[k], R[k])

Same(s, s2, n) == \A i \in 1 .. n : s2[i] = s[i]

LEMMA StackedDrops ==
  ASSUME NEW u, NEW h, NEW R, Stacked(u, h, R), NEW k \in 0 .. Len(h), NEW t, WithoutLast(h, k, t),
         NEW R2, R2 = SubSeq(R, 1, Len(R) - k)
  PROVE  Stacked(u, t, R2) /\ Same(R, R2, Len(t))
<1>1. IsSeq(R2) /\ Len(R2) = Len(R) - k /\ \A i \in 1 .. Len(R) - k : R2[i] = R[i]
  <2>1. IsSeq(R) /\ k \in 0 .. Len(R)
    BY DEF Stacked
  <2> QED BY <2>1, Dropped, Zenon
<1>2. Len(R) = Len(h) /\ Len(h) \in Nat /\ Len(t) = Len(h) - k /\ \A i \in 1 .. Len(h) - k : t[i] = h[i] /\ i \in 1 .. Len(h)
  BY DEF Stacked, WithoutLast
<1>3. Len(t) \in Nat
  BY <1>2
<1>4. ASSUME NEW i \in 1 .. Len(t) PROVE R2[i] = R[i] /\ ResultOf(u, t[i], R2[i])
  <2>1. i \in 1 .. Len(h) - k /\ i \in 1 .. Len(R) - k
    BY <1>2
  <2>2. R2[i] = R[i] /\ t[i] = h[i] /\ i \in 1 .. Len(h)
    BY <1>1, <1>2, <2>1
  <2>3. ResultOf(u, h[i], R[i])
    BY <2>2 DEF Stacked
  <2> QED BY <2>2, <2>3
<1> QED BY <1>1, <1>2, <1>3, <1>4 DEF Stacked, Same

WithLastResult(R, r, R2, n) == Same(R, R2, n) /\ R2[n + 1] = r

LEMMA StackedPushes ==
  ASSUME NEW u, NEW p, NEW h, NEW R, Stacked(u, h, R), NEW h2, WithLast(h, p, h2),
         NEW r, ResultOf(u, p, r), NEW R2, R2 = Append(R, r)
  PROVE  Stacked(u, h2, R2) /\ WithLastResult(R, r, R2, Len(h))
<1>1. /\ IsSeq(R2) /\ Len(R2) = Len(R) + 1
      /\ \A i \in 1 .. Len(R) : R2[i] = R[i]
      /\ R2[Len(R) + 1] = r
  <2>1. IsSeq(R)
    BY DEF Stacked
  <2> QED BY <2>1, AppendFacts
<1>2. Len(R) = Len(h) /\ Len(h) \in Nat /\ Len(h2) = Len(h) + 1 /\ h2[Len(h) + 1] = p /\ \A k \in 1 .. Len(h) : h2[k] = h[k]
  BY DEF Stacked, WithLast
<1>3. ASSUME NEW k \in 1 .. Len(h2) PROVE ResultOf(u, h2[k], R2[k])
  <2>1. CASE k = Len(h) + 1
    BY <1>1, <1>2, <2>1
  <2>2. CASE k \in 1 .. Len(h)
    <3>1. R2[k] = R[k] /\ h2[k] = h[k] /\ ResultOf(u, h[k], R[k])
      BY <1>1, <1>2, <2>2 DEF Stacked
    <3> QED BY <3>1
  <2> QED BY <1>2, <2>1, <2>2
<1>4. Len(h2) \in Nat /\ Len(R2) = Len(h2) /\ R2[Len(h2)] = r
  BY <1>1, <1>2
<1> QED BY <1>1, <1>2, <1>3, <1>4 DEF Stacked, Same, WithLastResult

(* The block on top, if there is one.                                      *)
TopIs(u, h, n) == h # << >> /\ u[h[Len(h)]].n = n

LEMMA TopInBlock ==
  ASSUME NEW u, NEW h, NEW R, Stacked(u, h, R), IsSeq(h)
  PROVE  /\ InBlock(R) <=> TopIs(u, h, "block")
         /\ TopIs(u, h, "block") => Len(h) \in 1 .. Len(h) /\ Len(R) = Len(h)
<1>1. IsSeq(R) /\ Len(R) = Len(h) /\ Len(h) \in Nat
  BY DEF Stacked
<1>2. ASSUME NEW s, IsSeq(s) PROVE s # << >> <=> Len(s) # 0
  BY <1>2 DEF IsSeq
<1>3. (R # << >> <=> Len(h) # 0) /\ (h # << >> <=> Len(h) # 0)
  BY <1>1, <1>2
<1>4. ASSUME Len(h) # 0 PROVE Len(h) \in 1 .. Len(h) /\ (R[Len(R)].of = "block" <=> u[h[Len(h)]].n = "block")
  <2>1. Len(h) \in 1 .. Len(h)
    BY <1>1, <1>4
  <2>2. R[Len(R)].of = OfKind(u[h[Len(h)]].n)
    BY <1>1, <2>1 DEF Stacked, ResultOf
  <2> QED BY <2>1, <2>2 DEF OfKind, Opens
<1> QED BY <1>1, <1>3, <1>4 DEF InBlock, TopIs

LEMMA StackedJoins ==
  ASSUME NEW u, NEW h, NEW R, Stacked(u, h, R), IsSeq(h), NEW type, NEW R2, R2 = JoinedInto(R, type)
  PROVE  /\ Stacked(u, h, R2)
         /\ \A i \in 1 .. Len(h) :
              R2[i].type = IF TopIs(u, h, "block") /\ i = Len(h) THEN JoinTypes(R[i].type, type) ELSE R[i].type
<1>1. IsSeq(R) /\ Len(R) = Len(h) /\ Len(h) \in Nat /\ DOMAIN R = 1 .. Len(h)
  BY SequenceFacts DEF Stacked
<1>2. CASE ~TopIs(u, h, "block")
  <2>1. R2 = R
    BY <1>2, TopInBlock DEF JoinedInto
  <2> QED BY <1>2, <2>1
<1>3. CASE TopIs(u, h, "block")
  <2> DEFINE l == Len(h)
             j == JoinTypes(R[l].type, type)
  <2>1. R2 = [R EXCEPT ![l].type = j]
    BY <1>1, <1>3, TopInBlock DEF JoinedInto
  <2>2. l \in 1 .. Len(h)
    BY <1>3, TopInBlock
  <2> HIDE DEF j
  <2>3. DOMAIN R2 = 1 .. Len(h) /\ R2 = [i \in 1 .. Len(h) |-> R2[i]]
    BY <1>1, <2>1
  <2>4. IsSeq(R2) /\ Len(R2) = Len(h)
    BY ONLY <1>1, <2>3, FunctionIsSequence, Zenon
  <2>5. \A i \in 1 .. Len(h) : i # l => R2[i] = R[i]
    BY <1>1, <2>1
  <2>6. R2[l] = [R[l] EXCEPT !.type = j]
    BY <1>1, <2>1, <2>2
  <2>7. \A i \in 1 .. Len(h) : ResultOf(u, h[i], R[i])
    BY DEF Stacked
  <2>8. DOMAIN R2[l] = {"of", "node", "type"} /\ R2[l].node = h[l] /\ R2[l].of = OfKind(u[h[l]].n) /\ R2[l].type = j
    <3>1. DOMAIN R[l] = {"of", "node", "type"} /\ R[l].node = h[l] /\ R[l].of = OfKind(u[h[l]].n)
      BY <2>2, <2>7 DEF ResultOf
    <3> QED BY <2>6, <3>1
  <2>9. \A i \in 1 .. Len(h) : ResultOf(u, h[i], R2[i])
    BY <2>5, <2>7, <2>8 DEF ResultOf
  <2>10. Stacked(u, h, R2)
    BY <1>1, <2>4, <2>9 DEF Stacked
  <2> QED BY <1>3, <2>5, <2>8, <2>10 DEF j
<1> QED BY <1>2, <1>3

-----------------------------------------------------------------------------
(* The function or module around a node, and around what waits at place k. *)
Bodies == {"function", "module"}
FctOf(u, r) == Max({0} \cup {f \in RegionsAround(u, r) : f # 0 /\ u[f].n \in Bodies})
IsInner(u, h, k, g) ==
  \/ g = 0 /\ \A j \in 1 .. k : u[h[j]].n \notin Bodies
  \/ \E j \in 1 .. k : /\ g = h[j] /\ u[h[j]].n \in Bodies
                       /\ \A i \in j + 1 .. k : u[h[i]].n \notin Bodies

LEMMA FctOfBefore ==
  ASSUME NEW u, NEW r \in Nat \ {0}
  PROVE  /\ FctOf(u, r) \in 0 .. r - 1
         /\ FctOf(u, r) # 0 => FctOf(u, r) \in RegionsAround(u, r) /\ u[FctOf(u, r)].n \in Bodies
         /\ \A f \in RegionsAround(u, r) : (f # 0 /\ u[f].n \in Bodies) => FctOf(u, r) >= f
<1> DEFINE S == {0} \cup {f \in RegionsAround(u, r) : f # 0 /\ u[f].n \in Bodies}
<1>1. S \subseteq 0 .. r - 1 /\ S # {} /\ r - 1 \in Nat
  BY RegionBounds
<1>2. Max(S) \in S /\ \A x \in S : Max(S) >= x
  <2> HIDE DEF S
  <2> QED BY <1>1, MaxIsGreatest
<1>3. FctOf(u, r) = Max(S)
  BY DEF FctOf
<1>4. FctOf(u, r) \in S /\ \A x \in S : FctOf(u, r) >= x
  BY <1>2, <1>3
<1> QED BY <1>1, <1>4

LEMMA FctOfHere ==
  ASSUME NEW u, IsUnit(u), NEW p \in 1 .. Len(u) + 1, NEW h, h = Waiting(u)[p]
  PROVE  IsInner(u, h, Len(h), FctOf(u, p))
<1>1. /\ Sorted(u, p, h) /\ Len(h) \in Nat
      /\ \A o : o \in RegionsAround(u, p) <=> o = 0 \/ \E k \in 1 .. Len(h) : h[k] = o /\ u[o].n \in Opens
  BY HeldIsAround
<1>2. Bodies \subseteq Opens /\ p \in Nat \ {0}
  BY DEF Bodies, Opens, IsUnit
<1>3. PICK g : g = FctOf(u, p)
  OBVIOUS
<1>4. /\ g \in 0 .. p - 1
      /\ g # 0 => g \in RegionsAround(u, p) /\ u[g].n \in Bodies
      /\ \A f \in RegionsAround(u, p) : (f # 0 /\ u[f].n \in Bodies) => g >= f
  BY <1>2, <1>3, FctOfBefore
<1>5. \A j \in 1 .. Len(h) : u[h[j]].n \in Bodies => g >= h[j] /\ h[j] \in 1 .. p - 1
  <2> SUFFICES ASSUME NEW j \in 1 .. Len(h), u[h[j]].n \in Bodies PROVE g >= h[j] /\ h[j] \in 1 .. p - 1
    OBVIOUS
  <2>1. h[j] \in 1 .. p - 1
    BY <1>1 DEF Sorted
  <2>2. h[j] \in RegionsAround(u, p)
    BY <1>1, <1>2
  <2> QED BY <1>4, <2>1, <2>2
<1>6. CASE g = 0
  <2>1. \A j \in 1 .. Len(h) : u[h[j]].n \notin Bodies
    BY <1>5, <1>6
  <2> QED BY <1>3, <1>6, <2>1 DEF IsInner
<1>7. CASE g # 0
  <2>1. PICK j \in 1 .. Len(h) : h[j] = g
    BY <1>1, <1>4, <1>7
  <2>2. \A i \in j + 1 .. Len(h) : u[h[i]].n \notin Bodies
    <3> SUFFICES ASSUME NEW i \in j + 1 .. Len(h), u[h[i]].n \in Bodies PROVE FALSE
      OBVIOUS
    <3>1. i \in 1 .. Len(h) /\ j < i
      BY <1>1
    <3>2. h[j] < h[i] /\ h[i] \in 1 .. p - 1 /\ g >= h[i]
      BY <1>1, <1>5, <3>1 DEF Sorted
    <3> QED BY <1>4, <2>1, <3>2
  <2> QED BY <1>3, <1>4, <1>7, <2>1, <2>2 DEF IsInner
<1> QED BY <1>6, <1>7

LEMMA InnerSame ==
  ASSUME NEW u, NEW h, NEW k \in Nat, NEW h2, \A j \in 1 .. k : h2[j] = h[j], NEW g, IsInner(u, h, k, g)
  PROVE  IsInner(u, h2, k, g)
<1>1. \A j \in 1 .. k : \A i \in j + 1 .. k : i \in 1 .. k
  OBVIOUS
<1> QED BY <1>1 DEF IsInner

(* It is the same with more that is no function and no module.             *)
LEMMA InnerSkips ==
  ASSUME NEW u, NEW h, NEW k \in Nat, NEW l \in Nat, k <= l, \A j \in k + 1 .. l : u[h[j]].n \notin Bodies, NEW g
  PROVE  IsInner(u, h, k, g) <=> IsInner(u, h, l, g)
<1>1. ASSUME IsInner(u, h, k, g) PROVE IsInner(u, h, l, g)
  <2>1. CASE g = 0 /\ \A j \in 1 .. k : u[h[j]].n \notin Bodies
    <3>1. \A j \in 1 .. l : u[h[j]].n \notin Bodies
      BY <2>1
    <3> QED BY <2>1, <3>1 DEF IsInner
  <2>2. CASE ~(g = 0 /\ \A j \in 1 .. k : u[h[j]].n \notin Bodies)
    <3>1. PICK j \in 1 .. k : g = h[j] /\ u[h[j]].n \in Bodies /\ \A i \in j + 1 .. k : u[h[i]].n \notin Bodies
      BY <1>1, <2>2 DEF IsInner
    <3>2. j \in 1 .. l /\ \A i \in j + 1 .. l : u[h[i]].n \notin Bodies
      BY <3>1
    <3> QED BY <3>1, <3>2 DEF IsInner
  <2> QED BY <2>1, <2>2
<1>2. ASSUME IsInner(u, h, l, g) PROVE IsInner(u, h, k, g)
  <2>1. CASE g = 0 /\ \A j \in 1 .. l : u[h[j]].n \notin Bodies
    <3>1. \A j \in 1 .. k : u[h[j]].n \notin Bodies
      BY <2>1
    <3> QED BY <2>1, <3>1 DEF IsInner
  <2>2. CASE ~(g = 0 /\ \A j \in 1 .. l : u[h[j]].n \notin Bodies)
    <3>1. PICK j \in 1 .. l : g = h[j] /\ u[h[j]].n \in Bodies /\ \A i \in j + 1 .. l : u[h[i]].n \notin Bodies
      BY <1>2, <2>2 DEF IsInner
    <3>2. j \in 1 .. k
      BY <3>1
    <3>3. \A i \in j + 1 .. k : u[h[i]].n \notin Bodies
      BY <3>1
    <3> QED BY <3>1, <3>2, <3>3 DEF IsInner
  <2> QED BY <2>1, <2>2
<1> QED BY <1>1, <1>2

-----------------------------------------------------------------------------
(* The returns whose types a block's type stands for.                      *)
ReturnsTo(u, p) == {r \in 1 .. p - 1 : u[r].n \in Returning}
Sound(u, p, h, F) ==
  \A k \in 1 .. Len(h) : \A r \in F[h[k]] :
    r \in ReturnsTo(u, p) /\ u[h[k]].n \in {"block", "endblock"} /\ IsInner(u, h, k, FctOf(u, r))
Complete(u, p, h, F) ==
  \A r \in ReturnsTo(u, p) : \A j \in 1 .. Len(h) :
    (h[j] = FctOf(u, r) /\ u[h[j]].n = "function") => \E k \in 1 .. Len(h) : r \in F[h[k]]

Agrees(S, t) == (t = NOTYPE <=> NOTYPE \in S) /\ (NOTYPE \notin S => S \subseteq {NOTHING, t})
TypesIn(S, nt) == {nt[r] : r \in S}
Judged(u, h, R, F, nt) ==
  \A k \in 1 .. Len(h) :
    /\ F[h[k]] \subseteq DOMAIN nt
    /\ u[h[k]].n \in {"block", "endblock"} => Agrees(TypesIn(F[h[k]], nt), R[k].type)
Before(u, p, nt) == DOMAIN nt \subseteq Nat /\ \A q \in DOMAIN nt : u[q].n \in Returning => q < p

Typing(u, p, h, R, F, nt) ==
  /\ Sorted(u, p, h) /\ Stacked(u, h, R)
  /\ Sound(u, p, h, F) /\ Judged(u, h, R, F, nt) /\ Before(u, p, nt)

LEMMA NoTypes == NOTYPE # NOTHING /\ NOTYPE # INT /\ \A a, b : FunctionType(a, b) # NOTYPE
BY DEF NOTYPE, NOTHING, INT, FunctionType

LEMMA AgreesJoins ==
  ASSUME NEW A, NEW B, NEW a, NEW b, Agrees(A, a), Agrees(B, b), ~Conflict(a, b)
  PROVE  Agrees(A \cup B, JoinTypes(a, b))
<1>1. CASE a = NOTYPE \/ b = NOTYPE
  <2>1. JoinTypes(a, b) = NOTYPE
    BY <1>1 DEF JoinTypes
  <2> QED BY <1>1, <2>1 DEF Agrees
<1>2. CASE a # NOTYPE /\ b # NOTYPE /\ a = NOTHING
  <2>1. JoinTypes(a, b) = b
    BY <1>2 DEF JoinTypes
  <2> QED BY <1>2, <2>1 DEF Agrees
<1>3. CASE a # NOTYPE /\ b # NOTYPE /\ a # NOTHING
  <2>1. JoinTypes(a, b) = a
    BY <1>3 DEF JoinTypes
  <2>2. b = a \/ b = NOTHING
    BY <1>3 DEF Conflict
  <2> QED BY <1>3, <2>1, <2>2 DEF Agrees
<1> QED BY <1>1, <1>2, <1>3

(* The tables of types keep what they have.                                *)
Grown(nt, nt2) == \A r \in DOMAIN nt : r \in DOMAIN nt2 /\ nt2[r] = nt[r]

LEMMA GrownTypes ==
  ASSUME NEW nt, NEW nt2, Grown(nt, nt2), NEW S, S \subseteq DOMAIN nt
  PROVE  S \subseteq DOMAIN nt2 /\ TypesIn(S, nt2) = TypesIn(S, nt)
BY DEF Grown, TypesIn

LEMMA TypingLater ==
  ASSUME NEW u, NEW p \in Nat \ {0}, NEW h, NEW R, NEW F, NEW nt, Typing(u, p, h, R, F, nt),
         NEW q \in Nat, p <= q, NEW nt2, Grown(nt, nt2), Before(u, q, nt2)
  PROVE  Typing(u, q, h, R, F, nt2)
<1>1. Sorted(u, q, h)
  <2>1. \A k \in 1 .. Len(h) : h[k] \in 1 .. q - 1
    BY DEF Typing, Sorted
  <2> QED BY <2>1 DEF Typing, Sorted
<1>2. Sound(u, q, h, F)
  <2>1. ReturnsTo(u, p) \subseteq ReturnsTo(u, q)
    BY DEF ReturnsTo
  <2> QED BY <2>1 DEF Typing, Sound
<1>3. Judged(u, h, R, F, nt2)
  <2> SUFFICES ASSUME NEW k \in 1 .. Len(h)
               PROVE  /\ F[h[k]] \subseteq DOMAIN nt2
                      /\ u[h[k]].n \in {"block", "endblock"} => Agrees(TypesIn(F[h[k]], nt2), R[k].type)
    BY DEF Judged
  <2>1. /\ F[h[k]] \subseteq DOMAIN nt
        /\ u[h[k]].n \in {"block", "endblock"} => Agrees(TypesIn(F[h[k]], nt), R[k].type)
    BY DEF Typing, Judged
  <2>2. F[h[k]] \subseteq DOMAIN nt2 /\ TypesIn(F[h[k]], nt2) = TypesIn(F[h[k]], nt)
    BY <2>1, GrownTypes
  <2> QED BY <2>1, <2>2
<1> QED BY <1>1, <1>2, <1>3 DEF Typing

LEMMA TypingDrops ==
  ASSUME NEW u, NEW p \in Nat \ {0}, NEW h, NEW R, NEW F, NEW nt, Typing(u, p, h, R, F, nt),
         NEW k \in 0 .. Len(h), NEW t, WithoutLast(h, k, t), Sorted(u, p, t),
         NEW R2, R2 = SubSeq(R, 1, Len(R) - k)
  PROVE  Typing(u, p, t, R2, F, nt)
<1>0. Stacked(u, h, R)
  BY DEF Typing
<1>1. Stacked(u, t, R2) /\ Same(R, R2, Len(t))
  BY <1>0, StackedDrops, Zenon
<1>21. Len(h) \in Nat /\ Len(t) = Len(h) - k
  BY Zenon DEF WithoutLast
<1>22. PICK l \in Nat : l = Len(t)
  <2>1. PICK m \in Nat : m = Len(h)
    BY <1>21
  <2>2. Len(t) = m - k
    BY <1>21, <2>1, Zenon
  <2>3. k \in 0 .. m
    BY <2>1, Zenon
  <2>4. m - k \in Nat
    BY ONLY <2>1, <2>3
  <2> QED BY <2>2, <2>4, Zenon
<1>2. /\ Len(h) \in Nat /\ Len(t) = Len(h) - k
      /\ \A i \in 1 .. Len(t) : t[i] = h[i] /\ i \in 1 .. Len(h)
  BY DEF WithoutLast
<1>3. Sound(u, p, t, F)
  <2> SUFFICES ASSUME NEW i \in 1 .. Len(t), NEW r \in F[t[i]]
               PROVE  r \in ReturnsTo(u, p) /\ u[t[i]].n \in {"block", "endblock"} /\ IsInner(u, t, i, FctOf(u, r))
    BY DEF Sound
  <2>1. t[i] = h[i] /\ i \in 1 .. Len(h) /\ i \in Nat
    <3>1. i \in Nat
      BY ONLY <1>22, i \in 1 .. Len(t)
    <3> QED BY <1>2, <3>1, Zenon
  <2>2. r \in ReturnsTo(u, p) /\ u[h[i]].n \in {"block", "endblock"} /\ IsInner(u, h, i, FctOf(u, r))
    BY <2>1 DEF Typing, Sound
  <2>3. \A j \in 1 .. i : t[j] = h[j]
    BY <1>2
  <2>4. IsInner(u, t, i, FctOf(u, r))
    BY <2>1, <2>2, <2>3, InnerSame
  <2> QED BY <2>1, <2>2, <2>4
<1>4. Judged(u, t, R2, F, nt)
  BY <1>1, <1>2 DEF Typing, Judged, Same
<1> QED BY <1>1, <1>3, <1>4 DEF Typing

(* A node with the returns it stands for is put on top.                    *)
SameOthers(F, F2, p) == \A o \in 1 .. p - 1 : F2[o] = F[o]
StandsFor(u, p, h2, S, nt2, r) ==
  /\ S \subseteq DOMAIN nt2
  /\ \A f \in S : /\ f \in ReturnsTo(u, p) /\ u[p].n \in {"block", "endblock"}
                  /\ IsInner(u, h2, Len(h2), FctOf(u, f))
  /\ u[p].n \in {"block", "endblock"} => Agrees(TypesIn(S, nt2), r.type)

LEMMA TypingPushes ==
  ASSUME NEW u, NEW p \in Nat \ {0}, NEW h, NEW R, NEW F, NEW nt, Typing(u, p, h, R, F, nt),
         NEW h2, WithLast(h, p, h2), NEW q \in Nat, p < q, Sorted(u, q, h2),
         NEW r, ResultOf(u, p, r), NEW R2, R2 = Append(R, r),
         NEW nt2, Grown(nt, nt2), Before(u, q, nt2),
         NEW F2, SameOthers(F, F2, p), StandsFor(u, p, h2, F2[p], nt2, r)
  PROVE  Typing(u, q, h2, R2, F2, nt2)
<1>a. /\ \A o \in 1 .. p - 1 : F2[o] = F[o]
      /\ F2[p] \subseteq DOMAIN nt2
      /\ \A f \in F2[p] : /\ f \in ReturnsTo(u, p) /\ u[p].n \in {"block", "endblock"}
                          /\ IsInner(u, h2, Len(h2), FctOf(u, f))
      /\ u[p].n \in {"block", "endblock"} => Agrees(TypesIn(F2[p], nt2), r.type)
  BY DEF SameOthers, StandsFor
<1>0. Typing(u, q, h, R, F, nt2)
  BY TypingLater
<1>1. Stacked(u, h2, R2) /\ WithLastResult(R, r, R2, Len(h))
  <2>1. Stacked(u, h, R)
    BY DEF Typing
  <2>2. WithLast(h, p, h2) /\ ResultOf(u, p, r) /\ R2 = Append(R, r)
    OBVIOUS
  <2> QED BY <2>1, <2>2, StackedPushes, Zenon
<1>2. /\ Len(h) \in Nat /\ Len(h2) = Len(h) + 1 /\ h2[Len(h) + 1] = p
      /\ \A i \in 1 .. Len(h) : h2[i] = h[i]
  BY DEF WithLast
<1>3. \A i \in 1 .. Len(h) : F2[h[i]] = F[h[i]]
  BY <1>a DEF Typing, Sorted
<1>4. ReturnsTo(u, p) \subseteq ReturnsTo(u, q)
  BY DEF ReturnsTo
<1>5. Sound(u, q, h2, F2)
  <2> SUFFICES ASSUME NEW i \in 1 .. Len(h2), NEW f \in F2[h2[i]]
               PROVE  f \in ReturnsTo(u, q) /\ u[h2[i]].n \in {"block", "endblock"} /\ IsInner(u, h2, i, FctOf(u, f))
    BY DEF Sound
  <2>1. CASE i = Len(h) + 1
    BY <1>2, <1>4, <1>a, <2>1
  <2>2. CASE i \in 1 .. Len(h)
    <3>1. f \in F[h[i]] /\ i \in Nat /\ h2[i] = h[i]
      BY <1>2, <1>3, <2>2
    <3>2. f \in ReturnsTo(u, q) /\ u[h[i]].n \in {"block", "endblock"} /\ IsInner(u, h, i, FctOf(u, f))
      BY <1>0, <2>2, <3>1 DEF Typing, Sound
    <3>3. \A j \in 1 .. i : h2[j] = h[j]
      BY <1>2, <2>2
    <3>4. IsInner(u, h2, i, FctOf(u, f))
      BY <3>1, <3>2, <3>3, InnerSame
    <3> QED BY <3>1, <3>2, <3>4
  <2> QED BY <1>2, <2>1, <2>2
<1>6. Judged(u, h2, R2, F2, nt2)
  <2> SUFFICES ASSUME NEW i \in 1 .. Len(h2)
               PROVE  /\ F2[h2[i]] \subseteq DOMAIN nt2
                      /\ u[h2[i]].n \in {"block", "endblock"} => Agrees(TypesIn(F2[h2[i]], nt2), R2[i].type)
    BY DEF Judged
  <2>1. CASE i = Len(h) + 1
    BY <1>1, <1>2, <1>a, <2>1 DEF WithLastResult
  <2>2. CASE i \in 1 .. Len(h)
    <3>1. h2[i] = h[i] /\ R2[i] = R[i] /\ F2[h[i]] = F[h[i]]
      BY <1>1, <1>2, <1>3, <2>2 DEF Same, WithLastResult
    <3>2. /\ F[h[i]] \subseteq DOMAIN nt2
          /\ u[h[i]].n \in {"block", "endblock"} => Agrees(TypesIn(F[h[i]], nt2), R[i].type)
      BY <1>0, <2>2 DEF Typing, Judged
    <3> QED BY <3>1, <3>2
  <2>3. i \in 1 .. Len(h) \/ i = Len(h) + 1
    BY <1>2
  <2> QED BY <2>1, <2>2, <2>3
<1> QED BY <1>1, <1>5, <1>6 DEF Typing

(* What returns is joined into the block on top, if there is one.          *)
MayJoin(u, p, h, R, nt, S, type) ==
  /\ ~Clashes(R, type) /\ S \subseteq DOMAIN nt /\ Agrees(TypesIn(S, nt), type)
  /\ \A f \in S : f \in ReturnsTo(u, p) /\ IsInner(u, h, Len(h), FctOf(u, f))
JoinedTo(u, p, h, F, S, F2) ==
  \A o \in 1 .. p - 1 : F2[o] = IF TopIs(u, h, "block") /\ o = h[Len(h)] THEN F[o] \cup S ELSE F[o]

LEMMA TypingJoins ==
  ASSUME NEW u, NEW p \in Nat \ {0}, NEW h, NEW R, NEW F, NEW nt, Typing(u, p, h, R, F, nt),
         NEW S, NEW type, MayJoin(u, p, h, R, nt, S, type),
         NEW R2, R2 = JoinedInto(R, type),
         NEW F2, JoinedTo(u, p, h, F, S, F2)
  PROVE  Typing(u, p, h, R2, F2, nt)
<1>a. /\ \A o \in 1 .. p - 1 : F2[o] = IF TopIs(u, h, "block") /\ o = h[Len(h)] THEN F[o] \cup S ELSE F[o]
      /\ ~Clashes(R, type) /\ S \subseteq DOMAIN nt /\ Agrees(TypesIn(S, nt), type)
      /\ \A f \in S : f \in ReturnsTo(u, p) /\ IsInner(u, h, Len(h), FctOf(u, f))
  BY DEF JoinedTo, MayJoin
<1>1. IsSeq(h) /\ Len(h) \in Nat /\ \A i \in 1 .. Len(h) : h[i] \in 1 .. p - 1
  BY SequenceFacts DEF Typing, Sorted
<1>2. /\ Stacked(u, h, R2)
      /\ \A i \in 1 .. Len(h) :
           R2[i].type = IF TopIs(u, h, "block") /\ i = Len(h) THEN JoinTypes(R[i].type, type) ELSE R[i].type
  BY <1>1, StackedJoins DEF Typing
<1>3. \A i \in 1 .. Len(h) : i # Len(h) => h[i] # h[Len(h)]
  <2> SUFFICES ASSUME NEW i \in 1 .. Len(h), i # Len(h) PROVE h[i] # h[Len(h)]
    OBVIOUS
  <2>1. Len(h) \in 1 .. Len(h) /\ i < Len(h)
    BY <1>1
  <2>2. h[i] < h[Len(h)] /\ h[i] \in 1 .. p - 1 /\ h[Len(h)] \in 1 .. p - 1
    BY <2>1 DEF Typing, Sorted
  <2> QED BY <2>2
<1>4. \A i \in 1 .. Len(h) : F2[h[i]] = IF TopIs(u, h, "block") /\ i = Len(h) THEN F[h[i]] \cup S ELSE F[h[i]]
  BY <1>a, <1>1, <1>3
<1>5. TopIs(u, h, "block") => /\ Len(h) \in 1 .. Len(h) /\ u[h[Len(h)]].n = "block"
                             /\ ~Conflict(R[Len(h)].type, type)
  BY <1>a, <1>1, TopInBlock DEF Typing, Clashes, TopIs
<1>6. Sound(u, p, h, F2)
  <2> SUFFICES ASSUME NEW i \in 1 .. Len(h), NEW f \in F2[h[i]]
               PROVE  f \in ReturnsTo(u, p) /\ u[h[i]].n \in {"block", "endblock"} /\ IsInner(u, h, i, FctOf(u, f))
    BY DEF Sound
  <2>1. CASE f \in F[h[i]]
    BY <2>1 DEF Typing, Sound
  <2>2. CASE f \notin F[h[i]]
    <3>1. f \in S /\ i = Len(h) /\ u[h[i]].n = "block"
      BY <1>4, <1>5, <2>2
    <3> QED BY <1>a, <3>1
  <2> QED BY <2>1, <2>2
<1>7. Judged(u, h, R2, F2, nt)
  <2> SUFFICES ASSUME NEW i \in 1 .. Len(h)
               PROVE  /\ F2[h[i]] \subseteq DOMAIN nt
                      /\ u[h[i]].n \in {"block", "endblock"} => Agrees(TypesIn(F2[h[i]], nt), R2[i].type)
    BY DEF Judged
  <2>0. /\ F[h[i]] \subseteq DOMAIN nt
        /\ u[h[i]].n \in {"block", "endblock"} => Agrees(TypesIn(F[h[i]], nt), R[i].type)
    BY DEF Typing, Judged
  <2>1. CASE ~(TopIs(u, h, "block") /\ i = Len(h))
    <3>1. F2[h[i]] = F[h[i]] /\ R2[i].type = R[i].type
      BY <1>2, <1>4, <2>1
    <3> QED BY <2>0, <3>1
  <2>2. CASE TopIs(u, h, "block") /\ i = Len(h)
    <3>1. F2[h[i]] = F[h[i]] \cup S /\ R2[i].type = JoinTypes(R[i].type, type) /\ ~Conflict(R[i].type, type)
      BY <1>2, <1>4, <1>5, <2>2
    <3>2. Agrees(TypesIn(F[h[i]], nt), R[i].type)
      BY <1>5, <2>0, <2>2
    <3>3. TypesIn(F[h[i]] \cup S, nt) = TypesIn(F[h[i]], nt) \cup TypesIn(S, nt)
      BY DEF TypesIn
    <3>4. Agrees(TypesIn(F[h[i]], nt) \cup TypesIn(S, nt), JoinTypes(R[i].type, type))
      BY <1>a, <3>1, <3>2, AgreesJoins
    <3> QED BY <1>a, <2>0, <3>1, <3>3, <3>4
  <2> QED BY <2>1, <2>2
<1> QED BY <1>2, <1>6, <1>7 DEF Typing

-----------------------------------------------------------------------------
(* Steps over one node, on the nodes that wait and their results.          *)
Visit(u, p, h, R, F, nt) ==
  /\ IsUnit(u) /\ p \in 1 .. Len(u) /\ h = Waiting(u)[p] /\ Stands(u, p, h)
  /\ Typing(u, p, h, R, F, nt) /\ Complete(u, p, h, F)
Rest(u, p, R) == SubSeq(R, 1, Len(R) - Takes(u[p]))

Taken(u, p, h, t) ==
  /\ p \in Nat \ {0} /\ Len(u) \in Nat /\ Len(h) \in Nat /\ Takes(u[p]) \in 0 .. Len(h)
  /\ Len(t) = Len(h) - Takes(u[p]) /\ IsSeq(t) /\ Len(t) \in Nat
  /\ \A i \in 1 .. Len(t) : t[i] = h[i] /\ i \in 1 .. Len(h)
  /\ \A i \in 1 .. Len(h) : h[i] \in 1 .. p - 1
  /\ \A i, j \in 1 .. Len(h) : i < j => h[i] < h[j]
  /\ Sorted(u, p, t)
  /\ Waiting(u)[p + 1] = IF Waits(u[p].n) THEN Append(t, p) ELSE t

LEMMA VisitFacts ==
  ASSUME NEW u, NEW p, NEW h, NEW R, NEW F, NEW nt, Visit(u, p, h, R, F, nt),
         NEW t, t = Left(u, p, h), NEW R0, R0 = Rest(u, p, R)
  PROVE  Taken(u, p, h, t) /\ Typing(u, p, t, R0, F, nt)
<1>0. IsUnit(u) /\ p \in 1 .. Len(u) /\ h = Waiting(u)[p] /\ Stands(u, p, h) /\ Typing(u, p, h, R, F, nt)
  BY DEF Visit
<1>1. /\ p + 1 \in 1 .. Len(u) + 1 /\ Len(u) \in Nat /\ p \in Nat \ {0}
      /\ Sorted(u, p, h) /\ Len(h) \in Nat /\ Takes(u[p]) \in 0 .. Len(h)
      /\ Waiting(u)[p + 1] = IF Waits(u[p].n) THEN Append(Left(u, p, h), p) ELSE Left(u, p, h)
      /\ WithoutLast(h, Takes(u[p]), Left(u, p, h)) /\ Sorted(u, p, Left(u, p, h))
  BY <1>0, WaitingNext, Zenon
<1>2. WithoutLast(h, Takes(u[p]), t) /\ Sorted(u, p, t)
  BY <1>1
<1>4. R0 = SubSeq(R, 1, Len(R) - Takes(u[p]))
  BY DEF Rest
<1>5. Typing(u, p, t, R0, F, nt)
  BY <1>0, <1>1, <1>2, <1>4, TypingDrops, Zenon
<1>6. /\ Len(t) = Len(h) - Takes(u[p]) /\ IsSeq(t) /\ Len(t) \in Nat
      /\ \A i \in 1 .. Len(t) : t[i] = h[i] /\ i \in 1 .. Len(h)
  BY <1>1, <1>2, SequenceFacts DEF WithoutLast, Sorted
<1>7. /\ \A i \in 1 .. Len(h) : h[i] \in 1 .. p - 1
      /\ \A i, j \in 1 .. Len(h) : i < j => h[i] < h[j]
  BY <1>1 DEF Sorted
<1>8. Waiting(u)[p + 1] = IF Waits(u[p].n) THEN Append(t, p) ELSE t
  BY <1>1
<1> QED BY <1>1, <1>2, <1>5, <1>6, <1>7, <1>8 DEF Taken

(* What a node takes off, by its place.                                    *)
LEMMA TakenAre ==
  ASSUME NEW u, NEW p, NEW h, Stands(u, p, h), Len(h) \in Nat
  PROVE  /\ u[p].n \in ExpressionNodes \cup Opens \cup {"var", "return", "bareif"} =>
              \A k \in Len(h) - Takes(u[p]) + 1 .. Len(h) : u[h[k]].n \in ExpressionNodes
         /\ u[p].n = "expr" =>
              \A k \in Len(h) - Takes(u[p]) + 1 .. Len(h) : u[h[k]].n \in ExpressionNodes \cup {"var"}
         /\ u[p].n \in {"if", "while"} =>
              \A k \in Len(h) - Takes(u[p]) + 1 .. Len(h) :
                IF k = Len(h) - Takes(u[p]) + 1 THEN u[h[k]].n \in ExpressionNodes ELSE u[h[k]].n = "endblock"
         /\ u[p].n = "endblock" => Takes(u[p]) = 1 /\ u[h[Len(h)]].n = "block"
         /\ u[p].n = "endmodule" => Takes(u[p]) = 1 /\ u[h[Len(h)]].n = "module"
         /\ u[p].n = "endfunction" => /\ Takes(u[p]) = 2 /\ u[h[Len(h)]].n = "endblock"
                                      /\ u[h[Len(h) - 1]].n = "function"
<1>0. TakesItsParts(u, h, p) /\ Takes(u[p]) \in 0 .. Len(h)
  BY DEF Stands, TakesItsParts
<1>1. \A k \in Len(h) - Takes(u[p]) + 1 .. Len(h) :
        Len(h) - k \in 0 .. Takes(u[p]) - 1 /\ Kind(u, h, Len(h) - k) = u[h[k]].n
  <2> SUFFICES ASSUME NEW k \in Len(h) - Takes(u[p]) + 1 .. Len(h)
               PROVE  Len(h) - k \in 0 .. Takes(u[p]) - 1 /\ Kind(u, h, Len(h) - k) = u[h[k]].n
    OBVIOUS
  <2>1. Len(h) - k \in 0 .. Takes(u[p]) - 1 /\ Len(h) - (Len(h) - k) = k
    BY <1>0
  <2> QED BY <2>1 DEF Kind
<1>2. Kind(u, h, 0) = u[h[Len(h)]].n
  <2>1. Len(h) - 0 = Len(h)
    OBVIOUS
  <2> QED BY <2>1 DEF Kind
<1>3. ASSUME u[p].n \in ExpressionNodes \cup Opens \cup {"var", "return", "bareif"},
             NEW k \in Len(h) - Takes(u[p]) + 1 .. Len(h)
      PROVE  u[h[k]].n \in ExpressionNodes
  <2>1. CASE u[p].n \in {"binary", "assign", "call", "member", "return", "bareif"}
    <3>1. \A j \in 0 .. Takes(u[p]) - 1 : Kind(u, h, j) \in ExpressionNodes
      BY <1>0, <2>1 DEF TakesItsParts
    <3> QED BY <1>1, <3>1
  <2>2. CASE u[p].n \notin {"binary", "assign", "call", "member", "return", "bareif"}
    <3>1. Takes(u[p]) = 0
      BY <1>3, <2>2 DEF Takes, ExpressionNodes, Opens
    <3> QED BY <1>1, <3>1
  <2> QED BY <2>1, <2>2
<1>4. ASSUME u[p].n = "expr", NEW k \in Len(h) - Takes(u[p]) + 1 .. Len(h)
      PROVE  u[h[k]].n \in ExpressionNodes \cup {"var"}
  <2>1. Takes(u[p]) = 1 /\ Kind(u, h, 0) \in ExpressionNodes \cup {"var"}
    BY <1>0, <1>4 DEF TakesItsParts, Takes
  <2>2. k = Len(h)
    BY <2>1
  <2> QED BY <1>2, <2>1, <2>2
<1>5. ASSUME u[p].n \in {"if", "while"}, NEW k \in Len(h) - Takes(u[p]) + 1 .. Len(h)
      PROVE  IF k = Len(h) - Takes(u[p]) + 1 THEN u[h[k]].n \in ExpressionNodes ELSE u[h[k]].n = "endblock"
  <2>1. /\ \A j \in 0 .. Takes(u[p]) - 2 : Kind(u, h, j) = "endblock"
        /\ Kind(u, h, Takes(u[p]) - 1) \in ExpressionNodes
    BY <1>0, <1>5 DEF TakesItsParts
  <2>2. CASE k = Len(h) - Takes(u[p]) + 1
    <3>1. Len(h) - k = Takes(u[p]) - 1
      BY <1>0, <2>2
    <3> QED BY <1>1, <2>1, <2>2, <3>1
  <2>3. CASE k # Len(h) - Takes(u[p]) + 1
    <3>1. Len(h) - k \in 0 .. Takes(u[p]) - 2
      BY <1>0, <2>3
    <3> QED BY <1>1, <2>1, <2>3, <3>1
  <2> QED BY <2>2, <2>3
<1>6. u[p].n = "endblock" => Takes(u[p]) = 1 /\ u[h[Len(h)]].n = "block"
  BY <1>0, <1>2, TakenKinds
<1>7. u[p].n = "endmodule" => Takes(u[p]) = 1 /\ u[h[Len(h)]].n = "module"
  BY <1>0, <1>2, TakenKinds
<1>8. u[p].n = "endfunction" => /\ Takes(u[p]) = 2 /\ u[h[Len(h)]].n = "endblock"
                                /\ u[h[Len(h) - 1]].n = "function"
  BY <1>0, <1>2, TakenKinds DEF Kind
<1> QED BY <1>3, <1>4, <1>5, <1>6, <1>7, <1>8

(* Nothing that is neither a block nor the end of one stands for a return. *)
LEMMA NoReturns ==
  ASSUME NEW u, NEW p, NEW h, NEW R, NEW F, NEW nt, Typing(u, p, h, R, F, nt),
         NEW k \in 1 .. Len(h), u[h[k]].n \notin {"block", "endblock"}
  PROVE  F[h[k]] = {}
BY DEF Typing, Sound

(* A function that waited waits still, or ends.                            *)
Functions(u, h) == {h[k] : k \in {j \in 1 .. Len(h) : u[h[j]].n = "function"}}

WellTyped(u, p, h, R, nt) == \E F : Typing(u, p, h, R, F, nt) /\ Complete(u, p, h, F)
Pushed(u, p, h, R, r, h2, R2) ==
  ResultOf(u, p, r) /\ R2 = Append(Rest(u, p, R), r) /\ h2 = Append(Left(u, p, h), p)
NoneReturns(u, p, q) == \A r \in p .. q - 1 : u[r].n \notin Returning
NothingYet(u, p, r) == u[p].n = "block" => r.type = NOTHING

LEMMA PushStep ==
  ASSUME NEW u, NEW p, NEW h, NEW R, NEW F, NEW nt, Visit(u, p, h, R, F, nt),
         u[p].n \in ExpressionNodes \cup Opens \cup {"var"},
         NEW q \in Nat, p < q, NoneReturns(u, p, q),
         NEW r, NothingYet(u, p, r), NEW R2, NEW h2, Pushed(u, p, h, R, r, h2, R2),
         NEW nt2, Grown(nt, nt2), Before(u, q, nt2)
  PROVE  /\ WellTyped(u, q, h2, R2, nt2)
         /\ Functions(u, h) \subseteq Functions(u, h2)
         /\ u[p].n = "function" => p \in Functions(u, h2)
<1> USE DEF Pushed, NoneReturns, NothingYet
<1>1. PICK t : t = Left(u, p, h)
  OBVIOUS
<1>2. PICK R0 : R0 = Rest(u, p, R)
  OBVIOUS
<1>a. Taken(u, p, h, t) /\ Typing(u, p, t, R0, F, nt)
  BY <1>1, <1>2, VisitFacts, Zenon
<1>3. /\ p \in Nat \ {0} /\ Len(u) \in Nat /\ Len(h) \in Nat /\ Takes(u[p]) \in 0 .. Len(h)
      /\ Len(t) = Len(h) - Takes(u[p]) /\ IsSeq(t) /\ Len(t) \in Nat
      /\ \A i \in 1 .. Len(t) : t[i] = h[i] /\ i \in 1 .. Len(h)
      /\ \A i \in 1 .. Len(h) : h[i] \in 1 .. p - 1
      /\ Sorted(u, p, t) /\ Typing(u, p, t, R0, F, nt)
  BY <1>a DEF Taken
<1>4. Stands(u, p, h) /\ Typing(u, p, h, R, F, nt) /\ Complete(u, p, h, F)
  BY DEF Visit
<1>5. \A k \in Len(t) + 1 .. Len(h) : u[h[k]].n \in ExpressionNodes
  <2>1. u[p].n \in ExpressionNodes \cup Opens \cup {"var", "return", "bareif"}
    OBVIOUS
  <2>2. \A k \in Len(h) - Takes(u[p]) + 1 .. Len(h) : u[h[k]].n \in ExpressionNodes
    BY <1>3, <1>4, <2>1, TakenAre
  <2> QED BY <1>3, <2>2
<1>6. WithLast(t, p, h2) /\ Sorted(u, p + 1, h2)
  <2>1. Sorted(u, p, t) /\ Waits(u[p].n)
    BY <1>3, Kinds
  <2> QED BY <1>1, <1>3, <2>1, HeldAppends, Zenon
<1>7. Len(h2) = Len(t) + 1 /\ h2[Len(t) + 1] = p /\ \A k \in 1 .. Len(t) : h2[k] = t[k]
  BY <1>6 DEF WithLast
<1>8. Sorted(u, q, h2)
  <2>1. \A k \in 1 .. Len(h2) : h2[k] \in 1 .. q - 1
    BY <1>3, <1>6 DEF Sorted
  <2> QED BY <1>6, <2>1 DEF Sorted
<1>9. PICK F2 : F2 = [o \in 1 .. p |-> IF o = p THEN {} ELSE F[o]]
  OBVIOUS
<1>10. F2[p] = {} /\ \A o \in 1 .. p - 1 : F2[o] = F[o]
  BY <1>3, <1>9
<1>11. Typing(u, q, h2, R2, F2, nt2)
  <2>1. SameOthers(F, F2, p)
    BY <1>10 DEF SameOthers
  <2>2. StandsFor(u, p, h2, F2[p], nt2, r)
    <3>1. u[p].n # "endblock"
      BY Kinds DEF ExpressionNodes, Opens
    <3>2. Agrees({}, NOTHING)
      BY NoTypes DEF Agrees
    <3>3. TypesIn({}, nt2) = {}
      BY DEF TypesIn
    <3> QED BY <1>10, <3>1, <3>2, <3>3 DEF StandsFor
  <2>3. R2 = Append(R0, r)
    BY <1>2
  <2> QED BY <1>3, <1>6, <1>8, <2>1, <2>2, <2>3, TypingPushes, Zenon
<1>12. Complete(u, q, h2, F2)
  <2> SUFFICES ASSUME NEW f \in ReturnsTo(u, q), NEW j \in 1 .. Len(h2), h2[j] = FctOf(u, f), u[h2[j]].n = "function"
               PROVE  \E k \in 1 .. Len(h2) : f \in F2[h2[k]]
    BY DEF Complete
  <2>1. f \in 1 .. p - 1 /\ u[f].n \in Returning /\ f \in ReturnsTo(u, p)
    BY <1>3, SMTT(20) DEF ReturnsTo
  <2>2. FctOf(u, f) \in 0 .. f - 1
    BY <2>1, FctOfBefore
  <2>3. j # Len(t) + 1
    BY <1>3, <1>7, <2>1, <2>2
  <2>4. j \in 1 .. Len(t)
    BY <1>3, <1>7, <2>3
  <2>5. j \in 1 .. Len(h) /\ h[j] = h2[j]
    BY <1>3, <1>7, <2>4
  <2>6. PICK k \in 1 .. Len(h) : f \in F[h[k]]
    BY <1>4, <2>1, <2>5 DEF Complete
  <2>7. u[h[k]].n \in {"block", "endblock"}
    BY <1>4, <2>6, NoReturns
  <2>8. k \in 1 .. Len(t)
    <3>1. k \notin Len(t) + 1 .. Len(h)
      BY <1>5, <2>7 DEF ExpressionNodes
    <3> QED BY <1>3, <3>1
  <2>9. k \in 1 .. Len(h2) /\ h2[k] = h[k] /\ F2[h[k]] = F[h[k]]
    <3>1. h2[k] = t[k] /\ t[k] = h[k] /\ h[k] \in 1 .. p - 1
      BY <1>3, <1>7, <2>8
    <3>2. k \in 1 .. Len(h2)
      BY <1>3, <1>7, <2>8
    <3> QED BY <1>10, <3>1, <3>2
  <2> QED BY <2>6, <2>9
<1>13. ASSUME NEW f \in Functions(u, h) PROVE f \in Functions(u, h2)
  <2>1. PICK k \in 1 .. Len(h) : f = h[k] /\ u[h[k]].n = "function"
    BY <1>13 DEF Functions
  <2>2. k \in 1 .. Len(t)
    <3>1. k \notin Len(t) + 1 .. Len(h)
      BY <1>5, <2>1 DEF ExpressionNodes
    <3> QED BY <1>3, <3>1
  <2>3. k \in 1 .. Len(h2)
    BY <1>3, <1>7, <2>2
  <2>4. h2[k] = h[k]
    BY <1>3, <1>7, <2>2
  <2> QED BY <2>1, <2>3, <2>4 DEF Functions
<1>14. u[p].n = "function" => p \in Functions(u, h2)
  <2>1. Len(t) + 1 \in 1 .. Len(h2) /\ h2[Len(t) + 1] = p
    BY <1>3, <1>7
  <2> QED BY <2>1 DEF Functions
<1>15. WellTyped(u, q, h2, R2, nt2)
  BY <1>11, <1>12 DEF WellTyped
<1> QED BY <1>13, <1>14, <1>15

MayPush(u, p, q) ==
  /\ u[p].n \in ExpressionNodes \cup Opens \cup {"var"}
  /\ q \in Nat /\ p < q /\ NoneReturns(u, p, q)
AsPushed(u, p, q, h, h2, R2, nt2) ==
  /\ WellTyped(u, q, h2, R2, nt2)
  /\ Functions(u, h) \subseteq Functions(u, h2)
  /\ u[p].n = "function" => p \in Functions(u, h2)

LEMMA PushSteps ==
  ASSUME NEW u, NEW p, NEW h, NEW R, NEW F, NEW nt, Visit(u, p, h, R, F, nt),
         NEW q, MayPush(u, p, q),
         NEW r, NothingYet(u, p, r), NEW R2, NEW h2, Pushed(u, p, h, R, r, h2, R2),
         NEW nt2, Grown(nt, nt2), Before(u, q, nt2)
  PROVE  AsPushed(u, p, q, h, h2, R2, nt2)
<1>1. u[p].n \in ExpressionNodes \cup Opens \cup {"var"}
  BY DEF MayPush
<1>2. q \in Nat /\ p < q /\ NoneReturns(u, p, q)
  BY DEF MayPush
<1>3. /\ WellTyped(u, q, h2, R2, nt2)
      /\ Functions(u, h) \subseteq Functions(u, h2)
      /\ u[p].n = "function" => p \in Functions(u, h2)
  BY <1>1, <1>2, PushStep, Zenon
<1> QED BY <1>3 DEF AsPushed

(* A node that takes off what stands for no return.                        *)
LEMMA DropStep ==
  ASSUME NEW u, NEW p, NEW h, NEW R, NEW F, NEW nt, Visit(u, p, h, R, F, nt),
         u[p].n \in {"expr", "endmodule"},
         NEW R2, R2 = Rest(u, p, R), NEW h2, h2 = Left(u, p, h)
  PROVE  /\ Typing(u, p + 1, h2, R2, F, nt) /\ Complete(u, p + 1, h2, F)
         /\ Functions(u, h) \subseteq Functions(u, h2)
<1>a. Taken(u, p, h, h2) /\ Typing(u, p, h2, R2, F, nt)
  BY VisitFacts, Zenon
<1>1. /\ p \in Nat \ {0} /\ Len(u) \in Nat /\ Len(h) \in Nat /\ Takes(u[p]) \in 0 .. Len(h)
      /\ Len(h2) = Len(h) - Takes(u[p]) /\ IsSeq(h2) /\ Len(h2) \in Nat
      /\ \A i \in 1 .. Len(h2) : h2[i] = h[i] /\ i \in 1 .. Len(h)
  BY <1>a DEF Taken
<1>2. Stands(u, p, h) /\ Typing(u, p, h, R, F, nt) /\ Complete(u, p, h, F)
  BY DEF Visit
<1>3. \A k \in Len(h2) + 1 .. Len(h) : u[h[k]].n \notin {"block", "endblock", "function"}
  <2>1. CASE u[p].n = "expr"
    <3>1. \A k \in Len(h) - Takes(u[p]) + 1 .. Len(h) : u[h[k]].n \in ExpressionNodes \cup {"var"}
      BY <1>1, <1>2, <2>1, TakenAre
    <3>2. \A k \in Len(h2) + 1 .. Len(h) : u[h[k]].n \in ExpressionNodes \cup {"var"}
      BY <1>1, <3>1
    <3> QED BY <3>2 DEF ExpressionNodes
  <2>2. CASE u[p].n = "endmodule"
    <3>1. Takes(u[p]) = 1 /\ u[h[Len(h)]].n = "module"
      BY <1>1, <1>2, <2>2, TakenAre
    <3>2. \A k \in Len(h2) + 1 .. Len(h) : k = Len(h)
      BY <1>1, <3>1
    <3> QED BY <3>1, <3>2
  <2> QED BY <2>1, <2>2
<1>4. \A k \in 1 .. Len(h) : u[h[k]].n \in {"block", "endblock", "function"} => k \in 1 .. Len(h2)
  <2> SUFFICES ASSUME NEW k \in 1 .. Len(h), u[h[k]].n \in {"block", "endblock", "function"} PROVE k \in 1 .. Len(h2)
    OBVIOUS
  <2>1. k \notin Len(h2) + 1 .. Len(h)
    BY <1>3
  <2> QED BY <1>1, <2>1
<1>5. Typing(u, p + 1, h2, R2, F, nt)
  <2>1. Grown(nt, nt) /\ p + 1 \in Nat /\ p <= p + 1
    BY <1>1 DEF Grown
  <2>2. Before(u, p, nt)
    BY <1>2 DEF Typing
  <2>3. Before(u, p + 1, nt)
    <3> SUFFICES ASSUME NEW q \in DOMAIN nt, u[q].n \in Returning PROVE q < p + 1
      BY <2>2 DEF Before
    <3>1. q < p /\ q \in Nat
      BY <2>2 DEF Before
    <3> QED BY <1>1, <3>1
  <2> QED BY <1>1, <1>a, <2>1, <2>3, TypingLater, Zenon
<1>6. Complete(u, p + 1, h2, F)
  <2> SUFFICES ASSUME NEW f \in ReturnsTo(u, p + 1), NEW j \in 1 .. Len(h2), h2[j] = FctOf(u, f), u[h2[j]].n = "function"
               PROVE  \E k \in 1 .. Len(h2) : f \in F[h2[k]]
    BY DEF Complete
  <2>1. f \in ReturnsTo(u, p)
    <3>1. f \in 1 .. p /\ u[f].n \in Returning
      BY <1>1 DEF ReturnsTo
    <3>2. f # p
      BY <3>1
    <3> QED BY <1>1, <3>1, <3>2 DEF ReturnsTo
  <2>2. j \in 1 .. Len(h) /\ h[j] = h2[j]
    BY <1>1
  <2>3. PICK k \in 1 .. Len(h) : f \in F[h[k]]
    BY <1>2, <2>1, <2>2 DEF Complete
  <2>4. u[h[k]].n \in {"block", "endblock"}
    BY <1>2, <2>3, NoReturns
  <2>5. k \in 1 .. Len(h2)
    BY <1>4, <2>4
  <2>6. h2[k] = h[k]
    BY <1>1, <2>5
  <2> QED BY <2>3, <2>5, <2>6
<1>7. ASSUME NEW f \in Functions(u, h) PROVE f \in Functions(u, h2)
  <2>1. PICK k \in 1 .. Len(h) : f = h[k] /\ u[h[k]].n = "function"
    BY <1>7 DEF Functions
  <2>2. k \in 1 .. Len(h2)
    BY <1>4, <2>1
  <2>3. h2[k] = h[k]
    BY <1>1, <2>2
  <2> QED BY <2>1, <2>2, <2>3 DEF Functions
<1> QED BY <1>5, <1>6, <1>7

-----------------------------------------------------------------------------
(* A node that returns, or whose blocks do: what it takes off and itself   *)
(* stand for the returns S, which the block on top then stands for.        *)
Joins(u, p, h, F, S) ==
  \A r : r \in S <=> \/ r = p /\ u[p].n \in Returning
                     \/ \E k \in Len(h) - Takes(u[p]) + 1 .. Len(h) : r \in F[h[k]]
MayAgree(u, p, R0, nt2, S, type) ==
  ~Clashes(R0, type) /\ S \subseteq DOMAIN nt2 /\ Agrees(TypesIn(S, nt2), type)

LEMMA JoinStep ==
  ASSUME NEW u, NEW p, NEW h, NEW R, NEW F, NEW nt, Visit(u, p, h, R, F, nt),
         u[p].n \in {"return", "bareif", "if", "while"},
         NEW nt2, Grown(nt, nt2), Before(u, p + 1, nt2),
         NEW R0, R0 = Rest(u, p, R), NEW t, t = Left(u, p, h),
         NEW S, Joins(u, p, h, F, S), NEW type, MayAgree(u, p, R0, nt2, S, type),
         NEW R2, R2 = JoinedInto(R0, type)
  PROVE  /\ WellTyped(u, p + 1, t, R2, nt2)
         /\ Functions(u, h) \subseteq Functions(u, t)
<1>a. Taken(u, p, h, t) /\ Typing(u, p, t, R0, F, nt)
  BY VisitFacts, Zenon
<1>1. /\ p \in Nat \ {0} /\ Len(u) \in Nat /\ Len(h) \in Nat /\ Takes(u[p]) \in 0 .. Len(h)
      /\ Len(t) = Len(h) - Takes(u[p]) /\ IsSeq(t) /\ Len(t) \in Nat
      /\ \A i \in 1 .. Len(t) : t[i] = h[i] /\ i \in 1 .. Len(h)
      /\ \A i \in 1 .. Len(h) : h[i] \in 1 .. p - 1
  BY <1>a DEF Taken
<1>2. Stands(u, p, h) /\ Typing(u, p, h, R, F, nt) /\ Complete(u, p, h, F) /\ IsUnit(u) /\ h = Waiting(u)[p]
      /\ p \in 1 .. Len(u) + 1
  BY DEF Visit
<1>3. \A k \in Len(t) + 1 .. Len(h) : u[h[k]].n \in ExpressionNodes \cup {"endblock"}
  <2>1. CASE u[p].n \in Returning
    <3>1. \A k \in Len(h) - Takes(u[p]) + 1 .. Len(h) : u[h[k]].n \in ExpressionNodes
      BY <1>1, <1>2, <2>1, TakenAre
    <3> QED BY <1>1, <3>1
  <2>2. CASE u[p].n \in {"if", "while"}
    <3>1. \A k \in Len(h) - Takes(u[p]) + 1 .. Len(h) :
            IF k = Len(h) - Takes(u[p]) + 1 THEN u[h[k]].n \in ExpressionNodes ELSE u[h[k]].n = "endblock"
      <4>1. Stands(u, p, h) /\ Len(h) \in Nat
        BY <1>1, <1>2
      <4>2. u[p].n \in {"if", "while"} =>
              \A k \in Len(h) - Takes(u[p]) + 1 .. Len(h) :
                IF k = Len(h) - Takes(u[p]) + 1 THEN u[h[k]].n \in ExpressionNodes ELSE u[h[k]].n = "endblock"
        BY ONLY <4>1, TakenAre
      <4> QED BY <2>2, <4>2, Zenon
    <3> QED BY <1>1, <3>1
  <2> QED BY <2>1, <2>2
<1>4. \A k \in Len(t) + 1 .. Len(h) : u[h[k]].n \notin Bodies /\ u[h[k]].n # "function"
  BY <1>3 DEF ExpressionNodes, Bodies
<1>5. \A r : r \in S <=> \/ r = p /\ u[p].n \in Returning
                         \/ \E k \in Len(t) + 1 .. Len(h) : r \in F[h[k]]
  BY <1>1 DEF Joins
<1>6. ASSUME NEW r \in S PROVE r \in ReturnsTo(u, p + 1) /\ IsInner(u, t, Len(t), FctOf(u, r))
  <2>1. PICK l \in Len(t) .. Len(h) : r \in ReturnsTo(u, p + 1) /\ IsInner(u, h, l, FctOf(u, r))
    <3>1. CASE r = p /\ u[p].n \in Returning
      <4>1. IsInner(u, h, Len(h), FctOf(u, r))
        BY <1>2, <3>1, FctOfHere
      <4>2. r \in ReturnsTo(u, p + 1)
        BY <1>1, <3>1 DEF ReturnsTo
      <4>3. Len(h) \in Len(t) .. Len(h)
        BY <1>1
      <4> QED BY <4>1, <4>2, <4>3
    <3>2. CASE \E k \in Len(t) + 1 .. Len(h) : r \in F[h[k]]
      <4>1. PICK k \in Len(t) + 1 .. Len(h) : r \in F[h[k]]
        BY <3>2
      <4>2. k \in 1 .. Len(h) /\ k \in Len(t) .. Len(h)
        BY <1>1
      <4>3. r \in ReturnsTo(u, p) /\ IsInner(u, h, k, FctOf(u, r))
        BY <1>2, <4>1, <4>2 DEF Typing, Sound
      <4>4. r \in ReturnsTo(u, p + 1)
        BY <1>1, <4>3 DEF ReturnsTo
      <4> QED BY <4>2, <4>3, <4>4
    <3> QED BY <1>5, <1>6, <3>1, <3>2
  <2>2. l \in Nat /\ Len(t) <= l /\ \A j \in Len(t) + 1 .. l : u[h[j]].n \notin Bodies
    BY <1>1, <1>4, SMTT(20)
  <2>3. IsInner(u, h, Len(t), FctOf(u, r))
    BY <1>1, <2>1, <2>2, InnerSkips
  <2>4. IsInner(u, t, Len(t), FctOf(u, r))
    BY <1>1, <2>3, InnerSame
  <2> QED BY <2>1, <2>4
<1>7. PICK F2 : F2 = [o \in 1 .. p |-> IF TopIs(u, t, "block") /\ o = t[Len(t)] THEN F[o] \cup S ELSE F[o]]
  OBVIOUS
<1>8. \A o \in 1 .. p : F2[o] = IF TopIs(u, t, "block") /\ o = t[Len(t)] THEN F[o] \cup S ELSE F[o]
  BY <1>7
<1>9. Typing(u, p + 1, t, R2, F2, nt2)
  <2>1. p + 1 \in Nat /\ p <= p + 1 /\ p + 1 \in Nat \ {0}
    BY <1>1
  <2>2. Typing(u, p + 1, t, R0, F, nt2)
    BY <1>1, <1>a, <2>1, TypingLater, Zenon
  <2>3. MayJoin(u, p + 1, t, R0, nt2, S, type)
    BY <1>6 DEF MayJoin, MayAgree
  <2>4. JoinedTo(u, p + 1, t, F, S, F2)
    <3>1. \A o \in 1 .. (p + 1) - 1 : o \in 1 .. p
      BY <1>1
    <3> QED BY <1>8, <3>1 DEF JoinedTo
  <2> QED BY <2>1, <2>2, <2>3, <2>4, TypingJoins, Zenon
<1>10. Complete(u, p + 1, t, F2)
  <2> SUFFICES ASSUME NEW r \in ReturnsTo(u, p + 1), NEW j \in 1 .. Len(t), t[j] = FctOf(u, r), u[t[j]].n = "function"
               PROVE  \E k \in 1 .. Len(t) : r \in F2[t[k]]
    BY DEF Complete
  <2>0. \A i \in 1 .. Len(t) : t[i] \in 1 .. p /\ F[t[i]] \subseteq F2[t[i]]
    <3> SUFFICES ASSUME NEW i \in 1 .. Len(t) PROVE t[i] \in 1 .. p /\ F[t[i]] \subseteq F2[t[i]]
      OBVIOUS
    <3>1. t[i] \in 1 .. p - 1
      BY <1>1
    <3>2. t[i] \in 1 .. p
      BY <1>1, <3>1
    <3> QED BY <1>8, <3>2
  <2>1. CASE r \in S
    <3>1. IsInner(u, t, Len(t), t[j])
      BY <1>6, <2>1
    <3>2. t[j] # 0
      BY <2>0
    <3>3. PICK i \in 1 .. Len(t) : t[j] = t[i] /\ \A l \in i + 1 .. Len(t) : u[t[l]].n \notin Bodies
      BY <3>1, <3>2 DEF IsInner
    <3>4. Len(t) \in 1 .. Len(t) /\ (i = Len(t) \/ Len(t) \in i + 1 .. Len(t))
      BY <1>1
    <3>5. u[t[Len(t)]].n \in {"block", "module"}
      <4>1. Kind(u, h, Takes(u[p])) = u[t[Len(t)]].n
        BY <1>1, <3>4 DEF Kind
      <4>2. Len(h) # Takes(u[p])
        BY <1>1, <3>4
      <4> QED BY <1>2, <4>1, <4>2 DEF Stands, IsOfAList, Statements
    <3>6. u[t[Len(t)]].n # "module"
      <4> SUFFICES ASSUME u[t[Len(t)]].n = "module" PROVE FALSE
        OBVIOUS
      <4>1. i = Len(t)
        BY <3>3, <3>4 DEF Bodies
      <4> QED BY <3>3, <4>1
    <3>7. TopIs(u, t, "block")
      <4>1. t # << >>
        BY <3>4
      <4> QED BY <3>5, <3>6, <4>1 DEF TopIs
    <3>8. r \in F2[t[Len(t)]]
      BY <1>8, <2>0, <2>1, <3>4, <3>7
    <3> QED BY <3>4, <3>8
  <2>2. CASE r \notin S
    <3>1. r \in ReturnsTo(u, p)
      <4>1. r \in 1 .. p /\ u[r].n \in Returning
        BY <1>1 DEF ReturnsTo
      <4>2. r # p
        BY <1>5, <2>2, <4>1
      <4> QED BY <1>1, <4>1, <4>2 DEF ReturnsTo
    <3>2. j \in 1 .. Len(h) /\ h[j] = t[j]
      BY <1>1
    <3>3. PICK k \in 1 .. Len(h) : r \in F[h[k]]
      BY <1>2, <3>1, <3>2 DEF Complete
    <3>4. k \notin Len(t) + 1 .. Len(h)
      BY <1>5, <2>2, <3>3
    <3>5. k \in 1 .. Len(t)
      BY <1>1, <3>4
    <3>6. t[k] = h[k]
      BY <1>1, <3>5
    <3> QED BY <2>0, <3>3, <3>5, <3>6
  <2> QED BY <2>1, <2>2
<1>11. ASSUME NEW f \in Functions(u, h) PROVE f \in Functions(u, t)
  <2>1. PICK k \in 1 .. Len(h) : f = h[k] /\ u[h[k]].n = "function"
    BY <1>11 DEF Functions
  <2>2. k \notin Len(t) + 1 .. Len(h)
    BY <1>4, <2>1
  <2>3. k \in 1 .. Len(t)
    BY <1>1, <2>2
  <2>4. t[k] = h[k]
    BY <1>1, <2>3
  <2> QED BY <2>1, <2>3, <2>4 DEF Functions
<1>12. WellTyped(u, p + 1, t, R2, nt2)
  BY <1>9, <1>10 DEF WellTyped
<1> QED BY <1>11, <1>12

(* A block that is closed stands for its returns.                          *)
SameAsLast(R, r) == r.type = R[Len(R)].type

LEMMA EndBlockStep ==
  ASSUME NEW u, NEW p, NEW h, NEW R, NEW F, NEW nt, Visit(u, p, h, R, F, nt), u[p].n = "endblock",
         NEW r, SameAsLast(R, r), NEW R2, NEW h2, Pushed(u, p, h, R, r, h2, R2),
         NEW nt2, Grown(nt, nt2), Before(u, p + 1, nt2)
  PROVE  /\ WellTyped(u, p + 1, h2, R2, nt2)
         /\ Functions(u, h) \subseteq Functions(u, h2)
<1> USE DEF Pushed, SameAsLast
<1>0. PICK t : t = Left(u, p, h)
  OBVIOUS
<1>b. PICK R0 : R0 = Rest(u, p, R)
  OBVIOUS
<1>a. Taken(u, p, h, t) /\ Typing(u, p, t, R0, F, nt)
  BY <1>0, <1>b, VisitFacts, Zenon
<1>1. /\ p \in Nat \ {0} /\ Len(u) \in Nat /\ Len(h) \in Nat /\ Takes(u[p]) \in 0 .. Len(h)
      /\ Len(t) = Len(h) - Takes(u[p]) /\ IsSeq(t) /\ Len(t) \in Nat
      /\ \A i \in 1 .. Len(t) : t[i] = h[i] /\ i \in 1 .. Len(h)
      /\ \A i \in 1 .. Len(h) : h[i] \in 1 .. p - 1
      /\ Sorted(u, p, t)
  BY <1>a DEF Taken
<1>2. Stands(u, p, h) /\ Typing(u, p, h, R, F, nt) /\ Complete(u, p, h, F)
  BY DEF Visit
<1>3. Takes(u[p]) = 1 /\ u[h[Len(h)]].n = "block"
  BY <1>1, <1>2, TakenAre
<1>4. Len(h) = Len(t) + 1 /\ Len(h) \in 1 .. Len(h)
  BY <1>1, <1>3
<1>5. WithLast(t, p, h2) /\ Sorted(u, p + 1, h2)
  <2>1. Waits(u[p].n)
    BY Kinds
  <2> QED BY <1>0, <1>1, <2>1, HeldAppends, Zenon
<1>6. Len(h2) = Len(t) + 1 /\ h2[Len(t) + 1] = p /\ \A k \in 1 .. Len(t) : h2[k] = t[k]
  BY <1>5 DEF WithLast
<1>7. PICK F2 : F2 = [o \in 1 .. p |-> IF o = p THEN F[h[Len(h)]] ELSE F[o]]
  OBVIOUS
<1>8. F2[p] = F[h[Len(h)]] /\ \A o \in 1 .. p - 1 : F2[o] = F[o]
  BY <1>1, <1>7
<1>9. Typing(u, p + 1, h2, R2, F2, nt2)
  <2>1. SameOthers(F, F2, p)
    BY <1>8 DEF SameOthers
  <2>2. StandsFor(u, p, h2, F2[p], nt2, r)
    <3>1. /\ F[h[Len(h)]] \subseteq DOMAIN nt
          /\ Agrees(TypesIn(F[h[Len(h)]], nt), R[Len(h)].type)
      BY <1>2, <1>3, <1>4 DEF Typing, Judged
    <3>2. /\ F[h[Len(h)]] \subseteq DOMAIN nt2
          /\ TypesIn(F[h[Len(h)]], nt2) = TypesIn(F[h[Len(h)]], nt)
      BY <3>1, GrownTypes
    <3>3. Len(R) = Len(h)
      BY <1>2 DEF Typing, Stacked
    <3>4. ASSUME NEW f \in F[h[Len(h)]]
          PROVE  f \in ReturnsTo(u, p) /\ IsInner(u, h2, Len(h2), FctOf(u, f))
      <4>1. f \in ReturnsTo(u, p) /\ IsInner(u, h, Len(h), FctOf(u, f))
        BY <1>2, <1>4, <3>4 DEF Typing, Sound
      <4>2. \A j \in Len(t) + 1 .. Len(h) : u[h[j]].n \notin Bodies
        BY <1>3, <1>4 DEF Bodies
      <4>3. IsInner(u, h, Len(t), FctOf(u, f))
        <5>1. Len(t) \in Nat /\ Len(h) \in Nat /\ Len(t) <= Len(h)
          BY <1>1, <1>4
        <5> QED BY <4>1, <4>2, <5>1, InnerSkips, Zenon
      <4>4. \A j \in 1 .. Len(t) : h2[j] = h[j]
        BY <1>1, <1>6
      <4>5. IsInner(u, h2, Len(t), FctOf(u, f))
        <5>1. Len(t) \in Nat
          BY <1>1
        <5> QED BY <4>3, <4>4, <5>1, InnerSame, Zenon
      <4>6. \A j \in Len(t) + 1 .. Len(h2) : u[h2[j]].n \notin Bodies
        <5>1. \A j \in Len(t) + 1 .. Len(h2) : j = Len(t) + 1
          BY <1>1, <1>6
        <5> QED BY <1>6, <5>1 DEF Bodies
      <4>7. Len(h2) \in Nat /\ Len(t) <= Len(h2)
        BY <1>1, <1>6, SMTT(20)
      <4>8. IsInner(u, h2, Len(h2), FctOf(u, f))
        BY <1>1, <4>5, <4>6, <4>7, InnerSkips
      <4> QED BY <4>1, <4>8
    <3> QED BY <1>8, <3>1, <3>2, <3>3, <3>4 DEF StandsFor
  <2>3. p + 1 \in Nat /\ p < p + 1
    BY <1>1
  <2>4. R2 = Append(R0, r)
    BY <1>b
  <2> QED BY <1>1, <1>a, <1>5, <2>1, <2>2, <2>3, <2>4, TypingPushes, Zenon
<1>10. Complete(u, p + 1, h2, F2)
  <2> SUFFICES ASSUME NEW f \in ReturnsTo(u, p + 1), NEW j \in 1 .. Len(h2), h2[j] = FctOf(u, f), u[h2[j]].n = "function"
               PROVE  \E k \in 1 .. Len(h2) : f \in F2[h2[k]]
    BY DEF Complete
  <2>1. f \in ReturnsTo(u, p)
    <3>1. f \in 1 .. p /\ u[f].n \in Returning
      BY <1>1 DEF ReturnsTo
    <3>2. f # p
      BY <3>1
    <3> QED BY <1>1, <3>1, <3>2 DEF ReturnsTo
  <2>2. j # Len(t) + 1
    BY <1>6
  <2>3. j \in 1 .. Len(t)
    BY <1>1, <1>6, <2>2
  <2>4. j \in 1 .. Len(h) /\ h[j] = h2[j]
    BY <1>1, <1>6, <2>3
  <2>5. PICK k \in 1 .. Len(h) : f \in F[h[k]]
    BY <1>2, <2>1, <2>4 DEF Complete
  <2>6. CASE k = Len(h)
    <3>1. Len(t) + 1 \in 1 .. Len(h2)
      <4>1. PICK n \in Nat : n = Len(t)
        BY <1>1
      <4>2. PICK m : m = Len(h2)
        OBVIOUS
      <4>3. m = n + 1
        BY <1>6, <4>1, <4>2
      <4>4. n + 1 \in 1 .. m
        BY ONLY <4>3, n \in Nat
      <4> QED BY ONLY <4>1, <4>2, <4>4
    <3>2. f \in F2[h2[Len(t) + 1]]
      BY <1>6, <1>8, <2>5, <2>6
    <3> QED BY <3>1, <3>2
  <2>7. CASE k # Len(h)
    <3>1. k \in 1 .. Len(t)
      BY <1>1, <1>4, <2>7, SMTT(20)
    <3>2. h2[k] = h[k] /\ h[k] \in 1 .. p - 1
      BY <1>1, <1>6, <3>1
    <3>3. k \in 1 .. Len(h2)
      BY <1>1, <1>6, <3>1, SMTT(20)
    <3> QED BY <1>8, <2>5, <3>2, <3>3
  <2> QED BY <2>6, <2>7
<1>11. ASSUME NEW f \in Functions(u, h) PROVE f \in Functions(u, h2)
  <2>1. PICK k \in 1 .. Len(h) : f = h[k] /\ u[h[k]].n = "function"
    BY <1>11 DEF Functions
  <2>2. k # Len(h)
    BY <1>3, <2>1
  <2>3. k \in 1 .. Len(t) /\ k \in 1 .. Len(h2)
    BY <1>1, <1>4, <1>6, <2>2, SMTT(20)
  <2>4. h2[k] = h[k]
    BY <1>1, <1>6, <2>3
  <2> QED BY <2>1, <2>3, <2>4 DEF Functions
<1>12. WellTyped(u, p + 1, h2, R2, nt2)
  BY <1>9, <1>10 DEF WellTyped
<1> QED BY <1>11, <1>12

(* A function that ends: its last block stood for its returns, all of them *)
(* and no others.                                                          *)
ReturnsBefore(u, p, f) == {r \in ReturnsTo(u, p) : FctOf(u, r) = f}
EndsWith(u, p, f, nt, type) ==
  ReturnsBefore(u, p, f) \subseteq DOMAIN nt /\ Agrees(TypesIn(ReturnsBefore(u, p, f), nt), type)

AllBut(u, h, t, f) == \A g \in Functions(u, h) : g = f \/ g \in Functions(u, t)
IsNone(t, f) == \A k \in 1 .. Len(t) : t[k] # f

LEMMA EndFunctionStep ==
  ASSUME NEW u, NEW p, NEW h, NEW R, NEW F, NEW nt, Visit(u, p, h, R, F, nt), u[p].n = "endfunction",
         NEW R0, R0 = Rest(u, p, R), NEW t, t = Left(u, p, h),
         NEW nt2, Grown(nt, nt2), Before(u, p + 1, nt2),
         NEW f, f = h[Len(h) - 1]
  PROVE  /\ Typing(u, p + 1, t, R0, F, nt2) /\ Complete(u, p + 1, t, F)
         /\ AllBut(u, h, t, f) /\ IsNone(t, f)
         /\ f \notin Functions(u, t) /\ f \in 1 .. p - 1 /\ u[f].n = "function"
         /\ Len(h) >= 2
         /\ EndsWith(u, p, f, nt, R[Len(R)].type)
<1> USE DEF AllBut, IsNone
<1>a. Taken(u, p, h, t) /\ Typing(u, p, t, R0, F, nt)
  BY VisitFacts, Zenon
<1>1. /\ p \in Nat \ {0} /\ Len(u) \in Nat /\ Len(h) \in Nat /\ Takes(u[p]) \in 0 .. Len(h)
      /\ Len(t) = Len(h) - Takes(u[p]) /\ IsSeq(t) /\ Len(t) \in Nat
      /\ \A i \in 1 .. Len(t) : t[i] = h[i] /\ i \in 1 .. Len(h)
      /\ \A i \in 1 .. Len(h) : h[i] \in 1 .. p - 1
      /\ \A i, j \in 1 .. Len(h) : i < j => h[i] < h[j]
  BY <1>a DEF Taken
<1>2. Stands(u, p, h) /\ Typing(u, p, h, R, F, nt) /\ Complete(u, p, h, F)
  BY DEF Visit
<1>3. Takes(u[p]) = 2 /\ u[h[Len(h)]].n = "endblock" /\ u[f].n = "function"
  BY <1>1, <1>2, TakenAre
<1>4. Len(h) = Len(t) + 2 /\ Len(h) \in 1 .. Len(h) /\ Len(h) - 1 \in 1 .. Len(h) /\ Len(h) - 1 \in Nat
  BY <1>1, <1>3
<1>t. /\ \A k \in 1 .. Len(t) : k \in 1 .. Len(h) /\ k # Len(h) - 1 /\ t[k] = h[k]
      /\ \A k \in 1 .. Len(h) : k # Len(h) /\ k # Len(h) - 1 => k \in 1 .. Len(t)
  <2>1. PICK l \in Nat : l = Len(h)
    BY <1>1
  <2>2. PICK m \in Nat : m = Len(t)
    BY <1>1
  <2>3. l = m + 2
    BY <1>4, <2>1, <2>2
  <2>4. /\ \A k \in 1 .. m : k \in 1 .. l /\ k # l - 1
        /\ \A k \in 1 .. l : k # l /\ k # l - 1 => k \in 1 .. m
    BY ONLY <2>3, l \in Nat, m \in Nat
  <2>5. \A k \in 1 .. Len(t) : t[k] = h[k]
    BY <1>1
  <2> QED BY ONLY <2>1, <2>2, <2>4, <2>5, Zenon
<1>5. f \in 1 .. p - 1
  BY <1>1, <1>4
<1>6. \A k \in 1 .. Len(h) : h[k] = f => k = Len(h) - 1
  <2> SUFFICES ASSUME NEW k \in 1 .. Len(h), h[k] = f, k # Len(h) - 1 PROVE FALSE
    OBVIOUS
  <2>1. k < Len(h) - 1 \/ Len(h) - 1 < k
    BY <1>4
  <2>2. h[k] < f \/ f < h[k]
    BY <1>1, <1>4, <2>1
  <2> QED BY <1>5, <2>2
<1>7. ASSUME NEW k \in 1 .. Len(h), NEW r \in F[h[k]]
      PROVE  /\ r \in ReturnsTo(u, p)
             /\ FctOf(u, r) = f <=> k = Len(h)
  <2>1. r \in ReturnsTo(u, p) /\ u[h[k]].n \in {"block", "endblock"} /\ IsInner(u, h, k, FctOf(u, r))
    BY <1>2, <1>7 DEF Typing, Sound
  <2>2. k # Len(h) - 1
    BY <1>3, <2>1
  <2>3. ASSUME FctOf(u, r) = f PROVE k = Len(h)
    <3>1. PICK j \in 1 .. k : f = h[j]
      BY <1>5, <2>1, <2>3 DEF IsInner
    <3>2. j \in 1 .. Len(h) /\ j = Len(h) - 1
      BY <1>6, <3>1
    <3> QED BY <1>4, <2>2, <3>2
  <2>4. ASSUME k = Len(h) PROVE FctOf(u, r) = f
    <3>1. \A j \in Len(h) - 1 + 1 .. Len(h) : u[h[j]].n \notin Bodies
      BY <1>3, <1>4 DEF Bodies
    <3>2. IsInner(u, h, Len(h), FctOf(u, r))
      BY <2>1, <2>4
    <3>3. IsInner(u, h, Len(h) - 1, FctOf(u, r))
      <4>1. Len(h) - 1 \in Nat /\ Len(h) \in Nat /\ Len(h) - 1 <= Len(h)
        BY <1>1, <1>4
      <4> QED BY <3>1, <3>2, <4>1, InnerSkips, Zenon
    <3>4. Len(h) - 1 \in 1 .. Len(h) - 1 /\ u[h[Len(h) - 1]].n \in Bodies
      BY <1>3, <1>4 DEF Bodies
    <3>5. PICK j \in 1 .. Len(h) - 1 : FctOf(u, r) = h[j] /\ \A i \in j + 1 .. Len(h) - 1 : u[h[i]].n \notin Bodies
      BY <3>3, <3>4 DEF IsInner
    <3>6. j = Len(h) - 1
      BY <1>4, <3>4, <3>5
    <3> QED BY <3>5, <3>6
  <2> QED BY <2>1, <2>3, <2>4
<1>8. ASSUME NEW r \in ReturnsTo(u, p), NEW j \in 1 .. Len(h), h[j] = FctOf(u, r), u[h[j]].n = "function"
      PROVE  \E k \in 1 .. Len(h) : r \in F[h[k]]
  BY <1>2, <1>8 DEF Complete
<1>9. \A r : r \in ReturnsBefore(u, p, f) <=> r \in F[h[Len(h)]]
  <2>1. ASSUME NEW r \in ReturnsBefore(u, p, f) PROVE r \in F[h[Len(h)]]
    <3>1. r \in ReturnsTo(u, p) /\ FctOf(u, r) = f
      BY <2>1 DEF ReturnsBefore
    <3>2. PICK k \in 1 .. Len(h) : r \in F[h[k]]
      BY <1>3, <1>4, <1>8, <3>1
    <3> QED BY <1>7, <3>1, <3>2
  <2>2. ASSUME NEW r \in F[h[Len(h)]] PROVE r \in ReturnsBefore(u, p, f)
    BY <1>4, <1>7, <2>2 DEF ReturnsBefore
  <2> QED BY <2>1, <2>2
<1>10. EndsWith(u, p, f, nt, R[Len(R)].type)
  <2>1. /\ F[h[Len(h)]] \subseteq DOMAIN nt
        /\ Agrees(TypesIn(F[h[Len(h)]], nt), R[Len(h)].type)
    BY <1>2, <1>3, <1>4 DEF Typing, Judged
  <2>2. Len(R) = Len(h)
    BY <1>2 DEF Typing, Stacked
  <2>3. ReturnsBefore(u, p, f) = F[h[Len(h)]]
    <3>1. PICK A : A = ReturnsBefore(u, p, f)
      OBVIOUS
    <3>2. PICK B : B = F[h[Len(h)]]
      OBVIOUS
    <3>3. \A r : r \in A <=> r \in B
      BY <1>9, <3>1, <3>2
    <3>4. A = B
      BY ONLY <3>3, Zenon
    <3> QED BY <3>1, <3>2, <3>4
  <2> QED BY <2>1, <2>2, <2>3 DEF EndsWith
<1>11. Typing(u, p + 1, t, R0, F, nt2)
  <2>1. p + 1 \in Nat /\ p <= p + 1
    BY <1>1
  <2> QED BY <1>1, <1>a, <2>1, TypingLater, Zenon
<1>12. Complete(u, p + 1, t, F)
  <2> SUFFICES ASSUME NEW r \in ReturnsTo(u, p + 1), NEW j \in 1 .. Len(t), t[j] = FctOf(u, r), u[t[j]].n = "function"
               PROVE  \E k \in 1 .. Len(t) : r \in F[t[k]]
    BY DEF Complete
  <2>1. r \in ReturnsTo(u, p)
    <3>1. r \in 1 .. p /\ u[r].n \in Returning
      BY <1>1 DEF ReturnsTo
    <3>2. r # p
      BY <3>1
    <3> QED BY <1>1, <3>1, <3>2 DEF ReturnsTo
  <2>2. j \in 1 .. Len(h) /\ h[j] = t[j] /\ j # Len(h) - 1
    BY <1>t, Zenon
  <2>3. PICK k \in 1 .. Len(h) : r \in F[h[k]]
    BY <1>8, <2>1, <2>2
  <2>4. FctOf(u, r) # f
    BY <1>6, <2>2
  <2>5. k # Len(h)
    BY <1>7, <2>3, <2>4
  <2>6. k # Len(h) - 1
    <3>1. u[h[k]].n \in {"block", "endblock"}
      BY <1>2, <2>3, NoReturns
    <3> QED BY <1>3, <3>1
  <2>7. k \in 1 .. Len(t)
    BY <1>t, <2>5, <2>6, Zenon
  <2>8. t[k] = h[k]
    BY <1>1, <2>7
  <2> QED BY <2>3, <2>7, <2>8
<1>13. ASSUME NEW g \in Functions(u, h), g # f PROVE g \in Functions(u, t)
  <2>1. PICK k \in 1 .. Len(h) : g = h[k] /\ u[h[k]].n = "function"
    BY <1>13 DEF Functions
  <2>2. k # Len(h) /\ k # Len(h) - 1
    BY <1>3, <1>13, <2>1
  <2>3. k \in 1 .. Len(t)
    BY <1>t, <2>2, Zenon
  <2>4. t[k] = h[k]
    BY <1>1, <2>3
  <2> QED BY <2>1, <2>3, <2>4 DEF Functions
<1>14. \A k \in 1 .. Len(t) : t[k] # f
  <2> SUFFICES ASSUME NEW k \in 1 .. Len(t), t[k] = f PROVE FALSE
    OBVIOUS
  <2>1. k \in 1 .. Len(h) /\ h[k] = f /\ k # Len(h) - 1
    BY <1>t, Zenon
  <2> QED BY <1>6, <2>1
<1>15. f \notin Functions(u, t)
  BY <1>14 DEF Functions
<1>16. Len(h) >= 2
  BY <1>1, <1>4
<1> QED BY <1>3, <1>5, <1>10, <1>11, <1>12, <1>13, <1>14, <1>15, <1>16

-----------------------------------------------------------------------------
(* The type of what returns stands for the returns.                        *)
LEMMA ReturnAgrees ==
  ASSUME NEW u, NEW p, NEW h, NEW R, NEW F, NEW nt, Visit(u, p, h, R, F, nt), u[p].n \in Returning,
         NEW nt2, NEW type, p \in DOMAIN nt2, nt2[p] = type,
         NEW R0, ~Clashes(R0, type)
  PROVE  Joins(u, p, h, F, {p}) /\ MayAgree(u, p, R0, nt2, {p}, type)
<1>1. Typing(u, p, h, R, F, nt) /\ Stands(u, p, h) /\ Len(h) \in Nat /\ Takes(u[p]) \in 0 .. Len(h)
  <2>1. Typing(u, p, h, R, F, nt) /\ Stands(u, p, h)
    BY DEF Visit
  <2> QED BY <2>1 DEF Typing, Stacked, Stands, TakesItsParts
<1>2. \A k \in Len(h) - Takes(u[p]) + 1 .. Len(h) : u[h[k]].n \in ExpressionNodes
  BY <1>1, TakenAre
<1>3. \A k \in Len(h) - Takes(u[p]) + 1 .. Len(h) : F[h[k]] = {}
  <2> SUFFICES ASSUME NEW k \in Len(h) - Takes(u[p]) + 1 .. Len(h) PROVE F[h[k]] = {}
    OBVIOUS
  <2>1. k \in 1 .. Len(h)
    BY <1>1
  <2>2. u[h[k]].n \notin {"block", "endblock"}
    BY <1>2 DEF ExpressionNodes
  <2> QED BY <1>1, <2>1, <2>2, NoReturns
<1>4. Joins(u, p, h, F, {p})
  BY <1>3 DEF Joins
<1>5. TypesIn({p}, nt2) = {type}
  BY DEF TypesIn
<1>6. Agrees({type}, type)
  BY DEF Agrees
<1> QED BY <1>4, <1>5, <1>6 DEF MayAgree

(* Of an `if` or a `while`, the returns of its blocks.                     *)
BlockReturns(u, p, h, F) == UNION {F[h[k]] : k \in Len(h) - Takes(u[p]) + 1 .. Len(h)}
ControlType(node, R) == IF node.hasElse THEN JoinTypes(R[Len(R) - 1].type, R[Len(R) - 0].type) ELSE R[Len(R) - 0].type

LEMMA ControlAgrees ==
  ASSUME NEW u, NEW p, NEW h, NEW R, NEW F, NEW nt, Visit(u, p, h, R, F, nt), u[p].n \in {"if", "while"},
         NEW nt2, Grown(nt, nt2), NEW type, type = ControlType(u[p], R),
         ~(u[p].hasElse /\ Conflict(R[Len(R) - 1].type, R[Len(R) - 0].type)),
         NEW R0, ~Clashes(R0, type)
  PROVE  \E S : Joins(u, p, h, F, S) /\ MayAgree(u, p, R0, nt2, S, type)
<1>1. Typing(u, p, h, R, F, nt) /\ Stands(u, p, h) /\ Len(h) \in Nat /\ Takes(u[p]) \in 0 .. Len(h) /\ Len(R) = Len(h)
  <2>1. Typing(u, p, h, R, F, nt) /\ Stands(u, p, h)
    BY DEF Visit
  <2> QED BY <2>1 DEF Typing, Stacked, Stands, TakesItsParts
<1>2. \A k \in Len(h) - Takes(u[p]) + 1 .. Len(h) :
        IF k = Len(h) - Takes(u[p]) + 1 THEN u[h[k]].n \in ExpressionNodes ELSE u[h[k]].n = "endblock"
  <2>1. u[p].n \in {"if", "while"} =>
              \A k \in Len(h) - Takes(u[p]) + 1 .. Len(h) :
                IF k = Len(h) - Takes(u[p]) + 1 THEN u[h[k]].n \in ExpressionNodes ELSE u[h[k]].n = "endblock"
    BY ONLY <1>1, TakenAre
  <2> QED BY <2>1, Zenon
<1>3. Takes(u[p]) = IF u[p].hasElse THEN 3 ELSE 2
  BY DEF Takes
<1>4. ASSUME NEW k \in 1 .. Len(h), u[h[k]].n = "endblock"
      PROVE  F[h[k]] \subseteq DOMAIN nt2 /\ Agrees(TypesIn(F[h[k]], nt2), R[k].type)
  <2>1. F[h[k]] \subseteq DOMAIN nt /\ Agrees(TypesIn(F[h[k]], nt), R[k].type)
    BY <1>1, <1>4 DEF Typing, Judged
  <2>2. F[h[k]] \subseteq DOMAIN nt2 /\ TypesIn(F[h[k]], nt2) = TypesIn(F[h[k]], nt)
    BY <2>1, GrownTypes
  <2> QED BY <2>1, <2>2
<1>5. PICK l \in Nat : l = Len(h)
  BY <1>1
<1>6. CASE ~u[p].hasElse
  <2>1. Takes(u[p]) = 2 /\ l >= 2 /\ l \in 1 .. l /\ l - 1 \in 1 .. l
    BY <1>1, <1>3, <1>5, <1>6
  <2>2. u[h[l - 1]].n \in ExpressionNodes /\ u[h[l]].n = "endblock"
    BY <1>2, <1>5, <2>1
  <2>3. F[h[l - 1]] = {}
    BY <1>1, <1>5, <2>1, <2>2, NoReturns DEF ExpressionNodes
  <2>4. \A k \in l - 2 + 1 .. l : k = l - 1 \/ k = l
    BY <2>1
  <2>5. Joins(u, p, h, F, F[h[l]])
    <3>1. l \in l - 2 + 1 .. l /\ u[p].n \notin Returning
      BY <2>1
    <3> QED BY <1>5, <2>1, <2>3, <2>4, <3>1 DEF Joins
  <2>6. type = R[l].type
    BY <1>1, <1>5, <1>6 DEF ControlType
  <2>7. MayAgree(u, p, R0, nt2, F[h[l]], type)
    BY <1>4, <1>5, <2>1, <2>2, <2>6 DEF MayAgree
  <2> QED BY <2>5, <2>7
<1>7. CASE u[p].hasElse
  <2>1. Takes(u[p]) = 3 /\ l >= 3 /\ l \in 1 .. l /\ l - 1 \in 1 .. l /\ l - 2 \in 1 .. l
    BY <1>1, <1>3, <1>5, <1>7
  <2>2. u[h[l - 2]].n \in ExpressionNodes /\ u[h[l - 1]].n = "endblock" /\ u[h[l]].n = "endblock"
    BY <1>2, <1>5, <2>1
  <2>3. F[h[l - 2]] = {}
    BY <1>1, <1>5, <2>1, <2>2, NoReturns DEF ExpressionNodes
  <2>4. \A k \in l - 3 + 1 .. l : k = l - 2 \/ k = l - 1 \/ k = l
    BY <2>1
  <2>5. PICK A : A = F[h[l - 1]]
    OBVIOUS
  <2>6. PICK B : B = F[h[l]]
    OBVIOUS
  <2>7. Joins(u, p, h, F, A \cup B)
    <3>1. l \in l - 3 + 1 .. l /\ l - 1 \in l - 3 + 1 .. l /\ u[p].n \notin Returning
      BY <2>1
    <3> QED BY <1>5, <2>1, <2>3, <2>4, <2>5, <2>6, <3>1 DEF Joins
  <2>8. type = JoinTypes(R[l - 1].type, R[l].type) /\ ~Conflict(R[l - 1].type, R[l].type)
    <3>1. l - 0 = l
      BY <2>1
    <3>2. Len(R) = l
      BY <1>1, <1>5
    <3> QED BY <1>7, <3>1, <3>2 DEF ControlType
  <2>9. /\ A \subseteq DOMAIN nt2 /\ Agrees(TypesIn(A, nt2), R[l - 1].type)
        /\ B \subseteq DOMAIN nt2 /\ Agrees(TypesIn(B, nt2), R[l].type)
    BY <1>4, <1>5, <2>1, <2>2, <2>5, <2>6
  <2>10. TypesIn(A \cup B, nt2) = TypesIn(A, nt2) \cup TypesIn(B, nt2)
    BY DEF TypesIn
  <2>11. Agrees(TypesIn(A, nt2) \cup TypesIn(B, nt2), type)
    BY <2>8, <2>9, AgreesJoins
  <2>12. MayAgree(u, p, R0, nt2, A \cup B, type)
    BY <2>9, <2>10, <2>11 DEF MayAgree
  <2> QED BY <2>7, <2>12
<1> QED BY <1>6, <1>7

-----------------------------------------------------------------------------
(* The returns of a function are those that have it around them, with no   *)
(* function or module between; when it ends, all were met.                 *)
ReturnsIn(u, f) == {r \in 1 .. Len(u) : u[r].n \in Returning /\ FctOf(u, r) = f}

LEMMA CloserFacts ==
  ASSUME NEW u, IsUnit(u), NEW o \in 1 .. Len(u), u[o].n \in Opens
  PROVE  CloserOf(u, o) \in o .. Len(u)
<1> DEFINE S == {q \in o .. Len(u) : Count(u, Opens, o, q) = Count(u, Closes, o, q)}
<1>1. Len(u) \in Nat /\ o \in DOMAIN u
  BY DEF IsUnit
<1>2. S # {}
  BY <1>1 DEF IsUnit, Balanced
<1>3. S \subseteq Nat
  BY <1>1
<1>4. CloserOf(u, o) = Min(S)
  BY DEF CloserOf
<1>5. S \subseteq o .. Len(u)
  OBVIOUS
<1> HIDE DEF S
<1> QED BY <1>2, <1>3, <1>4, <1>5, MinIsLeast

LEMMA ReturnsAround ==
  ASSUME NEW u, IsUnit(u), NEW f \in 1 .. Len(u), u[f].n = "function", NEW r \in 1 .. Len(u)
  PROVE  /\ FctOf(u, r) = f => r \in f + 1 .. CloserOf(u, f)
         /\ r \in f + 1 .. CloserOf(u, f) => FctOf(u, r) = Max({g \in RegionsAround(u, r) : g # 0 /\ u[g].n \in {"function", "module"}})
<1>0. /\ Len(u) \in Nat /\ f \in Nat \ {0} /\ r \in Nat \ {0} /\ u[f].n \in Opens /\ u[f].n \in Bodies
      /\ CloserOf(u, f) \in f .. Len(u) /\ CloserOf(u, f) \in Nat
  <2>1. Len(u) \in Nat
    BY DEF IsUnit
  <2>2. CloserOf(u, f) \in f .. Len(u)
    BY CloserFacts DEF Opens
  <2> QED BY <2>1, <2>2 DEF Opens, Bodies
<1>1. ASSUME FctOf(u, r) = f PROVE r \in f + 1 .. CloserOf(u, f)
  <2>1. f \in RegionsAround(u, r)
    BY <1>0, <1>1, FctOfBefore
  <2>2. f \in 1 .. r - 1 /\ CloserOf(u, f) >= r
    BY <1>0, <2>1 DEF RegionsAround
  <2> QED BY <1>0, <2>2
<1>2. ASSUME r \in f + 1 .. CloserOf(u, f)
      PROVE  FctOf(u, r) = Max({g \in RegionsAround(u, r) : g # 0 /\ u[g].n \in {"function", "module"}})
  <2>1. f \in RegionsAround(u, r)
    BY <1>0, <1>2 DEF RegionsAround
  <2> DEFINE S == {g \in RegionsAround(u, r) : g # 0 /\ u[g].n \in {"function", "module"}}
             T == {0} \cup S
  <2>2. FctOf(u, r) = Max(T)
    BY DEF FctOf, Bodies
  <2>3. f \in S /\ S \subseteq T /\ \A x \in T : x \in S \/ x = 0
    BY <1>0, <2>1
  <2>4. T \subseteq 0 .. r - 1 /\ r - 1 \in Nat
    BY <1>0, RegionBounds
  <2>5. \A x \in S : x > 0
    <3>1. \A x \in S : x # 0 /\ x \in 0 .. r - 1
      BY <2>3, <2>4
    <3> QED BY <1>0, <3>1
  <2> HIDE DEF S, T
  <2>6. PICK a : a = Max(T) /\ a \in T /\ \A x \in T : a >= x
    BY <2>3, <2>4, MaxIsGreatest
  <2>7. a \in S
    <3>1. a >= f
      BY <2>3, <2>6
    <3>2. a # 0
      BY <1>0, <3>1
    <3> QED BY <2>3, <2>6, <3>2
  <2>8. S \subseteq 0 .. r - 1 /\ S # {}
    BY <2>3, <2>4
  <2>9. PICK b : b = Max(S) /\ b \in S /\ \A x \in S : b >= x
    BY <2>4, <2>8, MaxIsGreatest
  <2>10. a = b
    <3>1. b >= a /\ a >= b
      BY <2>3, <2>6, <2>7, <2>9
    <3>2. a \in 0 .. r - 1 /\ b \in 0 .. r - 1
      BY <2>7, <2>8, <2>9
    <3> QED BY <3>1, <3>2
  <2>11. FctOf(u, r) = Max(S)
    BY <2>2, <2>6, <2>9, <2>10
  <2> QED BY <2>11 DEF S
<1> QED BY <1>1, <1>2

LEMMA ReturnsMet ==
  ASSUME NEW u, IsUnit(u), NEW p \in 1 .. Len(u), u[p].n \notin Returning, NEW t, t = Waiting(u)[p + 1],
         NEW f \in 1 .. p - 1, u[f].n = "function", IsNone(t, f)
  PROVE  ReturnsIn(u, f) = ReturnsBefore(u, p, f)
<1> USE DEF IsNone
<1>0. Len(u) \in Nat /\ p \in Nat \ {0} /\ f \in 1 .. Len(u) /\ p + 1 \in 1 .. Len(u) + 1 /\ u[f].n \in Opens
  BY DEF IsUnit, Opens
<1>1. f \notin RegionsAround(u, p + 1)
  <2>1. \A o : o \in RegionsAround(u, p + 1) <=> o = 0 \/ \E k \in 1 .. Len(t) : t[k] = o /\ u[o].n \in Opens
    <3>1. PICK q : q = p + 1
      OBVIOUS
    <3>2. q \in 1 .. Len(u) + 1 /\ t = Waiting(u)[q] /\ IsUnit(u)
      BY <1>0, <3>1
    <3>3. \A o : o \in RegionsAround(u, q) <=> o = 0 \/ \E k \in 1 .. Len(t) : t[k] = o /\ u[o].n \in Opens
      BY ONLY <3>2, HeldIsAround, SMTT(20)
    <3> QED BY <3>1, <3>3
  <2>2. f # 0
    BY <1>0
  <2> QED BY <2>1, <2>2, Zenon
<1>2. ~(CloserOf(u, f) >= p + 1) /\ CloserOf(u, f) \in Nat
  <2>1. CloserOf(u, f) \in f .. Len(u)
    BY <1>0, CloserFacts
  <2>2. f \in 1 .. (p + 1) - 1
    BY <1>0
  <2> QED BY <1>0, <1>1, <2>1, <2>2 DEF RegionsAround
<1>3. ASSUME NEW r \in ReturnsIn(u, f) PROVE r \in ReturnsBefore(u, p, f)
  <2>1. r \in 1 .. Len(u) /\ u[r].n \in Returning /\ FctOf(u, r) = f
    BY <1>3 DEF ReturnsIn
  <2>2. r \in f + 1 .. CloserOf(u, f)
    BY <1>0, <2>1, ReturnsAround
  <2>3. r # p
    BY <2>1
  <2>4. r \in 1 .. p - 1
    BY <1>0, <1>2, <2>1, <2>2, <2>3
  <2> QED BY <2>1, <2>4 DEF ReturnsBefore, ReturnsTo
<1>4. ASSUME NEW r \in ReturnsBefore(u, p, f) PROVE r \in ReturnsIn(u, f)
  <2>1. r \in 1 .. p - 1 /\ u[r].n \in Returning /\ FctOf(u, r) = f
    BY <1>4 DEF ReturnsBefore, ReturnsTo
  <2>2. r \in 1 .. Len(u)
    BY <1>0, <2>1
  <2> QED BY <2>1, <2>2 DEF ReturnsIn
<1> QED BY <1>3, <1>4

-----------------------------------------------------------------------------
(* The methods: the unit's top level, that of Core, and one for each       *)
(* function met so far.                                                    *)
MethodsOf(u, p, mm, ms) ==
  /\ IsSeq(mm) /\ Len(mm) >= 2
  /\ \A m \in 1 .. Len(mm) : DOMAIN mm[m] = {"of", "decl", "type"}
  /\ mm[1].of = 0 /\ mm[1].decl = 0 /\ mm[2].of = 3 /\ mm[2].decl = 0
  /\ \A m \in 3 .. Len(mm) : /\ mm[m].decl \in 1 .. p - 1 /\ u[mm[m].decl].n = "function"
                             /\ mm[m].of = BoundTo(ms, mm[m].decl)
  /\ \A m, o \in 3 .. Len(mm) : mm[m].decl = mm[o].decl => m = o
  /\ \A f \in 1 .. p - 1 : u[f].n = "function" => \E m \in 3 .. Len(mm) : mm[m].decl = f

LEMMA MethodsPass ==
  ASSUME NEW u, NEW p \in Nat \ {0}, NEW mm, NEW ms, MethodsOf(u, p, mm, ms), u[p].n # "function",
         NEW ms2, SameBefore(ms, ms2, p)
  PROVE  MethodsOf(u, p + 1, mm, ms2)
<1>1. \A m \in 3 .. Len(mm) : /\ mm[m].decl \in 1 .. (p + 1) - 1 /\ u[mm[m].decl].n = "function"
                              /\ mm[m].of = BoundTo(ms2, mm[m].decl)
  BY DEF MethodsOf, SameBefore
<1>2. \A f \in 1 .. (p + 1) - 1 : u[f].n = "function" => \E m \in 3 .. Len(mm) : mm[m].decl = f
  <2> SUFFICES ASSUME NEW f \in 1 .. (p + 1) - 1, u[f].n = "function" PROVE \E m \in 3 .. Len(mm) : mm[m].decl = f
    OBVIOUS
  <2>1. f # p
    OBVIOUS
  <2>2. f \in 1 .. p - 1
    BY <2>1
  <2> QED BY <2>2 DEF MethodsOf
<1> QED BY <1>1, <1>2 DEF MethodsOf

LEMMA MethodsGrow ==
  ASSUME NEW u, NEW p \in Nat \ {0}, NEW mm, NEW ms, MethodsOf(u, p, mm, ms), u[p].n = "function",
         NEW ms2, SameBefore(ms, ms2, p), NEW mm2, NEW s, BoundTo(ms2, p) = s, mm2 = Append(mm, Method(s, p, NOTYPE))
  PROVE  MethodsOf(u, p + 1, mm2, ms2)
<1>0. PICK e : e = Method(s, p, NOTYPE)
  OBVIOUS
<1>1. DOMAIN e = {"of", "decl", "type"} /\ e.of = s /\ e.decl = p
  BY <1>0 DEF Method
<1>2. PICK l \in Nat : l = Len(mm)
  BY SequenceFacts DEF MethodsOf
<1>3. l >= 2
  BY <1>2 DEF MethodsOf
<1>4. /\ IsSeq(mm2) /\ Len(mm2) = l + 1
      /\ \A i \in 1 .. l : mm2[i] = mm[i]
      /\ mm2[l + 1] = e
  <2>1. IsSeq(mm) /\ mm2 = Append(mm, e)
    BY <1>0 DEF MethodsOf
  <2> QED BY <1>2, <2>1, AppendFacts
<1>5. \A m \in 1 .. l + 1 : m = l + 1 \/ (m \in 1 .. l /\ mm2[m] = mm[m])
  BY <1>4
<1>6. \A m \in 3 .. l + 1 : m = l + 1 \/ (m \in 3 .. l /\ mm2[m] = mm[m])
  BY <1>3, <1>4
<1>7. \A m \in 1 .. l + 1 : DOMAIN mm2[m] = {"of", "decl", "type"}
  BY <1>1, <1>2, <1>4, <1>5 DEF MethodsOf
<1>8. mm2[1].of = 0 /\ mm2[1].decl = 0 /\ mm2[2].of = 3 /\ mm2[2].decl = 0
  <2>1. mm2[1] = mm[1] /\ mm2[2] = mm[2]
    BY <1>3, <1>4
  <2> QED BY <2>1 DEF MethodsOf
<1>9. \A m \in 3 .. l : mm[m].decl \in 1 .. p - 1 /\ u[mm[m].decl].n = "function" /\ mm[m].of = BoundTo(ms, mm[m].decl)
  BY <1>2 DEF MethodsOf
<1>10. ASSUME NEW m \in 3 .. l + 1
       PROVE  mm2[m].decl \in 1 .. p /\ u[mm2[m].decl].n = "function" /\ mm2[m].of = BoundTo(ms2, mm2[m].decl)
  <2>1. CASE m = l + 1
    BY <1>1, <1>4, <2>1
  <2>2. CASE m # l + 1
    <3>1. m \in 3 .. l /\ mm2[m] = mm[m]
      BY <1>6, <2>2
    <3>2. mm[m].decl \in 1 .. p - 1 /\ u[mm[m].decl].n = "function" /\ mm[m].of = BoundTo(ms, mm[m].decl)
      BY <1>9, <3>1
    <3>3. BoundTo(ms2, mm[m].decl) = BoundTo(ms, mm[m].decl) /\ mm[m].decl \in 1 .. p
      BY <3>2 DEF SameBefore
    <3> QED BY <3>1, <3>2, <3>3
  <2> QED BY <2>1, <2>2
<1>11. ASSUME NEW m \in 3 .. l + 1, NEW o \in 3 .. l + 1, mm2[m].decl = mm2[o].decl PROVE m = o
  <2>1. \A i \in 3 .. l : mm[i].decl # p
    BY <1>9
  <2>2. CASE m = l + 1 \/ o = l + 1
    BY <1>1, <1>4, <1>6, <1>11, <2>1, <2>2
  <2>3. CASE m # l + 1 /\ o # l + 1
    BY <1>2, <1>6, <1>11, <2>3 DEF MethodsOf
  <2> QED BY <2>2, <2>3
<1>12. ASSUME NEW f \in 1 .. p, u[f].n = "function" PROVE \E m \in 3 .. l + 1 : mm2[m].decl = f
  <2>1. CASE f = p
    BY <1>1, <1>3, <1>4, <2>1
  <2>2. CASE f # p
    <3>1. f \in 1 .. p - 1
      BY <2>2
    <3>2. PICK m \in 3 .. l : mm[m].decl = f
      BY <1>2, <1>12, <3>1 DEF MethodsOf
    <3>3. m \in 3 .. l + 1 /\ m \in 1 .. l
      BY <1>2
    <3> QED BY <1>4, <3>2, <3>3
  <2> QED BY <2>1, <2>2
<1>13. Len(mm2) = l + 1 /\ Len(mm2) >= 2 /\ (p + 1) - 1 = p
  BY <1>3, <1>4
<1>14. \A m \in 3 .. Len(mm2) : /\ mm2[m].decl \in 1 .. (p + 1) - 1 /\ u[mm2[m].decl].n = "function"
                               /\ mm2[m].of = BoundTo(ms2, mm2[m].decl)
  BY ONLY <1>10, <1>13
<1>15. \A m, o \in 3 .. Len(mm2) : mm2[m].decl = mm2[o].decl => m = o
  BY ONLY <1>11, <1>13
<1>16. \A f \in 1 .. (p + 1) - 1 : u[f].n = "function" => \E m \in 3 .. Len(mm2) : mm2[m].decl = f
  BY ONLY <1>12, <1>13
<1>17. \A m \in 1 .. Len(mm2) : DOMAIN mm2[m] = {"of", "decl", "type"}
  BY ONLY <1>7, <1>13
<1> QED BY ONLY <1>4, <1>8, <1>13, <1>14, <1>15, <1>16, <1>17 DEF MethodsOf

-----------------------------------------------------------------------------
(* The signature of a method whose function was left is true of its        *)
(* returns, and differs from those of the others of the function.          *)
SoundMethod(u, nt, m) ==
  /\ m.type # NOTYPE /\ ReturnsIn(u, m.decl) \subseteq DOMAIN nt
  /\ \/ TypesIn(ReturnsIn(u, m.decl), nt) \subseteq {NOTHING, m.type[3]}
     \/ NOTYPE \in TypesIn(ReturnsIn(u, m.decl), nt) /\ u[m.decl].hasReturnType
Differ(a, b) == (a.of = b.of /\ a.type # NOTYPE /\ b.type # NOTYPE) => a.type[2] # b.type[2]
Signed(u, p, h, mm, nt) ==
  /\ \A m \in 3 .. Len(mm) :
       /\ mm[m].of > 5
       /\ mm[m].decl >= p \/ mm[m].decl \in Functions(u, h) \/ SoundMethod(u, nt, mm[m])
  /\ \A m, o \in 3 .. Len(mm) : m # o => Differ(mm[m], mm[o])
Kept(u, p, q, h, h2) ==
  Functions(u, h) \subseteq Functions(u, h2) /\ \A r \in p .. q - 1 : u[r].n = "function" => r \in Functions(u, h2)

LEMMA SoundLater ==
  ASSUME NEW u, NEW nt, NEW m, SoundMethod(u, nt, m), NEW nt2, Grown(nt, nt2)
  PROVE  SoundMethod(u, nt2, m)
<1>1. PICK S : S = ReturnsIn(u, m.decl)
  OBVIOUS
<1>2. S \subseteq DOMAIN nt
  BY <1>1 DEF SoundMethod
<1>3. S \subseteq DOMAIN nt2 /\ TypesIn(S, nt2) = TypesIn(S, nt)
  BY <1>2, GrownTypes
<1> QED BY <1>1, <1>3 DEF SoundMethod

LEMMA SignedPasses ==
  ASSUME NEW u, Len(u) \in Nat, NEW mm, NEW ms, MethodsOf(u, Len(u) + 1, mm, ms),
         NEW p \in Nat, NEW h, NEW nt, Signed(u, p, h, mm, nt), NEW q \in Nat, p < q,
         NEW h2, Kept(u, p, q, h, h2), NEW nt2, Grown(nt, nt2)
  PROVE  Signed(u, q, h2, mm, nt2)
<1>1. ASSUME NEW m \in 3 .. Len(mm)
      PROVE  mm[m].decl >= q \/ mm[m].decl \in Functions(u, h2) \/ SoundMethod(u, nt2, mm[m])
  <2>1. mm[m].decl \in Nat /\ u[mm[m].decl].n = "function"
    BY <1>1 DEF MethodsOf
  <2>2. CASE mm[m].decl >= p
    <3>1. mm[m].decl >= q \/ mm[m].decl \in p .. q - 1
      BY <2>1, <2>2
    <3> QED BY <2>1, <3>1 DEF Kept
  <2>3. CASE mm[m].decl \in Functions(u, h)
    BY <2>3 DEF Kept
  <2>4. CASE SoundMethod(u, nt, mm[m])
    BY <2>4, SoundLater
  <2> QED BY <2>2, <2>3, <2>4 DEF Signed
<1> QED BY <1>1 DEF Signed

(* A method gets its signature when its function is left.                  *)
NoneAlike(mm, m0, f, sig) ==
  \A m \in 3 .. Len(mm) :
    ~(mm[m].of = mm[m0].of /\ mm[m].decl # f /\ mm[m].type # NOTYPE /\ mm[m].type[2] = sig[2])
GetsType(mm, m0, sig, mm2) == mm2 = [mm EXCEPT ![m0].type = sig]
TrueOf(type, sig, annotated) ==
  sig # NOTYPE /\ type \in {NOTYPE, NOTHING, sig[3]} /\ (type = NOTYPE => annotated)

LEMMA SignedEnds ==
  ASSUME NEW u, Len(u) \in Nat, NEW P, NEW mm, NEW ms, MethodsOf(u, P, mm, ms),
         NEW p \in Nat, NEW h, NEW nt, Signed(u, p, h, mm, nt),
         NEW f, u[p].n # "function", NEW t, AllBut(u, h, t, f),
         NEW m0 \in 3 .. Len(mm), mm[m0].decl = f,
         NEW type, EndsWith(u, p, f, nt, type), ReturnsIn(u, f) = ReturnsBefore(u, p, f),
         NEW sig, TrueOf(type, sig, u[f].hasReturnType), NoneAlike(mm, m0, f, sig),
         NEW mm2, GetsType(mm, m0, sig, mm2), NEW nt2, Grown(nt, nt2)
  PROVE  MethodsOf(u, P, mm2, ms) /\ Signed(u, p + 1, t, mm2, nt2)
<1> USE DEF AllBut, NoneAlike, GetsType, TrueOf
<1>0. PICK l \in Nat : l = Len(mm) /\ DOMAIN mm = 1 .. l
  BY SequenceFacts DEF MethodsOf
<1>a. m0 \in 3 .. l /\ m0 \in 1 .. l
  BY <1>0
<1>b. \A m \in 1 .. l : DOMAIN mm[m] = {"of", "decl", "type"}
  BY <1>0 DEF MethodsOf
<1>1. PICK e : e = [mm[m0] EXCEPT !.type = sig]
  OBVIOUS
<1>2. DOMAIN e = {"of", "decl", "type"} /\ e.of = mm[m0].of /\ e.decl = f /\ e.type = sig
  BY <1>1, <1>a, <1>b
<1>3. /\ mm2 = [i \in 1 .. l |-> mm2[i]] /\ mm2[m0] = e
      /\ \A i \in 1 .. l : i # m0 => mm2[i] = mm[i]
  BY <1>0, <1>1, <1>a
<1>4. IsSeq(mm2) /\ Len(mm2) = l
  BY ONLY <1>3, FunctionIsSequence, l \in Nat, Zenon
<1>5. \A i \in 1 .. l : /\ DOMAIN mm2[i] = {"of", "decl", "type"}
                        /\ mm2[i].of = mm[i].of /\ mm2[i].decl = mm[i].decl
                        /\ mm2[i].type = IF i = m0 THEN sig ELSE mm[i].type
  <2> TAKE i \in 1 .. l
  <2>1. CASE i = m0
    BY <1>2, <1>3, <2>1
  <2>2. CASE i # m0
    BY <1>3, <1>b, <2>2
  <2> QED BY <2>1, <2>2
<1>6. MethodsOf(u, P, mm2, ms)
  <2>1. l >= 2 /\ 1 \in 1 .. l /\ 2 \in 1 .. l
    BY <1>0 DEF MethodsOf
  <2>2. \A i \in 3 .. l : mm2[i].of = mm[i].of /\ mm2[i].decl = mm[i].decl
    BY <1>5
  <2>3. \A m \in 3 .. l : /\ mm2[m].decl \in 1 .. P - 1 /\ u[mm2[m].decl].n = "function"
                          /\ mm2[m].of = BoundTo(ms, mm2[m].decl)
    BY <1>0, <2>2 DEF MethodsOf
  <2>4. \A m, o \in 3 .. l : mm2[m].decl = mm2[o].decl => m = o
    BY <1>0, <2>2 DEF MethodsOf
  <2>5. \A g \in 1 .. P - 1 : u[g].n = "function" => \E m \in 3 .. l : mm2[m].decl = g
    BY <1>0, <2>2 DEF MethodsOf
  <2>6. mm2[1].of = 0 /\ mm2[1].decl = 0 /\ mm2[2].of = 3 /\ mm2[2].decl = 0
    BY <1>5, <2>1 DEF MethodsOf
  <2>7. \A m \in 1 .. l : DOMAIN mm2[m] = {"of", "decl", "type"}
    BY <1>5
  <2> QED BY ONLY <1>4, <2>1, <2>3, <2>4, <2>5, <2>6, <2>7 DEF MethodsOf
<1>7. SoundMethod(u, nt2, mm2[m0])
  <2>1. PICK S : S = ReturnsIn(u, f)
    OBVIOUS
  <2>2. S \subseteq DOMAIN nt /\ Agrees(TypesIn(S, nt), type)
    BY <2>1 DEF EndsWith
  <2>3. S \subseteq DOMAIN nt2 /\ TypesIn(S, nt2) = TypesIn(S, nt)
    BY <2>2, GrownTypes
  <2>4. \/ TypesIn(S, nt2) \subseteq {NOTHING, sig[3]}
        \/ NOTYPE \in TypesIn(S, nt2) /\ u[f].hasReturnType
    BY <2>2, <2>3 DEF Agrees
  <2> QED BY <1>2, <1>3, <2>1, <2>3, <2>4 DEF SoundMethod
<1>8. \A m \in 3 .. l : mm[m].of > 5 /\ (mm[m].decl >= p \/ mm[m].decl \in Functions(u, h) \/ SoundMethod(u, nt, mm[m]))
  BY <1>0 DEF Signed
<1>9. ASSUME NEW m \in 3 .. l
      PROVE  mm2[m].of > 5 /\ (mm2[m].decl >= p + 1 \/ mm2[m].decl \in Functions(u, t) \/ SoundMethod(u, nt2, mm2[m]))
  <2>1. CASE m = m0
    BY <1>2, <1>3, <1>7, <1>8, <2>1
  <2>2. CASE m # m0
    <3>1. mm2[m] = mm[m]
      BY <1>3, <2>2
    <3>2. mm[m].decl # f
      BY <1>0, <1>a, <2>2 DEF MethodsOf
    <3>3. mm[m].decl \in 1 .. P - 1 /\ u[mm[m].decl].n = "function"
      BY <1>0 DEF MethodsOf
    <3>4. mm[m].decl # p /\ mm[m].decl \in Int
      BY <3>3
    <3>5. CASE mm[m].decl >= p
      BY <1>8, <3>1, <3>4, <3>5
    <3>6. CASE mm[m].decl \in Functions(u, h)
      BY <1>8, <3>1, <3>2, <3>6
    <3>7. CASE SoundMethod(u, nt, mm[m])
      BY <1>8, <3>1, <3>7, SoundLater
    <3> QED BY <1>8, <3>5, <3>6, <3>7
  <2> QED BY <2>1, <2>2
<1>10. ASSUME NEW m \in 3 .. l, NEW o \in 3 .. l, m # o PROVE Differ(mm2[m], mm2[o])
  <2>0. m \in 1 .. l /\ o \in 1 .. l
    OBVIOUS
  <2>1. Differ(mm[m], mm[o])
    BY <1>0, <1>10 DEF Signed
  <2>2. mm[m].decl # mm[o].decl
    BY <1>0, <1>10 DEF MethodsOf
  <2>3. \A i \in 3 .. l : ~(mm[i].of = mm[m0].of /\ mm[i].decl # f /\ mm[i].type # NOTYPE /\ mm[i].type[2] = sig[2])
    BY <1>0
  <2>4. CASE m = m0
    <3>1. mm2[m].of = mm[m0].of /\ mm2[m].type = sig /\ mm2[o].of = mm[o].of /\ mm2[o].type = mm[o].type
      BY <1>5, <1>10, <2>0, <2>4
    <3>2. mm[o].decl # f
      BY <2>2, <2>4
    <3> QED BY <2>3, <3>1, <3>2 DEF Differ
  <2>5. CASE o = m0
    <3>1. mm2[o].of = mm[m0].of /\ mm2[o].type = sig /\ mm2[m].of = mm[m].of /\ mm2[m].type = mm[m].type
      BY <1>5, <1>10, <2>0, <2>5
    <3>2. mm[m].decl # f
      BY <2>2, <2>5
    <3> QED BY <2>3, <3>1, <3>2 DEF Differ
  <2>6. CASE m # m0 /\ o # m0
    BY <1>3, <2>0, <2>1, <2>6
  <2> QED BY <2>4, <2>5, <2>6
<1>11. Signed(u, p + 1, t, mm2, nt2)
  <2>1. \A m \in 3 .. Len(mm2) : /\ mm2[m].of > 5
                                 /\ mm2[m].decl >= p + 1 \/ mm2[m].decl \in Functions(u, t) \/ SoundMethod(u, nt2, mm2[m])
    BY <1>4, <1>9
  <2>2. \A m, o \in 3 .. Len(mm2) : m # o => Differ(mm2[m], mm2[o])
    BY <1>4, <1>10
  <2> QED BY ONLY <2>1, <2>2 DEF Signed
<1> QED BY <1>6, <1>11

-----------------------------------------------------------------------------
(* The second walk: the visits under way, and the methods.  It is at a node*)
(* of the tree, or at one of the parameters of the function on top.        *)
AmongParams(u, p, h) ==
  /\ h # << >> /\ Kind(u, h, 0) = "function" /\ HasItsParts(u, h[Len(h)])
  /\ \E k \in 1 .. u[h[Len(h)]].args : p = ParamNode(h[Len(h)], k)

WalksAt(u, p, R, nt, mm, ms) ==
  /\ IsUnit(u) /\ p \in 1 .. Len(u) + 1
  /\ p <= Len(u) => Stands(u, p, Waiting(u)[p]) \/ AmongParams(u, p, Waiting(u)[p])
  /\ WellTyped(u, p, Waiting(u)[p], R, nt)
  /\ MethodsOf(u, Len(u) + 1, mm, ms)
  /\ Signed(u, p, Waiting(u)[p], mm, nt)

Extended(nt, f, nt2) ==
  /\ DOMAIN nt2 = DOMAIN nt \cup DOMAIN f
  /\ \A q \in DOMAIN nt : nt2[q] = nt[q]
  /\ \A q \in DOMAIN f : q \notin DOMAIN nt => nt2[q] = f[q]

LEMMA TableGrows ==
  ASSUME NEW u, NEW p \in Nat, NEW nt, Before(u, p, nt), NEW q \in Nat, p <= q,
         NEW f, DOMAIN f \subseteq Nat, \A i \in DOMAIN f : u[i].n \in Returning => i < q,
         NEW nt2, nt2 = Filled(nt, f)
  PROVE  Grown(nt, nt2) /\ Before(u, q, nt2) /\ Extended(nt, f, nt2)
<1>1. Extended(nt, f, nt2)
  BY DEF Extended, Filled
<1>2. Grown(nt, nt2)
  BY <1>1 DEF Extended, Grown
<1>3. Before(u, q, nt2)
  <2>1. DOMAIN nt2 \subseteq Nat
    BY <1>1 DEF Extended, Before
  <2>2. ASSUME NEW i \in DOMAIN nt2, u[i].n \in Returning PROVE i < q
    <3>1. CASE i \in DOMAIN nt
      <4>1. i < p /\ i \in Nat
        BY <2>2, <3>1 DEF Before
      <4> QED BY <4>1
    <3>2. CASE i \in DOMAIN f
      BY <2>2, <3>2
    <3> QED BY <1>1, <3>1, <3>2 DEF Extended
  <2> QED BY <2>1, <2>2 DEF Before
<1> QED BY <1>1, <1>2, <1>3

LEMMA RestAll ==
  ASSUME NEW R, IsSeq(R), NEW R2, R2 = SubSeq(R, 1, Len(R) - 0)
  PROVE  R2 = R
<1>1. Len(R) \in Nat
  BY SequenceFacts
<1>2. 0 \in 0 .. Len(R)
  BY <1>1
<1>3. IsSeq(R2) /\ Len(R2) = Len(R) - 0 /\ \A i \in 1 .. Len(R) - 0 : R2[i] = R[i]
  BY <1>2, Dropped, Zenon
<1>4. Len(R) - 0 = Len(R)
  BY <1>1
<1>5. Len(R2) = Len(R) /\ \A i \in 1 .. Len(R) : R2[i] = R[i]
  BY <1>3, <1>4
<1> QED BY <1>3, <1>5, SameSequence, Zenon

(* The next node of the tree.                                              *)
LEMMA WalksOn ==
  ASSUME NEW u, NEW p \in 1 .. Len(u), NEW h, NEW R, NEW F, NEW nt, Visit(u, p, h, R, F, nt),
         u[p].n \notin {"var", "function"}, Waits(u[p].n) \/ u[p].n \in Statements,
         NEW h2, h2 = Waiting(u)[p + 1],
         NEW R2, NEW nt2, WellTyped(u, p + 1, h2, R2, nt2),
         NEW mm2, NEW ms, MethodsOf(u, Len(u) + 1, mm2, ms), Signed(u, p + 1, h2, mm2, nt2)
  PROVE  WalksAt(u, p + 1, R2, nt2, mm2, ms)
<1>1. IsUnit(u) /\ h = Waiting(u)[p] /\ Stands(u, p, h)
  BY DEF Visit
<1>2. p + 1 \in 1 .. Len(u) + 1
  BY <1>1 DEF IsUnit
<1>3. p + 1 <= Len(u) => Stands(u, p + 1, h2)
  BY <1>1, VisitsNext
<1> QED BY <1>1, <1>2, <1>3 DEF WalksAt

(* Where the walk goes from a parameter.                                   *)
NextParam(u, f, p) == IF p = ParamNode(f, u[f].args) THEN Body(u, f) ELSE p + 2
PartOfFunction(u, r) == u[r].n \in {"param", "identifier"}
IsParam(u, f, p) == \E k \in 1 .. u[f].args : p = ParamNode(f, k)

LEMMA ParamFacts ==
  ASSUME NEW u, Len(u) \in Nat, NEW f \in Nat, u[f].n = "function", HasItsParts(u, f),
         NEW p, IsParam(u, f, p), NEW q, q = NextParam(u, f, p)
  PROVE  /\ u[p].n = "param" /\ p \in Nat /\ q \in Nat /\ f < p /\ p < q /\ q <= Len(u)
         /\ \A r \in p .. q - 1 : PartOfFunction(u, r)
         /\ IsParam(u, f, q) \/ u[q].n = "block"
<1>1. PICK n \in Nat : n = u[f].args
  BY DEF HasItsParts
<1>2. PICK b : b = Body(u, f)
  OBVIOUS
<1>3. b = f + 2 * n + 1 \/ b = f + 2 * n + 2
  BY <1>1, <1>2 DEF Body
<1>4. /\ b <= Len(u) /\ u[b].n = "block"
      /\ \A r \in f + 1 .. b - 1 : u[r].n = IF \E k \in 1 .. u[f].args : r = ParamNode(f, k) THEN "param" ELSE "identifier"
  BY <1>2 DEF HasItsParts
<1>5. PICK k \in 1 .. n : p = f + 2 * k - 1
  BY <1>1 DEF IsParam, ParamNode
<1>6. p \in f + 1 .. b - 1 /\ p \in Nat /\ f < p
  BY <1>3, <1>5
<1>7. u[p].n = "param"
  BY <1>4, <1>6 DEF IsParam
<1>8. \A r \in f + 1 .. b - 1 : PartOfFunction(u, r)
  BY <1>4 DEF PartOfFunction
<1>9. CASE k = n
  <2>1. q = b
    BY <1>1, <1>2, <1>5, <1>9 DEF NextParam, ParamNode
  <2>2. q \in Nat /\ p < q /\ \A r \in p .. q - 1 : r \in f + 1 .. b - 1
    BY <1>3, <1>5, <1>6, <2>1
  <2> QED BY <1>4, <1>6, <1>7, <1>8, <2>1, <2>2
<1>10. CASE k # n
  <2>1. p # ParamNode(f, u[f].args)
    BY <1>1, <1>5, <1>10 DEF ParamNode
  <2>2. q = p + 2
    BY <2>1 DEF NextParam
  <2>3. k + 1 \in 1 .. n /\ q = f + 2 * (k + 1) - 1
    BY <1>5, <1>10, <2>2
  <2>4. IsParam(u, f, q)
    BY <1>1, <2>3 DEF IsParam, ParamNode
  <2>5. q \in Nat /\ p < q /\ q <= b /\ \A r \in p .. q - 1 : r \in f + 1 .. b - 1
    BY <1>3, <1>5, <1>6, <2>2, <2>3
  <2>6. b \in Nat
    BY <1>3
  <2>7. q <= Len(u)
    BY <1>4, <2>5, <2>6
  <2> QED BY <1>6, <1>7, <1>8, <2>4, <2>5, <2>7
<1> QED BY <1>9, <1>10

LEMMA WalkHas ==
  ASSUME NEW u, NEW p, NEW R, NEW nt, NEW mm, NEW ms, WalksAt(u, p, R, nt, mm, ms), p <= Len(u),
         NEW h, h = Waiting(u)[p]
  PROVE  /\ \E F : Typing(u, p, h, R, F, nt) /\ Complete(u, p, h, F)
         /\ p \in 1 .. Len(u) /\ p \in Nat \ {0} /\ p + 1 \in Nat /\ p < p + 1 /\ Len(u) \in Nat
         /\ IsUnit(u) /\ IsSeq(R) /\ IsSeq(h) /\ Before(u, p, nt)
         /\ MethodsOf(u, Len(u) + 1, mm, ms) /\ Signed(u, p, h, mm, nt)
         /\ Stands(u, p, h) \/ AmongParams(u, p, h)
<1>1. IsUnit(u) /\ p \in 1 .. Len(u) + 1 /\ Len(u) \in Nat
  BY DEF WalksAt, IsUnit
<1>2. p \in 1 .. Len(u) /\ p \in Nat \ {0} /\ p + 1 \in Nat /\ p < p + 1
  BY <1>1
<1>3. PICK F : Typing(u, p, h, R, F, nt) /\ Complete(u, p, h, F)
  BY DEF WalksAt, WellTyped
<1>5. IsSeq(R) /\ IsSeq(h) /\ Before(u, p, nt)
  BY <1>3 DEF Typing, Stacked, Sorted
<1>6. MethodsOf(u, Len(u) + 1, mm, ms) /\ Signed(u, p, h, mm, nt) /\ (Stands(u, p, h) \/ AmongParams(u, p, h))
  BY DEF WalksAt
<1> QED BY <1>1, <1>2, <1>3, <1>5, <1>6

(* The function on top, when the walk is at a parameter.                   *)
LEMMA AtParam ==
  ASSUME NEW u, NEW p, NEW R, NEW nt, NEW mm, NEW ms, WalksAt(u, p, R, nt, mm, ms), p <= Len(u),
         NEW h, h = Waiting(u)[p], AmongParams(u, p, h), NEW f, f = R[Len(R)].node, NEW q, q = NextParam(u, f, p)
  PROVE  /\ f \in Nat /\ f = h[Len(h)] /\ u[f].n = "function" /\ HasItsParts(u, f) /\ IsParam(u, f, p)
         /\ h # << >> /\ Kind(u, h, 0) = "function"
         /\ u[p].n = "param" /\ p \in Nat /\ q \in Nat /\ f < p /\ p < q /\ q <= Len(u)
         /\ \A r \in p .. q - 1 : PartOfFunction(u, r)
         /\ IsParam(u, f, q) \/ u[q].n = "block"
<1>1. /\ \E F : Typing(u, p, h, R, F, nt) /\ Complete(u, p, h, F)
      /\ p \in Nat \ {0} /\ Len(u) \in Nat
  BY WalkHas
<1>2. Sorted(u, p, h) /\ Stacked(u, h, R)
  BY <1>1 DEF Typing
<1>3. Len(h) \in Nat /\ Len(R) = Len(h) /\ IsSeq(h)
  BY <1>2 DEF Sorted, Stacked
<1>4. h # << >> /\ Kind(u, h, 0) = "function" /\ HasItsParts(u, h[Len(h)]) /\ IsParam(u, h[Len(h)], p)
  BY DEF AmongParams, IsParam
<1>5. Len(h) \in 1 .. Len(h) /\ Len(h) - 0 = Len(h)
  <2>1. Len(h) # 0
    BY <1>3, <1>4 DEF IsSeq
  <2> QED BY <1>3, <2>1
<1>6. f = h[Len(h)]
  BY <1>2, <1>3, <1>5 DEF Stacked, ResultOf
<1>7. f \in Nat /\ u[f].n = "function"
  <2>1. f \in 1 .. p - 1
    BY <1>2, <1>5, <1>6 DEF Sorted
  <2> QED BY <1>1, <1>4, <1>5, <1>6, <2>1 DEF Kind
<1>8. /\ u[p].n = "param" /\ p \in Nat /\ q \in Nat /\ f < p /\ p < q /\ q <= Len(u)
      /\ \A r \in p .. q - 1 : PartOfFunction(u, r)
      /\ IsParam(u, f, q) \/ u[q].n = "block"
  BY <1>1, <1>4, <1>6, <1>7, ParamFacts
<1> QED BY <1>4, <1>6, <1>7, <1>8

LEMMA WalksParam ==
  ASSUME NEW u, NEW p, NEW R, NEW nt, NEW mm, NEW ms, WalksAt(u, p, R, nt, mm, ms), p <= Len(u),
         u[p].n = "param", NEW f, f = R[Len(R)].node, NEW q, q = NextParam(u, f, p),
         NEW nt2, Grown(nt, nt2), Before(u, q, nt2)
  PROVE  WalksAt(u, q, R, nt2, mm, ms)
<1>1. PICK h : h = Waiting(u)[p]
  OBVIOUS
<1>2. /\ \E F : Typing(u, p, h, R, F, nt) /\ Complete(u, p, h, F)
      /\ p \in 1 .. Len(u) /\ p \in Nat \ {0} /\ Len(u) \in Nat /\ IsUnit(u)
      /\ MethodsOf(u, Len(u) + 1, mm, ms) /\ Signed(u, p, h, mm, nt)
      /\ Stands(u, p, h) \/ AmongParams(u, p, h)
  BY <1>1, WalkHas
<1>3. AmongParams(u, p, h)
  BY <1>2 DEF Stands, TakesItsParts
<1>4. /\ f \in Nat /\ f = h[Len(h)] /\ u[f].n = "function" /\ HasItsParts(u, f)
      /\ h # << >> /\ Kind(u, h, 0) = "function"
      /\ p \in Nat /\ q \in Nat /\ p < q /\ q <= Len(u)
      /\ \A r \in p .. q - 1 : PartOfFunction(u, r)
      /\ IsParam(u, f, q) \/ u[q].n = "block"
  BY <1>1, <1>3, AtParam
<1>5. PICK F : Typing(u, p, h, R, F, nt) /\ Complete(u, p, h, F)
  BY <1>2
<1>6. Typing(u, q, h, R, F, nt2)
  <2>1. p <= q
    BY <1>4
  <2> QED BY <1>2, <1>4, <1>5, <2>1, TypingLater
<1>7. Complete(u, q, h, F)
  <2>1. \A r \in ReturnsTo(u, q) : r \in ReturnsTo(u, p)
    <3> SUFFICES ASSUME NEW r \in ReturnsTo(u, q) PROVE r \in ReturnsTo(u, p)
      OBVIOUS
    <3>1. r \in 1 .. q - 1 /\ u[r].n \in Returning
      BY DEF ReturnsTo
    <3>2. r \notin p .. q - 1
      BY <1>4, <3>1 DEF PartOfFunction
    <3> QED BY <1>4, <3>1, <3>2 DEF ReturnsTo
  <2> QED BY <1>5, <2>1 DEF Complete
<1>8. Waiting(u)[q] = h
  <2>1. \A r \in p .. q - 1 : InDeclaration(u, h, r)
    BY <1>4 DEF InDeclaration, PartOfFunction
  <2>2. p \in 1 .. Len(u) + 1 /\ q \in p .. Len(u) + 1
    BY <1>2, <1>4
  <2> QED BY <1>1, <1>2, <2>1, <2>2, DeclarationsPass
<1>9. Stands(u, q, h) \/ AmongParams(u, q, h)
  <2>1. CASE IsParam(u, f, q)
    BY <1>4, <2>1 DEF AmongParams, IsParam
  <2>2. CASE u[q].n = "block"
    <3>1. ~InDeclaration(u, h, q)
      BY <1>4, <2>2 DEF InDeclaration
    <3>2. q \in 1 .. Len(u)
      BY <1>2, <1>4
    <3> QED BY <1>2, <1>8, <3>1, <3>2, StandsAt
  <2> QED BY <1>4, <2>1, <2>2
<1>10. Signed(u, q, h, mm, nt2)
  <2>1. \A r \in p .. q - 1 : u[r].n # "function"
    BY <1>4 DEF PartOfFunction
  <2>2. Kept(u, p, q, h, h)
    BY <2>1 DEF Kept
  <2> QED BY <1>2, <1>4, <2>2, SignedPasses
<1>11. WellTyped(u, q, h, R, nt2)
  BY <1>6, <1>7 DEF WellTyped
<1>12. q \in 1 .. Len(u) + 1
  BY <1>2, <1>4
<1> QED BY <1>2, <1>8, <1>9, <1>10, <1>11, <1>12 DEF WalksAt

LEMMA Visiting ==
  ASSUME NEW u, NEW p, NEW R, NEW nt, NEW mm, NEW ms, WalksAt(u, p, R, nt, mm, ms), p <= Len(u),
         u[p].n # "param", NEW h, h = Waiting(u)[p]
  PROVE  /\ \E F : Visit(u, p, h, R, F, nt)
         /\ p \in 1 .. Len(u) /\ p \in Nat \ {0} /\ p + 1 \in Nat /\ p < p + 1 /\ Len(u) \in Nat
         /\ IsUnit(u) /\ IsSeq(R) /\ IsSeq(h) /\ Before(u, p, nt)
         /\ MethodsOf(u, Len(u) + 1, mm, ms) /\ Signed(u, p, h, mm, nt)
<1>1. /\ \E F : Typing(u, p, h, R, F, nt) /\ Complete(u, p, h, F)
      /\ p \in 1 .. Len(u) /\ p \in Nat \ {0} /\ p + 1 \in Nat /\ p < p + 1 /\ Len(u) \in Nat
      /\ IsUnit(u) /\ IsSeq(R) /\ IsSeq(h) /\ Before(u, p, nt)
      /\ MethodsOf(u, Len(u) + 1, mm, ms) /\ Signed(u, p, h, mm, nt)
      /\ Stands(u, p, h) \/ AmongParams(u, p, h)
  BY WalkHas, Zenon
<1>2. ~AmongParams(u, p, h)
  <2>1. PICK f : f = R[Len(R)].node
    OBVIOUS
  <2>2. PICK q : q = NextParam(u, f, p)
    OBVIOUS
  <2> QED BY <2>1, <2>2, AtParam
<1>3. PICK F : Typing(u, p, h, R, F, nt) /\ Complete(u, p, h, F)
  BY <1>1
<1>4. Visit(u, p, h, R, F, nt)
  BY <1>1, <1>2, <1>3 DEF Visit
<1> QED BY <1>1, <1>4

(* Where the list of those that wait goes, node by node.                   *)
LEMMA WaitingThen ==
  ASSUME NEW u, NEW p, NEW h, NEW R, NEW F, NEW nt, Visit(u, p, h, R, F, nt)
  PROVE  Waiting(u)[p + 1] = IF Waits(u[p].n) THEN Append(Left(u, p, h), p) ELSE Left(u, p, h)
<1>1. IsUnit(u) /\ p \in 1 .. Len(u) /\ h = Waiting(u)[p] /\ Stands(u, p, h)
  BY DEF Visit
<1> QED BY <1>1, WaitingNext, Zenon

LEMMA WalksPush ==
  ASSUME NEW u, NEW p, NEW R, NEW nt, NEW mm, NEW ms, WalksAt(u, p, R, nt, mm, ms), p <= Len(u),
         u[p].n \in ExpressionNodes \cup {"block", "module"},
         NEW r, ResultOf(u, p, r), NothingYet(u, p, r), NEW R2, R2 = Append(Rest(u, p, R), r),
         NEW nt2, Grown(nt, nt2), Before(u, p + 1, nt2)
  PROVE  WalksAt(u, p + 1, R2, nt2, mm, ms)
<1>1. PICK h : h = Waiting(u)[p]
  OBVIOUS
<1>2. /\ \E F : Visit(u, p, h, R, F, nt)
      /\ p \in 1 .. Len(u) /\ p \in Nat \ {0} /\ p + 1 \in Nat /\ p < p + 1 /\ Len(u) \in Nat
      /\ IsUnit(u) /\ IsSeq(R) /\ IsSeq(h) /\ Before(u, p, nt)
      /\ MethodsOf(u, Len(u) + 1, mm, ms) /\ Signed(u, p, h, mm, nt)
  <2>1. u[p].n # "param"
    BY DEF ExpressionNodes
  <2> QED BY <1>1, <2>1, Visiting, Zenon
<1>3. PICK F : Visit(u, p, h, R, F, nt)
  BY <1>2
<1>4. PICK h2 : h2 = Append(Left(u, p, h), p)
  OBVIOUS
<1>5. /\ u[p].n \in ExpressionNodes \cup Opens \cup {"var"} /\ Waits(u[p].n)
      /\ u[p].n \notin {"var", "function"} /\ u[p].n \notin Returning
  BY Kinds DEF ExpressionNodes, Opens
<1>6. h2 = Waiting(u)[p + 1]
  BY <1>3, <1>4, <1>5, WaitingThen
<1>7. \A i \in p .. (p + 1) - 1 : u[i].n \notin Returning /\ u[i].n # "function"
  <2>1. \A i \in p .. (p + 1) - 1 : i = p
    BY <1>2
  <2> QED BY <1>5, <2>1
<1>8. /\ WellTyped(u, p + 1, h2, R2, nt2)
      /\ Functions(u, h) \subseteq Functions(u, h2)
  <2>1. NoneReturns(u, p, p + 1)
    BY <1>7 DEF NoneReturns
  <2>2. Pushed(u, p, h, R, r, h2, R2)
    BY <1>4 DEF Pushed
  <2>3. MayPush(u, p, p + 1)
    BY <1>2, <1>5, <2>1 DEF MayPush
  <2>4. AsPushed(u, p, p + 1, h, h2, R2, nt2)
    BY <1>3, <2>2, <2>3, PushSteps, Zenon
  <2> QED BY <2>4 DEF AsPushed
<1>9. Kept(u, p, p + 1, h, h2)
  BY <1>7, <1>8 DEF Kept
<1>10. Signed(u, p + 1, h2, mm, nt2)
  <2>1. p \in Nat
    BY <1>2
  <2> QED BY <1>2, <1>9, <2>1, SignedPasses, Zenon
<1> QED BY <1>2, <1>3, <1>5, <1>6, <1>8, <1>10, WalksOn, Zenon

LEMMA WalksDeclares ==
  ASSUME NEW u, NEW p, NEW R, NEW nt, NEW mm, NEW ms, WalksAt(u, p, R, nt, mm, ms), p <= Len(u),
         u[p].n \in {"var", "function"}, NEW q \in p + 1 .. Len(u),
         DeclaredTo(u, p, q), EndsAt(u, q) \/ (u[p].n = "function" /\ IsParam(u, p, q)),
         NEW r, ResultOf(u, p, r), NEW R2, R2 = Append(R, r),
         NEW nt2, Grown(nt, nt2), Before(u, q, nt2)
  PROVE  WalksAt(u, q, R2, nt2, mm, ms)
<1>1. PICK h : h = Waiting(u)[p]
  OBVIOUS
<1>2. /\ \E F : Visit(u, p, h, R, F, nt)
      /\ p \in 1 .. Len(u) /\ p \in Nat \ {0} /\ p + 1 \in Nat /\ p < p + 1 /\ Len(u) \in Nat
      /\ IsUnit(u) /\ IsSeq(R) /\ IsSeq(h) /\ Before(u, p, nt)
      /\ MethodsOf(u, Len(u) + 1, mm, ms) /\ Signed(u, p, h, mm, nt)
  <2>1. u[p].n # "param"
    BY DEF ExpressionNodes
  <2> QED BY <1>1, <2>1, Visiting, Zenon
<1>3. PICK F : Visit(u, p, h, R, F, nt)
  BY <1>2
<1>4. PICK h2 : h2 = Append(h, p)
  OBVIOUS
<1>5. Takes(u[p]) = 0
  BY DEF Takes
<1>6. h2 = Append(Left(u, p, h), p)
  <2>1. Left(u, p, h) = SubSeq(h, 1, Len(h) - 0)
    BY <1>5 DEF Left
  <2>2. Left(u, p, h) = h
    BY <1>2, <2>1, RestAll, Zenon
  <2> QED BY <1>4, <2>2
<1>7. R2 = Append(Rest(u, p, R), r)
  <2>1. Rest(u, p, R) = SubSeq(R, 1, Len(R) - 0)
    BY <1>5 DEF Rest
  <2>2. Rest(u, p, R) = R
    BY <1>2, <2>1, RestAll, Zenon
  <2> QED BY <2>2
<1>8. Stands(u, p, h)
  BY <1>3 DEF Visit
<1>9. Waiting(u)[q] = h2 /\ (Stands(u, q, h2) \/ AmongParams(u, q, h2))
  <2>1. IsUnit(u) /\ p \in 1 .. Len(u) /\ h = Waiting(u)[p] /\ Stands(u, p, h) /\ h2 = Append(h, p)
    BY <1>1, <1>2, <1>4, <1>8
  <2>2. DeclaresWith(u, p, q)
    BY DEF DeclaresWith
  <2>3. StandsIn(u, q, h2)
    BY <2>1, <2>2, VisitsAfter, Zenon
  <2>4. CASE EndsAt(u, q)
    BY <2>3, <2>4 DEF StandsIn
  <2>5. CASE u[p].n = "function" /\ IsParam(u, p, q)
    <3>1. IsSeq(h) /\ Len(h) \in Nat
      BY <1>2, SequenceFacts
    <3>2. Len(h2) = Len(h) + 1 /\ h2[Len(h) + 1] = p
      BY <1>4, <3>1, AppendFacts
    <3>3. h2 # << >> /\ Len(h2) - 0 = Len(h2) /\ h2[Len(h2)] = p
      BY <3>1, <3>2
    <3>4. HasItsParts(u, p)
      BY <1>8 DEF Stands
    <3>5. AmongParams(u, q, h2)
      BY <2>5, <3>3, <3>4 DEF AmongParams, IsParam, Kind
    <3> QED BY <2>3, <3>5 DEF StandsIn
  <2> QED BY <2>4, <2>5
<1>10. u[p].n \in ExpressionNodes \cup Opens \cup {"var"} /\ NothingYet(u, p, r)
  BY DEF Opens, NothingYet
<1>11. q \in Nat /\ p < q /\ q \in 1 .. Len(u) + 1
  BY <1>2
<1>12. \A i \in p .. q - 1 : u[i].n \notin Returning /\ (i # p => u[i].n # "function")
  <2> SUFFICES ASSUME NEW i \in p .. q - 1 PROVE u[i].n \notin Returning /\ (i # p => u[i].n # "function")
    OBVIOUS
  <2>1. i = p \/ i \in p + 1 .. q - 1
    BY <1>2, <1>11
  <2>2. CASE i = p
    BY <2>2
  <2>3. CASE i \in p + 1 .. q - 1
    BY <2>3 DEF ExpressionNodes, DeclaredTo
  <2> QED BY <2>1, <2>2, <2>3
<1>13. /\ WellTyped(u, q, h2, R2, nt2)
       /\ Functions(u, h) \subseteq Functions(u, h2)
       /\ u[p].n = "function" => p \in Functions(u, h2)
  <2>1. NoneReturns(u, p, q)
    BY <1>12 DEF NoneReturns
  <2>2. Pushed(u, p, h, R, r, h2, R2)
    BY <1>6, <1>7 DEF Pushed
  <2>3. MayPush(u, p, q)
    BY <1>10, <1>11, <2>1 DEF MayPush
  <2>4. AsPushed(u, p, q, h, h2, R2, nt2)
    BY <1>3, <1>10, <2>2, <2>3, PushSteps, Zenon
  <2> QED BY <2>4 DEF AsPushed
<1>14. Kept(u, p, q, h, h2)
  BY <1>12, <1>13 DEF Kept
<1>15. Signed(u, q, h2, mm, nt2)
  <2>1. p \in Nat
    BY <1>2
  <2> QED BY <1>2, <1>11, <1>14, <2>1, SignedPasses, Zenon
<1> QED BY <1>2, <1>9, <1>11, <1>13, <1>15 DEF WalksAt

LEMMA WalksDrop ==
  ASSUME NEW u, NEW p, NEW R, NEW nt, NEW mm, NEW ms, WalksAt(u, p, R, nt, mm, ms), p <= Len(u),
         u[p].n \in {"expr", "endmodule"}, NEW R2, R2 = Rest(u, p, R)
  PROVE  WalksAt(u, p + 1, R2, nt, mm, ms)
<1>1. PICK h : h = Waiting(u)[p]
  OBVIOUS
<1>2. /\ \E F : Visit(u, p, h, R, F, nt)
      /\ p \in 1 .. Len(u) /\ p \in Nat \ {0} /\ p + 1 \in Nat /\ p < p + 1 /\ Len(u) \in Nat
      /\ IsUnit(u) /\ IsSeq(R) /\ IsSeq(h) /\ Before(u, p, nt)
      /\ MethodsOf(u, Len(u) + 1, mm, ms) /\ Signed(u, p, h, mm, nt)
  <2>1. u[p].n # "param"
    BY DEF ExpressionNodes
  <2> QED BY <1>1, <2>1, Visiting, Zenon
<1>3. PICK F : Visit(u, p, h, R, F, nt)
  BY <1>2
<1>4. PICK h2 : h2 = Left(u, p, h)
  OBVIOUS
<1>5. ~Waits(u[p].n) /\ u[p].n \in Statements /\ u[p].n \notin {"var", "function"}
  BY DEF Waits, ExpressionNodes, Opens, Statements
<1>6. h2 = Waiting(u)[p + 1]
  BY <1>3, <1>4, <1>5, WaitingThen
<1>7. /\ Typing(u, p + 1, h2, R2, F, nt) /\ Complete(u, p + 1, h2, F)
      /\ Functions(u, h) \subseteq Functions(u, h2)
  BY <1>3, <1>4, DropStep, Zenon
<1>8. Kept(u, p, p + 1, h, h2)
  <2>1. \A i \in p .. (p + 1) - 1 : i = p
    BY <1>2
  <2>2. u[p].n # "function"
    BY <1>5
  <2> QED BY <1>7, <2>1, <2>2 DEF Kept
<1>9. Signed(u, p + 1, h2, mm, nt)
  <2>1. p \in Nat /\ Grown(nt, nt)
    BY <1>2 DEF Grown
  <2> QED BY <1>2, <1>8, <2>1, SignedPasses, Zenon
<1>10. WellTyped(u, p + 1, h2, R2, nt)
  BY <1>7 DEF WellTyped
<1> QED BY <1>2, <1>3, <1>5, <1>6, <1>9, <1>10, WalksOn, Zenon

LEMMA WalksJoin ==
  ASSUME NEW u, NEW p, NEW R, NEW nt, NEW mm, NEW ms, WalksAt(u, p, R, nt, mm, ms), p <= Len(u),
         u[p].n \in {"return", "bareif", "if", "while"},
         NEW R0, R0 = Rest(u, p, R), NEW nt2, Grown(nt, nt2), Before(u, p + 1, nt2),
         NEW type, ~Clashes(R0, type),
         u[p].n \in Returning => p \in DOMAIN nt2 /\ nt2[p] = type,
         u[p].n \notin Returning => /\ type = ControlType(u[p], R)
                              /\ ~(u[p].hasElse /\ Conflict(R[Len(R) - 1].type, R[Len(R) - 0].type)),
         NEW R2, R2 = JoinedInto(R0, type)
  PROVE  WalksAt(u, p + 1, R2, nt2, mm, ms)
<1>1. PICK h : h = Waiting(u)[p]
  OBVIOUS
<1>2. /\ \E F : Visit(u, p, h, R, F, nt)
      /\ p \in 1 .. Len(u) /\ p \in Nat \ {0} /\ p + 1 \in Nat /\ p < p + 1 /\ Len(u) \in Nat
      /\ IsUnit(u) /\ IsSeq(R) /\ IsSeq(h) /\ Before(u, p, nt)
      /\ MethodsOf(u, Len(u) + 1, mm, ms) /\ Signed(u, p, h, mm, nt)
  <2>1. u[p].n # "param"
    BY DEF ExpressionNodes
  <2> QED BY <1>1, <2>1, Visiting, Zenon
<1>3. PICK F : Visit(u, p, h, R, F, nt)
  BY <1>2
<1>4. PICK t : t = Left(u, p, h)
  OBVIOUS
<1>5. ~Waits(u[p].n) /\ u[p].n \in Statements /\ u[p].n \notin {"var", "function"}
  BY DEF Waits, ExpressionNodes, Opens, Statements
<1>6. t = Waiting(u)[p + 1]
  BY <1>3, <1>4, <1>5, WaitingThen
<1>7. \E S : Joins(u, p, h, F, S) /\ MayAgree(u, p, R0, nt2, S, type)
  <2>1. CASE u[p].n \in Returning
    BY <1>3, <2>1, ReturnAgrees
  <2>2. CASE u[p].n \notin Returning
    <3>1. /\ u[p].n \in {"if", "while"} /\ type = ControlType(u[p], R)
          /\ ~(u[p].hasElse /\ Conflict(R[Len(R) - 1].type, R[Len(R) - 0].type))
      BY <2>2
    <3> QED BY <1>3, <3>1, ControlAgrees, Zenon
  <2> QED BY <2>1, <2>2
<1>8. PICK S : Joins(u, p, h, F, S) /\ MayAgree(u, p, R0, nt2, S, type)
  BY <1>7
<1>9. /\ WellTyped(u, p + 1, t, R2, nt2)
      /\ Functions(u, h) \subseteq Functions(u, t)
  BY <1>3, <1>4, <1>8, JoinStep
<1>10. Kept(u, p, p + 1, h, t)
  <2>1. \A i \in p .. (p + 1) - 1 : i = p
    BY <1>2
  <2>2. u[p].n # "function"
    BY <1>5
  <2> QED BY <1>9, <2>1, <2>2 DEF Kept
<1>11. Signed(u, p + 1, t, mm, nt2)
  <2>1. p \in Nat
    BY <1>2
  <2> QED BY <1>2, <1>10, <2>1, SignedPasses, Zenon
<1> QED BY <1>2, <1>3, <1>5, <1>6, <1>9, <1>11, WalksOn, Zenon

LEMMA WalksEndBlock ==
  ASSUME NEW u, NEW p, NEW R, NEW nt, NEW mm, NEW ms, WalksAt(u, p, R, nt, mm, ms), p <= Len(u),
         u[p].n = "endblock", NEW r, ResultOf(u, p, r), SameAsLast(R, r),
         NEW R2, R2 = Append(Rest(u, p, R), r), NEW nt2, Grown(nt, nt2), Before(u, p + 1, nt2)
  PROVE  WalksAt(u, p + 1, R2, nt2, mm, ms)
<1>1. PICK h : h = Waiting(u)[p]
  OBVIOUS
<1>2. /\ \E F : Visit(u, p, h, R, F, nt)
      /\ p \in 1 .. Len(u) /\ p \in Nat \ {0} /\ p + 1 \in Nat /\ p < p + 1 /\ Len(u) \in Nat
      /\ IsUnit(u) /\ IsSeq(R) /\ IsSeq(h) /\ Before(u, p, nt)
      /\ MethodsOf(u, Len(u) + 1, mm, ms) /\ Signed(u, p, h, mm, nt)
  <2>1. u[p].n # "param"
    BY DEF ExpressionNodes
  <2> QED BY <1>1, <2>1, Visiting, Zenon
<1>3. PICK F : Visit(u, p, h, R, F, nt)
  BY <1>2
<1>4. PICK h2 : h2 = Append(Left(u, p, h), p)
  OBVIOUS
<1>5. Waits(u[p].n) /\ u[p].n \notin {"var", "function"}
  BY Kinds
<1>6. h2 = Waiting(u)[p + 1]
  BY <1>3, <1>4, <1>5, WaitingThen
<1>7. /\ WellTyped(u, p + 1, h2, R2, nt2)
      /\ Functions(u, h) \subseteq Functions(u, h2)
  <2>1. Pushed(u, p, h, R, r, h2, R2)
    BY <1>4 DEF Pushed
  <2>2. Visit(u, p, h, R, F, nt) /\ u[p].n = "endblock" /\ SameAsLast(R, r) /\ Grown(nt, nt2)
    BY <1>3
  <2>3. Before(u, p + 1, nt2)
    OBVIOUS
  <2> QED BY ONLY <2>1, <2>2, <2>3, EndBlockStep
<1>8. Kept(u, p, p + 1, h, h2)
  <2>1. \A i \in p .. (p + 1) - 1 : i = p
    BY <1>2
  <2>2. u[p].n # "function"
    BY <1>5
  <2> QED BY <1>7, <2>1, <2>2 DEF Kept
<1>9. Signed(u, p + 1, h2, mm, nt2)
  <2>1. p \in Nat
    BY <1>2
  <2> QED BY <1>2, <1>8, <2>1, SignedPasses, Zenon
<1> QED BY <1>2, <1>3, <1>5, <1>6, <1>7, <1>9, WalksOn, Zenon

(* The function that is left, its method, and what its signature must be.  *)
LEMMA FunctionLeft ==
  ASSUME NEW u, NEW p, NEW R, NEW nt, NEW mm, NEW ms, WalksAt(u, p, R, nt, mm, ms), p <= Len(u),
         u[p].n = "endfunction", NEW f, f = R[Len(R) - 1].node
  PROVE  /\ f \in 1 .. p - 1 /\ u[f].n = "function" /\ \E m \in 3 .. Len(mm) : mm[m].decl = f
         /\ f = Waiting(u)[p][Len(Waiting(u)[p]) - 1]
<1>1. PICK h : h = Waiting(u)[p]
  OBVIOUS
<1>2. /\ \E F : Visit(u, p, h, R, F, nt)
      /\ p \in 1 .. Len(u) /\ p \in Nat \ {0} /\ p + 1 \in Nat /\ p < p + 1 /\ Len(u) \in Nat
      /\ IsUnit(u) /\ IsSeq(R) /\ IsSeq(h) /\ Before(u, p, nt)
      /\ MethodsOf(u, Len(u) + 1, mm, ms) /\ Signed(u, p, h, mm, nt)
  <2>1. u[p].n # "param"
    BY DEF ExpressionNodes
  <2> QED BY <1>1, <2>1, Visiting, Zenon
<1>3. PICK F : Visit(u, p, h, R, F, nt)
  BY <1>2
<1>4. Stacked(u, h, R) /\ Sorted(u, p, h) /\ Stands(u, p, h)
  BY <1>3 DEF Visit, Typing
<1>5. Len(h) \in Nat /\ Len(R) = Len(h)
  BY <1>4 DEF Stacked
<1>6. Takes(u[p]) = 2 /\ Takes(u[p]) \in 0 .. Len(h) /\ u[h[Len(h) - 1]].n = "function"
  BY <1>4, <1>5, TakenAre DEF Stands, TakesItsParts
<1>7. Len(h) - 1 \in 1 .. Len(h)
  BY <1>5, <1>6
<1>8. f = h[Len(h) - 1]
  BY <1>4, <1>5, <1>7 DEF Stacked, ResultOf
<1>9. f \in 1 .. p - 1 /\ u[f].n = "function"
  BY <1>4, <1>6, <1>7, <1>8 DEF Sorted
<1>10. f \in 1 .. (Len(u) + 1) - 1
  BY <1>2, <1>9
<1>11. \E m \in 3 .. Len(mm) : mm[m].decl = f
  BY <1>2, <1>9, <1>10 DEF MethodsOf
<1> QED BY <1>1, <1>8, <1>9, <1>11

LEMMA WalksEndFunction ==
  ASSUME NEW u, NEW p, NEW R, NEW nt, NEW mm, NEW ms, WalksAt(u, p, R, nt, mm, ms), p <= Len(u),
         u[p].n = "endfunction", NEW f, f = R[Len(R) - 1].node,
         NEW m0 \in 3 .. Len(mm), mm[m0].decl = f,
         NEW sig, TrueOf(R[Len(R)].type, sig, u[f].hasReturnType), NoneAlike(mm, m0, f, sig),
         NEW mm2, GetsType(mm, m0, sig, mm2),
         NEW R2, R2 = Rest(u, p, R), NEW nt2, Grown(nt, nt2), Before(u, p + 1, nt2)
  PROVE  WalksAt(u, p + 1, R2, nt2, mm2, ms)
<1>1. PICK h : h = Waiting(u)[p]
  OBVIOUS
<1>2. /\ \E F : Visit(u, p, h, R, F, nt)
      /\ p \in 1 .. Len(u) /\ p \in Nat \ {0} /\ p + 1 \in Nat /\ p < p + 1 /\ Len(u) \in Nat
      /\ IsUnit(u) /\ IsSeq(R) /\ IsSeq(h) /\ Before(u, p, nt)
      /\ MethodsOf(u, Len(u) + 1, mm, ms) /\ Signed(u, p, h, mm, nt)
  <2>1. u[p].n # "param"
    BY DEF ExpressionNodes
  <2> QED BY <1>1, <2>1, Visiting, Zenon
<1>3. PICK F : Visit(u, p, h, R, F, nt)
  BY <1>2
<1>4. PICK t : t = Left(u, p, h)
  OBVIOUS
<1>5. ~Waits(u[p].n) /\ u[p].n \in Statements /\ u[p].n \notin {"var", "function"} /\ u[p].n \notin Returning
  BY DEF Waits, ExpressionNodes, Opens, Statements
<1>6. t = Waiting(u)[p + 1]
  BY <1>3, <1>4, <1>5, WaitingThen
<1>7. f = h[Len(h) - 1]
  BY <1>1, FunctionLeft
<1>8. /\ Typing(u, p + 1, t, R2, F, nt2) /\ Complete(u, p + 1, t, F)
      /\ AllBut(u, h, t, f) /\ IsNone(t, f)
      /\ f \notin Functions(u, t) /\ f \in 1 .. p - 1 /\ u[f].n = "function"
      /\ Len(h) >= 2
      /\ EndsWith(u, p, f, nt, R[Len(R)].type)
  BY <1>3, <1>4, <1>7, EndFunctionStep
<1>9. ReturnsIn(u, f) = ReturnsBefore(u, p, f)
  BY <1>2, <1>5, <1>6, <1>8, ReturnsMet, Zenon
<1>10. MethodsOf(u, Len(u) + 1, mm2, ms) /\ Signed(u, p + 1, t, mm2, nt2)
  <2>1. p \in Nat /\ u[p].n # "function"
    BY <1>2, <1>5
  <2> QED BY <1>2, <1>8, <1>9, <2>1, SignedEnds, Zenon
<1>11. WellTyped(u, p + 1, t, R2, nt2)
  BY <1>8 DEF WellTyped
<1> QED BY <1>2, <1>3, <1>5, <1>6, <1>10, <1>11, WalksOn, Zenon

-----------------------------------------------------------------------------
(* The invariant of the second walk, and its steps.                        *)
TypeWalk == WalksAt(unit, pos, results, m_node_types, m_methods, m_node_symbls)
TableTo(q) == Grown(m_node_types, m_node_types') /\ Before(unit, q, m_node_types')
NamesKept == UNCHANGED <<unit, m_methods, m_node_symbls>>

LEMMA TypeWalkAt ==
  ASSUME TypeWalk, pos <= Len(unit)
  PROVE  Before(unit, pos, m_node_types) /\ pos \in Nat /\ pos \in 1 .. Len(unit) /\ Len(unit) \in Nat
<1>1. PICK h : h = Waiting(unit)[pos]
  OBVIOUS
<1> QED BY <1>1, WalkHas DEF TypeWalk

LEMMA TypeWalkFacts ==
  ASSUME TypeWalk, pos <= Len(unit), unit[pos].n # "param"
  PROVE  /\ IsUnit(unit) /\ Len(unit) \in Nat /\ pos \in 1 .. Len(unit) /\ pos \in Nat \ {0} /\ pos + 1 \in Nat
         /\ Before(unit, pos, m_node_types)
         /\ IsSeq(results)
         /\ \E F : Visit(unit, pos, Waiting(unit)[pos], results, F, m_node_types)
         /\ MethodsOf(unit, Len(unit) + 1, m_methods, m_node_symbls)
<1>1. PICK h : h = Waiting(unit)[pos]
  OBVIOUS
<1> QED BY <1>1, Visiting DEF TypeWalk

LEMMA TableSame ==
  ASSUME TypeWalk, pos <= Len(unit), m_node_types' = m_node_types, NEW q \in Nat, pos < q
  PROVE  TableTo(q)
<1>1. Before(unit, pos, m_node_types) /\ pos \in Nat
  BY TypeWalkAt
<1>2. Before(unit, q, m_node_types)
  BY <1>1 DEF Before
<1> QED BY <1>2 DEF TableTo, Grown

LEMMA TableFilled ==
  ASSUME TypeWalk, pos <= Len(unit), NEW q \in Nat, pos < q,
         NEW f, m_node_types' = Filled(m_node_types, f),
         \A i \in DOMAIN f : i \in Nat /\ (unit[i].n \in Returning => i < q)
  PROVE  TableTo(q) /\ Extended(m_node_types, f, m_node_types')
<1>1. Before(unit, pos, m_node_types) /\ pos \in Nat /\ pos <= q
  BY TypeWalkAt
<1>2. PICK nt : nt = m_node_types
  OBVIOUS
<1>3. PICK nt2 : nt2 = m_node_types'
  OBVIOUS
<1>4. DOMAIN f \subseteq Nat /\ \A i \in DOMAIN f : unit[i].n \in Returning => i < q
  OBVIOUS
<1>5. Before(unit, pos, nt) /\ nt2 = Filled(nt, f)
  BY <1>1, <1>2, <1>3
<1>6. Grown(nt, nt2) /\ Before(unit, q, nt2) /\ Extended(nt, f, nt2)
  BY <1>1, <1>4, <1>5, TableGrows
<1> QED BY <1>2, <1>3, <1>6 DEF TableTo

LEMMA TableSet ==
  ASSUME TypeWalk, pos <= Len(unit), NEW q \in Nat, pos < q, NEW ps, NEW type, SetTypes(ps, type),
         \A i \in ps : i \in Nat /\ (unit[i].n \in Returning => i < q)
  PROVE  TableTo(q) /\ \A i \in ps : i \in DOMAIN m_node_types' /\ (i \in DOMAIN m_node_types \/ m_node_types'[i] = type)
<1>1. PICK f : f = [i \in ps |-> type]
  OBVIOUS
<1>2. DOMAIN f = ps /\ \A i \in ps : f[i] = type
  BY <1>1
<1>3. m_node_types' = Filled(m_node_types, f)
  BY <1>1 DEF SetTypes
<1>4. TableTo(q) /\ Extended(m_node_types, f, m_node_types')
  BY <1>2, <1>3, TableFilled
<1> QED BY <1>2, <1>4 DEF Extended

LEMMA Made ==
  ASSUME NEW of, NEW type, of = OfKind(unit[pos].n)
  PROVE  ResultOf(unit, pos, Result(of, type)) /\ Result(of, type).type = type
BY DEF ResultOf, Result

LEMMA Pushes ==
  ASSUME TypeWalk, pos <= Len(unit), unit[pos].n \in ExpressionNodes \cup {"block", "module"},
         NEW of, NEW type, of = OfKind(unit[pos].n), unit[pos].n = "block" => type = NOTHING,
         NEW k, k = Takes(unit[pos]), results' = Append(Without(k), Result(of, type)),
         TableTo(pos + 1), pos' = pos + 1, NamesKept
  PROVE  TypeWalk'
<1>1. PICK r : r = Result(of, type)
  OBVIOUS
<1>2. ResultOf(unit, pos, r) /\ NothingYet(unit, pos, r)
  BY <1>1, Made DEF NothingYet
<1>3. PICK nt2 : nt2 = m_node_types'
  OBVIOUS
<1>4. PICK R2 : R2 = results'
  OBVIOUS
<1>5. R2 = Append(Rest(unit, pos, results), r) /\ Grown(m_node_types, nt2) /\ Before(unit, pos + 1, nt2)
  BY <1>1, <1>3, <1>4 DEF Rest, Without, TableTo
<1>6. WalksAt(unit, pos + 1, R2, nt2, m_methods, m_node_symbls)
  BY <1>2, <1>5, WalksPush DEF TypeWalk
<1> QED BY <1>3, <1>4, <1>6 DEF TypeWalk, NamesKept

LEMMA TypeLiteralStep ==
  ASSUME TypeWalk, TypeLiteral
  PROVE  TypeWalk'
<1>1. pos <= Len(unit) /\ unit[pos].n = "literal"
  BY DEF TypeLiteral, At
<1>2. pos \in Nat /\ pos + 1 \in Nat /\ pos < pos + 1
  BY <1>1, TypeWalkFacts
<1>3. TableTo(pos + 1)
  <2>1. SetTypes({pos}, INT) /\ \A i \in {pos} : i \in Nat /\ (unit[i].n \in Returning => i < pos + 1)
    BY <1>2 DEF TypeLiteral
  <2> QED BY <1>1, <1>2, <2>1, TableSet
<1>4. 0 = Takes(unit[pos]) /\ results' = Append(Without(0), Result("value", INT))
  BY <1>1 DEF Takes, TypeLiteral, Gives
<1>5. unit[pos].n \in ExpressionNodes \cup {"block", "module"} /\ "value" = OfKind(unit[pos].n) /\ unit[pos].n # "block"
  BY <1>1 DEF ExpressionNodes, OfKind, Opens
<1>6. pos' = pos + 1 /\ NamesKept
  BY DEF TypeLiteral, Forward, svars, NamesKept
<1> QED BY <1>1, <1>3, <1>4, <1>5, <1>6, Pushes

LEMMA TypeIdentifierStep ==
  ASSUME TypeWalk, TypeIdentifier
  PROVE  TypeWalk'
<1>1. pos <= Len(unit) /\ unit[pos].n = "identifier"
  BY DEF TypeIdentifier, At
<1>2. pos \in Nat /\ pos + 1 \in Nat /\ pos < pos + 1
  BY <1>1, TypeWalkFacts
<1>3. PICK ps \in SUBSET {pos} : \E type : SetTypes(ps, type) /\ Gives(0, type)
  BY DEF TypeIdentifier
<1>4. PICK type : SetTypes(ps, type) /\ Gives(0, type)
  BY <1>3
<1>5. TableTo(pos + 1)
  <2>1. \A i \in ps : i \in Nat /\ (unit[i].n \in Returning => i < pos + 1)
    BY <1>2, <1>3
  <2> QED BY <1>1, <1>2, <1>4, <2>1, TableSet
<1>6. 0 = Takes(unit[pos]) /\ results' = Append(Without(0), Result("value", type))
  BY <1>1, <1>4 DEF Takes, Gives
<1>7. unit[pos].n \in ExpressionNodes \cup {"block", "module"} /\ "value" = OfKind(unit[pos].n) /\ unit[pos].n # "block"
  BY <1>1 DEF ExpressionNodes, OfKind, Opens
<1>8. pos' = pos + 1 /\ NamesKept
  BY DEF TypeIdentifier, Forward, svars, NamesKept
<1> QED BY <1>1, <1>5, <1>6, <1>7, <1>8, Pushes

LEMMA TypeOperationStep ==
  ASSUME TypeWalk, TypeOperation
  PROVE  TypeWalk'
<1>1. pos <= Len(unit) /\ unit[pos].n \in {"binary", "assign"}
  BY DEF TypeOperation, At
<1>2. pos \in Nat /\ pos + 1 \in Nat /\ pos < pos + 1
  BY <1>1, TypeWalkFacts
<1>3. PICK ps \in SUBSET {pos} : \E type : SetTypes(ps, type) /\ Gives(2, type)
  BY DEF TypeOperation
<1>4. PICK type : SetTypes(ps, type) /\ Gives(2, type)
  BY <1>3
<1>5. TableTo(pos + 1)
  <2>1. \A i \in ps : i \in Nat /\ (unit[i].n \in Returning => i < pos + 1)
    BY <1>2, <1>3
  <2> QED BY <1>1, <1>2, <1>4, <2>1, TableSet
<1>6. 2 = Takes(unit[pos]) /\ results' = Append(Without(2), Result("value", type))
  BY <1>1, <1>4 DEF Takes, Gives
<1>7. unit[pos].n \in ExpressionNodes \cup {"block", "module"} /\ "value" = OfKind(unit[pos].n) /\ unit[pos].n # "block"
  BY <1>1 DEF ExpressionNodes, OfKind, Opens
<1>8. pos' = pos + 1 /\ NamesKept
  BY DEF TypeOperation, Forward, svars, NamesKept
<1> QED BY <1>1, <1>5, <1>6, <1>7, <1>8, Pushes

LEMMA TypeUseStep ==
  ASSUME TypeWalk, TypeCall \/ TypeMember
  PROVE  TypeWalk'
<1>1. pos <= Len(unit) /\ unit[pos].n \in {"call", "member"}
  BY DEF TypeCall, TypeMember, At
<1>2. pos \in Nat /\ pos + 1 \in Nat /\ pos < pos + 1
  BY <1>1, TypeWalkFacts
<1>3. TableTo(pos + 1)
  BY <1>1, <1>2, TableSame DEF TypeCall, TypeMember
<1>4. PICK k : k = IF unit[pos].n = "call" THEN unit[pos].args + 1 ELSE 1
  OBVIOUS
<1>5. PICK type : Gives(k, type)
  BY <1>4 DEF TypeCall, TypeMember, At
<1>6. k = Takes(unit[pos]) /\ results' = Append(Without(k), Result("value", type))
  BY <1>1, <1>4, <1>5 DEF Takes, Gives
<1>7. unit[pos].n \in ExpressionNodes \cup {"block", "module"} /\ "value" = OfKind(unit[pos].n) /\ unit[pos].n # "block"
  BY <1>1 DEF ExpressionNodes, OfKind, Opens
<1>8. pos' = pos + 1 /\ NamesKept
  BY DEF TypeCall, TypeMember, Forward, svars, NamesKept
<1> QED BY <1>1, <1>3, <1>6, <1>7, <1>8, Pushes

LEMMA TypeOpensStep ==
  ASSUME TypeWalk, TypeBlock \/ TypeModule
  PROVE  TypeWalk'
<1>1. pos <= Len(unit) /\ unit[pos].n \in {"block", "module"}
  BY DEF TypeBlock, TypeModule, At
<1>2. pos \in Nat /\ pos + 1 \in Nat /\ pos < pos + 1 /\ IsSeq(results)
  BY <1>1, TypeWalkFacts
<1>3. TableTo(pos + 1)
  BY <1>1, <1>2, TableSame DEF TypeBlock, TypeModule
<1>4. PICK type : /\ results' = Append(results, Result(unit[pos].n, type))
                  /\ unit[pos].n = "block" => type = NOTHING
  BY DEF TypeBlock, TypeModule, At
<1>5. Without(0) = results
  <2>1. PICK R2 : R2 = SubSeq(results, 1, Len(results) - 0)
    OBVIOUS
  <2>2. R2 = results
    BY <1>2, <2>1, RestAll
  <2> QED BY <2>1, <2>2 DEF Without
<1>6. 0 = Takes(unit[pos]) /\ results' = Append(Without(0), Result(unit[pos].n, type))
  BY <1>1, <1>4, <1>5 DEF Takes
<1>7. unit[pos].n \in ExpressionNodes \cup {"block", "module"} /\ unit[pos].n = OfKind(unit[pos].n)
  BY <1>1 DEF ExpressionNodes, OfKind, Opens
<1>8. pos' = pos + 1 /\ NamesKept
  BY DEF TypeBlock, TypeModule, Forward, svars, NamesKept
<1> QED BY <1>1, <1>3, <1>4, <1>6, <1>7, <1>8, Pushes

-----------------------------------------------------------------------------
LEMMA TypeDropStep ==
  ASSUME TypeWalk, TypeExprStmt \/ TypeEndModule
  PROVE  TypeWalk'
<1>1. pos <= Len(unit) /\ unit[pos].n \in {"expr", "endmodule"}
  BY DEF TypeExprStmt, TypeEndModule, At
<1>2. results' = Without(1) /\ UNCHANGED <<unit, m_methods, m_node_symbls, m_node_types>> /\ pos' = pos + 1
  BY DEF TypeExprStmt, TypeEndModule, Forward, svars
<1>3. 1 = Takes(unit[pos])
  BY <1>1 DEF Takes
<1>4. PICK R2 : R2 = results'
  OBVIOUS
<1>5. R2 = Rest(unit, pos, results)
  BY <1>2, <1>3, <1>4 DEF Rest, Without
<1>6. WalksAt(unit, pos + 1, R2, m_node_types, m_methods, m_node_symbls)
  BY <1>1, <1>5, WalksDrop DEF TypeWalk
<1> QED BY <1>2, <1>4, <1>6 DEF TypeWalk

LEMMA TypeJoins ==
  ASSUME TypeWalk, pos <= Len(unit), unit[pos].n \in {"return", "bareif", "if", "while"},
         NEW k, k = Takes(unit[pos]), NEW type, ~Clashes(Without(k), type),
         SetTypes({pos}, type), results' = JoinedInto(Without(k), type),
         unit[pos].n \notin Returning => /\ type = ControlType(unit[pos], results)
                                   /\ ~(unit[pos].hasElse /\ Conflict(Local(1).type, Local(0).type)),
         pos' = pos + 1, NamesKept
  PROVE  TypeWalk'
<1>1. pos \in Nat /\ pos + 1 \in Nat /\ pos < pos + 1 /\ Before(unit, pos, m_node_types)
  BY TypeWalkFacts
<1>2. /\ TableTo(pos + 1)
      /\ pos \in DOMAIN m_node_types' /\ (pos \in DOMAIN m_node_types \/ m_node_types'[pos] = type)
  <2>1. \A i \in {pos} : i \in Nat /\ (unit[i].n \in Returning => i < pos + 1)
    BY <1>1
  <2>2. TableTo(pos + 1) /\ \A i \in {pos} : i \in DOMAIN m_node_types' /\ (i \in DOMAIN m_node_types \/ m_node_types'[i] = type)
    BY <1>1, <2>1, TableSet
  <2> QED BY <2>2
<1>3. PICK nt2 : nt2 = m_node_types'
  OBVIOUS
<1>4. PICK R2 : R2 = results'
  OBVIOUS
<1>5. PICK R0 : R0 = Rest(unit, pos, results)
  OBVIOUS
<1>6. ~Clashes(R0, type) /\ R2 = JoinedInto(R0, type)
  BY <1>4, <1>5 DEF Rest, Without
<1>7. Grown(m_node_types, nt2) /\ Before(unit, pos + 1, nt2)
  BY <1>2, <1>3 DEF TableTo
<1>8. unit[pos].n \in Returning => pos \in DOMAIN nt2 /\ nt2[pos] = type
  <2> SUFFICES ASSUME unit[pos].n \in Returning PROVE pos \notin DOMAIN m_node_types
    BY <1>2, <1>3
  <2> QED BY <1>1 DEF Before
<1>9. unit[pos].n \notin Returning =>
        /\ type = ControlType(unit[pos], results)
        /\ ~(unit[pos].hasElse /\ Conflict(results[Len(results) - 1].type, results[Len(results) - 0].type))
  BY DEF Local
<1>10. WalksAt(unit, pos + 1, R2, nt2, m_methods, m_node_symbls)
  BY <1>5, <1>6, <1>7, <1>8, <1>9, WalksJoin DEF TypeWalk
<1> QED BY <1>3, <1>4, <1>10 DEF TypeWalk, NamesKept

LEMMA TypeReturnStep ==
  ASSUME TypeWalk, TypeReturn
  PROVE  TypeWalk'
<1>1. pos <= Len(unit) /\ unit[pos].n \in Returning
  BY DEF TypeReturn, At
<1>2. PICK type : type = Local(0).type
  OBVIOUS
<1>3. ~Clashes(Without(1), type) /\ SetTypes({pos}, type) /\ results' = JoinedInto(Without(1), type)
  BY <1>2 DEF TypeReturn
<1>4. 1 = Takes(unit[pos])
  BY <1>1 DEF Takes
<1>5. pos' = pos + 1 /\ NamesKept
  BY DEF TypeReturn, Forward, svars, NamesKept
<1> QED BY <1>1, <1>3, <1>4, <1>5, TypeJoins

LEMMA TypeBareIfStep ==
  ASSUME TypeWalk, TypeBareIf
  PROVE  TypeWalk'
<1>1. pos <= Len(unit) /\ unit[pos].n = "bareif"
  BY DEF TypeBareIf, At
<1>2. SetTypes({pos}, NOTYPE) /\ results' = JoinedInto(Without(1), NOTYPE)
  BY DEF TypeBareIf
<1>3. ~Clashes(Without(1), NOTYPE)
  BY DEF Clashes, Conflict
<1>4. 1 = Takes(unit[pos])
  BY <1>1 DEF Takes
<1>5. pos' = pos + 1 /\ NamesKept
  BY DEF TypeBareIf, Forward, svars, NamesKept
<1> QED BY <1>1, <1>2, <1>3, <1>4, <1>5, TypeJoins

LEMMA TypeControlStep ==
  ASSUME TypeWalk, TypeControl
  PROVE  TypeWalk'
<1>1. pos <= Len(unit) /\ unit[pos].n \in {"if", "while"}
  BY DEF TypeControl, At
<1>2. PICK type : type = BranchType
  OBVIOUS
<1>3. PICK k : k = Branches + 1
  OBVIOUS
<1>4. ~Clashes(Without(k), type) /\ SetTypes({pos}, type) /\ results' = JoinedInto(Without(k), type)
  BY <1>2, <1>3 DEF TypeControl
<1>5. k = Takes(unit[pos])
  BY <1>1, <1>3 DEF Takes, Branches
<1>6. pos' = pos + 1 /\ NamesKept
  BY DEF TypeControl, Forward, svars, NamesKept
<1>7. /\ type = ControlType(unit[pos], results)
      /\ ~(unit[pos].hasElse /\ Conflict(Local(1).type, Local(0).type))
  BY <1>2 DEF TypeControl, BranchType, BranchesClash, ControlType, Local
<1> QED BY <1>1, <1>4, <1>5, <1>6, <1>7, TypeJoins

LEMMA TypeEndBlockStep ==
  ASSUME TypeWalk, TypeEndBlock
  PROVE  TypeWalk'
<1>1. pos <= Len(unit) /\ unit[pos].n = "endblock"
  BY DEF TypeEndBlock, At
<1>2. /\ pos \in Nat /\ pos + 1 \in Nat /\ pos < pos + 1 /\ IsSeq(results)
      /\ \E F : Visit(unit, pos, Waiting(unit)[pos], results, F, m_node_types)
  BY <1>1, TypeWalkFacts
<1>3. PICK h : h = Waiting(unit)[pos]
  OBVIOUS
<1>4. Stacked(unit, h, results) /\ Sorted(unit, pos, h) /\ Stands(unit, pos, h)
  BY <1>2, <1>3 DEF Visit, Typing
<1>5. Len(h) \in Nat /\ Len(results) = Len(h)
  BY <1>4 DEF Stacked
<1>6. Takes(unit[pos]) = 1 /\ Takes(unit[pos]) \in 0 .. Len(h) /\ unit[h[Len(h)]].n = "block"
  BY <1>1, <1>4, <1>5, TakenAre DEF Stands, TakesItsParts
<1>7. Len(h) \in 1 .. Len(h) /\ Len(results) - 0 = Len(h)
  BY <1>5, <1>6
<1>8. Local(0).node = h[Len(h)] /\ h[Len(h)] \in Nat /\ unit[h[Len(h)]].n = "block"
  BY <1>4, <1>5, <1>6, <1>7 DEF Stacked, ResultOf, Local, Sorted
<1>9. TableTo(pos + 1)
  <2>1. \A i \in {Local(0).node} : i \in Nat /\ (unit[i].n \in Returning => i < pos + 1)
    BY <1>8
  <2>2. SetTypes({Local(0).node}, Local(0).type)
    BY DEF TypeEndBlock
  <2> QED BY <1>1, <1>2, <2>1, <2>2, TableSet
<1>10. PICK r : r = Result("value", Local(0).type)
  OBVIOUS
<1>11. ResultOf(unit, pos, r) /\ r.type = results[Len(results)].type
  <2>1. "value" = OfKind(unit[pos].n)
    BY <1>1 DEF OfKind, Opens
  <2>2. Local(0).type = results[Len(results)].type
    BY <1>5, <1>7 DEF Local
  <2> QED BY <1>10, <2>1, <2>2, Made
<1>12. PICK nt2 : nt2 = m_node_types'
  OBVIOUS
<1>13. PICK R2 : R2 = results'
  OBVIOUS
<1>14. R2 = Append(Rest(unit, pos, results), r)
  BY <1>6, <1>10, <1>13 DEF TypeEndBlock, Gives, Rest, Without
<1>15. Grown(m_node_types, nt2) /\ Before(unit, pos + 1, nt2) /\ SameAsLast(results, r)
  BY <1>9, <1>11, <1>12 DEF TableTo, SameAsLast
<1>16. WalksAt(unit, pos + 1, R2, nt2, m_methods, m_node_symbls)
  BY <1>1, <1>11, <1>14, <1>15, WalksEndBlock DEF TypeWalk
<1>17. pos' = pos + 1 /\ UNCHANGED <<unit, m_methods, m_node_symbls>>
  BY DEF TypeEndBlock, Forward, svars
<1> QED BY <1>12, <1>13, <1>16, <1>17 DEF TypeWalk

-----------------------------------------------------------------------------
LEMMA TypeDeclares ==
  ASSUME TypeWalk, pos <= Len(unit), unit[pos].n \in {"var", "function"},
         NEW q \in pos + 1 .. Len(unit), DeclaredTo(unit, pos, q),
         EndsAt(unit, q) \/ (unit[pos].n = "function" /\ IsParam(unit, pos, q)),
         NEW of, NEW type, of = OfKind(unit[pos].n),
         results' = Append(results, Result(of, type)), TableTo(q), pos' = q, NamesKept
  PROVE  TypeWalk'
<1>1. PICK r : r = Result(of, type)
  OBVIOUS
<1>2. ResultOf(unit, pos, r)
  BY <1>1, Made
<1>3. PICK nt2 : nt2 = m_node_types'
  OBVIOUS
<1>4. PICK R2 : R2 = results'
  OBVIOUS
<1>5. R2 = Append(results, r) /\ Grown(m_node_types, nt2) /\ Before(unit, q, nt2)
  BY <1>1, <1>3, <1>4 DEF TableTo
<1>6. WalksAt(unit, q, R2, nt2, m_methods, m_node_symbls)
  BY <1>2, <1>5, WalksDeclares DEF TypeWalk
<1> QED BY <1>3, <1>4, <1>6 DEF TypeWalk, NamesKept

LEMMA TypeVarDeclStep ==
  ASSUME TypeWalk, TypeVarDecl
  PROVE  TypeWalk'
<1>1. pos <= Len(unit) /\ unit[pos].n = "var"
  BY DEF TypeVarDecl, At
<1>2. /\ pos \in Nat /\ IsSeq(results) /\ Len(unit) \in Nat
      /\ \E F : Visit(unit, pos, Waiting(unit)[pos], results, F, m_node_types)
  BY <1>1, TypeWalkFacts
<1>3. HasItsParts(unit, pos)
  BY <1>2 DEF Visit, Stands
<1>4. PICK q \in pos + 1 .. Len(unit) : unit[q].n = "expr" /\ \A r \in pos + 1 .. q - 1 : unit[r].n \in ExpressionNodes
  BY <1>1, <1>3 DEF HasItsParts
<1>5. /\ q \in pos .. Len(unit)
      /\ unit[q].n = "expr" /\ \A r \in pos .. q - 1 : unit[r].n # "expr"
  <2>1. \A r \in pos .. q - 1 : r = pos \/ r \in pos + 1 .. q - 1
    BY <1>2
  <2> QED BY <1>1, <1>2, <1>4, <2>1 DEF ExpressionNodes
<1>6. PICK e : e = EndOfStatement
  OBVIOUS
<1>7. e \in pos .. Len(unit) /\ unit[e].n = "expr" /\ \A r \in pos .. e - 1 : unit[r].n # "expr"
  BY <1>5, <1>6 DEF EndOfStatement
<1>8. e = q
  <2>1. ~(e < q) /\ ~(q < e)
    BY <1>2, <1>4, <1>5, <1>7
  <2> QED BY <1>2, <1>4, <1>7, <2>1
<1>9. DeclaredTo(unit, pos, q) /\ EndsAt(unit, q)
  BY <1>1, <1>4 DEF DeclaredTo, EndsAt, ExpressionNodes
<1>10. PICK ps \in SUBSET {pos} : \E type : SetTypes(ps, type) /\ Gives(0, type)
  BY DEF TypeVarDecl
<1>11. PICK type : SetTypes(ps, type) /\ Gives(0, type)
  BY <1>10
<1>12. q \in Nat /\ pos < q
  BY <1>2
<1>13. TableTo(q)
  <2>1. \A i \in ps : i \in Nat /\ (unit[i].n \in Returning => i < q)
    BY <1>2, <1>10, <1>12
  <2> QED BY <1>1, <1>11, <1>12, <2>1, TableSet
<1>14. Without(0) = results
  <2>1. PICK R2 : R2 = SubSeq(results, 1, Len(results) - 0)
    OBVIOUS
  <2>2. R2 = results
    BY <1>2, <2>1, RestAll
  <2> QED BY <2>1, <2>2 DEF Without
<1>15. results' = Append(results, Result("value", type)) /\ "value" = OfKind(unit[pos].n)
  BY <1>1, <1>11, <1>14 DEF Gives, OfKind, Opens
<1>16. pos' = q /\ NamesKept
  BY <1>6, <1>8 DEF TypeVarDecl, svars, NamesKept
<1> QED BY <1>1, <1>9, <1>13, <1>15, <1>16, TypeDeclares

LEMMA TypeFunctionStep ==
  ASSUME TypeWalk, TypeFunction
  PROVE  TypeWalk'
<1>1. pos <= Len(unit) /\ unit[pos].n = "function"
  BY DEF TypeFunction, At
<1>2. /\ pos \in Nat /\ Len(unit) \in Nat
      /\ \E F : Visit(unit, pos, Waiting(unit)[pos], results, F, m_node_types)
  BY <1>1, TypeWalkFacts
<1>3. HasItsParts(unit, pos)
  BY <1>2 DEF Visit, Stands
<1>4. PICK n \in Nat : n = unit[pos].args
  BY <1>1, <1>3 DEF HasItsParts
<1>5. PICK b : b = Body(unit, pos)
  OBVIOUS
<1>6. /\ b <= Len(unit) /\ unit[b].n = "block"
      /\ \A r \in pos + 1 .. b - 1 : unit[r].n \in {"param", "identifier"}
  BY <1>1, <1>3, <1>5 DEF HasItsParts
<1>7. b = pos + 2 * n + 1 \/ b = pos + 2 * n + 2
  BY <1>4, <1>5 DEF Body
<1>8. PICK q : q = IF n = 0 THEN b ELSE ParamNode(pos, 1)
  OBVIOUS
<1>9. q \in pos + 1 .. b /\ b \in Nat
  BY <1>2, <1>7, <1>8 DEF ParamNode
<1>10. q \in pos + 1 .. Len(unit) /\ q \in Nat /\ pos < q
  BY <1>2, <1>6, <1>9
<1>11. DeclaredTo(unit, pos, q)
  <2>1. \A r \in pos + 1 .. q - 1 : r \in pos + 1 .. b - 1
    BY <1>2, <1>9
  <2> QED BY <1>1, <1>6, <2>1 DEF DeclaredTo
<1>12. EndsAt(unit, q) \/ IsParam(unit, pos, q)
  <2>1. CASE n = 0
    BY <1>6, <1>8, <2>1 DEF EndsAt, ExpressionNodes
  <2>2. CASE n # 0
    <3>1. 1 \in 1 .. unit[pos].args
      BY <1>4, <2>2
    <3> QED BY <1>8, <2>2, <3>1 DEF IsParam
  <2> QED BY <2>1, <2>2
<1>13. TableTo(q)
  BY <1>1, <1>10, TableSame DEF TypeFunction
<1>14. results' = Append(results, Result("function", NOTYPE)) /\ "function" = OfKind(unit[pos].n)
  BY <1>1 DEF TypeFunction, OfKind, Opens
<1>15. pos' = q /\ NamesKept
  BY <1>4, <1>5, <1>8 DEF TypeFunction, svars, NamesKept
<1> QED BY <1>1, <1>10, <1>11, <1>12, <1>13, <1>14, <1>15, TypeDeclares

LEMMA TypeParamStep ==
  ASSUME TypeWalk, TypeParam
  PROVE  TypeWalk'
<1>1. pos <= Len(unit) /\ unit[pos].n = "param"
  BY DEF TypeParam, At
<1>2. PICK f : f = results[Len(results)].node
  OBVIOUS
<1>3. PICK q : q = NextParam(unit, f, pos)
  OBVIOUS
<1>4. PICK h : h = Waiting(unit)[pos]
  OBVIOUS
<1>5. AmongParams(unit, pos, h)
  <2>1. Stands(unit, pos, h) \/ AmongParams(unit, pos, h)
    BY <1>1, <1>4, WalkHas DEF TypeWalk
  <2> QED BY <1>1, <2>1 DEF Stands, TakesItsParts
<1>6. q \in Nat /\ pos < q /\ pos \in Nat
  BY <1>1, <1>2, <1>3, <1>4, <1>5, AtParam DEF TypeWalk
<1>7. TableTo(q)
  <2>1. SetTypes({pos}, Annotation) /\ \A i \in {pos} : i \in Nat /\ (unit[i].n \in Returning => i < q)
    BY <1>6 DEF TypeParam
  <2> QED BY <1>1, <1>6, <2>1, TableSet
<1>8. PICK nt2 : nt2 = m_node_types'
  OBVIOUS
<1>9. Grown(m_node_types, nt2) /\ Before(unit, q, nt2)
  BY <1>7, <1>8 DEF TableTo
<1>10. WalksAt(unit, q, results, nt2, m_methods, m_node_symbls)
  BY <1>1, <1>2, <1>3, <1>9, WalksParam DEF TypeWalk
<1>11. pos' = q /\ UNCHANGED <<unit, results, m_methods, m_node_symbls>>
  <2>1. Len(results) - 0 = Len(results)
    <3>1. \E F : Typing(unit, pos, h, results, F, m_node_types)
      BY <1>1, <1>4, WalkHas DEF TypeWalk
    <3>2. Len(results) \in Nat
      BY <3>1 DEF Typing, Stacked
    <3> QED BY <3>2
  <2>2. Local(0).node = f
    BY <1>2, <2>1 DEF Local
  <2> QED BY <1>3, <2>2 DEF TypeParam, AfterParam, NextParam, svars
<1> QED BY <1>8, <1>10, <1>11 DEF TypeWalk

LEMMA TypeEndFunctionStep ==
  ASSUME TypeWalk, TypeEndFunction
  PROVE  TypeWalk'
<1>1. pos <= Len(unit) /\ unit[pos].n = "endfunction"
  BY DEF TypeEndFunction, At
<1>2. /\ pos \in Nat \ {0} /\ pos + 1 \in Nat /\ pos < pos + 1 /\ Len(unit) \in Nat
      /\ IsSeq(results) /\ MethodsOf(unit, Len(unit) + 1, m_methods, m_node_symbls)
      /\ \E F : Visit(unit, pos, Waiting(unit)[pos], results, F, m_node_types)
  BY <1>1, TypeWalkFacts
<1>3. PICK f : f = Decl
  OBVIOUS
<1>4. f = results[Len(results) - 1].node
  BY <1>3 DEF Decl, Local
<1>5. f \in 1 .. pos - 1 /\ unit[f].n = "function" /\ \E m \in 3 .. Len(m_methods) : m_methods[m].decl = f
  BY <1>1, <1>4, FunctionLeft DEF TypeWalk
<1>6. PICK m0 : m0 = CHOOSE m \in DOMAIN m_methods : m_methods[m].decl = f
  OBVIOUS
<1>7. Len(m_methods) \in Nat /\ DOMAIN m_methods = 1 .. Len(m_methods)
  BY <1>2, SequenceFacts DEF MethodsOf
<1>8. m0 \in 3 .. Len(m_methods) /\ m_methods[m0].decl = f
  <2>1. m0 \in DOMAIN m_methods /\ m_methods[m0].decl = f
    BY <1>5, <1>6, <1>7
  <2>2. f # 0 /\ m_methods[1].decl = 0 /\ m_methods[2].decl = 0
    BY <1>2, <1>5 DEF MethodsOf
  <2> QED BY <1>7, <2>1, <2>2
<1>9. PICK sig : sig = FunctionType(ParamTypes, ReturnType)
  OBVIOUS
<1>10. sig[2] = ParamTypes /\ sig[3] = ReturnType /\ sig # NOTYPE
  BY <1>9, NoTypes DEF FunctionType
<1>11. GetsType(m_methods, m0, sig, m_methods') /\ SetTypes({f}, sig)
  BY <1>3, <1>6, <1>9 DEF TypeEndFunction, GetsType
<1>12. Len(results) \in Nat /\ Len(results) - 0 = Len(results)
  BY <1>2, SequenceFacts
<1>13. TrueOf(results[Len(results)].type, sig, unit[f].hasReturnType)
  <2>1. BodyType = results[Len(results)].type
    BY <1>12 DEF BodyType, Local
  <2>2. BodyType \in {NOTYPE, NOTHING, ReturnType}
    BY DEF TypeEndFunction, Mismatch
  <2>3. BodyType = NOTYPE => unit[f].hasReturnType
    BY <1>3 DEF TypeEndFunction, ReturnType
  <2> QED BY <1>10, <2>1, <2>2, <2>3 DEF TrueOf
<1>14. NoneAlike(m_methods, m0, f, sig)
  <2>1. m_methods[m0].of = SymbolAt(f)
    BY <1>2, <1>8 DEF MethodsOf, SymbolAt, BoundTo
  <2>2. ~Duplicate
    BY DEF TypeEndFunction
  <2>3. \A m \in 3 .. Len(m_methods) : m \in DOMAIN m_methods
    BY <1>7
  <2> QED BY <1>3, <1>10, <2>1, <2>2, <2>3 DEF NoneAlike, Duplicate
<1>15. TableTo(pos + 1)
  <2>1. \A i \in {f} : i \in Nat /\ (unit[i].n \in Returning => i < pos + 1)
    BY <1>5
  <2> QED BY <1>1, <1>2, <1>11, <2>1, TableSet
<1>16. PICK nt2 : nt2 = m_node_types'
  OBVIOUS
<1>17. PICK R2 : R2 = results'
  OBVIOUS
<1>18. PICK mm2 : mm2 = m_methods'
  OBVIOUS
<1>19. 2 = Takes(unit[pos])
  BY <1>1 DEF Takes
<1>20. R2 = Rest(unit, pos, results) /\ GetsType(m_methods, m0, sig, mm2)
       /\ Grown(m_node_types, nt2) /\ Before(unit, pos + 1, nt2)
  BY <1>11, <1>15, <1>16, <1>17, <1>18, <1>19 DEF TypeEndFunction, Rest, Without, TableTo
<1>21. WalksAt(unit, pos + 1, R2, nt2, mm2, m_node_symbls)
  BY <1>1, <1>4, <1>8, <1>13, <1>14, <1>20, WalksEndFunction DEF TypeWalk
<1>22. pos' = pos + 1 /\ UNCHANGED <<unit, m_node_symbls>>
  BY DEF TypeEndFunction, Forward
<1> QED BY <1>16, <1>17, <1>18, <1>21, <1>22 DEF TypeWalk

-----------------------------------------------------------------------------
(* The methods while names are resolved: none has a type yet.              *)
Untyped ==
  /\ MethodsOf(unit, pos, m_methods, m_node_symbls)
  /\ \A m \in 3 .. Len(m_methods) : m_methods[m].type = NOTYPE
  /\ results = << >> /\ m_node_types = << >>

LEMMA UntypedStarts ==
  ASSUME TInit
  PROVE  Untyped
<1>1. /\ m_methods = << Method(0, 0, NOTYPE), Method(3, 0, FunctionType(<<INT>>, NOTHING)) >>
      /\ pos = 1 /\ results = << >> /\ m_node_types = << >>
  BY DEF TInit, Init
<1>2. Len(m_methods) = 2 /\ m_methods[1] = Method(0, 0, NOTYPE) /\ m_methods[2] = Method(3, 0, FunctionType(<<INT>>, NOTHING))
  BY <1>1
<1>3. IsSeq(m_methods)
  BY <1>1 DEF IsSeq
<1>4. \A m \in 1 .. Len(m_methods) : DOMAIN m_methods[m] = {"of", "decl", "type"}
  <2>1. \A m \in 1 .. 2 : m = 1 \/ m = 2
    OBVIOUS
  <2> QED BY <1>2, <2>1 DEF Method
<1>5. m_methods[1].of = 0 /\ m_methods[1].decl = 0 /\ m_methods[2].of = 3 /\ m_methods[2].decl = 0
  BY <1>2 DEF Method
<1>6. 3 .. Len(m_methods) = {} /\ 1 .. pos - 1 = {}
  BY <1>1, <1>2
<1> QED BY <1>1, <1>2, <1>3, <1>4, <1>5, <1>6 DEF Untyped, MethodsOf

LEMMA SymbolsPass ==
  ASSUME NEW rs, Walk(rs), NEW s, Bind(s)
  PROVE  SameBefore(m_node_symbls, m_node_symbls', pos) /\ BoundTo(m_node_symbls', pos) = s
<1>1. pos \in Nat /\ DOMAIN m_node_symbls \subseteq 1 .. pos - 1
  BY WalkFacts DEF Walk
<1>2. PICK m2 : m2 = m_node_symbls'
  OBVIOUS
<1>3. m2 = With(m_node_symbls, pos, s)
  BY <1>2 DEF Bind
<1>4. /\ \A q \in 1 .. pos - 1 : BoundTo(m2, q) = BoundTo(m_node_symbls, q)
      /\ BoundTo(m2, pos) = s
  BY <1>1, <1>3, BindFacts
<1> QED BY <1>2, <1>4 DEF SameBefore

LEMMA UntypedPasses ==
  ASSUME NEW rs, Walk(rs), Untyped, UNCHANGED tvars,
         VarDecl \/ Identifier \/ Call \/ Member \/ ModuleDecl \/ Block \/ Leave \/ Param \/ PassBy
  PROVE  Untyped'
<1>1. /\ unit[pos].n # "function" /\ pos' = pos + 1 /\ UNCHANGED <<unit, m_methods>>
  BY DEF VarDecl, Identifier, Call, Member, ModuleDecl, Block, Leave, Param, PassBy, At, Forward, svars
<1>2. m_node_symbls' = m_node_symbls \/ \E s : Bind(s)
  BY DEF VarDecl, Identifier, Call, Member, ModuleDecl, Block, Leave, Param, PassBy, svars
<1>3. SameBefore(m_node_symbls, m_node_symbls', pos)
  <2>1. CASE m_node_symbls' = m_node_symbls
    BY <2>1 DEF SameBefore
  <2>2. CASE \E s : Bind(s)
    BY <2>2, SymbolsPass
  <2> QED BY <1>2, <2>1, <2>2
<1>4. pos \in Nat \ {0}
  BY WalkFacts
<1>5. PICK ms2 : ms2 = m_node_symbls'
  OBVIOUS
<1>6. MethodsOf(unit, pos + 1, m_methods, ms2)
  <2>1. MethodsOf(unit, pos, m_methods, m_node_symbls) /\ SameBefore(m_node_symbls, ms2, pos)
    BY <1>3, <1>5 DEF Untyped
  <2> QED BY <1>1, <1>4, <2>1, MethodsPass
<1> QED BY <1>1, <1>5, <1>6 DEF Untyped, tvars

LEMMA UntypedGrows ==
  ASSUME NEW rs, Walk(rs), Untyped, UNCHANGED tvars, NewFunction \/ Overload
  PROVE  Untyped'
<1>1. unit[pos].n = "function" /\ pos' = pos + 1 /\ UNCHANGED unit
  BY DEF NewFunction, Overload, At, Forward
<1>2. PICK s : Bind(s) /\ m_methods' = Append(m_methods, Method(s, pos, NOTYPE))
  BY DEF NewFunction, Overload
<1>3. SameBefore(m_node_symbls, m_node_symbls', pos) /\ BoundTo(m_node_symbls', pos) = s
  BY <1>2, SymbolsPass
<1>4. pos \in Nat \ {0}
  BY WalkFacts
<1>5. PICK ms2 : ms2 = m_node_symbls'
  OBVIOUS
<1>6. PICK mm2 : mm2 = m_methods'
  OBVIOUS
<1>7. mm2 = Append(m_methods, Method(s, pos, NOTYPE))
  BY <1>2, <1>6
<1>8. MethodsOf(unit, pos, m_methods, m_node_symbls) /\ SameBefore(m_node_symbls, ms2, pos) /\ BoundTo(ms2, pos) = s
  BY <1>3, <1>5 DEF Untyped
<1>9. MethodsOf(unit, pos + 1, mm2, ms2)
  BY <1>1, <1>4, <1>7, <1>8, MethodsGrow
<1>10. PICK e : e = Method(s, pos, NOTYPE)
  OBVIOUS
<1>11. IsSeq(m_methods) /\ mm2 = Append(m_methods, e) /\ e.type = NOTYPE
  BY <1>7, <1>8, <1>10 DEF MethodsOf, Method
<1>12. /\ Len(mm2) = Len(m_methods) + 1 /\ Len(m_methods) \in Nat
       /\ \A i \in 1 .. Len(m_methods) : mm2[i] = m_methods[i]
       /\ mm2[Len(m_methods) + 1] = e
  BY <1>11, AppendFacts, SequenceFacts
<1>13. ASSUME NEW m \in 3 .. Len(mm2) PROVE mm2[m].type = NOTYPE
  <2>1. m = Len(m_methods) + 1 \/ (m \in 3 .. Len(m_methods) /\ m \in 1 .. Len(m_methods))
    BY <1>12
  <2> QED BY <1>11, <1>12, <2>1 DEF Untyped
<1> QED BY <1>1, <1>5, <1>6, <1>9, <1>13 DEF Untyped, tvars

(* The second walk starts at the first node, with nothing.                 *)
LEMMA TypeWalkStarts ==
  ASSUME NEW rs, Walk(rs), pos > Len(unit), Untyped
  PROVE  WalksAt(unit, 1, results, m_node_types, m_methods, m_node_symbls)
<1>1. /\ IsUnit(unit) /\ Len(unit) \in Nat /\ 1 \in 1 .. Len(unit) + 1 /\ pos = Len(unit) + 1
  BY WalkFacts DEF Walk
<1>2. PICK h : h = Waiting(unit)[1]
  OBVIOUS
<1>3. h = << >> /\ Len(h) = 0
  BY <1>1, <1>2, WaitingSteps
<1>4. 1 <= Len(unit) => Stands(unit, 1, h)
  <2>1. ~InDeclaration(unit, h, 1)
    BY <1>3 DEF InDeclaration
  <2> SUFFICES ASSUME 1 <= Len(unit) PROVE Stands(unit, 1, h)
    OBVIOUS
  <2>2. 1 \in 1 .. Len(unit)
    BY <1>1
  <2> QED BY <1>1, <1>2, <2>1, <2>2, StandsAt
<1>5. results = << >> /\ m_node_types = << >> /\ Len(results) = 0 /\ DOMAIN m_node_types = {}
  BY DEF Untyped
<1>6. WellTyped(unit, 1, h, results, m_node_types)
  <2>1. PICK F : F = [o \in {} |-> {}]
    OBVIOUS
  <2>2. IsSeq(h) /\ IsSeq(results) /\ 1 .. Len(h) = {}
    BY <1>3, <1>5 DEF IsSeq
  <2>3. Sorted(unit, 1, h)
    BY <2>2 DEF Sorted
  <2>4. Stacked(unit, h, results)
    BY <1>3, <1>5, <2>2 DEF Stacked
  <2>5. Typing(unit, 1, h, results, F, m_node_types)
    BY <1>5, <2>2, <2>3, <2>4 DEF Typing, Judged, Sound, Before
  <2>6. Complete(unit, 1, h, F)
    BY <2>2 DEF Complete
  <2> QED BY <2>5, <2>6 DEF WellTyped
<1>7. MethodsOf(unit, Len(unit) + 1, m_methods, m_node_symbls)
  BY <1>1 DEF Untyped
<1>8. Signed(unit, 1, h, m_methods, m_node_types)
  <2>1. \A m, o \in 3 .. Len(m_methods) : Differ(m_methods[m], m_methods[o])
    BY DEF Differ, Untyped
  <2>2. ASSUME NEW m \in 3 .. Len(m_methods) PROVE m_methods[m].of > 5 /\ m_methods[m].decl >= 1
    <3>1. /\ m_methods[m].decl \in 1 .. pos - 1 /\ unit[m_methods[m].decl].n = "function"
          /\ m_methods[m].of = BoundTo(m_node_symbls, m_methods[m].decl)
      BY DEF Untyped, MethodsOf
    <3>2. m_methods[m].decl \in Declared(unit, pos)
      BY <3>1 DEF Declared, DeclaringNodes
    <3>3. m_methods[m].of \in 6 .. Len(symbols)
      BY <3>1, <3>2 DEF Walk, Described
    <3> QED BY <3>1, <3>3
  <2> QED BY <2>1, <2>2 DEF Signed
<1> QED BY <1>1, <1>2, <1>4, <1>6, <1>7, <1>8 DEF WalksAt

(* What it ends with.                                                      *)
LEMMA TypeWalkEnds ==
  ASSUME TypeWalk, pos > Len(unit)
  PROVE  /\ results = << >>
         /\ \A m \in DOMAIN m_methods :
              m_methods[m].decl # 0 =>
                LET found == {TypeAt(p) : p \in ReturnsOf(m_methods[m].decl)}
                IN  found \subseteq {NOTHING, m_methods[m].type[3]} \/ Excused(found, m_methods[m].decl)
         /\ \A m, o \in DOMAIN m_methods :
              (m_methods[m].of = m_methods[o].of /\ m # o) => m_methods[m].type[2] # m_methods[o].type[2]
<1>1. /\ IsUnit(unit) /\ Len(unit) \in Nat /\ pos = Len(unit) + 1
  BY DEF TypeWalk, WalksAt, IsUnit
<1>2. PICK h : h = Waiting(unit)[pos]
  OBVIOUS
<1>3. h = << >> /\ Len(h) = 0
  BY <1>1, <1>2 DEF IsUnit, IsTree
<1>4. results = << >>
  <2>1. Stacked(unit, h, results)
    BY <1>2 DEF TypeWalk, WalksAt, WellTyped, Typing
  <2>2. IsSeq(results) /\ Len(results) = 0
    BY <1>3, <2>1 DEF Stacked
  <2> QED BY <2>2 DEF IsSeq
<1>5. /\ MethodsOf(unit, Len(unit) + 1, m_methods, m_node_symbls)
      /\ Signed(unit, pos, h, m_methods, m_node_types)
  BY <1>2 DEF TypeWalk, WalksAt
<1>6. DOMAIN m_methods = 1 .. Len(m_methods) /\ Len(m_methods) \in Nat
      /\ \A m \in 1 .. Len(m_methods) : m = 1 \/ m = 2 \/ m \in 3 .. Len(m_methods)
  BY <1>5, SequenceFacts DEF MethodsOf
<1>7. ASSUME NEW m \in 3 .. Len(m_methods) PROVE SoundMethod(unit, m_node_types, m_methods[m])
  <2>1. Functions(unit, h) = {}
    BY <1>3 DEF Functions
  <2>2. m_methods[m].decl \in 1 .. (Len(unit) + 1) - 1
    BY <1>5 DEF MethodsOf
  <2>3. ~(m_methods[m].decl >= pos)
    BY <1>1, <2>2
  <2> QED BY <1>5, <2>1, <2>3 DEF Signed
<1>8. ASSUME NEW m \in 3 .. Len(m_methods)
      PROVE  LET found == {TypeAt(p) : p \in ReturnsOf(m_methods[m].decl)}
             IN  found \subseteq {NOTHING, m_methods[m].type[3]} \/ Excused(found, m_methods[m].decl)
  <2>1. PICK f : f = m_methods[m].decl
    OBVIOUS
  <2>2. f \in 1 .. Len(unit) /\ unit[f].n = "function"
    BY <1>1, <1>5, <2>1 DEF MethodsOf
  <2>3. ReturnsOf(f) = ReturnsIn(unit, f)
    <3>1. CloserOf(unit, f) \in f .. Len(unit)
      BY <1>1, <2>2, CloserFacts DEF Opens
    <3>2. \A r : r \in f + 1 .. CloserOf(unit, f) => r \in 1 .. Len(unit)
      BY <1>1, <2>2, <3>1
    <3>3. \A r \in f + 1 .. CloserOf(unit, f) : FctOf(unit, r) = Max(Around(r))
      BY <1>1, <2>2, <3>2, ReturnsAround DEF Around
    <3>4. \A r \in 1 .. Len(unit) : FctOf(unit, r) = f => r \in f + 1 .. CloserOf(unit, f)
      BY <1>1, <2>2, ReturnsAround
    <3> QED BY <3>2, <3>3, <3>4 DEF ReturnsOf, ReturnsIn
  <2>4. /\ ReturnsIn(unit, f) \subseteq DOMAIN m_node_types
        /\ \/ TypesIn(ReturnsIn(unit, f), m_node_types) \subseteq {NOTHING, m_methods[m].type[3]}
           \/ Excused(TypesIn(ReturnsIn(unit, f), m_node_types), f)
    BY <1>7, <2>1 DEF SoundMethod, Excused
  <2>5. {TypeAt(p) : p \in ReturnsOf(f)} = TypesIn(ReturnsIn(unit, f), m_node_types)
    BY <2>3, <2>4 DEF TypesIn, TypeAt
  <2> QED BY <2>1, <2>4, <2>5
<1>9. ASSUME NEW m \in 1 .. Len(m_methods), NEW o \in 1 .. Len(m_methods), m_methods[m].of = m_methods[o].of, m # o
      PROVE  m_methods[m].type[2] # m_methods[o].type[2]
  <2>1. \A i \in 3 .. Len(m_methods) : m_methods[i].of > 5 /\ m_methods[i].of # 0 /\ m_methods[i].of # 3
    BY <1>5 DEF Signed
  <2>2. m_methods[1].of = 0 /\ m_methods[2].of = 3
    BY <1>5 DEF MethodsOf
  <2>3. m \in 3 .. Len(m_methods) /\ o \in 3 .. Len(m_methods)
    BY <1>6, <1>9, <2>1, <2>2
  <2>4. m_methods[m].type # NOTYPE /\ m_methods[o].type # NOTYPE
    BY <1>7, <2>3 DEF SoundMethod
  <2>5. Differ(m_methods[m], m_methods[o])
    BY <1>5, <1>9, <2>3 DEF Signed
  <2> QED BY <1>9, <2>4, <2>5 DEF Differ
<1>10. \A m \in DOMAIN m_methods : m_methods[m].decl # 0 => m \in 3 .. Len(m_methods)
  BY <1>5, <1>6 DEF MethodsOf
<1> QED BY <1>4, <1>6, <1>8, <1>9, <1>10

-----------------------------------------------------------------------------
(* The names of every scope are those of their symbols.                    *)
SymbolFields == {"kind", "name", "type", "moduleScope"}
NamesOf(sc, sy) ==
  /\ \A s \in DOMAIN sc : \A x \in DOMAIN sc[s].names :
       sc[s].names[x] \in DOMAIN sy /\ sy[sc[s].names[x]].name = x
  /\ \A i \in DOMAIN sy : DOMAIN sy[i] = SymbolFields
Nested(sc) == \A s \in DOMAIN sc : sc[s].parent < s

LEMMA NamesStart ==
  ASSUME Init
  PROVE  NamesOf(scopes, symbols)
<1>1. /\ symbols = << Symbol("Type", "Int", INT, 0), Symbol("Type", "Nothing", NOTHING, 0),
                      Symbol("Function", "print", FunctionType(<<INT>>, NOTHING), 0),
                      Symbol("Module", "Core", NOTYPE, Core), Symbol("Module", "Main", NOTYPE, Main) >>
      /\ DOMAIN symbols = 1 .. 5
  BY DEF Init
<1>2. \A i \in DOMAIN symbols : DOMAIN symbols[i] = SymbolFields
  <2>1. \A i \in 1 .. 5 : i = 1 \/ i = 2 \/ i = 3 \/ i = 4 \/ i = 5
    OBVIOUS
  <2>2. /\ symbols[1] = Symbol("Type", "Int", INT, 0) /\ symbols[2] = Symbol("Type", "Nothing", NOTHING, 0)
        /\ symbols[3] = Symbol("Function", "print", FunctionType(<<INT>>, NOTHING), 0)
        /\ symbols[4] = Symbol("Module", "Core", NOTYPE, Core) /\ symbols[5] = Symbol("Module", "Main", NOTYPE, Main)
    BY <1>1
  <2>3. \A a, b, c, d : DOMAIN Symbol(a, b, c, d) = SymbolFields
    BY DEF Symbol, SymbolFields
  <2> QED BY <1>1, <2>1, <2>2, <2>3
<1> DEFINE names == [x \in {symbols[s].name : s \in 1 .. 5} |-> CHOOSE s \in 1 .. 5 : symbols[s].name = x]
<1>3. scopes = << [Scope("Module", 0) EXCEPT !.names = names], Scope("Module", Core) >>
  BY DEF Init
<1>4. \A x \in DOMAIN names : names[x] \in 1 .. 5 /\ symbols[names[x]].name = x
  <2> SUFFICES ASSUME NEW x \in DOMAIN names PROVE names[x] \in 1 .. 5 /\ symbols[names[x]].name = x
    OBVIOUS
  <2>1. \E s \in 1 .. 5 : symbols[s].name = x
    OBVIOUS
  <2>2. names[x] = CHOOSE s \in 1 .. 5 : symbols[s].name = x
    OBVIOUS
  <2> HIDE DEF names
  <2> QED BY <2>1, <2>2
<1> HIDE DEF names
<1>5. /\ DOMAIN scopes = 1 .. 2 /\ \A s \in 1 .. 2 : s = 1 \/ s = 2
      /\ scopes[1] = [Scope("Module", 0) EXCEPT !.names = names] /\ scopes[2] = Scope("Module", Core)
  BY <1>3
<1>6. scopes[1].names = names /\ DOMAIN scopes[2].names = {}
  BY <1>5 DEF Scope
<1> QED BY <1>1, <1>2, <1>4, <1>5, <1>6 DEF NamesOf

IsFree(sc, c, x) ==
  DOMAIN sc[c] = {"kind", "parent", "names"} /\ (x \in DOMAIN sc[c].names => sc[c].names[x] = 0)
IsSymbolOf(e, x) == DOMAIN e = SymbolFields /\ e.name = x

MayAdd(sc, sy, c, x, e, sy2, sc2) ==
  /\ IsSeq(sc) /\ IsSeq(sy) /\ NamesOf(sc, sy)
  /\ c \in 1 .. Len(sc) /\ IsFree(sc, c, x) /\ IsSymbolOf(e, x)
  /\ sy2 = Append(sy, e) /\ sc2 = WithNameAt(sc, c, x, Len(sy) + 1)

LEMMA NamesAdd ==
  ASSUME NEW sc, NEW sy, NEW c, NEW x, NEW e, NEW sy2, NEW sc2, MayAdd(sc, sy, c, x, e, sy2, sc2)
  PROVE  NamesOf(sc2, sy2) /\ IsSeq(sc2) /\ Len(sc2) = Len(sc)
<1>0. /\ IsSeq(sc) /\ IsSeq(sy) /\ NamesOf(sc, sy)
      /\ c \in 1 .. Len(sc) /\ IsFree(sc, c, x) /\ IsSymbolOf(e, x)
      /\ sy2 = Append(sy, e) /\ sc2 = WithNameAt(sc, c, x, Len(sy) + 1)
  BY DEF MayAdd
<1> USE <1>0 DEF IsFree, IsSymbolOf
<1>1. PICK n \in Nat : n = Len(sy)
  BY SequenceFacts
<1>2. DOMAIN sy = 1 .. n /\ DOMAIN sc = 1 .. Len(sc)
  BY <1>1, SequenceFacts
<1>3. /\ DOMAIN sy2 = 1 .. n + 1 /\ sy2[n + 1] = e
      /\ \A i \in 1 .. n : sy2[i] = sy[i]
  BY <1>1, AppendFacts, SequenceFacts
<1>4. PICK v : v = n + 1
  OBVIOUS
<1>5. sc2 = WithNameAt(sc, c, x, v) /\ "names" \in DOMAIN sc[c]
  BY <1>1, <1>4
<1>6. /\ IsSeq(sc2) /\ Len(sc2) = Len(sc)
      /\ \A s \in 1 .. Len(sc) : s # c => sc2[s] = sc[s]
      /\ Adds(sc[c].names, sc2[c].names, x, v)
  BY <1>5, WithNameFacts
<1>7. DOMAIN sc2 = 1 .. Len(sc)
  BY <1>6, SequenceFacts
<1>8. \A i \in 1 .. n + 1 : i = n + 1 \/ i \in 1 .. n
  OBVIOUS
<1>9. \A i \in DOMAIN sy2 : DOMAIN sy2[i] = SymbolFields
  BY <1>2, <1>3, <1>8 DEF NamesOf
<1>10. ASSUME NEW s \in 1 .. Len(sc), NEW y \in DOMAIN sc[s].names, y \in DOMAIN sc2[s].names,
              sc2[s].names[y] = sc[s].names[y]
       PROVE  sc2[s].names[y] \in DOMAIN sy2 /\ sy2[sc2[s].names[y]].name = y
  <2>1. sc[s].names[y] \in 1 .. n /\ sy[sc[s].names[y]].name = y
    BY <1>2 DEF NamesOf
  <2>2. sc[s].names[y] \in 1 .. n + 1
    BY <2>1
  <2> QED BY <1>3, <1>10, <2>1, <2>2
<1>11. x \notin DOMAIN sc[c].names
  <2>1. 0 \notin 1 .. n
    OBVIOUS
  <2> QED BY <1>2, <2>1 DEF NamesOf
<1>12. ASSUME NEW s \in 1 .. Len(sc), NEW y \in DOMAIN sc2[s].names
       PROVE  sc2[s].names[y] \in DOMAIN sy2 /\ sy2[sc2[s].names[y]].name = y
  <2>1. CASE s # c
    <3>1. sc2[s] = sc[s]
      BY <1>6, <2>1
    <3> QED BY <1>10, <3>1
  <2>2. CASE s = c /\ y # x
    <3>1. y \in DOMAIN sc[s].names /\ sc2[s].names[y] = sc[s].names[y]
      BY <1>6, <2>2 DEF Adds
    <3> QED BY <1>10, <3>1
  <2>3. CASE s = c /\ y = x
    <3>1. sc2[s].names[y] = v
      BY <1>6, <1>11, <2>3 DEF Adds
    <3>2. n + 1 \in 1 .. n + 1
      OBVIOUS
    <3> QED BY <1>3, <1>4, <2>3, <3>1, <3>2
  <2> QED BY <2>1, <2>2, <2>3
<1> QED BY <1>6, <1>7, <1>9, <1>12 DEF NamesOf

LEMMA NamesGrow ==
  ASSUME NEW sc, IsSeq(sc), NEW sy, NamesOf(sc, sy), NEW kind, NEW parent,
         NEW sc2, sc2 = Append(sc, Scope(kind, parent))
  PROVE  NamesOf(sc2, sy)
<1>1. PICK e : e = Scope(kind, parent)
  OBVIOUS
<1>2. DOMAIN e.names = {}
  BY <1>1 DEF Scope
<1>3. PICK n \in Nat : n = Len(sc)
  BY SequenceFacts
<1>4. /\ DOMAIN sc = 1 .. n /\ DOMAIN sc2 = 1 .. n + 1 /\ sc2[n + 1] = e
      /\ \A i \in 1 .. n : sc2[i] = sc[i]
  BY <1>1, <1>3, AppendFacts, SequenceFacts
<1>5. \A i \in 1 .. n + 1 : i = n + 1 \/ i \in 1 .. n
  OBVIOUS
<1> QED BY <1>2, <1>4, <1>5 DEF NamesOf

LEMMA NamesRetyped ==
  ASSUME NEW sc, NEW sy, NamesOf(sc, sy), NEW sy2, DOMAIN sy2 = DOMAIN sy,
         \A i \in DOMAIN sy : DOMAIN sy2[i] = DOMAIN sy[i] /\ sy2[i].name = sy[i].name
  PROVE  NamesOf(sc, sy2)
BY DEF NamesOf

-----------------------------------------------------------------------------
LEMMA NamesDeclared ==
  ASSUME NEW rs, Walk(rs), NamesOf(scopes, symbols), ~HasSymbol, NEW kind, NEW mscope,
         symbols' = Append(symbols, Symbol(kind, Name, NOTYPE, mscope)), NEW sc, sc = WithName(Name)
  PROVE  NamesOf(sc, symbols') /\ IsSeq(sc) /\ Len(sc) = Len(scopes)
<1>1. PICK e : e = Symbol(kind, Name, NOTYPE, mscope)
  OBVIOUS
<1>2. DOMAIN e = SymbolFields /\ e.name = Name
  BY <1>1 DEF Symbol, SymbolFields
<1>3. /\ IsSeq(scopes) /\ IsSeq(symbols) /\ m_current_scope \in 1 .. Len(scopes)
      /\ DOMAIN scopes[m_current_scope] = {"kind", "parent", "names"}
  BY WalkFacts
<1>4. PICK sy2 : sy2 = symbols'
  OBVIOUS
<1>5. sy2 = Append(symbols, e) /\ sc = WithNameAt(scopes, m_current_scope, Name, Len(symbols) + 1)
  BY <1>1, <1>4 DEF WithName, WithNameAt, NewSymbol
<1>6. Name \in DOMAIN scopes[m_current_scope].names => scopes[m_current_scope].names[Name] = 0
  BY DEF HasSymbol, LookupLocal
<1>7. PICK x : x = Name
  OBVIOUS
<1>8. PICK c : c = m_current_scope
  OBVIOUS
<1>9. MayAdd(scopes, symbols, c, x, e, sy2, sc)
  BY <1>2, <1>3, <1>5, <1>6, <1>7, <1>8 DEF MayAdd, IsFree, IsSymbolOf
<1>10. NamesOf(sc, sy2) /\ IsSeq(sc) /\ Len(sc) = Len(scopes)
  BY <1>9, NamesAdd, Zenon
<1> QED BY <1>4, <1>10

LEMMA NamesPass ==
  ASSUME NEW rs, Walk(rs), NamesOf(scopes, symbols),
         \/ VarDecl \/ Identifier \/ Call \/ Member \/ ModuleDecl \/ Block \/ Leave
         \/ NewFunction \/ Overload \/ Param \/ PassBy \/ Refuse \/ Resolved
  PROVE  NamesOf(scopes, symbols)'
<1>1. CASE Identifier \/ Call \/ Member \/ Leave \/ PassBy \/ Refuse \/ Resolved
  <2>1. UNCHANGED <<scopes, symbols>>
    BY <1>1 DEF Identifier, Call, Member, Leave, PassBy, Refuse, Unresolved, Resolved, svars
  <2> QED BY <2>1 DEF NamesOf
<1>2. CASE VarDecl \/ (Param /\ ~HasSymbol)
  <2>1. /\ ~HasSymbol /\ \E kind : symbols' = Append(symbols, Symbol(kind, Name, NOTYPE, 0))
        /\ scopes' = WithName(Name)
    BY <1>2 DEF VarDecl, Param
  <2>2. PICK kind : symbols' = Append(symbols, Symbol(kind, Name, NOTYPE, 0))
    BY <2>1
  <2>3. PICK sc : sc = WithName(Name)
    OBVIOUS
  <2>4. NamesOf(sc, symbols')
    BY <2>1, <2>2, <2>3, NamesDeclared
  <2> QED BY <2>1, <2>3, <2>4
<1>3. CASE Param /\ HasSymbol
  <2>1. UNCHANGED <<scopes, symbols>>
    BY <1>3 DEF Param
  <2> QED BY <2>1 DEF NamesOf
<1>4. CASE Block \/ Overload
  <2>1. PICK kind, parent : scopes' = Append(scopes, Scope(kind, parent)) /\ UNCHANGED symbols
    BY <1>4 DEF Block, Overload
  <2>2. IsSeq(scopes)
    BY WalkFacts
  <2>3. PICK sc2 : sc2 = scopes'
    OBVIOUS
  <2>4. NamesOf(sc2, symbols)
    BY <2>1, <2>2, <2>3, NamesGrow
  <2> QED BY <2>1, <2>3, <2>4
<1>5. CASE ModuleDecl \/ NewFunction
  <2>1. /\ ~HasSymbol
        /\ \E kind, mscope : symbols' = Append(symbols, Symbol(kind, Name, NOTYPE, mscope))
        /\ \E kind, parent : scopes' = Append(WithName(Name), Scope(kind, parent))
    BY <1>5 DEF ModuleDecl, NewFunction
  <2>2. PICK kind, mscope : symbols' = Append(symbols, Symbol(kind, Name, NOTYPE, mscope))
    BY <2>1
  <2>3. PICK k2, parent : scopes' = Append(WithName(Name), Scope(k2, parent))
    BY <2>1
  <2>4. PICK sc : sc = WithName(Name)
    OBVIOUS
  <2>5. NamesOf(sc, symbols') /\ IsSeq(sc)
    BY <2>1, <2>2, <2>4, NamesDeclared
  <2>6. PICK sc2 : sc2 = scopes'
    OBVIOUS
  <2>7. PICK sy2 : sy2 = symbols'
    OBVIOUS
  <2>8. sc2 = Append(sc, Scope(k2, parent))
    BY <2>3, <2>4, <2>6
  <2>9. NamesOf(sc2, sy2)
    BY <2>5, <2>7, <2>8, NamesGrow
  <2> QED BY <2>6, <2>7, <2>9
<1> QED BY <1>1, <1>2, <1>3, <1>4, <1>5

LEMMA NamesTyped ==
  ASSUME NamesOf(scopes, symbols), ResolveTypes
  PROVE  NamesOf(scopes, symbols)'
<1>1. scopes' = scopes
  BY TypesKeepNames
<1>2. \/ symbols' = symbols
      \/ \E s, type : symbols' = [symbols EXCEPT ![s].type = type]
  BY DEF ResolveTypes, TypeVarDecl, TypeLiteral, TypeIdentifier, TypeOperation, TypeCall, TypeMember,
         TypeExprStmt, TypeReturn, TypeControl, TypeBareIf, TypeBlock, TypeEndBlock, TypeModule, TypeEndModule,
         TypeFunction, TypeParam, TypeEndFunction, RefuseType, Mistyped, Typed
<1>3. PICK sy2 : sy2 = symbols'
  OBVIOUS
<1>4. \A i \in DOMAIN symbols : DOMAIN symbols[i] = SymbolFields
  BY DEF NamesOf
<1>5. /\ DOMAIN sy2 = DOMAIN symbols
      /\ \A i \in DOMAIN symbols : DOMAIN sy2[i] = DOMAIN symbols[i] /\ sy2[i].name = symbols[i].name
  <2>1. CASE symbols' = symbols
    BY <1>3, <2>1
  <2>2. CASE \E s, type : symbols' = [symbols EXCEPT ![s].type = type]
    <3>1. PICK s, type : sy2 = [symbols EXCEPT ![s].type = type]
      BY <1>3, <2>2
    <3>2. DOMAIN sy2 = DOMAIN symbols
      BY <3>1
    <3>3. \A i \in DOMAIN symbols : sy2[i] = symbols[i] \/ sy2[i] = [symbols[i] EXCEPT !.type = type]
      BY <3>1
    <3> QED BY <1>4, <3>2, <3>3 DEF SymbolFields
  <2> QED BY <1>2, <2>1, <2>2
<1>6. NamesOf(scopes, sy2)
  BY <1>5, NamesRetyped
<1> QED BY <1>1, <1>3, <1>6

-----------------------------------------------------------------------------
(* The invariant of both walks: before the types there are none, with them *)
(* the state is the second walk, and what it ends with holds ever after.   *)
AroundIn(u, p) == {f \in RegionsAround(u, p) : f # 0 /\ u[f].n \in {"function", "module"}}
ReturnsFrom(u, f) == {p \in f + 1 .. CloserOf(u, f) : u[p].n \in Returning /\ Max(AroundIn(u, p)) = f}
TypeIn(nt, p) == IF p \in DOMAIN nt THEN nt[p] ELSE NOTYPE
SoundIn(u, mm, nt) ==
  /\ \A m \in DOMAIN mm :
       mm[m].decl # 0 =>
         LET found == {TypeIn(nt, p) : p \in ReturnsFrom(u, mm[m].decl)}
         IN  \/ found \subseteq {NOTHING, mm[m].type[3]}
             \/ NOTYPE \in found /\ u[mm[m].decl].hasReturnType
  /\ \A m, o \in DOMAIN mm : (mm[m].of = mm[o].of /\ m # o) => mm[m].type[2] # mm[o].type[2]
SoundMethods == SoundIn(unit, m_methods, m_node_types)
AtTop == m_current_scope = Main /\ saved = << >> /\ Main \in DOMAIN scopes

TypingSound ==
  /\ IsUnit(unit) /\ pos \in 1 .. Len(unit) + 1
  /\ stage \in {"names", "types", "done", "unresolved", "mistyped"}
  /\ NamesOf(scopes, symbols) /\ Nested(scopes)
  /\ stage \in {"names", "unresolved"} => \E rs : Walk(rs)
  /\ stage \in {"types", "done", "mistyped"} => AtTop
  /\ stage = "names" => Untyped
  /\ stage = "types" => TypeWalk
  /\ stage = "done" => SoundMethods

LEMMA WalkNested ==
  ASSUME NEW rs, Walk(rs)
  PROVE  Nested(scopes) /\ IsUnit(unit) /\ pos \in 1 .. Len(unit) + 1
<1>1. /\ Len(scopes) \in Nat /\ DOMAIN scopes = 1 .. Len(scopes)
  BY WalkFacts, SequenceFacts
<1>2. \A s \in 1 .. Len(scopes) : scopes[s].parent \in 0 .. s - 1
  BY DEF Walk, Tree
<1>3. \A s \in 1 .. Len(scopes) : scopes[s].parent < s
  BY <1>1, <1>2
<1> QED BY <1>1, <1>3 DEF Walk, Nested

LEMMA NextNested == (\E rs : Walk(rs)') => Nested(scopes)' /\ IsUnit(unit)' /\ (pos \in 1 .. Len(unit) + 1)'
<1>1. (\E rs : Walk(rs)) => Nested(scopes) /\ IsUnit(unit) /\ pos \in 1 .. Len(unit) + 1
  BY WalkNested
<1>2. (\E rs : Walk(rs))' => (Nested(scopes) /\ IsUnit(unit) /\ pos \in 1 .. Len(unit) + 1)'
  BY <1>1, PTL
<1> QED BY <1>2

LEMMA SoundKept ==
  ASSUME SoundMethods, UNCHANGED <<unit, m_methods, m_node_types>>
  PROVE  SoundMethods'
BY DEF SoundMethods

LEMMA TypingStarts == TInit => TypingSound
<1> SUFFICES ASSUME TInit PROVE TypingSound
  OBVIOUS
<1>1. Init /\ stage = "names"
  BY DEF TInit, Init
<1>2. Walk(<<0>>)
  BY <1>1, WalkStarts
<1>3. NamesOf(scopes, symbols) /\ Untyped
  BY <1>1, NamesStart, UntypedStarts
<1> QED BY <1>1, <1>2, <1>3, WalkNested DEF TypingSound

(* When every region is closed, the current scope is Main.                 *)
LEMMA WalkAtTop ==
  ASSUME NEW rs, Walk(rs), pos > Len(unit)
  PROVE  AtTop
<1>1. /\ pos = Len(unit) + 1 /\ IsUnit(unit) /\ pos \in 1 .. Len(unit) + 1 /\ pos \in Nat \ {0}
      /\ IsSeq(scopes) /\ Len(scopes) \in Nat /\ m_current_scope \in 2 .. Len(scopes)
  BY WalkFacts, SMTT(20) DEF Walk
<1>2. PICK h : h = Waiting(unit)[pos]
  OBVIOUS
<1>3. h = << >> /\ Len(h) = 0
  BY <1>1, <1>2 DEF IsUnit, IsTree
<1>4. RegionsAround(unit, pos) = {0}
  <2>1. \A o : o \in RegionsAround(unit, pos) <=> o = 0 \/ \E k \in 1 .. Len(h) : h[k] = o /\ unit[o].n \in Opens
    BY <1>1, <1>2, HeldIsAround, SMTT(20)
  <2> QED BY <1>3, <2>1
<1>5. Open(rs) = {0} /\ Ancestry(unit, pos, rs)
  <2>1. Stack(unit, pos, rs)
    BY DEF Walk
  <2> QED BY <1>1, <1>4, <2>1, StackIsAround DEF Stack
<1>6. Len(rs) = 1 /\ rs[1] = 0
  <2>1. rs \in Seq(Nat) /\ rs # << >> /\ rs[1] = 0 /\ Len(rs) \in Nat
    BY <1>5 DEF Ancestry
  <2>2. Len(rs) >= 1
    BY <2>1
  <2>3. ASSUME Len(rs) >= 2 PROVE FALSE
    <3>1. 2 \in 2 .. Len(rs) /\ 2 \in 1 .. Len(rs)
      BY <2>1, <2>3
    <3>2. rs[2] \in 1 .. pos - 1
      BY <1>5, <3>1 DEF Ancestry
    <3>3. rs[2] \in Open(rs)
      BY <3>1 DEF Open
    <3>4. rs[2] = 0
      BY <1>5, <3>3
    <3> QED BY <1>1, <3>2, <3>4
  <2>4. PICK n \in Nat : n = Len(rs)
    BY <2>1
  <2>5. n >= 1 /\ ~(n >= 2)
    BY <2>2, <2>3, <2>4
  <2>6. n = 1
    BY ONLY <2>5, n \in Nat
  <2> QED BY <2>1, <2>4, <2>6
<1>7. m_current_scope = Main
  <2>1. m_current_scope = ScopeOf(unit, 0)
    BY <1>6 DEF Walk, WalkAt, Top
  <2> QED BY <1>1, <2>1, ScopeNumbers
<1>8. saved = << >>
  <2>1. saved \in Seq(Nat) /\ Len(saved) = 0
    BY <1>6 DEF Walk, WalkAt
  <2> QED BY <2>1
<1>9. Main \in DOMAIN scopes
  <2>1. DOMAIN scopes = 1 .. Len(scopes)
    BY <1>1, SequenceFacts
  <2> QED BY <1>1, <2>1 DEF Main
<1> QED BY <1>7, <1>8, <1>9 DEF AtTop

LEMMA TypeWalkSteps ==
  ASSUME TypeWalk, ResolveTypes, ~RefuseType, ~Typed
  PROVE  TypeWalk' /\ stage' = "types"
<1>1. TypeWalk'
  BY TypeVarDeclStep, TypeLiteralStep, TypeIdentifierStep, TypeOperationStep, TypeUseStep, TypeDropStep,
     TypeReturnStep, TypeControlStep, TypeBareIfStep, TypeOpensStep, TypeEndBlockStep, TypeFunctionStep, TypeParamStep,
     TypeEndFunctionStep
     DEF ResolveTypes
<1>2. stage' = "types"
  BY DEF ResolveTypes, TypeVarDecl, TypeLiteral, TypeIdentifier, TypeOperation, TypeCall, TypeMember,
         TypeExprStmt, TypeReturn, TypeControl, TypeBareIf, TypeBlock, TypeEndBlock, TypeModule, TypeEndModule,
         TypeFunction, TypeParam, TypeEndFunction, At, Forward
<1> QED BY <1>1, <1>2

LEMMA TypingSteps == TypingSound /\ [Next]_vars => TypingSound'
<1> SUFFICES ASSUME TypingSound, [Next]_vars PROVE TypingSound'
  OBVIOUS
<1>1. CASE ResolveNames /\ UNCHANGED tvars
  <2>1. stage = "names"
    BY <1>1 DEF ResolveNames, VarDecl, Identifier, Call, Member, ModuleDecl, Block, Leave,
                NewFunction, Overload, Param, PassBy, Refuse, Resolved, At
  <2>2. PICK rs : Walk(rs)
    BY <2>1 DEF TypingSound
  <2>3. Untyped /\ NamesOf(scopes, symbols)
    BY <2>1 DEF TypingSound
  <2>4. NamesOf(scopes, symbols)'
    BY <1>1, <2>2, <2>3, NamesPass DEF ResolveNames
  <2>5. CASE Refuse
    <3>1. stage' = "unresolved" /\ UNCHANGED <<unit, pos, symbols, scopes, m_current_scope, saved, m_node_symbls>>
      BY <2>5 DEF Refuse, Unresolved, svars
    <3>2. Walk(rs)'
      BY <2>2, <3>1 DEF Walk
    <3> QED BY <2>4, <3>1, <3>2 DEF TypingSound, Nested
  <2>6. CASE Resolved
    <3>1. /\ stage' = "types" /\ pos' = 1 /\ pos > Len(unit)
          /\ UNCHANGED <<unit, symbols, scopes, m_methods, m_current_scope, saved, m_node_symbls, results, m_node_types>>
      BY <1>1, <2>6 DEF Resolved, svars, tvars
    <3>2. TypeWalk'
      <4>1. WalksAt(unit, 1, results, m_node_types, m_methods, m_node_symbls)
        BY <2>2, <2>3, <3>1, TypeWalkStarts
      <4> QED BY <3>1, <4>1 DEF TypeWalk
    <3>3. AtTop'
      <4>1. AtTop
        BY <2>2, <3>1, WalkAtTop
      <4> QED BY <3>1, <4>1 DEF AtTop
    <3>4. IsUnit(unit)' /\ Nested(scopes)'
      BY <3>1 DEF TypingSound, Nested
    <3>5. (pos \in 1 .. Len(unit) + 1)'
      <4>1. Len(unit) \in Nat
        BY <2>2, WalkFacts
      <4> QED BY <3>1, <4>1
    <3> QED BY <2>4, <3>1, <3>2, <3>3, <3>4, <3>5 DEF TypingSound
  <2>7. CASE ~Refuse /\ ~Resolved
    <3>1. \/ VarDecl \/ Identifier \/ Call \/ Member \/ ModuleDecl \/ Block \/ Leave
          \/ NewFunction \/ Overload \/ Param \/ PassBy
      BY <1>1, <2>7 DEF ResolveNames
    <3>2. stage' = "names" /\ \E ss : Walk(ss)'
      BY <2>2, <3>1, WalkSteps
    <3>3. Untyped'
      BY <1>1, <2>2, <2>3, <3>1, UntypedPasses, UntypedGrows
    <3>4. Nested(scopes)' /\ IsUnit(unit)' /\ (pos \in 1 .. Len(unit) + 1)'
      BY <3>2, NextNested
    <3> QED BY <2>4, <3>2, <3>3, <3>4 DEF TypingSound
  <2> QED BY <2>5, <2>6, <2>7
<1>2. CASE ResolveTypes
  <2>1. /\ stage = "types" /\ stage' \in {"types", "done", "mistyped"}
        /\ UNCHANGED <<unit, scopes, m_node_symbls>>
    BY <1>2, TypesKeepNames
  <2>2. TypeWalk /\ NamesOf(scopes, symbols) /\ AtTop
    BY <2>1 DEF TypingSound
  <2>3. NamesOf(scopes, symbols)'
    BY <1>2, <2>2, NamesTyped
  <2>4. AtTop'
    <3>1. UNCHANGED <<m_current_scope, saved>>
      BY <1>2 DEF ResolveTypes, TypeVarDecl, TypeLiteral, TypeIdentifier, TypeOperation, TypeCall, TypeMember,
         TypeExprStmt, TypeReturn, TypeControl, TypeBareIf, TypeBlock, TypeEndBlock, TypeModule, TypeEndModule,
         TypeFunction, TypeParam, TypeEndFunction, RefuseType, Mistyped, Typed, svars
    <3> QED BY <2>1, <2>2, <3>1 DEF AtTop
  <2>5. IsUnit(unit)' /\ Nested(scopes)'
    BY <2>1 DEF TypingSound, Nested
  <2>6. CASE RefuseType
    <3>1. stage' = "mistyped" /\ UNCHANGED <<unit, pos>>
      BY <2>6 DEF RefuseType, Mistyped
    <3> QED BY <2>3, <2>4, <2>5, <3>1 DEF TypingSound
  <2>7. CASE Typed
    <3>1. stage' = "done" /\ UNCHANGED <<unit, pos, m_methods, m_node_types, results>> /\ pos > Len(unit)
      BY <2>7 DEF Typed, svars, tvars
    <3>2. SoundMethods
      <4>1. /\ \A m \in DOMAIN m_methods :
                  m_methods[m].decl # 0 =>
                    LET found == {TypeAt(p) : p \in ReturnsOf(m_methods[m].decl)}
                    IN  found \subseteq {NOTHING, m_methods[m].type[3]} \/ Excused(found, m_methods[m].decl)
            /\ \A m, o \in DOMAIN m_methods :
                 (m_methods[m].of = m_methods[o].of /\ m # o) => m_methods[m].type[2] # m_methods[o].type[2]
        BY <2>2, <3>1, TypeWalkEnds
      <4>2. \A p : TypeAt(p) = TypeIn(m_node_types, p)
        BY DEF TypeAt, TypeIn
      <4>3. \A f : ReturnsOf(f) = ReturnsFrom(unit, f)
        BY DEF ReturnsOf, ReturnsFrom, Around, AroundIn
      <4> QED BY <4>1, <4>2, <4>3 DEF SoundMethods, SoundIn, Excused
    <3>3. SoundMethods'
      BY <3>1, <3>2, SoundKept
    <3> QED BY <2>3, <2>4, <2>5, <3>1, <3>3 DEF TypingSound
  <2>8. CASE ~RefuseType /\ ~Typed
    <3>1. TypeWalk' /\ stage' = "types"
      BY <1>2, <2>2, <2>8, TypeWalkSteps
    <3>2. (pos \in 1 .. Len(unit) + 1)'
      BY <3>1 DEF TypeWalk, WalksAt
    <3> QED BY <2>3, <2>4, <2>5, <3>1, <3>2 DEF TypingSound
  <2> QED BY <2>6, <2>7, <2>8
<1>3. CASE UNCHANGED vars
  <2>1. UNCHANGED <<unit, pos, stage, symbols, scopes, m_methods, m_current_scope, saved, m_node_symbls, m_node_types, results>>
    BY <1>3 DEF vars, svars, tvars
  <2>2. ASSUME NEW rs, Walk(rs) PROVE Walk(rs)'
    BY <2>1, <2>2 DEF Walk
  <2>3. SoundMethods => SoundMethods'
    BY <2>1, SoundKept
  <2>4. Untyped => Untyped'
    BY <2>1 DEF Untyped
  <2>5. (TypeWalk => TypeWalk') /\ (AtTop => AtTop') /\ (Nested(scopes) => Nested(scopes)')
        /\ (NamesOf(scopes, symbols) => NamesOf(scopes, symbols)')
    BY <2>1 DEF TypeWalk, AtTop, Nested, NamesOf
  <2> QED BY <2>1, <2>2, <2>3, <2>4, <2>5 DEF TypingSound
<1> QED BY <1>1, <1>2, <1>3 DEF Next

(* The invariant of both walks always holds.                               *)
THEOREM TypingAlways == Spec => []TypingSound
<1> QED BY TypingStarts, TypingSteps, PTL DEF Spec

LEMMA TypesAreOK == TypingSound => TypeOK
<1> SUFFICES ASSUME TypingSound PROVE TypeOK
  OBVIOUS
<1>1. CASE stage \in {"names", "unresolved"}
  <2>1. PICK rs : Walk(rs)
    BY <1>1 DEF TypingSound
  <2>2. m_current_scope \in DOMAIN scopes
    <3>1. IsSeq(scopes) /\ m_current_scope \in 2 .. Len(scopes) /\ Len(scopes) \in Nat
      BY <2>1, WalkFacts
    <3> QED BY <3>1, SequenceFacts
  <2>3. Len(saved) = RegionsOpen
    BY <2>1 DEF Walk, WalkAt, Stack, Balances, Balance, RegionsOpen
  <2> QED BY <1>1, <2>2, <2>3 DEF TypingSound, TypeOK, NamesOf, Nested
<1>2. CASE stage \in {"types", "done", "mistyped"}
  <2>1. AtTop /\ Len(saved) = 0
    BY <1>2 DEF TypingSound, AtTop
  <2>2. stage = "types" /\ pos > Len(unit) => results = << >>
    BY TypeWalkEnds DEF TypingSound
  <2> QED BY <1>2, <2>1, <2>2 DEF TypingSound, TypeOK, NamesOf, Nested, AtTop
<1> QED BY <1>1, <1>2 DEF TypingSound

(***************************************************************************)
(* Whatever unit is resolved: the walk stays on it, with one saved scope   *)
(* for each region that is open; each scope is inside an older one, and    *)
(* the names it maps are those of their symbols; when the second walk ends *)
(* nothing is left on its stack.                                           *)
(***************************************************************************)
THEOREM ResolvedTypes == Spec => []TypeOK
<1> QED BY TypesAreOK, TypingAlways, PTL

(***************************************************************************)
(* The signatures TypeResolver gives to the methods of an accepted unit    *)
(* are true: the returns of a function -- its own, however they are nested *)
(* in blocks, branches and loops -- have its type, unless one has no type  *)
(* and the type is an annotation's, with which an untyped body is not      *)
(* compared (Resolver.cpp line 374); and no two methods of a function take *)
(* the same parameters.                                                    *)
(***************************************************************************)
THEOREM SignaturesAreSound == Spec => []SoundSignatures
<1>1. TypingSound => SoundSignatures
  <2>1. \A p : TypeAt(p) = TypeIn(m_node_types, p)
    BY DEF TypeAt, TypeIn
  <2>2. \A f : ReturnsOf(f) = ReturnsFrom(unit, f)
    BY DEF ReturnsOf, ReturnsFrom, Around, AroundIn
  <2> QED BY <2>1, <2>2 DEF TypingSound, SoundSignatures, SoundMethods, SoundIn, Excused
<1> QED BY <1>1, TypingAlways, PTL

=============================================================================

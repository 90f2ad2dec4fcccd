-------------------------- MODULE LoweredCodeProofs ---------------------------
(***************************************************************************)
(* Proofs about LoweredCode for every module of well-formed IR, every path *)
(* through its functions and any number of blocks run.                     *)
(*                                                                         *)
(* StackDiscipline compares the machine with the IR while a function runs, *)
(* long after lowering, so the invariant has two parts.  RunInv: the two   *)
(* states agree (Sim), RSP and RBP being where the prologue put them.      *)
(* LoweringInv: the code of each block lowered so far keeps Sim, from      *)
(* whatever states that agree it is started (Ends), or even falls through  *)
(* (Keeps).  From below:                                                   *)
(*   folds      Run, RunIR and LowerAll take sequences one element at a    *)
(*              time; WithEpilogue, WithCopies and FlattenSeq append       *)
(*   the walk   LoweringOrder lists the reachable blocks, each once        *)
(*   Execute    instructions that name no pointer leave Sim alone (Quiet); *)
(*              what the prologue, the epilogue, a jump and a call do      *)
(*   Lowers     the code of one IR instruction keeps Sim                   *)
(*   Ended      and so does the code of a block, copies for phis included  *)
(*   the steps  of LowerModule, Enter and RunBlock                         *)
(*                                                                         *)
(* That lower only makes code allocate accepts (IsLowered) has an          *)
(* invariant of its own, ShapeInv: the blocks in hand are Shaped, names    *)
(* within the registers made so far and no room left at RSP at the end.    *)
(* Adds says of the code of an instruction that it keeps that wherever it  *)
(* is put; Good, of the lowering of a block.                               *)
(***************************************************************************)
EXTENDS LoweredCode, MachineCodeProofs

-----------------------------------------------------------------------------
(* Folding a sequence, from the function each fold is defined by.          *)

StepsFrom(st, c, n, h) == h = [k \in 0 .. n |-> IF k = 0 THEN st ELSE IRStep(h[k - 1], c[k])]

LEMMA IRExists ==
  ASSUME NEW st, NEW c, NEW m \in Nat
  PROVE  \E h : StepsFrom(st, c, m, h)
<1> DEFINE T == {n \in Nat : \E h : StepsFrom(st, c, n, h)}
<1>1. 0 \in T
  <2> DEFINE h == [k \in 0 .. 0 |-> st]
  <2>1. StepsFrom(st, c, 0, h)
    BY DEF StepsFrom
  <2> QED BY <2>1
<1>2. ASSUME NEW n \in Nat, n \in T PROVE n + 1 \in T
  <2>1. PICK h : StepsFrom(st, c, n, h)
    BY <1>2
  <2> DEFINE g == [k \in 0 .. n + 1 |-> IF k = 0 THEN st ELSE IRStep(h[k - 1], c[k])]
  <2>2. \A k \in 0 .. n : g[k] = h[k]
    BY <2>1 DEF StepsFrom
  <2>3. \A k \in 0 .. n + 1 : k # 0 => k - 1 \in 0 .. n
    OBVIOUS
  <2>4. StepsFrom(st, c, n + 1, g)
    BY <2>2, <2>3 DEF StepsFrom
  <2> HIDE DEF g
  <2> QED BY <2>4
<1> HIDE DEF T
<1>3. m \in T
  BY <1>1, <1>2, NumbersFrom0
<1> QED BY <1>3 DEF T

LEMMA IRUnique ==
  ASSUME NEW st, NEW c, NEW d, NEW n \in Nat, NEW m \in Nat, n <= m,
         \A k \in 1 .. n : c[k] = d[k],
         NEW g, StepsFrom(st, c, n, g), NEW h, StepsFrom(st, d, m, h), NEW j \in 0 .. n
  PROVE  g[j] = h[j]
<1> DEFINE T == {k \in Nat : k \in 0 .. n => g[k] = h[k]}
<1>1. 0 \in T
  BY DEF StepsFrom
<1>2. ASSUME NEW k \in Nat, k \in T PROVE k + 1 \in T
  <2> SUFFICES ASSUME k + 1 \in 0 .. n PROVE g[k + 1] = h[k + 1]
    OBVIOUS
  <2>1. k + 1 # 0 /\ (k + 1) - 1 = k /\ k \in 0 .. n /\ k + 1 \in 0 .. m /\ k + 1 \in 1 .. n
    OBVIOUS
  <2>2. g[k + 1] = IRStep(g[k], c[k + 1])
    BY <2>1 DEF StepsFrom
  <2>3. h[k + 1] = IRStep(h[k], d[k + 1])
    BY <2>1 DEF StepsFrom
  <2> QED BY <1>2, <2>1, <2>2, <2>3
<1> HIDE DEF T
<1>3. j \in T
  BY <1>1, <1>2, NumbersFrom0
<1> QED BY <1>3 DEF T

LEMMA IRIs ==
  ASSUME NEW st, NEW S, NEW c \in Seq(S)
  PROVE  \E h : StepsFrom(st, c, Len(c), h) /\ RunIR(st, c) = h[Len(c)]
<1> DEFINE Is(h) == h = [k \in 0 .. Len(c) |->
              IF k = 0 THEN st
              ELSE CHOOSE s \in {IRStep(t, c[k]) : t \in {h[k - 1]}} : TRUE]
<1>1. \A h, k : (CHOOSE s \in {IRStep(t, c[k]) : t \in {h[k - 1]}} : TRUE) = IRStep(h[k - 1], c[k])
  OBVIOUS
<1>2. \A h : Is(h) <=> StepsFrom(st, c, Len(c), h)
  BY <1>1 DEF StepsFrom
<1>3. \E h : Is(h)
  <2>1. Len(c) \in Nat
    OBVIOUS
  <2>2. PICK h : StepsFrom(st, c, Len(c), h)
    BY <2>1, IRExists
  <2> HIDE DEF Is
  <2> QED BY <1>2, <2>2
<1> DEFINE states == CHOOSE h : Is(h)
<1>4. Is(states)
  <2> HIDE DEF Is
  <2> QED BY <1>3
<1>5. RunIR(st, c) = states[Len(c)]
  BY DEF RunIR
<1> HIDE DEF states
<1> QED BY <1>2, <1>4, <1>5

LEMMA IREmpty == ASSUME NEW st PROVE RunIR(st, << >>) = st
<1>1. << >> \in Seq({}) /\ Len(<< >>) = 0
  OBVIOUS
<1>2. PICK h : StepsFrom(st, << >>, 0, h) /\ RunIR(st, << >>) = h[0]
  BY <1>1, IRIs
<1> QED BY <1>2 DEF StepsFrom

LEMMA IRAppend ==
  ASSUME NEW st, NEW S, NEW c \in Seq(S), NEW i \in S
  PROVE  RunIR(st, Append(c, i)) = IRStep(RunIR(st, c), i)
<1> DEFINE n == Len(c)
<1> DEFINE d == Append(c, i)
<1>1. n \in Nat /\ d \in Seq(S) /\ Len(d) = n + 1 /\ d[n + 1] = i /\ \A k \in 1 .. n : c[k] = d[k]
  OBVIOUS
<1>2. PICK g : StepsFrom(st, c, n, g) /\ RunIR(st, c) = g[n]
  <2> HIDE DEF d
  <2> QED BY IRIs
<1> HIDE DEF d
<1>3. PICK h : StepsFrom(st, d, n + 1, h) /\ RunIR(st, d) = h[n + 1]
  BY <1>1, IRIs
<1> HIDE DEF n
<1>4. g[n] = h[n]
  <2>1. n \in Nat /\ n + 1 \in Nat /\ n <= n + 1 /\ n \in 0 .. n /\ \A k \in 1 .. n : c[k] = d[k]
    BY <1>1
  <2>2. StepsFrom(st, c, n, g) /\ StepsFrom(st, d, n + 1, h)
    BY <1>2, <1>3
  <2> QED BY ONLY <2>1, <2>2, IRUnique
<1>5. h[n + 1] = IRStep(h[n], d[n + 1])
  BY <1>1, <1>3 DEF StepsFrom
<1> QED BY <1>1, <1>2, <1>3, <1>4, <1>5 DEF d

LowersFrom(st, c, n, h) == h = [k \in 0 .. n |-> IF k = 0 THEN st ELSE LowerNext(h[k - 1], c[k])]

LEMMA LowerExists ==
  ASSUME NEW st, NEW c, NEW m \in Nat
  PROVE  \E h : LowersFrom(st, c, m, h)
<1> DEFINE T == {n \in Nat : \E h : LowersFrom(st, c, n, h)}
<1>1. 0 \in T
  <2> DEFINE h == [k \in 0 .. 0 |-> st]
  <2>1. LowersFrom(st, c, 0, h)
    BY DEF LowersFrom
  <2> QED BY <2>1
<1>2. ASSUME NEW n \in Nat, n \in T PROVE n + 1 \in T
  <2>1. PICK h : LowersFrom(st, c, n, h)
    BY <1>2
  <2> DEFINE g == [k \in 0 .. n + 1 |-> IF k = 0 THEN st ELSE LowerNext(h[k - 1], c[k])]
  <2>2. \A k \in 0 .. n : g[k] = h[k]
    BY <2>1 DEF LowersFrom
  <2>3. \A k \in 0 .. n + 1 : k # 0 => k - 1 \in 0 .. n
    OBVIOUS
  <2>4. LowersFrom(st, c, n + 1, g)
    BY <2>2, <2>3 DEF LowersFrom
  <2> HIDE DEF g
  <2> QED BY <2>4
<1> HIDE DEF T
<1>3. m \in T
  BY <1>1, <1>2, NumbersFrom0
<1> QED BY <1>3 DEF T

LEMMA LowerUnique ==
  ASSUME NEW st, NEW c, NEW d, NEW n \in Nat, NEW m \in Nat, n <= m,
         \A k \in 1 .. n : c[k] = d[k],
         NEW g, LowersFrom(st, c, n, g), NEW h, LowersFrom(st, d, m, h), NEW j \in 0 .. n
  PROVE  g[j] = h[j]
<1> DEFINE T == {k \in Nat : k \in 0 .. n => g[k] = h[k]}
<1>1. 0 \in T
  BY DEF LowersFrom
<1>2. ASSUME NEW k \in Nat, k \in T PROVE k + 1 \in T
  <2> SUFFICES ASSUME k + 1 \in 0 .. n PROVE g[k + 1] = h[k + 1]
    OBVIOUS
  <2>1. k + 1 # 0 /\ (k + 1) - 1 = k /\ k \in 0 .. n /\ k + 1 \in 0 .. m /\ k + 1 \in 1 .. n
    OBVIOUS
  <2>2. g[k + 1] = LowerNext(g[k], c[k + 1])
    BY <2>1 DEF LowersFrom
  <2>3. h[k + 1] = LowerNext(h[k], d[k + 1])
    BY <2>1 DEF LowersFrom
  <2> QED BY <1>2, <2>1, <2>2, <2>3
<1> HIDE DEF T
<1>3. j \in T
  BY <1>1, <1>2, NumbersFrom0
<1> QED BY <1>3 DEF T

LEMMA LowerIs ==
  ASSUME NEW st, NEW S, NEW c \in Seq(S)
  PROVE  \E h : LowersFrom(st, c, Len(c), h) /\ LowerAll(st, c) = h[Len(c)]
<1> DEFINE Is(h) == h = [k \in 0 .. Len(c) |->
              IF k = 0 THEN st
              ELSE CHOOSE s \in {LowerNext(t, c[k]) : t \in {h[k - 1]}} : TRUE]
<1>1. \A h, k : (CHOOSE s \in {LowerNext(t, c[k]) : t \in {h[k - 1]}} : TRUE) = LowerNext(h[k - 1], c[k])
  OBVIOUS
<1>2. \A h : Is(h) <=> LowersFrom(st, c, Len(c), h)
  BY <1>1 DEF LowersFrom
<1>3. \E h : Is(h)
  <2>1. Len(c) \in Nat
    OBVIOUS
  <2>2. PICK h : LowersFrom(st, c, Len(c), h)
    BY <2>1, LowerExists
  <2> HIDE DEF Is
  <2> QED BY <1>2, <2>2
<1> DEFINE states == CHOOSE h : Is(h)
<1>4. Is(states)
  <2> HIDE DEF Is
  <2> QED BY <1>3
<1>5. LowerAll(st, c) = states[Len(c)]
  BY DEF LowerAll
<1> HIDE DEF states
<1> QED BY <1>2, <1>4, <1>5

LEMMA LowerEmpty == ASSUME NEW st PROVE LowerAll(st, << >>) = st
<1>1. << >> \in Seq({}) /\ Len(<< >>) = 0
  OBVIOUS
<1>2. PICK h : LowersFrom(st, << >>, 0, h) /\ LowerAll(st, << >>) = h[0]
  BY <1>1, LowerIs
<1> QED BY <1>2 DEF LowersFrom

LEMMA LowerAppend ==
  ASSUME NEW st, NEW S, NEW c \in Seq(S), NEW i \in S
  PROVE  LowerAll(st, Append(c, i)) = LowerNext(LowerAll(st, c), i)
<1> DEFINE n == Len(c)
<1> DEFINE d == Append(c, i)
<1>1. n \in Nat /\ d \in Seq(S) /\ Len(d) = n + 1 /\ d[n + 1] = i /\ \A k \in 1 .. n : c[k] = d[k]
  OBVIOUS
<1>2. PICK g : LowersFrom(st, c, n, g) /\ LowerAll(st, c) = g[n]
  <2> HIDE DEF d
  <2> QED BY LowerIs
<1> HIDE DEF d
<1>3. PICK h : LowersFrom(st, d, n + 1, h) /\ LowerAll(st, d) = h[n + 1]
  BY <1>1, LowerIs
<1> HIDE DEF n
<1>4. g[n] = h[n]
  <2>1. n \in Nat /\ n + 1 \in Nat /\ n <= n + 1 /\ n \in 0 .. n /\ \A k \in 1 .. n : c[k] = d[k]
    BY <1>1
  <2>2. LowersFrom(st, c, n, g) /\ LowersFrom(st, d, n + 1, h)
    BY <1>2, <1>3
  <2> QED BY ONLY <2>1, <2>2, LowerUnique
<1>5. h[n + 1] = LowerNext(h[n], d[n + 1])
  BY <1>1, <1>3 DEF LowersFrom
<1> QED BY <1>1, <1>2, <1>3, <1>4, <1>5 DEF d

(* FlattenSeq, in the same form.                                           *)

-----------------------------------------------------------------------------
LEMMA LowerConcat ==
  ASSUME NEW st, NEW S, NEW a \in Seq(S), NEW b \in Seq(S)
  PROVE  LowerAll(st, a \o b) = LowerAll(LowerAll(st, a), b)
<1> DEFINE T == {c \in Seq(S) : LowerAll(st, a \o c) = LowerAll(LowerAll(st, a), c)}
<1>1. << >> \in T
  <2>1. a \o << >> = a /\ << >> \in Seq(S)
    BY ConcatEmptySeq
  <2>2. LowerAll(LowerAll(st, a), << >>) = LowerAll(st, a)
    BY LowerEmpty
  <2> QED BY <2>1, <2>2
<1>2. ASSUME NEW c \in Seq(S), NEW x \in S, c \in T PROVE Append(c, x) \in T
  <2>1. a \o Append(c, x) = Append(a \o c, x) /\ a \o c \in Seq(S) /\ Append(c, x) \in Seq(S)
    BY ConcatAppend, ConcatProperties, AppendFacts
  <2>2. LowerAll(st, Append(a \o c, x)) = LowerNext(LowerAll(st, a \o c), x)
    <3>1. \A d \in Seq(S) : LowerAll(st, Append(d, x)) = LowerNext(LowerAll(st, d), x)
      BY LowerAppend
    <3> QED BY ONLY <2>1, <3>1
  <2>3. LowerAll(LowerAll(st, a), Append(c, x)) = LowerNext(LowerAll(LowerAll(st, a), c), x)
    BY LowerAppend
  <2>4. LowerAll(st, a \o c) = LowerAll(LowerAll(st, a), c)
    BY <1>2
  <2> QED BY <2>1, <2>2, <2>3, <2>4
<1> HIDE DEF T
<1>3. b \in T
  BY <1>1, <1>2, SequencesFromEmpty
<1> QED BY <1>3 DEF T

LEMMA CopiesAppend ==
  ASSUME NEW S, NEW c \in Seq(S), NEW i \in S, NEW copies \in Seq(S)
  PROVE  /\ WithCopies(c, copies) \in Seq(S)
         /\ WithCopies(Append(c, i), copies) =
              WithCopies(c, copies) \o (IF i.op \in Terminators THEN Append(copies, i) ELSE <<i>>)
<1> DEFINE g == [x \in S |-> IF x.op \in Terminators THEN Append(copies, x) ELSE <<x>>]
<1>1. g \in [S -> Seq(S)] /\ \A x \in S : g[x] = IF x.op \in Terminators THEN Append(copies, x) ELSE <<x>>
  OBVIOUS
<1>2. ASSUME NEW d \in Seq(S) PROVE WithCopies(d, copies) = Mapped(g, d)
  <2>1. \A k \in DOMAIN d : d[k] \in S
    OBVIOUS
  <2> HIDE DEF g
  <2>2. [k \in DOMAIN d |-> IF d[k].op \in Terminators THEN Append(copies, d[k]) ELSE <<d[k]>>] = [k \in DOMAIN d |-> g[d[k]]]
    BY <1>1, <2>1
  <2> QED BY <2>2 DEF Mapped, WithCopies
<1> HIDE DEF g
<1>3. Append(c, i) \in Seq(S)
  OBVIOUS
<1>4. WithCopies(c, copies) = Mapped(g, c) /\ WithCopies(Append(c, i), copies) = Mapped(g, Append(c, i))
  BY <1>2, <1>3
<1>5. Mapped(g, c) \in Seq(S) /\ Mapped(g, Append(c, i)) = Mapped(g, c) \o g[i]
  BY <1>1, MappedAppend, ZenonT(60)
<1>6. g[i] = IF i.op \in Terminators THEN Append(copies, i) ELSE <<i>>
  BY <1>1
<1> QED BY ONLY <1>4, <1>5, <1>6
-----------------------------------------------------------------------------
(* Sets of elements.                                                       *)
Distinct(s) == \A j, k \in 1 .. Len(s) : s[j] = s[k] => j = k

LEMMA ElementsOf ==
  ASSUME NEW S, NEW s \in Seq(S)
  PROVE  /\ ToSet(s) \subseteq S
         /\ \A y : y \in ToSet(s) <=> \E k \in 1 .. Len(s) : s[k] = y
BY DEF ToSet

LEMMA ElementsOfAppend ==
  ASSUME NEW S, NEW s \in Seq(S), NEW x \in S
  PROVE  /\ ToSet(Append(s, x)) = ToSet(s) \cup {x}
         /\ Distinct(s) /\ x \notin ToSet(s) => Distinct(Append(s, x))
<1>1. Append(s, x) \in Seq(S) /\ Len(Append(s, x)) = Len(s) + 1 /\ Append(s, x)[Len(s) + 1] = x
  OBVIOUS
<1>2. \A k \in 1 .. Len(s) : Append(s, x)[k] = s[k]
  OBVIOUS
<1> DEFINE t == Append(s, x)
<1>3. PICK n \in Nat : n = Len(s)
  OBVIOUS
<1> HIDE DEF t
<1>4. t \in Seq(S) /\ Len(t) = n + 1 /\ t[n + 1] = x /\ (\A k \in 1 .. n : t[k] = s[k])
  BY <1>1, <1>2, <1>3 DEF t
<1>5. \A y : y \in ToSet(t) <=> \E k \in 1 .. n + 1 : t[k] = y
  BY <1>4, ElementsOf
<1>6. \A y : y \in ToSet(s) <=> \E k \in 1 .. n : s[k] = y
  BY <1>3, ElementsOf
<1>7. \A y : y \in ToSet(t) <=> y \in ToSet(s) \/ y = x
  <2> TAKE y
  <2>1. ASSUME y \in ToSet(t) PROVE y \in ToSet(s) \/ y = x
    <3>1. PICK k \in 1 .. n + 1 : t[k] = y
      BY <1>5, <2>1
    <3>2. k \in 1 .. n \/ k = n + 1
      OBVIOUS
    <3> QED BY <1>4, <1>6, <3>1, <3>2
  <2>2. ASSUME y \in ToSet(s) PROVE y \in ToSet(t)
    <3>1. PICK k \in 1 .. n : s[k] = y
      BY <1>6, <2>2
    <3>2. k \in 1 .. n + 1
      OBVIOUS
    <3> QED BY <1>4, <1>5, <3>1, <3>2
  <2>3. ASSUME y = x PROVE y \in ToSet(t)
    <3>1. n + 1 \in 1 .. n + 1
      OBVIOUS
    <3> QED BY <1>4, <1>5, <2>3, <3>1
  <2> QED BY <2>1, <2>2, <2>3
<1>8. ASSUME Distinct(s), x \notin ToSet(s), NEW j \in 1 .. n + 1, NEW k \in 1 .. n + 1, t[j] = t[k] PROVE j = k
  <2>1. (j \in 1 .. n \/ j = n + 1) /\ (k \in 1 .. n \/ k = n + 1)
    OBVIOUS
  <2>2. \A i \in 1 .. n : t[i] = s[i] /\ t[i] # x
    BY <1>4, <1>6, <1>8
  <2>3. \A a, b \in 1 .. n : s[a] = s[b] => a = b
    BY <1>3, <1>8 DEF Distinct
  <2> QED BY <1>4, <1>8, <2>1, <2>2, <2>3
<1>9. ToSet(t) = ToSet(s) \cup {x}
  BY <1>7
<1>10. Distinct(s) /\ x \notin ToSet(s) => Distinct(t)
  BY <1>4, <1>8 DEF Distinct
<1> QED BY <1>9, <1>10 DEF t

LEMMA ElementsOfConcat ==
  ASSUME NEW S, NEW a \in Seq(S), NEW b \in Seq(S)
  PROVE  /\ a \o b \in Seq(S) /\ ToSet(a \o b) = ToSet(a) \cup ToSet(b)
         /\ Distinct(a) /\ Distinct(b) /\ ToSet(a) \cap ToSet(b) = {} => Distinct(a \o b)
<1> DEFINE T == {c \in Seq(S) :
      /\ a \o c \in Seq(S) /\ ToSet(a \o c) = ToSet(a) \cup ToSet(c)
      /\ Distinct(a) /\ Distinct(c) /\ ToSet(a) \cap ToSet(c) = {} => Distinct(a \o c)}
<1>1. << >> \in T
  <2>1. a \o << >> = a /\ << >> \in Seq(S)
    BY ConcatEmptySeq
  <2>2. ToSet(<< >>) = {}
    BY DEF ToSet
  <2> QED BY <2>1, <2>2
<1>2. ASSUME NEW c \in Seq(S), NEW x \in S, c \in T PROVE Append(c, x) \in T
  <2>1. a \o Append(c, x) = Append(a \o c, x) /\ a \o c \in Seq(S) /\ Append(c, x) \in Seq(S)
    BY ConcatAppend, ConcatProperties, AppendFacts
  <2>2. \A d \in Seq(S) : /\ Append(d, x) \in Seq(S) /\ ToSet(Append(d, x)) = ToSet(d) \cup {x}
                          /\ Distinct(d) /\ x \notin ToSet(d) => Distinct(Append(d, x))
    BY ElementsOfAppend, AppendFacts
  <2>3. Distinct(Append(c, x)) => Distinct(c) /\ x \notin ToSet(c)
    <3> SUFFICES ASSUME Distinct(Append(c, x)) PROVE Distinct(c) /\ x \notin ToSet(c)
      OBVIOUS
    <3>1. PICK n \in Nat : n = Len(c)
      OBVIOUS
    <3>2. PICK d \in Seq(S) : d = Append(c, x)
      BY <2>1
    <3>3. Len(d) = n + 1 /\ d[n + 1] = x /\ \A k \in 1 .. n : d[k] = c[k]
      BY <3>1, <3>2
    <3>4. \A j, k \in 1 .. n + 1 : d[j] = d[k] => j = k
      BY <3>2, <3>3 DEF Distinct
    <3>5. \A k \in 1 .. n : k \in 1 .. n + 1 /\ k # n + 1 /\ n + 1 \in 1 .. n + 1
      OBVIOUS
    <3>6. \A k \in 1 .. n : c[k] # x
      BY <3>3, <3>4, <3>5
    <3>7. x \notin ToSet(c)
      BY <3>1, <3>6, ElementsOf
    <3>8. \A j, k \in 1 .. n : c[j] = c[k] => j = k
      BY <3>3, <3>4, <3>5
    <3> QED BY <3>1, <3>7, <3>8 DEF Distinct
  <2>4. ToSet(a \o c) = ToSet(a) \cup ToSet(c)
    BY <1>2
  <2>5. ASSUME Distinct(a), Distinct(Append(c, x)), ToSet(a) \cap ToSet(Append(c, x)) = {}
        PROVE  Distinct(Append(a \o c, x))
    <3>1. ToSet(Append(c, x)) = ToSet(c) \cup {x}
      BY <2>2
    <3>2. ToSet(a) \cap ToSet(c) = {} /\ x \notin ToSet(a)
      BY <2>5, <3>1
    <3>3. Distinct(a \o c) /\ x \notin ToSet(a \o c)
      BY <1>2, <2>3, <2>4, <2>5, <3>2
    <3> QED BY ONLY <3>3, <2>1, <2>2
  <2>6. ToSet(Append(a \o c, x)) = ToSet(a) \cup ToSet(Append(c, x)) /\ Append(a \o c, x) \in Seq(S)
    <3>1. ToSet(Append(a \o c, x)) = ToSet(a \o c) \cup {x} /\ Append(a \o c, x) \in Seq(S)
      BY ONLY <2>1, <2>2
    <3>2. ToSet(Append(c, x)) = ToSet(c) \cup {x}
      BY <2>2
    <3> QED BY ONLY <3>1, <3>2, <2>4
  <2> QED BY ONLY <2>1, <2>5, <2>6
<1> HIDE DEF T
<1>3. b \in T
  BY <1>1, <1>2, SequencesFromEmpty
<1> QED BY <1>3 DEF T
-----------------------------------------------------------------------------
(* The depth-first walk of a control-flow graph.                           *)
IsGraph(blocks) ==
  /\ IsFiniteSet(DOMAIN blocks) /\ DOMAIN blocks \subseteq Nat
  /\ \A b \in DOMAIN blocks : blocks[b].succs \subseteq DOMAIN blocks

(* One unfolding of the walk, with h for the calls it makes.               *)
Walk(blocks, h, seen, S) ==
  IF S \subseteq seen THEN << >>
  ELSE LET b == Min(S \ seen)
           post == Append(h[seen \cup {b}][blocks[b].succs], b)
       IN  post \o h[seen \cup ToSet(post)][S]

(* A walk finds new blocks, each once, all of S among them or seen before, *)
(* and every successor of what it finds.                                   *)
Walked(blocks, seen, S, p) ==
  /\ p \in Seq(DOMAIN blocks)
  /\ Distinct(p)
  /\ ToSet(p) \cap seen = {}
  /\ S \subseteq seen \cup ToSet(p)
  /\ \A b \in ToSet(p) : blocks[b].succs \subseteq seen \cup ToSet(p)

(* The sets with fewer than n blocks outside them.                         *)
Within(blocks, n) == {seen \in SUBSET DOMAIN blocks : Cardinality(DOMAIN blocks \ seen) < n}

WalksAll(blocks, h, seen) == \A S \in SUBSET DOMAIN blocks : Walked(blocks, seen, S, h[seen][S])

LEMMA SeenGrows ==
  ASSUME NEW blocks, IsGraph(blocks), NEW n \in Nat, NEW seen \in Within(blocks, n + 1),
         NEW more \in SUBSET DOMAIN blocks, seen \subseteq more, seen # more
  PROVE  more \in Within(blocks, n)
<1> DEFINE D == DOMAIN blocks
<1>1. IsFiniteSet(D \ seen) /\ D \ more \subseteq D \ seen /\ D \ more # D \ seen
  <2>1. IsFiniteSet(D) /\ D \ seen \subseteq D
    BY DEF IsGraph
  <2>2. IsFiniteSet(D \ seen)
    BY <2>1, FS_Subset
  <2>3. seen \subseteq D
    BY DEF Within
  <2> QED BY <2>2, <2>3
<1>2. IsFiniteSet(D \ more) /\ Cardinality(D \ more) <= Cardinality(D \ seen)
      /\ Cardinality(D \ more) # Cardinality(D \ seen)
  BY <1>1, FS_Subset
<1>3. Cardinality(D \ more) \in Nat /\ Cardinality(D \ seen) \in Nat
  BY <1>1, <1>2, FS_CardinalityType
<1>4. Cardinality(D \ seen) < n + 1
  BY DEF Within
<1>5. Cardinality(D \ more) < n
  BY <1>2, <1>3, <1>4
<1> QED BY <1>5 DEF Within

(* One unfolding walks, when the calls it makes do.                        *)
LEMMA WalkStep ==
  ASSUME NEW blocks, IsGraph(blocks), NEW seen \in SUBSET DOMAIN blocks, NEW S \in SUBSET DOMAIN blocks,
         NEW h, \A more \in SUBSET DOMAIN blocks : seen \subseteq more /\ seen # more => WalksAll(blocks, h, more)
  PROVE  Walked(blocks, seen, S, Walk(blocks, h, seen, S))
<1>1. CASE S \subseteq seen
  <2>1. Walk(blocks, h, seen, S) = << >>
    BY <1>1 DEF Walk
  <2>2. << >> \in Seq(DOMAIN blocks) /\ Distinct(<< >>) /\ ToSet(<< >>) = {}
    BY DEF Distinct, ToSet
  <2> QED BY <1>1, <2>1, <2>2 DEF Walked
<1>2. CASE ~(S \subseteq seen)
  <2> DEFINE D == DOMAIN blocks
  <2>1. PICK b : b = Min(S \ seen)
    OBVIOUS
  <2>2. b \in D /\ b \notin seen /\ b \in S
    <3>1. S \ seen \subseteq Nat /\ S \ seen # {}
      BY <1>2 DEF IsGraph
    <3>2. \E x \in S \ seen : \A y \in S \ seen : x <= y
      BY <3>1, LeastNumber
    <3> QED BY <2>1, <3>2 DEF Min
  <2>3. PICK p : p = h[seen \cup {b}][blocks[b].succs]
    OBVIOUS
  <2>4. Walked(blocks, seen \cup {b}, blocks[b].succs, p)
    <3>1. seen \cup {b} \in SUBSET D /\ seen \cup {b} # seen /\ seen \subseteq seen \cup {b}
      BY <2>2
    <3>2. blocks[b].succs \in SUBSET D
      BY <2>2 DEF IsGraph
    <3> QED BY <2>3, <3>1, <3>2 DEF WalksAll
  <2>5. PICK post : post = Append(p, b)
    OBVIOUS
  <2>6. post \in Seq(D) /\ ToSet(post) = ToSet(p) \cup {b} /\ Distinct(post)
    <3>1. p \in Seq(D) /\ Distinct(p) /\ b \notin ToSet(p)
      BY <2>4 DEF Walked
    <3> QED BY <2>2, <2>5, <3>1, ElementsOfAppend, AppendFacts
  <2>7. PICK q : q = h[seen \cup ToSet(post)][S]
    OBVIOUS
  <2>8. Walked(blocks, seen \cup ToSet(post), S, q)
    <3>1. ToSet(post) \subseteq D
      BY <2>6, ElementsOf
    <3>2. seen \cup ToSet(post) \in SUBSET D /\ seen \cup ToSet(post) # seen /\ seen \subseteq seen \cup ToSet(post)
      BY <2>2, <2>6, <3>1
    <3> QED BY <2>7, <3>2 DEF WalksAll
  <2>9. Walk(blocks, h, seen, S) = post \o q
    BY <1>2, <2>1, <2>3, <2>5, <2>7 DEF Walk
  <2>10. post \o q \in Seq(D) /\ ToSet(post \o q) = ToSet(post) \cup ToSet(q) /\ Distinct(post \o q)
    <3>1. q \in Seq(D) /\ Distinct(q) /\ ToSet(post) \cap ToSet(q) = {}
      BY <2>8 DEF Walked
    <3> QED BY <2>6, <3>1, ElementsOfConcat
  <2>11. PICK all : all = post \o q /\ all \in Seq(D) /\ ToSet(all) = ToSet(p) \cup {b} \cup ToSet(q) /\ Distinct(all)
    BY <2>6, <2>10
  <2>12. /\ ToSet(p) \cap (seen \cup {b}) = {} /\ ToSet(q) \cap (seen \cup ToSet(p) \cup {b}) = {}
         /\ blocks[b].succs \subseteq seen \cup {b} \cup ToSet(p)
         /\ \A x \in ToSet(p) : blocks[x].succs \subseteq seen \cup {b} \cup ToSet(p)
         /\ S \subseteq seen \cup ToSet(p) \cup {b} \cup ToSet(q)
         /\ \A x \in ToSet(q) : blocks[x].succs \subseteq seen \cup ToSet(p) \cup {b} \cup ToSet(q)
    BY <2>4, <2>6, <2>8 DEF Walked
  <2>13. ToSet(all) \cap seen = {} /\ S \subseteq seen \cup ToSet(all)
    BY <2>2, <2>11, <2>12
  <2>14. \A x \in ToSet(all) : blocks[x].succs \subseteq seen \cup ToSet(all)
    BY <2>11, <2>12
  <2> QED BY <2>9, <2>11, <2>13, <2>14 DEF Walked
<1> QED BY <1>1, <1>2

(* What an unfolding makes of h depends on the calls it makes only.        *)
LEMMA WalkSame ==
  ASSUME NEW blocks, IsGraph(blocks), NEW seen \in SUBSET DOMAIN blocks, NEW S \in SUBSET DOMAIN blocks,
         NEW g, NEW h,
         \A more \in SUBSET DOMAIN blocks :
           seen \subseteq more /\ seen # more => WalksAll(blocks, h, more) /\ g[more] = h[more]
  PROVE  Walk(blocks, g, seen, S) = Walk(blocks, h, seen, S)
<1>1. CASE S \subseteq seen
  BY <1>1 DEF Walk
<1>2. CASE ~(S \subseteq seen)
  <2> DEFINE D == DOMAIN blocks
  <2>1. PICK b : b = Min(S \ seen)
    OBVIOUS
  <2>2. b \in D /\ b \notin seen /\ b \in S
    <3>1. S \ seen \subseteq Nat /\ S \ seen # {}
      BY <1>2 DEF IsGraph
    <3>2. \E x \in S \ seen : \A y \in S \ seen : x <= y
      BY <3>1, LeastNumber
    <3> QED BY <2>1, <3>2 DEF Min
  <2>3. seen \cup {b} \in SUBSET D /\ seen \cup {b} # seen /\ seen \subseteq seen \cup {b}
    BY <2>2
  <2>4. WalksAll(blocks, h, seen \cup {b}) /\ g[seen \cup {b}] = h[seen \cup {b}]
    BY <2>3
  <2>5. PICK p : p = h[seen \cup {b}][blocks[b].succs] /\ p = g[seen \cup {b}][blocks[b].succs]
    BY <2>4
  <2>6. p \in Seq(D)
    <3>1. blocks[b].succs \in SUBSET D
      BY <2>2 DEF IsGraph
    <3>2. Walked(blocks, seen \cup {b}, blocks[b].succs, h[seen \cup {b}][blocks[b].succs])
      BY <2>4, <3>1 DEF WalksAll
    <3> QED BY ONLY <2>5, <3>2 DEF Walked
  <2>7. PICK post : post = Append(p, b)
    OBVIOUS
  <2>8. ToSet(post) = ToSet(p) \cup {b} /\ ToSet(p) \subseteq D
    BY <2>2, <2>6, <2>7, ElementsOfAppend, ElementsOf
  <2>9. seen \cup ToSet(post) \in SUBSET D /\ seen \cup ToSet(post) # seen /\ seen \subseteq seen \cup ToSet(post)
    BY <2>2, <2>8
  <2>10. g[seen \cup ToSet(post)] = h[seen \cup ToSet(post)]
    BY <2>9
  <2>11. Walk(blocks, g, seen, S) = post \o g[seen \cup ToSet(post)][S]
    BY <1>2, <2>1, <2>5, <2>7 DEF Walk
  <2>12. Walk(blocks, h, seen, S) = post \o h[seen \cup ToSet(post)][S]
    BY <1>2, <2>1, <2>5, <2>7 DEF Walk
  <2> QED BY <2>10, <2>11, <2>12
<1> QED BY <1>1, <1>2

(* The walk is well defined: by induction on what is not seen.             *)
Walks(blocks, h, D) ==
  h = [seen \in D |-> [S \in SUBSET DOMAIN blocks |-> Walk(blocks, h, seen, S)]]

LEMMA WalkExists ==
  ASSUME NEW blocks, IsGraph(blocks)
  PROVE  \E h : Walks(blocks, h, SUBSET DOMAIN blocks) /\ \A seen \in SUBSET DOMAIN blocks : WalksAll(blocks, h, seen)
<1> DEFINE Done(h, n) == Walks(blocks, h, Within(blocks, n)) /\ \A seen \in Within(blocks, n) : WalksAll(blocks, h, seen)
<1> DEFINE T == {n \in Nat : \E h : Done(h, n)}
<1>1. 0 \in T
  <2>1. Within(blocks, 0) = {}
    <3> SUFFICES ASSUME NEW seen \in Within(blocks, 0) PROVE FALSE
      OBVIOUS
    <3>1. IsFiniteSet(DOMAIN blocks \ seen)
      BY FS_Subset DEF IsGraph
    <3>2. Cardinality(DOMAIN blocks \ seen) \in Nat
      BY <3>1, FS_CardinalityType
    <3> QED BY <3>2 DEF Within
  <2> DEFINE W(f, seen) == [S \in SUBSET DOMAIN blocks |-> Walk(blocks, f, seen, S)]
  <2>2. PICK h : h = [seen \in {} |-> {}]
    OBVIOUS
  <2>3. h = [seen \in {} |-> W(h, seen)]
    <3> HIDE DEF W
    <3> QED BY <2>2
  <2>4. Walks(blocks, h, {})
    BY <2>3 DEF Walks
  <2> QED BY <2>1, <2>4
<1>2. ASSUME NEW n \in Nat, n \in T PROVE n + 1 \in T
  <2>1. PICK h : Done(h, n)
    BY <1>2
  <2> DEFINE g == [seen \in Within(blocks, n + 1) |->
                     IF seen \in Within(blocks, n) THEN h[seen]
                     ELSE [S \in SUBSET DOMAIN blocks |-> Walk(blocks, h, seen, S)]]
  <2>2. Within(blocks, n) \subseteq Within(blocks, n + 1)
    <3> SUFFICES ASSUME NEW seen \in Within(blocks, n) PROVE seen \in Within(blocks, n + 1)
      OBVIOUS
    <3>1. IsFiniteSet(DOMAIN blocks \ seen)
      BY FS_Subset DEF IsGraph
    <3>2. Cardinality(DOMAIN blocks \ seen) \in Nat
      BY <3>1, FS_CardinalityType
    <3> QED BY <3>2 DEF Within
  <2>3. \A seen \in Within(blocks, n + 1) : g[seen] = [S \in SUBSET DOMAIN blocks |-> Walk(blocks, h, seen, S)]
    BY <2>1 DEF Walks
  <2>4. (\A seen \in Within(blocks, n) : g[seen] = h[seen]) /\ g = [seen \in Within(blocks, n + 1) |-> g[seen]]
    BY <2>2
  <2> HIDE DEF g
  <2>5. ASSUME NEW seen \in Within(blocks, n + 1), NEW more \in SUBSET DOMAIN blocks, seen \subseteq more, seen # more
        PROVE  WalksAll(blocks, h, more) /\ g[more] = h[more]
    BY <2>1, <2>4, <2>5, SeenGrows
  <2>6. ASSUME NEW seen \in Within(blocks, n + 1), NEW S \in SUBSET DOMAIN blocks
        PROVE  Walk(blocks, g, seen, S) = Walk(blocks, h, seen, S) /\ Walked(blocks, seen, S, Walk(blocks, h, seen, S))
    <3>1. seen \in SUBSET DOMAIN blocks
      BY DEF Within
    <3> QED BY <2>5, <3>1, WalkSame, WalkStep
  <2>7. \A seen \in Within(blocks, n + 1) : g[seen] = [S \in SUBSET DOMAIN blocks |-> Walk(blocks, g, seen, S)]
    BY <2>3, <2>6
  <2>8. Walks(blocks, g, Within(blocks, n + 1))
    BY <2>4, <2>7 DEF Walks
  <2>9. \A seen \in Within(blocks, n + 1) : WalksAll(blocks, g, seen)
    BY <2>3, <2>6 DEF WalksAll
  <2> QED BY <2>8, <2>9
<1> HIDE DEF T
<1>3. \A n \in Nat : n \in T
  BY <1>1, <1>2, NumbersFrom0
<1> DEFINE all == Cardinality(DOMAIN blocks) + 1
<1>4. Cardinality(DOMAIN blocks) \in Nat /\ all \in Nat
  BY FS_CardinalityType DEF IsGraph
<1>5. Within(blocks, all) = SUBSET DOMAIN blocks
  <2> SUFFICES ASSUME NEW seen \in SUBSET DOMAIN blocks PROVE Cardinality(DOMAIN blocks \ seen) < all
    BY DEF Within
  <2>1. IsFiniteSet(DOMAIN blocks \ seen) /\ Cardinality(DOMAIN blocks \ seen) <= Cardinality(DOMAIN blocks)
    BY FS_Subset DEF IsGraph
  <2>2. Cardinality(DOMAIN blocks \ seen) \in Nat
    BY <2>1, FS_CardinalityType
  <2> QED BY <1>4, <2>1, <2>2
<1>6. all \in T
  BY <1>3, <1>4
<1> QED BY <1>5, <1>6 DEF T

LEMMA WalksAreWalked ==
  ASSUME NEW blocks, IsGraph(blocks), NEW g, Walks(blocks, g, SUBSET DOMAIN blocks),
         NEW seen \in SUBSET DOMAIN blocks
  PROVE  WalksAll(blocks, g, seen)
<1> DEFINE T == {n \in Nat : \A s \in Within(blocks, n) : WalksAll(blocks, g, s)}
<1>1. 0 \in T
  <2> SUFFICES ASSUME NEW s \in Within(blocks, 0) PROVE FALSE
    OBVIOUS
  <2>1. IsFiniteSet(DOMAIN blocks \ s)
    BY FS_Subset DEF IsGraph
  <2>2. Cardinality(DOMAIN blocks \ s) \in Nat
    BY <2>1, FS_CardinalityType
  <2> QED BY <2>2 DEF Within
<1>2. ASSUME NEW n \in Nat, n \in T PROVE n + 1 \in T
  <2>1. ASSUME NEW s \in Within(blocks, n + 1), NEW S \in SUBSET DOMAIN blocks
        PROVE  Walked(blocks, s, S, g[s][S])
    <3>1. \A more \in SUBSET DOMAIN blocks : s \subseteq more /\ s # more => WalksAll(blocks, g, more)
      BY <1>2, SeenGrows
    <3>2. s \in SUBSET DOMAIN blocks
      BY DEF Within
    <3>3. g[s][S] = Walk(blocks, g, s, S)
      BY <3>2 DEF Walks
    <3> QED BY <3>1, <3>2, <3>3, WalkStep
  <2> QED BY <2>1 DEF WalksAll
<1> HIDE DEF T
<1>3. \A n \in Nat : n \in T
  BY <1>1, <1>2, NumbersFrom0
<1>4. IsFiniteSet(DOMAIN blocks \ seen)
  BY FS_Subset DEF IsGraph
<1>5. Cardinality(DOMAIN blocks \ seen) + 1 \in Nat /\ Cardinality(DOMAIN blocks \ seen) < Cardinality(DOMAIN blocks \ seen) + 1
  BY <1>4, FS_CardinalityType
<1>6. seen \in Within(blocks, Cardinality(DOMAIN blocks \ seen) + 1)
  BY <1>5 DEF Within
<1> QED BY <1>3, <1>5, <1>6 DEF T

(* The order of lowering: each block that can be reached once, from the    *)
(* entry on.                                                               *)
IsOrder(blocks, o) ==
  /\ o \in Seq(DOMAIN blocks)
  /\ Distinct(o)
  /\ 1 \in ToSet(o)
  /\ \A b \in ToSet(o) : blocks[b].succs \subseteq ToSet(o)

LEMMA PostorderWalks ==
  ASSUME NEW blocks, IsGraph(blocks), 1 \in DOMAIN blocks
  PROVE  IsOrder(blocks, Postorder(blocks))
<1> DEFINE visit == CHOOSE h : Walks(blocks, h, SUBSET DOMAIN blocks)
<1>1. Postorder(blocks) = visit[{}][{1}]
  BY DEF Postorder, Walks, Walk
<1>2. Walks(blocks, visit, SUBSET DOMAIN blocks)
  BY WalkExists
<1> HIDE DEF visit
<1>3. {} \in SUBSET DOMAIN blocks /\ {1} \in SUBSET DOMAIN blocks
  OBVIOUS
<1>4. WalksAll(blocks, visit, {})
  BY <1>2, <1>3, WalksAreWalked
<1>5. Walked(blocks, {}, {1}, Postorder(blocks))
  BY <1>1, <1>3, <1>4 DEF WalksAll
<1> QED BY <1>5 DEF Walked, IsOrder

LEMMA OrderReversed ==
  ASSUME NEW blocks, NEW o, IsOrder(blocks, o)
  PROVE  IsOrder(blocks, Reverse(o))
<1> DEFINE D == DOMAIN blocks
<1>1. PICK n \in Nat : n = Len(o)
  BY DEF IsOrder
<1>2. PICK r : r = Reverse(o)
  OBVIOUS
<1>3. r = [i \in 1 .. n |-> o[(n - i) + 1]]
  BY <1>1, <1>2 DEF Reverse
<1>4. \A i \in 1 .. n : (n - i) + 1 \in 1 .. n /\ (n - ((n - i) + 1)) + 1 = i
  OBVIOUS
<1>5. \A i \in 1 .. n : o[i] \in D
  BY <1>1 DEF IsOrder
<1>6. r \in [1 .. n -> D]
  BY <1>3, <1>4, <1>5
<1>7. r \in Seq(D) /\ Len(r) = n
  BY <1>6, FunctionIsSequence
<1>8. \A j, k \in 1 .. n : o[j] = o[k] => j = k
  BY <1>1 DEF IsOrder, Distinct
<1>9. \A j, k \in 1 .. n : r[j] = r[k] => j = k
  <2> TAKE j, k \in 1 .. n
  <2> HAVE r[j] = r[k]
  <2>1. (n - j) + 1 = (n - k) + 1
    BY <1>3, <1>4, <1>8
  <2> QED BY <2>1
<1>10. \A y : y \in ToSet(r) <=> y \in ToSet(o)
  <2> TAKE y
  <2>1. (y \in ToSet(r) <=> \E k \in 1 .. n : r[k] = y) /\ (y \in ToSet(o) <=> \E k \in 1 .. n : o[k] = y)
    BY <1>1, <1>7, ElementsOf DEF IsOrder
  <2>2. \A k \in 1 .. n : r[k] = o[(n - k) + 1] /\ o[k] = r[(n - k) + 1]
    BY <1>3, <1>4
  <2> QED BY <1>4, <2>1, <2>2
<1>11. ToSet(r) = ToSet(o)
  BY <1>10
<1> QED BY <1>2, <1>7, <1>9, <1>11 DEF IsOrder, Distinct

LEMMA LoweringOrderWalks ==
  ASSUME NEW blocks, IsGraph(blocks), 1 \in DOMAIN blocks
  PROVE  IsOrder(blocks, LoweringOrder(blocks))
BY PostorderWalks, OrderReversed DEF LoweringOrder
-----------------------------------------------------------------------------
(* Running code, each RET after the epilogue.                              *)
Exec(f, st, c) == ExecWith(BareEpilogue, f, st, c)

LEMMA BareIsSeq == IsSeq(BareEpilogue)
BY IsSeqParts DEF BareEpilogue

LEMMA ExecEmpty == ASSUME NEW f, NEW st PROVE Exec(f, st, << >>) = st
BY ExecWithEmpty DEF Exec

LEMMA ExecAppend ==
  ASSUME NEW f, NEW st, NEW c, IsSeq(c), NEW i
  PROVE  /\ i.op # "RET" => Exec(f, st, Append(c, i)) = Execute(f, Exec(f, st, c), i)
         /\ i.op = "RET" => Exec(f, st, Append(c, i)) = Execute(f, Run(f, Exec(f, st, c), BareEpilogue), i)
<1>1. PICK e : e = BareEpilogue
  OBVIOUS
<1>2. IsSeq(e) /\ \A d : Exec(f, st, d) = ExecWith(e, f, st, d)
  BY <1>1, BareIsSeq DEF Exec
<1> QED BY <1>1, <1>2, ExecWithAppend

LEMMA ExecConcat ==
  ASSUME NEW f, NEW st, NEW a, IsSeq(a), NEW b, IsSeq(b)
  PROVE  Exec(f, st, a \o b) = Exec(f, Exec(f, st, a), b)
<1>1. PICK e : e = BareEpilogue
  OBVIOUS
<1>2. IsSeq(e) /\ \A q, d : Exec(f, q, d) = ExecWith(e, f, q, d)
  BY <1>1, BareIsSeq DEF Exec
<1> QED BY <1>2, ExecWithConcat

LEMMA ExecOne ==
  ASSUME NEW f, NEW st, NEW x, x.op # "RET"
  PROVE  Exec(f, st, <<x>>) = Execute(f, st, x)
<1>1. Append(<< >>, x) = <<x>> /\ IsSeq(<< >>)
  <2>1. << >> \in Seq({x}) /\ x \in {x}
    OBVIOUS
  <2>2. Append(<< >>, x) = <<x>>
    BY ONLY <2>1, AppendFacts
  <2>3. IsSeq(<< >>)
    BY IsSeqParts
  <2> QED BY ONLY <2>2, <2>3
<1>2. PICK e : e = << >>
  OBVIOUS
<1>3. Exec(f, st, Append(e, x)) = Execute(f, Exec(f, st, e), x)
  <2>1. IsSeq(e)
    BY <1>1, <1>2
  <2> QED BY <2>1, ExecAppend
<1>4. Exec(f, st, e) = st
  BY <1>2, ExecEmpty
<1> QED BY ONLY <1>1, <1>2, <1>3, <1>4

LEMMA ExecTwo ==
  ASSUME NEW f, NEW st, NEW x, NEW y, x.op # "RET", y.op # "RET"
  PROVE  Exec(f, st, <<x, y>>) = Execute(f, Execute(f, st, x), y)
<1>1. Append(<<x>>, y) = <<x, y>> /\ IsSeq(<<x>>)
  BY PairIsAppend, IsSeqParts
<1>2. PICK e : e = <<x>>
  OBVIOUS
<1>3. Exec(f, st, Append(e, y)) = Execute(f, Exec(f, st, e), y)
  <2>1. IsSeq(e)
    BY <1>1, <1>2
  <2> QED BY <2>1, ExecAppend
<1>4. Exec(f, st, e) = Execute(f, st, x)
  BY <1>2, ExecOne
<1> QED BY ONLY <1>1, <1>2, <1>3, <1>4
-----------------------------------------------------------------------------
(* The stack discipline, between the IR and the machine.                   *)
IsIRState(q) == {"env", "calls", "seen", "returned"} = DOMAIN q /\ q.returned \in BOOLEAN

Framed(m) == m.r[RSP] = <<"addr", -8>> /\ m.r[RBP] = <<"addr", -8>>

Sim(q, m) ==
  /\ IsIRState(q) /\ IsState(m)
  /\ m.aligned = TRUE
  /\ m.calls = q.calls
  /\ m.returned = q.returned
  /\ m.returned => m.r[RSP] = <<"addr", 0>>
  /\ ~m.returned => Framed(m)

(* No fixed register of f is the stack or the frame pointer.               *)
Homes(f) == \A x \in f.fixed : HomeOf(f, x) \notin {RSP, RBP}

(* What a machine instruction that is neither jump, call nor RET, and      *)
(* names neither pointer as its destination, leaves alone.                 *)
Undisturbed(m, n) ==
  /\ IsState(n)
  /\ n.aligned = m.aligned /\ n.calls = m.calls /\ n.returned = m.returned /\ n.left = m.left
  /\ n.r[RSP] = m.r[RSP] /\ n.r[RBP] = m.r[RBP]

Quiet(i) ==
  \/ i.op = "MOV" /\ i.dst.kind \in {"VREG", "MEM"}
  \/ i.op \in {"ADD", "IMUL", "CMP"} /\ i.dst.kind = "VREG"

LEMMA WriteQuiet ==
  ASSUME NEW f, Homes(f), NEW m, IsState(m), NEW o, o.kind \in {"VREG", "MEM"}, NEW x
  PROVE  Undisturbed(m, Write(f, m, o, x))
<1>1. CASE o.kind = "VREG" /\ o.n \in f.fixed
  <2>1. Write(f, m, o, x) = [m EXCEPT !.r[HomeOf(f, o.n)] = x]
    BY <1>1 DEF Write
  <2>2. HomeOf(f, o.n) # RSP /\ HomeOf(f, o.n) # RBP
    BY <1>1 DEF Homes
  <2> QED BY <2>1, <2>2 DEF IsState, Undisturbed
<1>2. CASE o.kind = "VREG" /\ o.n \notin f.fixed
  <2>1. Write(f, m, o, x) = [m EXCEPT !.v[o.n] = x]
    BY <1>2 DEF Write
  <2> QED BY <2>1 DEF IsState, Undisturbed
<1>3. CASE o.kind = "MEM"
  <2>1. \E y : Write(f, m, o, x) = [m EXCEPT !.mem = y]
    BY <1>3 DEF Write, Store
  <2> QED BY <2>1 DEF IsState, Undisturbed
<1> QED BY <1>1, <1>2, <1>3

LEMMA UndisturbedTwice ==
  ASSUME NEW a, NEW b, NEW c, Undisturbed(a, b), Undisturbed(b, c)
  PROVE  Undisturbed(a, c)
BY DEF Undisturbed

LEMMA ExecuteQuiet ==
  ASSUME NEW f, Homes(f), NEW m, IsState(m), NEW i, Quiet(i)
  PROVE  Undisturbed(m, Execute(f, m, i))
<1>1. CASE m.returned \/ m.left
  BY <1>1 DEF Execute, Undisturbed
<1>2. CASE ~(m.returned \/ m.left)
  <2>1. CASE i.op = "MOV"
    <3>1. Execute(f, m, i) = Write(f, m, i.dst, Read(f, m, i.src))
      BY <1>2, <2>1 DEF Execute, ConditionalJumps
    <3>2. i.dst.kind \in {"VREG", "MEM"}
      BY <2>1 DEF Quiet
    <3> QED BY <3>1, <3>2, WriteQuiet
  <2>2. CASE i.op = "CMP"
    <3>1. \E y : Execute(f, m, i) = [m EXCEPT !.flags = y]
      BY <1>2, <2>2 DEF Execute, ConditionalJumps
    <3> QED BY <3>1 DEF IsState, Undisturbed
  <2>3. CASE i.op \in {"ADD", "IMUL"}
    <3>1. PICK x : x = Combine(i.op, Read(f, m, i.dst), Read(f, m, i.src))
      OBVIOUS
    <3>2. PICK n : n = [m EXCEPT !.flags = <<"result", x>>]
      OBVIOUS
    <3>3. Execute(f, m, i) = Write(f, n, i.dst, x)
      BY <1>2, <2>3, <3>1, <3>2 DEF Execute, ConditionalJumps
    <3>4. Undisturbed(m, n) /\ IsState(n)
      BY <3>2 DEF IsState, Undisturbed
    <3>5. i.dst.kind \in {"VREG", "MEM"}
      BY <2>3 DEF Quiet
    <3>6. Undisturbed(n, Write(f, n, i.dst, x))
      BY <3>4, <3>5, WriteQuiet
    <3> QED BY <3>3, <3>4, <3>6, UndisturbedTwice
  <2> QED BY <2>1, <2>2, <2>3 DEF Quiet
<1> QED BY <1>1, <1>2

AllQuiet(c) == IsSeq(c) /\ \A k \in DOMAIN c : Quiet(c[k])

LEMMA ExecQuiet ==
  ASSUME NEW f, Homes(f), NEW m, IsState(m), NEW c, AllQuiet(c)
  PROVE  Undisturbed(m, Exec(f, m, c))
<1> DEFINE S == {i \in {c[k] : k \in DOMAIN c} : Quiet(i)}
<1>1. c \in Seq(S)
  BY DEF AllQuiet, IsSeq
<1> DEFINE T == {d \in Seq(S) : Undisturbed(m, Exec(f, m, d))}
<1>2. << >> \in T
  <2>1. << >> \in Seq(S)
    OBVIOUS
  <2>2. Undisturbed(m, m)
    BY DEF Undisturbed
  <2> QED BY <2>1, <2>2, ExecEmpty
<1>3. ASSUME NEW d \in Seq(S), NEW i \in S, d \in T PROVE Append(d, i) \in T
  <2>1. Append(d, i) \in Seq(S) /\ IsSeq(d)
    BY SeqIsSeq
  <2>2. Quiet(i) /\ i.op # "RET"
    BY DEF Quiet
  <2>3. Exec(f, m, Append(d, i)) = Execute(f, Exec(f, m, d), i)
    BY <2>1, <2>2, ExecAppend
  <2>4. PICK n : n = Exec(f, m, d)
    OBVIOUS
  <2>5. Undisturbed(m, n) /\ IsState(n)
    BY <1>3, <2>4 DEF Undisturbed
  <2>6. Undisturbed(n, Execute(f, n, i))
    BY <2>2, <2>5, ExecuteQuiet
  <2>7. Undisturbed(m, Execute(f, n, i))
    BY <2>5, <2>6, UndisturbedTwice
  <2> QED BY <2>1, <2>3, <2>4, <2>7
<1> HIDE DEF S, T
<1>4. c \in T
  BY <1>1, <1>2, <1>3, SequencesFromEmpty
<1> QED BY <1>4 DEF T

(* Nothing is run after a RET or a jump.                                   *)
LEMMA ExecStopped ==
  ASSUME NEW f, NEW m, m.returned \/ m.left, NEW c, IsSeq(c)
  PROVE  Exec(f, m, c) = m
<1>1. PICK S : c \in Seq(S)
  BY DEF IsSeq
<1>2. \A i : Execute(f, m, i) = m
  BY DEF Execute, ConditionalJumps
<1>3. Run(f, m, BareEpilogue) = m
  BY <1>2, RunTwo DEF BareEpilogue
<1> DEFINE T == {d \in Seq(S) : Exec(f, m, d) = m}
<1>4. << >> \in T
  <2>1. << >> \in Seq(S)
    OBVIOUS
  <2> QED BY <2>1, ExecEmpty
<1>5. ASSUME NEW d \in Seq(S), NEW i \in S, d \in T PROVE Append(d, i) \in T
  <2>1. Append(d, i) \in Seq(S) /\ IsSeq(d)
    BY SeqIsSeq
  <2>2. Exec(f, m, d) = m
    BY <1>5
  <2>3. Exec(f, m, Append(d, i)) = m
    <3>1. CASE i.op = "RET"
      BY <1>2, <1>3, <2>1, <2>2, <3>1, ExecAppend
    <3>2. CASE i.op # "RET"
      BY <1>2, <2>1, <2>2, <3>2, ExecAppend
    <3> QED BY <3>1, <3>2
  <2> QED BY <2>1, <2>3
<1> HIDE DEF T
<1>6. c \in T
  BY <1>1, <1>4, <1>5, SequencesFromEmpty
<1> QED BY <1>6 DEF T
-----------------------------------------------------------------------------
(* Code c keeps the stack discipline where the IR instructions q are run:  *)
(* it falls through, or at least stops on a RET or a jump.                 *)
Keeps(I, c) ==
  /\ IsSeq(I) /\ IsSeq(c)
  /\ \A f, q, m : Homes(f) /\ Sim(q, m) /\ ~m.left =>
                    Sim(RunIR(q, I), Exec(f, m, c)) /\ ~Exec(f, m, c).left
Ends(I, c) ==
  /\ IsSeq(I) /\ IsSeq(c)
  /\ \A f, q, m : Homes(f) /\ Sim(q, m) /\ ~m.left => Sim(RunIR(q, I), Exec(f, m, c))

Lowers(i, c) ==
  /\ IsSeq(c)
  /\ \A f, q, m : Homes(f) /\ Sim(q, m) /\ ~m.left /\ ~m.returned =>
                    /\ Sim(IRStep(q, i), Exec(f, m, c))
                    /\ i.op \notin Jumps => ~Exec(f, m, c).left

LEMMA IRAppended ==
  ASSUME NEW q, NEW I, IsSeq(I), NEW i
  PROVE  RunIR(q, Append(I, i)) = IRStep(RunIR(q, I), i) /\ IsSeq(Append(I, i))
<1>1. IsSeq(Append(I, i)) /\ IsSeq(<<i>>)
  BY IsSeqParts
<1>2. PICK S : I \in Seq(S) /\ <<i>> \in Seq(S)
  BY <1>1, TwoInOneSet
<1>3. i \in S
  BY <1>2
<1> QED BY <1>1, <1>2, <1>3, IRAppend

LEMMA LowersAppended ==
  ASSUME NEW I, NEW c, Keeps(I, c), NEW i, NEW e, Lowers(i, e)
  PROVE  /\ Ends(Append(I, i), c \o e)
         /\ i.op \notin Jumps => Keeps(Append(I, i), c \o e)
<1>1. IsSeq(I) /\ IsSeq(c) /\ IsSeq(e)
  BY DEF Keeps, Lowers
<1>2. IsSeq(c \o e) /\ IsSeq(Append(I, i))
  BY <1>1, IsSeqParts
<1>3. ASSUME NEW f, NEW q, NEW m, Homes(f), Sim(q, m), ~m.left
      PROVE  /\ Sim(RunIR(q, Append(I, i)), Exec(f, m, c \o e))
             /\ i.op \notin Jumps => ~Exec(f, m, c \o e).left
  <2>1. PICK q2 : q2 = RunIR(q, I)
    OBVIOUS
  <2>2. PICK n : n = Exec(f, m, c)
    OBVIOUS
  <2>3. Sim(q2, n) /\ ~n.left
    BY <1>3, <2>1, <2>2 DEF Keeps
  <2>4. RunIR(q, Append(I, i)) = IRStep(q2, i) /\ Exec(f, m, c \o e) = Exec(f, n, e)
    BY <1>1, <2>1, <2>2, IRAppended, ExecConcat
  <2>5. CASE n.returned
    <3>1. Exec(f, n, e) = n
      BY <1>1, <2>5, ExecStopped
    <3>2. IRStep(q2, i) = q2
      BY <2>3, <2>5 DEF IRStep, Sim
    <3> QED BY <2>3, <2>4, <3>1, <3>2
  <2>6. CASE ~n.returned
    BY <1>3, <2>3, <2>4, <2>6 DEF Lowers
  <2> QED BY <2>5, <2>6
<1>4. Ends(Append(I, i), c \o e)
  BY <1>2, <1>3 DEF Ends
<1>5. ASSUME i.op \notin Jumps PROVE Keeps(Append(I, i), c \o e)
  BY <1>2, <1>3, <1>5 DEF Keeps
<1> QED BY <1>4, <1>5

LEMMA SimUndisturbed ==
  ASSUME NEW q, NEW m, Sim(q, m), NEW n, Undisturbed(m, n)
  PROVE  Sim(q, n)
BY DEF Sim, Undisturbed, Framed

LEMMA QuietAppended ==
  ASSUME NEW I, NEW c, Keeps(I, c), NEW e, AllQuiet(e)
  PROVE  Keeps(I, c \o e)
<1>1. IsSeq(I) /\ IsSeq(c) /\ IsSeq(e)
  BY DEF Keeps, AllQuiet
<1>2. IsSeq(c \o e)
  BY <1>1, IsSeqParts
<1>3. ASSUME NEW f, NEW q, NEW m, Homes(f), Sim(q, m), ~m.left
      PROVE  Sim(RunIR(q, I), Exec(f, m, c \o e)) /\ ~Exec(f, m, c \o e).left
  <2>1. PICK n : n = Exec(f, m, c)
    OBVIOUS
  <2>2. Sim(RunIR(q, I), n) /\ ~n.left
    BY <1>3, <2>1 DEF Keeps
  <2>3. Exec(f, m, c \o e) = Exec(f, n, e)
    BY <1>1, <2>1, ExecConcat
  <2>4. Undisturbed(n, Exec(f, n, e))
    <3>1. IsState(n)
      BY <2>2 DEF Sim
    <3> QED BY <1>3, <3>1, ExecQuiet
  <2>5. Sim(RunIR(q, I), Exec(f, n, e))
    BY <2>2, <2>4, SimUndisturbed
  <2>6. ~Exec(f, n, e).left
    BY <2>2, <2>4 DEF Undisturbed
  <2> QED BY <2>3, <2>5, <2>6
<1> QED BY <1>1, <1>2, <1>3 DEF Keeps

LEMMA KeepsNothing == Keeps(<< >>, << >>)
<1>1. IsSeq(<< >>)
  BY IsSeqParts
<1> QED BY <1>1, ExecEmpty, IREmpty DEF Keeps

-----------------------------------------------------------------------------
(* The code of each instruction, as lowerInstruction makes it.             *)
SameIR(q, p) == IsIRState(p) /\ p.calls = q.calls /\ p.returned = q.returned

LEMMA DefineKeeps ==
  ASSUME NEW q, IsIRState(q), NEW res, NEW x
  PROVE  SameIR(q, Define(q, res, x))
<1>1. CASE res.kind = "NONE"
  BY <1>1 DEF Define, SameIR
<1>2. CASE res.kind # "NONE"
  <2>1. \E env : Define(q, res, x) = [q EXCEPT !.env = env]
    BY <1>2 DEF Define
  <2> QED BY <2>1 DEF SameIR, IsIRState
<1> QED BY <1>1, <1>2

LEMMA ObserveKeeps ==
  ASSUME NEW q, IsIRState(q), NEW x
  PROVE  SameIR(q, Observe(q, x))
<1>1. \E seen : Observe(q, x) = [q EXCEPT !.seen = seen]
  BY DEF Observe
<1> QED BY <1>1 DEF SameIR, IsIRState

LEMMA IRSteps ==
  ASSUME NEW q, IsIRState(q), ~q.returned, NEW i
  PROVE  /\ i.op \in {"ADD", "MUL", "COPY", "BR", "CBR"} \cup Comparisons => SameIR(q, IRStep(q, i))
         /\ i.op = "CALL" => /\ IsIRState(IRStep(q, i)) /\ IRStep(q, i).calls = q.calls + 1
                             /\ IRStep(q, i).returned = FALSE
         /\ i.op = "RET" => /\ IsIRState(IRStep(q, i)) /\ IRStep(q, i).calls = q.calls
                            /\ IRStep(q, i).returned = TRUE
<1>1. CASE i.op \in {"ADD", "MUL"} \cup Comparisons
  <2>1. \E x : IRStep(q, i) = Define(q, i.res, x)
    BY <1>1 DEF IRStep, Comparisons
  <2> QED BY <1>1, <2>1, DefineKeeps DEF Comparisons
<1>2. CASE i.op = "COPY"
  <2>1. \E x : IRStep(q, i) = Define(q, i.res, x)
    BY <1>2 DEF IRStep, Comparisons
  <2> QED BY <1>2, <2>1, DefineKeeps
<1>3. CASE i.op = "BR"
  <2>1. IRStep(q, i) = q
    BY <1>3 DEF IRStep, Comparisons
  <2> QED BY <1>3, <2>1 DEF SameIR
<1>4. CASE i.op = "CBR"
  <2>1. \E x : IRStep(q, i) = Observe(q, x)
    BY <1>4 DEF IRStep, Comparisons
  <2> QED BY <1>4, <2>1, ObserveKeeps
<1>5. CASE i.op = "CALL"
  <2>1. \E x, y : IRStep(q, i) = Define([Observe(q, x) EXCEPT !.calls = q.calls + 1], i.res, y)
    <3> DEFINE x == <<"call", i.lhs.n, [k \in DOMAIN i.args |-> ValueOf(q, i.args[k])]>>
    <3>1. Observe(q, x).calls = q.calls
      BY ObserveKeeps DEF SameIR
    <3>2. IRStep(q, i) = Define([Observe(q, x) EXCEPT !.calls = Observe(q, x).calls + 1], i.res, <<"ret", q.calls + 1>>)
      BY <1>5 DEF IRStep, Comparisons
    <3> HIDE DEF x
    <3> QED BY <3>1, <3>2
  <2>2. PICK x, y : IRStep(q, i) = Define([Observe(q, x) EXCEPT !.calls = q.calls + 1], i.res, y)
    BY <2>1
  <2>3. PICK p : p = [Observe(q, x) EXCEPT !.calls = q.calls + 1]
    OBVIOUS
  <2>4. IsIRState(p) /\ p.calls = q.calls + 1 /\ p.returned = FALSE
    <3>1. SameIR(q, Observe(q, x))
      BY ObserveKeeps
    <3> QED BY <2>3, <3>1 DEF SameIR, IsIRState
  <2>5. SameIR(p, IRStep(q, i))
    BY <2>2, <2>3, <2>4, DefineKeeps
  <2> QED BY <1>5, <2>4, <2>5 DEF SameIR, Comparisons
<1>6. CASE i.op = "RET"
  <2>1. \E x : IRStep(q, i) = [Observe(q, x) EXCEPT !.returned = TRUE]
    BY <1>6 DEF IRStep, Comparisons
  <2>2. PICK x : IRStep(q, i) = [Observe(q, x) EXCEPT !.returned = TRUE]
    BY <2>1
  <2>3. SameIR(q, Observe(q, x))
    BY ObserveKeeps
  <2> QED BY <1>6, <2>2, <2>3 DEF SameIR, IsIRState, Comparisons
<1>7. CASE i.op \notin {"ADD", "MUL", "COPY", "BR", "CBR", "CALL", "RET"} \cup Comparisons
  BY <1>7
<1> QED BY <1>1, <1>2, <1>3, <1>4, <1>5, <1>6, <1>7

LEMMA QuietLowers ==
  ASSUME NEW i, i.op \in {"ADD", "MUL", "COPY"} \cup Comparisons, NEW c, AllQuiet(c)
  PROVE  Lowers(i, c)
<1>1. IsSeq(c)
  BY DEF AllQuiet
<1>2. ASSUME NEW f, NEW q, NEW m, Homes(f), Sim(q, m), ~m.left, ~m.returned
      PROVE  Sim(IRStep(q, i), Exec(f, m, c)) /\ ~Exec(f, m, c).left
  <2>1. IsState(m) /\ IsIRState(q) /\ ~q.returned
    BY <1>2 DEF Sim
  <2>2. Undisturbed(m, Exec(f, m, c))
    BY <1>2, <2>1, ExecQuiet
  <2>3. SameIR(q, IRStep(q, i))
    BY <2>1, IRSteps
  <2>4. Sim(q, Exec(f, m, c)) /\ ~Exec(f, m, c).left
    BY <1>2, <2>2, SimUndisturbed DEF Undisturbed
  <2> QED BY <2>3, <2>4 DEF Sim, SameIR
<1> QED BY <1>1, <1>2 DEF Lowers

LEMMA TwoAddressQuiet ==
  ASSUME NEW i, i.res.kind = "REGISTER", NEW op \in {"ADD", "IMUL", "CMP"}
  PROVE  AllQuiet(TwoAddress(op, i).instrs)
<1>1. PICK x, y : /\ TwoAddress(op, i).instrs = <<x, y>>
                  /\ x.op = "MOV" /\ x.dst = Lowered(i.res) /\ y.op = op /\ y.dst = Lowered(i.res)
  BY DEF TwoAddress, Emit, Ins
<1>2. Lowered(i.res).kind = "VREG"
  BY DEF Lowered, VREG
<1>3. Quiet(x) /\ Quiet(y)
  BY <1>1, <1>2 DEF Quiet
<1>4. \A k \in DOMAIN <<x, y>> : Quiet(<<x, y>>[k])
  BY <1>3
<1> QED BY <1>1, <1>4, IsSeqParts DEF AllQuiet

LEMMA CopyQuiet ==
  ASSUME NEW o, o.kind = "REGISTER", NEW x
  PROVE  AllQuiet(<<Ins("MOV", Lowered(o), x)>>)
<1>1. PICK y : y = Ins("MOV", Lowered(o), x) /\ y.op = "MOV" /\ y.dst = Lowered(o)
  <2>1. Ins("MOV", Lowered(o), x).op = "MOV" /\ Ins("MOV", Lowered(o), x).dst = Lowered(o)
    BY DEF Ins
  <2> QED BY <2>1
<1>2. Quiet(y)
  BY <1>1 DEF Quiet, Lowered, VREG
<1>3. \A k \in DOMAIN <<y>> : Quiet(<<y>>[k])
  BY <1>2
<1> QED BY <1>1, <1>3, IsSeqParts DEF AllQuiet

(* A jump changes nothing but where the run goes on.                       *)
LEMMA JumpLeaves ==
  ASSUME NEW f, NEW m, IsState(m), NEW x, x.op \in ConditionalJumps \cup {"JMP"}
  PROVE  LET n == Execute(f, m, x)
         IN  /\ IsState(n) /\ n.aligned = m.aligned /\ n.calls = m.calls /\ n.returned = m.returned
             /\ n.r = m.r
<1>1. CASE m.returned \/ m.left
  BY <1>1 DEF Execute
<1>2. CASE ~(m.returned \/ m.left) /\ x.op = "JMP"
  <2>1. Execute(f, m, x) = Leave(m, x.dst.n)
    BY <1>2 DEF Execute, ConditionalJumps
  <2>2. \/ Execute(f, m, x) = [m EXCEPT !.left = TRUE]
        \/ \E seen : Execute(f, m, x) = [m EXCEPT !.left = TRUE, !.seen = seen]
    BY <2>1 DEF Leave
  <2> QED BY <2>2 DEF IsState
<1>3. CASE ~(m.returned \/ m.left) /\ x.op \in ConditionalJumps
  <2>1. \E seen : Execute(f, m, x) = [m EXCEPT !.seen = seen, !.left = (x.dst.n = m.goal)]
    BY <1>3 DEF Execute, ConditionalJumps
  <2>2. PICK seen, left : left \in BOOLEAN /\ Execute(f, m, x) = [m EXCEPT !.seen = seen, !.left = left]
    BY <2>1
  <2> QED BY <2>2 DEF IsState
<1> QED BY <1>1, <1>2, <1>3

LEMMA BrLowers ==
  ASSUME NEW i, i.op = "BR", NEW x, x.op = "JMP"
  PROVE  Lowers(i, <<x>>)
<1>1. IsSeq(<<x>>)
  BY IsSeqParts
<1>2. ASSUME NEW f, NEW q, NEW m, Homes(f), Sim(q, m), ~m.left, ~m.returned
      PROVE  Sim(IRStep(q, i), Exec(f, m, <<x>>))
  <2>1. IsState(m) /\ IsIRState(q) /\ ~q.returned
    BY <1>2 DEF Sim
  <2>2. Exec(f, m, <<x>>) = Execute(f, m, x)
    BY ExecOne
  <2>3. PICK n : n = Execute(f, m, x) /\ IsState(n) /\ n.aligned = m.aligned /\ n.calls = m.calls
                 /\ n.returned = m.returned /\ n.r = m.r
    BY <2>1, JumpLeaves
  <2>4. SameIR(q, IRStep(q, i))
    BY <2>1, IRSteps
  <2> QED BY <1>2, <2>2, <2>3, <2>4 DEF Sim, SameIR, Framed
<1> QED BY <1>1, <1>2 DEF Lowers, Jumps

LEMMA CbrLowers ==
  ASSUME NEW i, i.op = "CBR", NEW x, x.op \in ConditionalJumps, NEW y, y.op = "JMP"
  PROVE  Lowers(i, <<x, y>>)
<1>1. IsSeq(<<x, y>>)
  BY IsSeqParts
<1>2. ASSUME NEW f, NEW q, NEW m, Homes(f), Sim(q, m), ~m.left, ~m.returned
      PROVE  Sim(IRStep(q, i), Exec(f, m, <<x, y>>))
  <2>1. IsState(m) /\ IsIRState(q) /\ ~q.returned
    BY <1>2 DEF Sim
  <2>2. Exec(f, m, <<x, y>>) = Execute(f, Execute(f, m, x), y)
    BY ExecTwo DEF ConditionalJumps
  <2>3. PICK n : n = Execute(f, m, x) /\ IsState(n) /\ n.aligned = m.aligned /\ n.calls = m.calls
                 /\ n.returned = m.returned /\ n.r = m.r
    BY <2>1, JumpLeaves
  <2>4. PICK p : p = Execute(f, n, y) /\ IsState(p) /\ p.aligned = n.aligned /\ p.calls = n.calls
                 /\ p.returned = n.returned /\ p.r = n.r
    BY <2>3, JumpLeaves
  <2>5. SameIR(q, IRStep(q, i))
    BY <2>1, IRSteps
  <2>6. Exec(f, m, <<x, y>>) = p
    BY <2>2, <2>3, <2>4
  <2> QED BY <1>2, <2>3, <2>4, <2>5, <2>6 DEF Sim, SameIR, Framed
<1> QED BY <1>1, <1>2 DEF Lowers, Jumps

(* The epilogue gives the frame back: RSP is where the caller left it.     *)
LEMMA EpilogueRuns ==
  ASSUME NEW f, NEW m, IsState(m), Framed(m), ~m.returned, ~m.left
  PROVE  LET n == Run(f, m, BareEpilogue)
         IN  /\ IsState(n) /\ n.aligned = m.aligned /\ n.calls = m.calls
             /\ ~n.returned /\ ~n.left /\ n.r[RSP] = <<"addr", 0>>
<1>1. PICK x, y : BareEpilogue = <<x, y>> /\ x = Ins("MOV", PREG(RSP), PREG(RBP)) /\ y = Ins("POP", PREG(RBP), MNONE)
  BY DEF BareEpilogue
<1>2. Run(f, m, <<x, y>>) = Execute(f, Execute(f, m, x), y)
  <2>1. x.op # "RET" /\ y.op # "RET"
    BY <1>1 DEF Ins
  <2> QED BY RunTwo
<1>3. PICK p : p = Execute(f, m, x)
  OBVIOUS
<1>4. p = [m EXCEPT !.r[RSP] = m.r[RBP]]
  <2>1. x.op = "MOV" /\ x.dst = PREG(RSP) /\ x.src = PREG(RBP)
    BY <1>1 DEF Ins
  <2>2. p = Write(f, m, PREG(RSP), Read(f, m, PREG(RBP)))
    BY <1>3, <2>1 DEF Execute, ConditionalJumps
  <2>3. Read(f, m, PREG(RBP)) = m.r[RBP]
    BY DEF Read, PREG
  <2>4. \A v : Write(f, m, PREG(RSP), v) = [m EXCEPT !.r[RSP] = v]
    BY DEF Write, PREG
  <2> QED BY <2>2, <2>3, <2>4
<1>5. /\ IsState(p) /\ p.aligned = m.aligned /\ p.calls = m.calls /\ ~p.returned /\ ~p.left
      /\ p.r[RSP] = <<"addr", -8>>
  BY <1>4 DEF IsState, Framed
<1>6. \E v : Execute(f, p, y) = [Write(f, p, PREG(RBP), v) EXCEPT !.r[RSP] = <<"addr", p.r[RSP][2] + 8>>]
  <2>1. y.op = "POP" /\ y.dst = PREG(RBP)
    BY <1>1 DEF Ins
  <2> QED BY <1>5, <2>1 DEF Execute, ConditionalJumps
<1>7. PICK v : Execute(f, p, y) = [Write(f, p, PREG(RBP), v) EXCEPT !.r[RSP] = <<"addr", p.r[RSP][2] + 8>>]
  BY <1>6
<1>8. Write(f, p, PREG(RBP), v) = [p EXCEPT !.r[RBP] = v]
  BY DEF Write, PREG
<1>9. p.r[RSP][2] + 8 = 0
  BY <1>5
<1>10. PICK w : w = [p EXCEPT !.r[RBP] = v]
  OBVIOUS
<1>11. IsState(w) /\ w.aligned = p.aligned /\ w.calls = p.calls /\ ~w.returned /\ ~w.left
  BY <1>5, <1>10 DEF IsState
<1>12. Run(f, m, BareEpilogue) = [w EXCEPT !.r[RSP] = <<"addr", 0>>]
  BY <1>1, <1>2, <1>3, <1>7, <1>8, <1>9, <1>10
<1> QED BY <1>5, <1>11, <1>12 DEF IsState

LEMMA RetLowers ==
  ASSUME NEW i, i.op = "RET", NEW x, Quiet(x), NEW y, y.op = "RET"
  PROVE  Lowers(i, <<x, y>>)
<1>1. IsSeq(<<x, y>>) /\ IsSeq(<<x>>) /\ Append(<<x>>, y) = <<x, y>>
  BY IsSeqParts, PairIsAppend
<1>2. ASSUME NEW f, NEW q, NEW m, Homes(f), Sim(q, m), ~m.left, ~m.returned
      PROVE  Sim(IRStep(q, i), Exec(f, m, <<x, y>>)) /\ ~Exec(f, m, <<x, y>>).left
  <2>1. IsState(m) /\ IsIRState(q) /\ ~q.returned
    BY <1>2 DEF Sim
  <2>2. PICK n : n = Execute(f, m, x) /\ Undisturbed(m, n)
    BY <1>2, <2>1, ExecuteQuiet
  <2>3. Sim(q, n) /\ ~n.left /\ ~n.returned
    BY <1>2, <2>2, SimUndisturbed DEF Undisturbed
  <2>4. PICK p : /\ p = Run(f, n, BareEpilogue)
                 /\ IsState(p) /\ p.aligned = n.aligned /\ p.calls = n.calls
                 /\ ~p.returned /\ ~p.left /\ p.r[RSP] = <<"addr", 0>>
    BY <2>3, EpilogueRuns DEF Sim
  <2>5. Exec(f, m, <<x, y>>) = Execute(f, p, y)
    <3>1. Exec(f, m, <<x>>) = n
      BY <2>2, ExecOne DEF Quiet
    <3>2. PICK e : e = <<x>>
      OBVIOUS
    <3>3. Exec(f, m, Append(e, y)) = Execute(f, Run(f, Exec(f, m, e), BareEpilogue), y)
      <4>1. IsSeq(e)
        BY <1>1, <3>2
      <4> QED BY <4>1, ExecAppend
    <3> QED BY ONLY <1>1, <2>4, <3>1, <3>2, <3>3
  <2>6. \E seen : Execute(f, p, y) = [p EXCEPT !.seen = seen, !.returned = TRUE]
    BY <2>4 DEF Execute, ConditionalJumps
  <2>7. PICK seen : Execute(f, p, y) = [p EXCEPT !.seen = seen, !.returned = TRUE]
    BY <2>6
  <2>8. IsIRState(IRStep(q, i)) /\ IRStep(q, i).calls = q.calls /\ IRStep(q, i).returned = TRUE
    BY <2>1, IRSteps
  <2>9. PICK w : w = [p EXCEPT !.seen = seen, !.returned = TRUE]
    OBVIOUS
  <2>10. /\ IsState(w) /\ w.aligned = TRUE /\ w.calls = q.calls /\ w.returned = TRUE
         /\ w.r[RSP] = <<"addr", 0>> /\ ~w.left
    BY <2>3, <2>4, <2>9 DEF IsState, Sim
  <2>11. Sim(IRStep(q, i), w) /\ ~w.left
    BY <2>8, <2>10 DEF Sim
  <2> QED BY <2>5, <2>7, <2>9, <2>11
<1> QED BY <1>1, <1>2 DEF Lowers

-----------------------------------------------------------------------------
(* Calls: with d bytes of room below the frame, after c calls.             *)
OnFrame(m, d, c) ==
  /\ IsState(m) /\ m.aligned = TRUE /\ m.calls = c /\ ~m.returned /\ ~m.left
  /\ m.r[RSP] = <<"addr", -8 - d>> /\ m.r[RBP] = <<"addr", -8>>

LEMMA RoomIsAligned ==
  ASSUME NEW n \in Nat
  PROVE  StackRoom(n) \in Nat /\ StackRoom(n) % 16 = 0
<1>1. PICK k \in Nat : n = 2 * k \/ n = 2 * k + 1
  <2>1. n \div 2 \in Nat /\ (n = 2 * (n \div 2) \/ n = 2 * (n \div 2) + 1)
    OBVIOUS
  <2> QED BY <2>1
<1>2. CASE n = 2 * k
  <2>1. n % 2 = 0
    BY <1>2
  <2>2. StackRoom(n) = 16 * k
    BY <1>2, <2>1 DEF StackRoom
  <2> QED BY <2>2
<1>3. CASE n = 2 * k + 1
  <2>1. n % 2 = 1
    BY <1>3
  <2>2. StackRoom(n) = 16 * (k + 1)
    BY <1>3, <2>1 DEF StackRoom
  <2> QED BY <2>2
<1> QED BY <1>1, <1>2, <1>3

LEMMA QuietOnFrame ==
  ASSUME NEW f, Homes(f), NEW m, NEW d, NEW c, OnFrame(m, d, c), NEW e, AllQuiet(e)
  PROVE  OnFrame(Exec(f, m, e), d, c)
<1>1. Undisturbed(m, Exec(f, m, e))
  BY ExecQuiet DEF OnFrame
<1> QED BY <1>1 DEF OnFrame, Undisturbed

LEMMA RoomMade ==
  ASSUME NEW f, NEW m, NEW c, OnFrame(m, 0, c), NEW room \in Nat
  PROVE  OnFrame(Exec(f, m, <<Ins("SUB", PREG(RSP), LIT(room))>>), room, c)
<1>1. PICK x : x = Ins("SUB", PREG(RSP), LIT(room))
  OBVIOUS
<1>2. x.op = "SUB" /\ x.dst = PREG(RSP) /\ x.src = LIT(room)
  BY <1>1 DEF Ins
<1>3. Read(f, m, PREG(RSP)) = <<"addr", -8>> /\ Read(f, m, LIT(room)) = <<"lit", room>>
  BY DEF Read, PREG, LIT, OnFrame
<1>4. Combine("SUB", <<"addr", -8>>, <<"lit", room>>) = <<"addr", -8 - room>>
  BY DEF Combine
<1>5. PICK n : n = [m EXCEPT !.flags = <<"result", <<"addr", -8 - room>>>>]
  OBVIOUS
<1>6. Execute(f, m, x) = Write(f, n, PREG(RSP), <<"addr", -8 - room>>)
  BY <1>2, <1>3, <1>4, <1>5 DEF Execute, ConditionalJumps, OnFrame
<1>7. Write(f, n, PREG(RSP), <<"addr", -8 - room>>) = [n EXCEPT !.r[RSP] = <<"addr", -8 - room>>]
  BY DEF Write, PREG
<1>8. OnFrame(n, 0, c)
  BY <1>5 DEF OnFrame, IsState
<1>9. RSP # RBP
  BY DEF RSP, RBP
<1>10. OnFrame([n EXCEPT !.r[RSP] = <<"addr", -8 - room>>], room, c)
  BY <1>8, <1>9 DEF OnFrame, IsState
<1>11. Exec(f, m, <<x>>) = Execute(f, m, x)
  BY <1>2, ExecOne
<1> QED BY <1>1, <1>6, <1>7, <1>10, <1>11

LEMMA RoomGivenBack ==
  ASSUME NEW f, NEW m, NEW c, NEW room \in Nat, OnFrame(m, room, c)
  PROVE  OnFrame(Exec(f, m, <<Ins("ADD", PREG(RSP), LIT(room))>>), 0, c)
<1>1. PICK x : x = Ins("ADD", PREG(RSP), LIT(room))
  OBVIOUS
<1>2. x.op = "ADD" /\ x.dst = PREG(RSP) /\ x.src = LIT(room)
  BY <1>1 DEF Ins
<1>3. Read(f, m, PREG(RSP)) = <<"addr", -8 - room>> /\ Read(f, m, LIT(room)) = <<"lit", room>>
  BY DEF Read, PREG, LIT, OnFrame
<1>4. Combine("ADD", <<"addr", -8 - room>>, <<"lit", room>>) = <<"addr", -8>>
  BY DEF Combine
<1>5. PICK n : n = [m EXCEPT !.flags = <<"result", <<"addr", -8>>>>]
  OBVIOUS
<1>6. Execute(f, m, x) = Write(f, n, PREG(RSP), <<"addr", -8>>)
  BY <1>2, <1>3, <1>4, <1>5 DEF Execute, ConditionalJumps, OnFrame
<1>7. Write(f, n, PREG(RSP), <<"addr", -8>>) = [n EXCEPT !.r[RSP] = <<"addr", -8>>]
  BY DEF Write, PREG
<1>8. OnFrame(n, room, c)
  BY <1>5 DEF OnFrame, IsState
<1>9. RSP # RBP
  BY DEF RSP, RBP
<1>10. OnFrame([n EXCEPT !.r[RSP] = <<"addr", -8>>], 0, c)
  BY <1>8, <1>9 DEF OnFrame, IsState
<1>11. Exec(f, m, <<x>>) = Execute(f, m, x)
  BY <1>2, ExecOne
<1> QED BY <1>1, <1>6, <1>7, <1>10, <1>11

LEMMA CallMade ==
  ASSUME NEW f, NEW m, NEW c, NEW room \in Nat, room % 16 = 0, OnFrame(m, room, c), NEW x, x.op = "CALL"
  PROVE  OnFrame(Exec(f, m, <<x>>), room, c + 1)
<1>1. Exec(f, m, <<x>>) = AfterCall(m, x.dst)
  <2>1. Exec(f, m, <<x>>) = Execute(f, m, x)
    BY ExecOne
  <2>2. Execute(f, m, x) = AfterCall(m, x.dst)
    BY DEF Execute, ConditionalJumps, OnFrame
  <2> QED BY <2>1, <2>2
<1>2. (m.r[RSP][2] + 8) % 16 = 0
  <2>1. m.r[RSP][2] + 8 = -room
    BY DEF OnFrame
  <2> QED BY <2>1
<1>3. PICK r : r = [g \in DOMAIN m.r |-> IF g = RAX THEN <<"ret", m.calls + 1>>
                                   ELSE IF g \in CallerSavedRegs THEN <<"junk">> ELSE m.r[g]]
  OBVIOUS
<1>4. DOMAIN r = DOMAIN m.r /\ r[RSP] = m.r[RSP] /\ r[RBP] = m.r[RBP]
  <2>1. RSP \notin CallerSavedRegs /\ RBP \notin CallerSavedRegs /\ RSP # RAX /\ RBP # RAX
    BY PointersKept DEF CallerSavedRegs
  <2>2. RSP \in DOMAIN m.r /\ RBP \in DOMAIN m.r
    BY DEF OnFrame, IsState
  <2> QED BY <1>3, <2>1, <2>2
<1>5. PICK a \in BOOLEAN : a = (m.aligned /\ (m.r[RSP][2] + 8) % 16 = 0)
  OBVIOUS
<1>6. a = TRUE
  BY <1>2, <1>5 DEF OnFrame
<1>7. \E seen, mem : AfterCall(m, x.dst) =
        [m EXCEPT !.seen = seen, !.calls = m.calls + 1, !.aligned = a, !.mem = mem, !.r = r]
  BY <1>3, <1>5 DEF AfterCall
<1>8. PICK seen, mem : AfterCall(m, x.dst) =
        [m EXCEPT !.seen = seen, !.calls = m.calls + 1, !.aligned = a, !.mem = mem, !.r = r]
  BY <1>7
<1>9. PICK n : n = [m EXCEPT !.seen = seen, !.calls = m.calls + 1, !.aligned = a, !.mem = mem, !.r = r]
  OBVIOUS
<1>10. /\ DOMAIN n = DOMAIN m /\ n.returned = m.returned /\ n.left = m.left
       /\ n.calls = m.calls + 1 /\ n.aligned = a /\ n.r = r
  BY <1>9 DEF OnFrame, IsState
<1>11. OnFrame(n, room, c + 1)
  BY <1>4, <1>6, <1>10 DEF OnFrame, IsState
<1> QED BY <1>1, <1>8, <1>9, <1>11

(* The parts of a call, one after the other.                               *)
LEMMA ExecSix ==
  ASSUME NEW f, NEW m, NEW a, IsSeq(a), NEW b, IsSeq(b), NEW c, IsSeq(c),
         NEW d, IsSeq(d), NEW e, IsSeq(e), NEW g, IsSeq(g)
  PROVE  /\ IsSeq(a \o b \o c \o d \o e \o g)
         /\ Exec(f, m, a \o b \o c \o d \o e \o g)
              = Exec(f, Exec(f, Exec(f, Exec(f, Exec(f, Exec(f, m, a), b), c), d), e), g)
<1>1. PICK ab : ab = a \o b
  OBVIOUS
<1>2. IsSeq(ab) /\ Exec(f, m, ab) = Exec(f, Exec(f, m, a), b)
  BY <1>1, IsSeqParts, ExecConcat
<1>3. PICK abc : abc = ab \o c
  OBVIOUS
<1>4. IsSeq(abc) /\ Exec(f, m, abc) = Exec(f, Exec(f, m, ab), c)
  BY <1>2, <1>3, IsSeqParts, ExecConcat
<1>5. PICK abcd : abcd = abc \o d
  OBVIOUS
<1>6. IsSeq(abcd) /\ Exec(f, m, abcd) = Exec(f, Exec(f, m, abc), d)
  BY <1>4, <1>5, IsSeqParts, ExecConcat
<1>7. PICK abcde : abcde = abcd \o e
  OBVIOUS
<1>8. IsSeq(abcde) /\ Exec(f, m, abcde) = Exec(f, Exec(f, m, abcd), e)
  BY <1>6, <1>7, IsSeqParts, ExecConcat
<1>9. IsSeq(abcde \o g) /\ Exec(f, m, abcde \o g) = Exec(f, Exec(f, m, abcde), g)
  BY <1>8, IsSeqParts, ExecConcat
<1> QED BY <1>1, <1>2, <1>3, <1>4, <1>5, <1>6, <1>7, <1>8, <1>9

LEMMA NothingQuiet == AllQuiet(<< >>)
<1>1. \A k \in DOMAIN << >> : Quiet(<< >>[k])
  OBVIOUS
<1> QED BY <1>1, IsSeqParts DEF AllQuiet

LEMMA MovesQuiet ==
  ASSUME NEW n \in Nat, NEW c, c = [k \in 1 .. n |-> c[k]],
         \A k \in 1 .. n : c[k].op = "MOV" /\ c[k].dst.kind \in {"VREG", "MEM"}
  PROVE  AllQuiet(c)
<1>1. DOMAIN c = 1 .. n
  OBVIOUS
<1>2. IsSeq(c)
  BY <1>1, IsSeqFunction
<1>3. \A k \in DOMAIN c : Quiet(c[k])
  BY <1>1 DEF Quiet
<1> QED BY <1>2, <1>3 DEF AllQuiet

LEMMA CallLowers ==
  ASSUME NEW i, i.op = "CALL", i.res.kind \in {"REGISTER", "NONE"}, Len(i.args) \in Nat, NEW have
  PROVE  Lowers(i, CallSequence(i, have).instrs)
<1>1. PICK inRegs \in Nat, onStack \in Nat : inRegs = InRegisters(Len(i.args)) /\ onStack = Len(i.args) - inRegs
  <2>1. Len(IntArgRegs) = 6
    BY DEF IntArgRegs
  <2>2. PICK n \in Nat : n = Len(i.args)
    OBVIOUS
  <2>3. InRegisters(n) \in Nat /\ InRegisters(n) <= n
    BY <2>1 DEF InRegisters
  <2>4. n - InRegisters(n) \in Nat
    BY <2>3
  <2> QED BY <2>2, <2>3, <2>4
<1>2. PICK room \in Nat : room = StackRoom(onStack) /\ room % 16 = 0
  BY RoomIsAligned
<1>3. PICK a : a = [k \in 1 .. inRegs |-> Ins("MOV", Pin(have, k), Lowered(i.args[k]))]
  OBVIOUS
<1>4. PICK b : b = IF room > 0 THEN <<Ins("SUB", PREG(RSP), LIT(room))>> ELSE << >>
  OBVIOUS
<1>5. PICK c : c = [k \in 1 .. onStack |-> Ins("MOV", MEM(RSP, 8 * (k - 1)), Lowered(i.args[inRegs + k]))]
  OBVIOUS
<1>6. PICK d : d = << Ins("CALL", SYM(i.lhs.n, Len(i.args)), MNONE) >>
  OBVIOUS
<1>7. PICK e : e = IF i.res.kind # "NONE" THEN <<Ins("MOV", Lowered(i.res), Pin(have, inRegs + 1))>> ELSE << >>
  OBVIOUS
<1>8. PICK g : g = IF room > 0 THEN <<Ins("ADD", PREG(RSP), LIT(room))>> ELSE << >>
  OBVIOUS
<1>9. CallSequence(i, have).instrs = a \o b \o c \o d \o e \o g
  BY <1>1, <1>2, <1>3, <1>4, <1>5, <1>6, <1>7, <1>8 DEF CallSequence, Emit
<1>10. AllQuiet(a)
  <2>1. \A k \in 1 .. inRegs : a[k].op = "MOV" /\ a[k].dst.kind = "VREG"
    BY <1>3 DEF Ins, Pin, VREG
  <2>2. a = [k \in 1 .. inRegs |-> a[k]]
    BY <1>3
  <2> QED BY <2>1, <2>2, MovesQuiet
<1>11. AllQuiet(c)
  <2>1. \A k \in 1 .. onStack : c[k].op = "MOV" /\ c[k].dst.kind = "MEM"
    BY <1>5 DEF Ins, MEM
  <2>2. c = [k \in 1 .. onStack |-> c[k]]
    BY <1>5
  <2> QED BY <2>1, <2>2, MovesQuiet
<1>12. AllQuiet(e)
  <2>1. CASE i.res.kind = "NONE"
    BY <1>7, <2>1, NothingQuiet
  <2>2. CASE i.res.kind = "REGISTER"
    BY <1>7, <2>2, CopyQuiet
  <2> QED BY <2>1, <2>2
<1>13. IsSeq(a) /\ IsSeq(b) /\ IsSeq(c) /\ IsSeq(d) /\ IsSeq(e) /\ IsSeq(g)
  <2>1. IsSeq(b) /\ IsSeq(g)
    BY <1>4, <1>8, IsSeqParts
  <2>2. IsSeq(d)
    BY <1>6, IsSeqParts
  <2> QED BY <1>10, <1>11, <1>12, <2>1, <2>2 DEF AllQuiet
<1>14. PICK s : s = a \o b \o c \o d \o e \o g
  OBVIOUS
<1>15. ASSUME NEW f, NEW q, NEW m, Homes(f), Sim(q, m), ~m.left, ~m.returned
       PROVE  Sim(IRStep(q, i), Exec(f, m, s)) /\ ~Exec(f, m, s).left
  <2>1. OnFrame(m, 0, q.calls)
    BY <1>15 DEF Sim, OnFrame, Framed
  <2>2. PICK m1 : m1 = Exec(f, m, a) /\ OnFrame(m1, 0, q.calls)
    BY <1>10, <1>15, <2>1, QuietOnFrame
  <2>3. PICK m2 : m2 = Exec(f, m1, b) /\ OnFrame(m2, room, q.calls)
    <3>1. CASE room > 0
      BY <1>4, <2>2, <3>1, RoomMade
    <3>2. CASE ~(room > 0)
      <4>1. room = 0
        BY <3>2
      <4>2. Exec(f, m1, b) = m1
        BY <1>4, <3>2, ExecEmpty
      <4> QED BY <2>2, <4>1, <4>2
    <3> QED BY <3>1, <3>2
  <2>4. PICK m3 : m3 = Exec(f, m2, c) /\ OnFrame(m3, room, q.calls)
    BY <1>11, <1>15, <2>3, QuietOnFrame
  <2>5. PICK m4 : m4 = Exec(f, m3, d) /\ OnFrame(m4, room, q.calls + 1)
    <3>1. PICK x : x = Ins("CALL", SYM(i.lhs.n, Len(i.args)), MNONE)
      OBVIOUS
    <3>2. x.op = "CALL" /\ d = <<x>>
      BY <1>6, <3>1 DEF Ins
    <3> QED BY <1>2, <2>4, <3>2, CallMade
  <2>6. PICK m5 : m5 = Exec(f, m4, e) /\ OnFrame(m5, room, q.calls + 1)
    BY <1>12, <1>15, <2>5, QuietOnFrame
  <2>7. PICK m6 : m6 = Exec(f, m5, g) /\ OnFrame(m6, 0, q.calls + 1)
    <3>1. CASE room > 0
      BY <1>8, <2>6, <3>1, RoomGivenBack
    <3>2. CASE ~(room > 0)
      <4>1. room = 0
        BY <3>2
      <4>2. Exec(f, m5, g) = m5
        BY <1>8, <3>2, ExecEmpty
      <4> QED BY <2>6, <4>1, <4>2
    <3> QED BY <3>1, <3>2
  <2>8. Exec(f, m, s) = m6
    <3>1. Exec(f, m, a \o b \o c \o d \o e \o g)
              = Exec(f, Exec(f, Exec(f, Exec(f, Exec(f, Exec(f, m, a), b), c), d), e), g)
      BY ONLY <1>13, ExecSix
    <3> QED BY ONLY <1>14, <2>2, <2>3, <2>4, <2>5, <2>6, <2>7, <3>1
  <2>9. IsIRState(IRStep(q, i)) /\ IRStep(q, i).calls = q.calls + 1 /\ IRStep(q, i).returned = FALSE
    <3>1. IsIRState(q) /\ ~q.returned
      BY <1>15 DEF Sim
    <3> QED BY <3>1, IRSteps
  <2>10. Sim(IRStep(q, i), m6) /\ ~m6.left
    <3>1. IsState(m6) /\ m6.aligned = TRUE /\ m6.calls = q.calls + 1 /\ ~m6.left
      BY <2>7 DEF OnFrame
    <3>2. m6.returned = FALSE
      BY <2>7 DEF OnFrame, IsState
    <3>3. Framed(m6)
      <4>1. m6.r[RSP] = <<"addr", -8 - 0>> /\ m6.r[RBP] = <<"addr", -8>> /\ -8 - 0 = -8
        BY <2>7 DEF OnFrame
      <4> QED BY <4>1 DEF Framed
    <3> QED BY <2>9, <3>1, <3>2, <3>3 DEF Sim
  <2> QED BY ONLY <2>8, <2>10
<1>16. IsSeq(a \o b \o c \o d \o e \o g)
  BY ONLY <1>13, ExecSix
<1>17. Lowers(i, s)
  BY <1>14, <1>15, <1>16 DEF Lowers
<1> QED BY <1>9, <1>14, <1>17

-----------------------------------------------------------------------------
(* A block: what is known of the lowering state, whatever its code.        *)
PinRegs == ToSet(IntArgRegs) \cup {RAX}

IsLowering(st) ==
  /\ DOMAIN st = {"code", "pins", "cmps", "failed"}
  /\ st.pins \in Seq(PinRegs)
  /\ \A v \in DOMAIN st.cmps : st.cmps[v] \in Comparisons
  /\ st.failed \in BOOLEAN

Kept(I, st) == IsLowering(st) /\ (~st.failed => Keeps(I, st.code))
Ended(I, st) == IsLowering(st) /\ (~st.failed => Ends(I, st.code))

LEMMA ArgumentPins == \A n \in Nat : SubSeq(IntArgRegs, 1, InRegisters(n)) \in Seq(PinRegs)
<1> TAKE n \in Nat
<1>1. Len(IntArgRegs) = 6 /\ IntArgRegs \in Seq(ToSet(IntArgRegs))
  <2>1. IntArgRegs \in Seq({RDI, RSI, RDX, RCX, R8, R9}) /\ Len(IntArgRegs) = 6
    BY DEF IntArgRegs
  <2>2. PICK s : s = IntArgRegs
    OBVIOUS
  <2>3. s \in [1 .. 6 -> ToSet(s)]
    BY <2>1, <2>2 DEF ToSet
  <2>4. s \in Seq(ToSet(s))
    BY <2>3, FunctionIsSequence
  <2> QED BY <2>1, <2>2, <2>4
<1>2. PICK k \in 0 .. 6 : k = InRegisters(n)
  <2>1. InRegisters(n) \in 0 .. 6
    BY <1>1 DEF InRegisters
  <2> QED BY <2>1
<1>3. PICK s : s = IntArgRegs
  OBVIOUS
<1>4. s \in Seq(PinRegs) /\ Len(s) = 6
  <2>1. s \in [1 .. 6 -> PinRegs]
    BY <1>1, <1>3 DEF PinRegs
  <2> QED BY <2>1, FunctionIsSequence
<1>5. SubSeq(s, 1, k) \in Seq(PinRegs)
  <2>1. 1 \in 1 .. Len(s) + 1 /\ k \in 1 - 1 .. Len(s)
    BY <1>4
  <2>2. s \in Seq(PinRegs)
    BY <1>4
  <2> QED BY ONLY <2>1, <2>2, SubSeqProperties
<1> QED BY <1>2, <1>3, <1>5

LEMMA InstructionLowers ==
  ASSUME NEW i, IsInstruction(i), NEW have, NEW cmps, \A v \in DOMAIN cmps : cmps[v] \in Comparisons,
         ~Unbranchable(i, cmps)
  PROVE  LET out == LowerInstruction(i, have, cmps)
         IN  out.pins \in Seq(PinRegs) /\ Lowers(i, out.instrs)
<1>1. PICK out : out = LowerInstruction(i, have, cmps)
  OBVIOUS
<1>2. << >> \in Seq(PinRegs) /\ <<RAX>> \in Seq(PinRegs)
  <2>1. RAX \in PinRegs
    BY DEF PinRegs
  <2>2. \A S, x : x \in S => << >> \in Seq(S) /\ <<x>> \in Seq(S)
    OBVIOUS
  <2> QED BY <2>1, <2>2
<1>3. CASE i.op \in {"ADD", "MUL"} \cup Comparisons
  <2>1. PICK op \in {"ADD", "IMUL", "CMP"} : out = TwoAddress(op, i)
    BY <1>1, <1>3 DEF LowerInstruction, Comparisons
  <2>2. i.res.kind = "REGISTER"
    BY <1>3 DEF IsInstruction, Comparisons, Terminators
  <2>3. AllQuiet(out.instrs)
    BY <2>1, <2>2, TwoAddressQuiet
  <2>4. Lowers(i, out.instrs)
    BY <1>3, <2>3, QuietLowers
  <2>5. out.pins = << >>
    BY <2>1 DEF TwoAddress, Emit
  <2> QED BY <1>1, <1>2, <2>4, <2>5
<1>4. CASE i.op = "COPY"
  <2>1. out = Emit(<<Ins("MOV", Lowered(i.res), Lowered(i.lhs))>>, << >>)
    BY <1>1, <1>4 DEF LowerInstruction, Comparisons
  <2>2. i.res.kind = "REGISTER"
    BY <1>4 DEF IsInstruction, Comparisons, Terminators
  <2>3. out.pins = << >> /\ out.instrs = <<Ins("MOV", Lowered(i.res), Lowered(i.lhs))>>
    BY <2>1 DEF Emit
  <2>4. AllQuiet(out.instrs)
    BY <2>2, <2>3, CopyQuiet
  <2>5. Lowers(i, out.instrs)
    BY <1>4, <2>4, QuietLowers
  <2> QED BY <1>1, <1>2, <2>3, <2>5
<1>5. CASE i.op = "BR"
  <2>1. out = Emit(<<Ins("JMP", Lowered(i.lhs), MNONE)>>, << >>)
    BY <1>1, <1>5 DEF LowerInstruction, Comparisons
  <2>2. PICK x : x = Ins("JMP", Lowered(i.lhs), MNONE)
    OBVIOUS
  <2>3. x.op = "JMP" /\ out.instrs = <<x>> /\ out.pins = << >>
    BY <2>1, <2>2 DEF Emit, Ins
  <2>4. Lowers(i, out.instrs)
    BY <1>5, <2>3, BrLowers
  <2> QED BY <1>1, <1>2, <2>3, <2>4
<1>6. CASE i.op = "CBR"
  <2>1. out = ConditionalBranch(i, cmps)
    BY <1>1, <1>6 DEF LowerInstruction, Comparisons
  <2>2. PICK x, y : /\ x = Ins(JumpOf[cmps[ValueNumber(i.res)]], Lowered(i.lhs), MNONE)
                    /\ y = Ins("JMP", Lowered(i.rhs), MNONE)
    OBVIOUS
  <2>3. x.op = JumpOf[cmps[ValueNumber(i.res)]] /\ y.op = "JMP" /\ out.instrs = <<x, y>> /\ out.pins = << >>
    BY <2>1, <2>2 DEF ConditionalBranch, Emit, Ins
  <2>4. cmps[ValueNumber(i.res)] \in Comparisons
    BY <1>6 DEF Unbranchable
  <2>5. \A c \in Comparisons : JumpOf[c] \in ConditionalJumps
    BY DEF Comparisons, JumpOf, ConditionalJumps
  <2>6. Lowers(i, out.instrs)
    BY <1>6, <2>3, <2>4, <2>5, CbrLowers
  <2> QED BY <1>1, <1>2, <2>3, <2>6
<1>7. CASE i.op = "RET"
  <2>1. out = Return(i, have)
    BY <1>1, <1>7 DEF LowerInstruction, Comparisons
  <2>2. PICK x, y : x = Ins("MOV", Pin(have, 1), Lowered(i.lhs)) /\ y = Ins("RET", MNONE, Lowered(i.lhs))
    OBVIOUS
  <2>3. x.op = "MOV" /\ x.dst.kind = "VREG" /\ y.op = "RET" /\ out.instrs = <<x, y>> /\ out.pins = <<RAX>>
    BY <2>1, <2>2 DEF Return, Emit, Ins, Pin, VREG
  <2>4. Lowers(i, out.instrs)
    BY <1>7, <2>3, RetLowers DEF Quiet
  <2> QED BY <1>1, <1>2, <2>3, <2>4
<1>8. CASE i.op = "CALL"
  <2>1. out = CallSequence(i, have)
    BY <1>1, <1>8 DEF LowerInstruction, Comparisons
  <2>2. i.res.kind \in {"REGISTER", "NONE"} /\ i.args \in Seq(ToSet(i.args))
    BY <1>8 DEF IsInstruction, Comparisons, Terminators
  <2>3. Len(i.args) \in Nat
    BY <2>2
  <2>4. Lowers(i, out.instrs)
    BY <1>8, <2>1, <2>2, <2>3, CallLowers
  <2>5. PICK a \in Seq(PinRegs) : a = SubSeq(IntArgRegs, 1, InRegisters(Len(i.args)))
    BY <2>3, ArgumentPins
  <2>6. PICK b \in Seq(PinRegs) : b = IF i.res.kind # "NONE" THEN <<RAX>> ELSE << >>
    BY <1>2
  <2>7. out.pins = a \o b
    BY <2>1, <2>5, <2>6 DEF CallSequence, Emit
  <2>8. a \o b \in Seq(PinRegs)
    BY ConcatProperties
  <2> QED BY <1>1, <2>4, <2>7, <2>8
<1> QED BY <1>3, <1>4, <1>5, <1>6, <1>7, <1>8 DEF IsInstruction, Terminators

LEMMA NextLowered ==
  ASSUME NEW I, NEW st, Kept(I, st), NEW i, IsInstruction(i)
  PROVE  /\ Ended(Append(I, i), LowerNext(st, i))
         /\ i.op \notin Jumps => Kept(Append(I, i), LowerNext(st, i))
         /\ i.op = "COPY" => Kept(I, LowerNext(st, i))
<1>0. IsLowering(st) /\ (~st.failed => Keeps(I, st.code))
  BY DEF Kept
<1>1. CASE st.failed \/ Unbranchable(i, st.cmps)
  <2>1. LowerNext(st, i) = [st EXCEPT !.failed = TRUE]
    BY <1>1 DEF LowerNext
  <2>2. IsLowering(LowerNext(st, i)) /\ LowerNext(st, i).failed
    BY <1>0, <2>1 DEF IsLowering
  <2> QED BY <2>2 DEF Ended, Kept
<1>2. CASE ~(st.failed \/ Unbranchable(i, st.cmps))
  <2>1. PICK out : out = LowerInstruction(i, st.pins, st.cmps) /\ out.pins \in Seq(PinRegs) /\ Lowers(i, out.instrs)
    BY <1>0, <1>2, InstructionLowers DEF IsLowering
  <2>2. PICK n : n = LowerNext(st, i)
    OBVIOUS
  <2>3. n = [st EXCEPT !.code = st.code \o out.instrs, !.pins = st.pins \o out.pins, !.cmps = Recorded(st.cmps, i)]
    BY <1>2, <2>1, <2>2 DEF LowerNext
  <2>4. st.pins \o out.pins \in Seq(PinRegs)
    BY <1>0, <2>1, ConcatProperties DEF IsLowering
  <2>5. \A v \in DOMAIN Recorded(st.cmps, i) : Recorded(st.cmps, i)[v] \in Comparisons
    BY <1>0 DEF IsLowering, Recorded
  <2>6. n.code = st.code \o out.instrs /\ IsLowering(n) /\ n.failed = st.failed
    <3> HIDE <2>2
    <3>1. PICK ps, cs, co : ps = st.pins \o out.pins /\ cs = Recorded(st.cmps, i) /\ co = st.code \o out.instrs
      OBVIOUS
    <3>2. n = [st EXCEPT !.code = co, !.pins = ps, !.cmps = cs]
      BY ONLY <2>3, <3>1
    <3>3. DOMAIN st = {"code", "pins", "cmps", "failed"} /\ st.failed \in BOOLEAN
      BY <1>0 DEF IsLowering
    <3>4. n.code = co /\ n.pins = ps /\ n.cmps = cs /\ n.failed = st.failed /\ DOMAIN n = DOMAIN st
      BY ONLY <3>2, <3>3
    <3>5. ps \in Seq(PinRegs) /\ \A v \in DOMAIN cs : cs[v] \in Comparisons
      BY ONLY <2>4, <2>5, <3>1
    <3>6. IsLowering(n)
      BY ONLY <3>3, <3>4, <3>5 DEF IsLowering
    <3> QED BY ONLY <3>1, <3>4, <3>6
  <2>7. Keeps(I, st.code)
    BY <1>0, <1>2
  <2>8. PICK co : co = st.code \o out.instrs /\ Ends(Append(I, i), co) /\ (i.op \notin Jumps => Keeps(Append(I, i), co))
    BY <2>1, <2>7, LowersAppended
  <2>9. Ended(Append(I, i), n) /\ (i.op \notin Jumps => Kept(Append(I, i), n))
    BY ONLY <2>6, <2>8 DEF Ended, Kept
  <2>10. ASSUME i.op = "COPY" PROVE Kept(I, n)
    <3>1. out.instrs = <<Ins("MOV", Lowered(i.res), Lowered(i.lhs))>>
      BY <2>1, <2>10 DEF LowerInstruction, Comparisons, Emit
    <3>2. i.res.kind = "REGISTER"
      BY <2>10 DEF IsInstruction, Comparisons, Terminators
    <3>3. AllQuiet(out.instrs)
      BY <3>1, <3>2, CopyQuiet
    <3>4. Keeps(I, st.code \o out.instrs)
      BY <2>7, <3>3, QuietAppended
    <3> QED BY ONLY <2>6, <3>4 DEF Kept
  <2> QED BY ONLY <2>2, <2>9, <2>10
<1> QED BY <1>1, <1>2

-----------------------------------------------------------------------------
(* The copies for the phis, and the whole block.                           *)
AllCopies(c) == IsSeq(c) /\ \A k \in DOMAIN c : c[k].op = "COPY" /\ IsInstruction(c[k])
NamesIn(f, c) == IsSeq(c) /\ \A k \in DOMAIN c : IsInstruction(c[k]) /\ NamesValues(f, c[k])

LEMMA FlattenFunction ==
  ASSUME NEW n \in Nat, NEW S, NEW c \in [1 .. n -> Seq(S)]
  PROVE  FlattenSeq(c) \in Seq(S)
<1>1. c \in Seq(Seq(S))
  BY FunctionIsSequence
<1> QED BY <1>1, FlattenType

LEMMA PhiCopiesNameValues ==
  ASSUME NEW b, IsLowerable(fct), b \in DOMAIN fct.blocks
  PROVE  /\ AllCopies(PhiCopies(b))
         /\ NamesIn(fct, PhiCopies(b))
<1>1. PICK f : f = fct
  OBVIOUS
<1>2. f.blocks \in Seq({f.blocks[s] : s \in DOMAIN f.blocks}) /\ \A s \in DOMAIN f.blocks : f.blocks[s].phis \in Seq(ToSet(f.blocks[s].phis))
  BY <1>1 DEF IsLowerable, IsFunction
<1>3. PICK n \in Nat : DOMAIN f.blocks = 1 .. n
  <2>1. DOMAIN f.blocks = 1 .. Len(f.blocks) /\ Len(f.blocks) \in Nat
    BY <1>2
  <2> QED BY <2>1
<1> DEFINE Copy(p) == Instr("COPY", REGISTER(p.res), p.inc[b], NONE)
<1> DEFINE Sound(p) == IsValue(f, REGISTER(p.res)) /\ IsValue(f, p.inc[b])
<1> DEFINE S == {Copy(p) : p \in {x \in UNION {ToSet(f.blocks[s].phis) : s \in DOMAIN f.blocks} : Sound(x)}}
<1>4. \A x \in S : x.op = "COPY" /\ IsInstruction(x) /\ NamesValues(f, x)
  <2> SUFFICES ASSUME NEW p, Sound(p) PROVE Copy(p).op = "COPY" /\ IsInstruction(Copy(p)) /\ NamesValues(f, Copy(p))
    OBVIOUS
  <2>1. /\ Copy(p).op = "COPY" /\ Copy(p).res.kind = "REGISTER"
        /\ DOMAIN Copy(p) = {"op", "res", "lhs", "rhs", "args"}
        /\ Copy(p).res = REGISTER(p.res) /\ Copy(p).lhs = p.inc[b] /\ Copy(p).rhs = NONE
        /\ DOMAIN Copy(p).args = {}
    BY DEF Instr, REGISTER
  <2> HIDE DEF Copy
  <2>2. IsValue(f, NONE)
    BY DEF IsValue, NONE
  <2> QED BY <2>1, <2>2 DEF IsInstruction, NamesValues
<1>5. ASSUME NEW s \in 1 .. n PROVE CopiesFor(f.blocks[s].phis, b) \in Seq(S)
  <2>1. PICK phis : phis = f.blocks[s].phis
    OBVIOUS
  <2>2. PICK m \in Nat : DOMAIN phis = 1 .. m /\ \A k \in 1 .. m : phis[k] \in ToSet(phis)
    <3>1. phis \in Seq(ToSet(phis))
      BY <1>2, <1>3, <2>1
    <3>2. DOMAIN phis = 1 .. Len(phis) /\ Len(phis) \in Nat /\ \A k \in 1 .. Len(phis) : phis[k] \in ToSet(phis)
      BY <3>1
    <3> QED BY <3>2
  <2>3. \A k \in 1 .. m : b \in DOMAIN phis[k].inc => Copy(phis[k]) \in S
    <3> TAKE k \in 1 .. m
    <3> HAVE b \in DOMAIN phis[k].inc
    <3>1. s \in DOMAIN f.blocks
      BY <1>3
    <3>2. Sound(phis[k])
      BY <1>1, <2>1, <2>2, <3>1 DEF IsLowerable
    <3> QED BY <2>1, <2>2, <3>1, <3>2
  <2>4. \A k \in 1 .. m : (IF b \in DOMAIN phis[k].inc THEN <<Copy(phis[k])>> ELSE << >>) \in Seq(S)
    <3> HIDE DEF S, Copy
    <3> QED BY <2>3
  <2>5. PICK c : c = [k \in 1 .. m |-> IF b \in DOMAIN phis[k].inc THEN <<Copy(phis[k])>> ELSE << >>]
    OBVIOUS
  <2>6. CopiesFor(phis, b) = FlattenSeq(c)
    BY <2>2, <2>5 DEF CopiesFor
  <2>7. c \in [1 .. m -> Seq(S)]
    <3> HIDE DEF S, Copy
    <3> QED BY <2>4, <2>5
  <2> HIDE DEF S, Copy
  <2> QED BY <2>1, <2>6, <2>7, FlattenFunction
<1>6. PICK c : c = [s \in 1 .. n |-> IF s \in f.blocks[b].succs THEN CopiesFor(f.blocks[s].phis, b) ELSE << >>]
  OBVIOUS
<1>7. c \in [1 .. n -> Seq(S)]
  <2> HIDE DEF S
  <2>1. << >> \in Seq(S)
    OBVIOUS
  <2> QED BY <1>5, <1>6, <2>1
<1>8. PhiCopies(b) = FlattenSeq(c)
  BY <1>1, <1>3, <1>6 DEF PhiCopies
<1> HIDE DEF S
<1>9. PhiCopies(b) \in Seq(S)
  BY <1>7, <1>8, FlattenFunction
<1>10. PICK p : p = PhiCopies(b)
  OBVIOUS
<1>11. IsSeq(p) /\ \A k \in DOMAIN p : p[k] \in S
  BY <1>9, <1>10, SeqIsSeq
<1>12. AllCopies(p) /\ NamesIn(f, p)
  BY <1>4, <1>11 DEF AllCopies, NamesIn
<1> QED BY <1>1, <1>10, <1>12

LEMMA CopiesLowered ==
  ASSUME NEW I, NEW st, Kept(I, st), NEW c, AllCopies(c)
  PROVE  Kept(I, LowerAll(st, c))
<1> DEFINE S == {x \in {c[k] : k \in DOMAIN c} : x.op = "COPY" /\ IsInstruction(x)}
<1>1. c \in Seq(S)
  BY DEF AllCopies, IsSeq
<1> DEFINE T == {d \in Seq(S) : Kept(I, LowerAll(st, d))}
<1>2. << >> \in T
  <2>1. << >> \in Seq(S)
    OBVIOUS
  <2> QED BY <2>1, LowerEmpty
<1>3. ASSUME NEW d \in Seq(S), NEW x \in S, d \in T PROVE Append(d, x) \in T
  <2>1. x.op = "COPY" /\ IsInstruction(x) /\ Kept(I, LowerAll(st, d))
    BY <1>3
  <2> HIDE DEF S
  <2>2. Append(d, x) \in Seq(S)
    OBVIOUS
  <2>3. LowerAll(st, Append(d, x)) = LowerNext(LowerAll(st, d), x)
    BY LowerAppend
  <2>4. Kept(I, LowerNext(LowerAll(st, d), x))
    BY <2>1, NextLowered
  <2> QED BY <2>2, <2>3, <2>4
<1> HIDE DEF S, T
<1>4. c \in T
  BY <1>1, <1>2, <1>3, SequencesFromEmpty
<1> QED BY <1>4 DEF T

(* One more instruction of the block, behind the copies if it ends it.     *)
LEMMA BlockGrows ==
  ASSUME NEW S, NEW J \in Seq(S), NEW i \in S, NEW copies \in Seq(S), AllCopies(copies), IsInstruction(i),
         NEW st, Kept(J, LowerAll(st, WithCopies(J, copies)))
  PROVE  /\ Ended(Append(J, i), LowerAll(st, WithCopies(Append(J, i), copies)))
         /\ i.op \notin Jumps => Kept(Append(J, i), LowerAll(st, WithCopies(Append(J, i), copies)))
<1>1. PICK w \in Seq(S) : w = WithCopies(J, copies)
  BY CopiesAppend
<1>2. PICK part : part = IF i.op \in Terminators THEN Append(copies, i) ELSE <<i>>
  OBVIOUS
<1>3. part \in Seq(S)
  BY <1>2, AppendFacts
<1>4. WithCopies(Append(J, i), copies) = w \o part
  BY <1>1, <1>2, CopiesAppend, ZenonT(60)
<1>5. PICK s1 : s1 = LowerAll(st, w)
  OBVIOUS
<1>6. LowerAll(st, w \o part) = LowerAll(s1, part)
  BY <1>3, <1>5, LowerConcat
<1>7. Kept(J, s1)
  BY <1>1, <1>5
<1>8. PICK s2 : Kept(J, s2) /\ LowerAll(s1, part) = LowerNext(s2, i)
  <2>1. CASE i.op \in Terminators
    <3>1. PICK s2 : s2 = LowerAll(s1, copies)
      OBVIOUS
    <3>2. Kept(J, s2)
      BY <1>7, <3>1, CopiesLowered
    <3>3. LowerAll(s1, Append(copies, i)) = LowerNext(s2, i)
      BY <3>1, LowerAppend
    <3> QED BY <1>2, <2>1, <3>2, <3>3
  <2>2. CASE i.op \notin Terminators
    <3>1. << >> \in Seq(S) /\ Append(<< >>, i) = <<i>>
      BY AppendFacts
    <3>2. PICK e \in Seq(S) : e = << >>
      BY <3>1
    <3>3. LowerAll(s1, Append(e, i)) = LowerNext(LowerAll(s1, e), i)
      BY LowerAppend
    <3>4. LowerAll(s1, e) = s1
      BY <3>2, LowerEmpty
    <3>5. part = Append(e, i)
      BY <1>2, <2>2, <3>1, <3>2
    <3> QED BY ONLY <1>7, <3>3, <3>4, <3>5
  <2> QED BY <2>1, <2>2
<1>9. /\ Ended(Append(J, i), LowerNext(s2, i))
      /\ i.op \notin Jumps => Kept(Append(J, i), LowerNext(s2, i))
  BY <1>8, NextLowered
<1> QED BY ONLY <1>4, <1>6, <1>8, <1>9

LEMMA KeptEnds == ASSUME NEW I, NEW st, Kept(I, st) PROVE Ended(I, st)
BY DEF Kept, Ended, Keeps, Ends

LEMMA BlockLowered ==
  ASSUME NEW J, IsSeq(J),
         \A k \in DOMAIN J : IsInstruction(J[k]) /\ (J[k].op \in Jumps => k = Len(J)),
         NEW copies, AllCopies(copies), NEW st, Kept(<< >>, st)
  PROVE  Ended(J, LowerAll(st, WithCopies(J, copies)))
<1>1. PICK S : J \in Seq(S) /\ copies \in Seq(S)
  BY TwoInOneSet DEF AllCopies
<1> DEFINE Fine(d) == \A k \in 1 .. Len(d) : IsInstruction(d[k]) /\ (d[k].op \in Jumps => k = Len(d))
<1> DEFINE Falls(d) == \A k \in 1 .. Len(d) : d[k].op \notin Jumps
<1> DEFINE T == {d \in Seq(S) : Fine(d) => /\ Ended(d, LowerAll(st, WithCopies(d, copies)))
                                           /\ Falls(d) => Kept(d, LowerAll(st, WithCopies(d, copies)))}
<1>2. << >> \in T
  <2>1. [k \in DOMAIN << >> |-> IF << >>[k].op \in Terminators THEN Append(copies, << >>[k]) ELSE << << >>[k] >>] = << >>
    OBVIOUS
  <2>2. WithCopies(<< >>, copies) = << >>
    BY <2>1, FlattenEmpty DEF WithCopies
  <2>3. Kept(<< >>, LowerAll(st, WithCopies(<< >>, copies)))
    BY <2>2, LowerEmpty
  <2>4. << >> \in Seq(S)
    OBVIOUS
  <2> QED BY <2>3, <2>4, KeptEnds
<1>3. ASSUME NEW d \in Seq(S), NEW x \in S, d \in T PROVE Append(d, x) \in T
  <2>1. PICK a \in Seq(S) : a = Append(d, x)
    BY AppendFacts
  <2>2. PICK n \in Nat : n = Len(d) /\ Len(a) = n + 1 /\ a[n + 1] = x /\ \A k \in 1 .. n : a[k] = d[k]
    BY <2>1
  <2> SUFFICES ASSUME Fine(a)
               PROVE  /\ Ended(a, LowerAll(st, WithCopies(a, copies)))
                      /\ Falls(a) => Kept(a, LowerAll(st, WithCopies(a, copies)))
    BY <2>1
  <2>3. \A k \in 1 .. n : k \in 1 .. n + 1 /\ k # n + 1 /\ n + 1 \in 1 .. n + 1
    OBVIOUS
  <2>4. Fine(d) /\ Falls(d)
    BY <2>2, <2>3
  <2>5. IsInstruction(x)
    <3>1. n + 1 \in 1 .. n + 1
      OBVIOUS
    <3> QED BY <2>2, <3>1
  <2>6. Falls(a) => x.op \notin Jumps
    <3>1. n + 1 \in 1 .. n + 1
      OBVIOUS
    <3> QED BY <2>2, <3>1
  <2>7. Kept(d, LowerAll(st, WithCopies(d, copies)))
    <3> HIDE DEF Fine, Falls
    <3> QED BY <1>3, <2>4
  <2> HIDE DEF Fine, Falls, T
  <2>8. /\ Ended(Append(d, x), LowerAll(st, WithCopies(Append(d, x), copies)))
        /\ x.op \notin Jumps => Kept(Append(d, x), LowerAll(st, WithCopies(Append(d, x), copies)))
    BY <1>1, <2>5, <2>7, BlockGrows
  <2> QED BY ONLY <2>1, <2>6, <2>8
<1>4. Fine(J)
  BY <1>1
<1> HIDE DEF T
<1>5. J \in T
  BY <1>1, <1>2, <1>3, SequencesFromEmpty
<1> HIDE DEF Fine, Falls
<1> QED BY <1>4, <1>5 DEF T
-----------------------------------------------------------------------------
(***************************************************************************)
(* The lowering of a module.  Converted: a function is done.  InHand: the  *)
(* blocks of a function up to p of the order o are lowered, each to code   *)
(* that keeps the discipline whatever state it is run in; before the entry *)
(* block is lowered, its code is the moves of the parameters.              *)
(***************************************************************************)
Converted(f, l) ==
  /\ IsOrder(f.blocks, l.order)
  /\ \A x \in DOMAIN l.body.domain : l.body.domain[x] \subseteq GeneralRegs
  /\ Homes(l.body)
  /\ \A j \in 1 .. Len(l.order) : Ends(f.blocks[l.order[j]].instrs, l.body.blocks[j].instrs)

InHand(f, o, p, c) ==
  /\ IsOrder(f.blocks, o)
  /\ p \in 0 .. Len(o)
  /\ DOMAIN c = ToSet(o)
  /\ \A k \in 1 .. p : Ends(f.blocks[o[k]].instrs, c[o[k]])
  /\ \A k \in p + 1 .. Len(o) : Keeps(<< >>, c[o[k]])

LoweringInv ==
  /\ mod \in Modules
  /\ IsSeq(lowered) /\ Len(lowered) <= Len(mod)
  /\ \A k \in 1 .. Len(lowered) : Converted(mod[k], lowered[k])
  /\ pins \in Seq(PinRegs)
  /\ \A v \in DOMAIN m_cmps : m_cmps[v] \in Comparisons
  /\ stage = "blocks" => Len(lowered) < Len(mod) /\ InHand(mod[Len(lowered) + 1], order, place, code)
  /\ stage = "done" => Len(lowered) = Len(mod)

LEMMA ModuleFacts ==
  ASSUME LoweringInv
  PROVE  /\ Len(mod) \in Nat /\ DOMAIN mod = 1 .. Len(mod) /\ Len(lowered) \in Nat
         /\ DOMAIN lowered = 1 .. Len(lowered)
         /\ \A k \in 1 .. Len(mod) : IsLowerable(mod[k])
<1>1. mod \in Seq(ToSet(mod)) /\ \A k \in DOMAIN mod : IsLowerable(mod[k])
  BY ModulesAssumption DEF LoweringInv
<1>2. Len(mod) \in Nat /\ DOMAIN mod = 1 .. Len(mod)
  BY <1>1
<1>3. Len(lowered) \in Nat /\ DOMAIN lowered = 1 .. Len(lowered)
  BY DEF LoweringInv, IsSeq
<1> QED BY <1>1, <1>2, <1>3

LEMMA LowerableFacts ==
  ASSUME NEW f, IsLowerable(f)
  PROVE  /\ IsGraph(f.blocks) /\ 1 \in DOMAIN f.blocks
         /\ Len(f.args) \in Nat /\ DOMAIN f.args = 1 .. Len(f.args)
         /\ f.values \in Nat
         /\ \A b \in DOMAIN f.blocks :
              LET J == f.blocks[b].instrs
              IN  /\ IsSeq(J)
                  /\ \A k \in DOMAIN J : IsInstruction(J[k]) /\ (J[k].op \in Jumps => k = Len(J))
<1>1. Len(f.blocks) \in Nat /\ DOMAIN f.blocks = 1 .. Len(f.blocks) /\ 1 \in DOMAIN f.blocks
  <2>1. PICK S : f.blocks \in Seq(S)
    BY DEF IsLowerable, IsFunction
  <2>2. f.blocks # << >>
    BY DEF IsLowerable
  <2>3. Len(f.blocks) \in Nat /\ DOMAIN f.blocks = 1 .. Len(f.blocks) /\ Len(f.blocks) # 0
    BY <2>1, <2>2, EmptySeq
  <2> QED BY <2>3
<1>2. IsGraph(f.blocks)
  <2>1. IsFiniteSet(DOMAIN f.blocks) /\ DOMAIN f.blocks \subseteq Nat
    BY <1>1, FS_Interval
  <2>2. \A b \in DOMAIN f.blocks : f.blocks[b].succs \subseteq DOMAIN f.blocks
    BY DEF IsLowerable, IsCFG
  <2> QED BY <2>1, <2>2 DEF IsGraph
<1>3. Len(f.args) \in Nat /\ DOMAIN f.args = 1 .. Len(f.args)
  <2>1. f.args \in Seq(1 .. f.values)
    BY DEF IsLowerable
  <2>2. PICK S : f.args \in Seq(S)
    BY <2>1
  <2> QED BY <2>2
<1>4. ASSUME NEW b \in DOMAIN f.blocks
      PROVE  LET J == f.blocks[b].instrs
             IN  /\ IsSeq(J)
                 /\ \A k \in DOMAIN J : IsInstruction(J[k]) /\ (J[k].op \in Jumps => k = Len(J))
  BY DEF IsLowerable, IsBlock, IsSeq
<1>5. f.values \in Nat
  BY DEF IsLowerable
<1> QED BY <1>1, <1>2, <1>3, <1>4, <1>5

LEMMA ParametersMoved ==
  ASSUME IsLowerable(fct)
  PROVE  Keeps(<< >>, ParameterMoves)
<1>1. PICK n \in Nat : DOMAIN fct.args = 1 .. n
  BY LowerableFacts
<1>2. PICK c : c = ParameterMoves
  OBVIOUS
<1>3. c = [k \in 1 .. n |-> c[k]] /\ \A k \in 1 .. n : c[k].op = "MOV" /\ c[k].dst.kind \in {"VREG", "MEM"}
  <2>1. c = [k \in 1 .. n |-> Ins("MOV", VREG(fct.args[k]),
                                 IF k <= Len(IntArgRegs) THEN Pin(<< >>, k) ELSE ParameterPlace(k))]
    BY <1>1, <1>2 DEF ParameterMoves
  <2>2. \A k \in 1 .. n : c[k] = Ins("MOV", VREG(fct.args[k]),
                                     IF k <= Len(IntArgRegs) THEN Pin(<< >>, k) ELSE ParameterPlace(k))
    BY <2>1
  <2>3. \A x, y : Ins("MOV", VREG(x), y).op = "MOV" /\ Ins("MOV", VREG(x), y).dst.kind = "VREG"
    BY DEF Ins, VREG
  <2>4. c = [k \in 1 .. n |-> c[k]]
    BY <2>1
  <2> QED BY <2>2, <2>3, <2>4
<1>4. AllQuiet(c)
  BY <1>3, MovesQuiet
<1>5. Keeps(<< >>, << >> \o c)
  BY <1>4, KeepsNothing, QuietAppended
<1>6. << >> \o c = c
  <2>1. PICK S : c \in Seq(S)
    BY <1>4 DEF AllQuiet, IsSeq
  <2> QED BY <2>1, ConcatEmptySeq
<1> QED BY ONLY <1>2, <1>5, <1>6

LEMMA FunctionStarted ==
  ASSUME LoweringInv, StartFunction
  PROVE  LoweringInv'
<1>1. PICK f : f = fct
  OBVIOUS
<1>2. Len(lowered) < Len(mod) /\ f = mod[Len(lowered) + 1] /\ IsLowerable(f)
  <2>1. Len(lowered) + 1 \in 1 .. Len(mod) /\ f = mod[Len(lowered) + 1]
    BY <1>1, ModuleFacts DEF StartFunction, fct
  <2> QED BY <2>1, ModuleFacts DEF StartFunction
<1>3. IsOrder(f.blocks, order')
  BY <1>1, <1>2, LowerableFacts, LoweringOrderWalks DEF StartFunction
<1>4. PICK c : c = ParameterMoves
  OBVIOUS
<1>5. code' = [b \in ToSet(order') |-> IF b = 1 THEN c ELSE << >>] /\ place' = 0
  BY <1>4 DEF StartFunction
<1>6. Keeps(<< >>, c) /\ Keeps(<< >>, << >>)
  BY <1>1, <1>2, <1>4, ParametersMoved, KeepsNothing
<1>7. InHand(f, order', 0, code')
  <2>1. PICK o, d : o = order' /\ d = code'
    OBVIOUS
  <2>2. Len(o) \in Nat /\ \A k \in 1 .. Len(o) : o[k] \in ToSet(o)
    BY <1>3, <2>1, ElementsOf DEF IsOrder
  <2>3. \A k \in 1 .. Len(o) : Keeps(<< >>, d[o[k]])
    BY <1>5, <1>6, <2>1, <2>2
  <2>4. DOMAIN d = ToSet(o)
    BY <1>5, <2>1
  <2>5. 0 \in 0 .. Len(o) /\ (\A k \in 1 .. 0 : FALSE) /\ 0 + 1 = 1
    BY <2>2
  <2>6. IsOrder(f.blocks, o)
    BY <1>3, <2>1
  <2>7. InHand(f, o, 0, d)
    BY ONLY <2>3, <2>4, <2>5, <2>6 DEF InHand
  <2> QED BY ONLY <2>1, <2>7
<1>8. pins' \in Seq(PinRegs)
  BY <1>1, <1>2, LowerableFacts, ArgumentPins DEF StartFunction
<1>9. UNCHANGED <<mod, lowered, m_cmps>> /\ stage' = "blocks"
  BY DEF StartFunction
<1>10. InHand(mod[Len(lowered) + 1], order', place', code')
  BY <1>2, <1>5, <1>7
<1> QED BY ONLY LoweringInv, <1>2, <1>8, <1>9, <1>10 DEF LoweringInv

LEMMA BlockIsLowered ==
  ASSUME LoweringInv, LowerBlock
  PROVE  LoweringInv'
<1>1. PICK f : f = fct
  OBVIOUS
<1>2. f = mod[Len(lowered) + 1] /\ IsLowerable(f) /\ InHand(f, order, place, code) /\ Len(lowered) < Len(mod)
  <2>1. Len(lowered) < Len(mod) /\ f = mod[Len(lowered) + 1]
    BY <1>1 DEF LowerBlock, LoweringInv, fct
  <2>2. Len(lowered) + 1 \in 1 .. Len(mod)
    BY <2>1, ModuleFacts
  <2>3. IsLowerable(f)
    BY <2>1, <2>2, ModuleFacts
  <2> QED BY <2>1, <2>3 DEF LowerBlock, LoweringInv
<1>3. PICK n \in Nat : n = Len(order) /\ place \in 0 .. n /\ place < n
  BY <1>2 DEF InHand, IsOrder, LowerBlock
<1>4. PICK b : b = order[place + 1]
  OBVIOUS
<1>5. b \in DOMAIN f.blocks /\ b \in ToSet(order) /\ order \in Seq(DOMAIN f.blocks)
  <2>1. place + 1 \in 1 .. Len(order) /\ order \in Seq(DOMAIN f.blocks)
    BY <1>2, <1>3 DEF InHand, IsOrder
  <2> QED BY <1>4, <2>1, ElementsOf
<1>6. PICK start : start = [code |-> code[b], pins |-> pins, cmps |-> m_cmps, failed |-> FALSE]
  OBVIOUS
<1>7. Kept(<< >>, start)
  <2>1. Keeps(<< >>, code[b])
    <3>1. place + 1 \in place + 1 .. n
      BY <1>3
    <3> QED BY <1>2, <1>3, <1>4, <3>1 DEF InHand
  <2>2. DOMAIN start = {"code", "pins", "cmps", "failed"}
    BY <1>6
  <2>3. start.code = code[b] /\ start.pins = pins /\ start.cmps = m_cmps /\ start.failed = FALSE
    BY <1>6
  <2>4. IsLowering(start)
    BY <2>2, <2>3 DEF IsLowering, LoweringInv
  <2> QED BY <2>1, <2>3, <2>4 DEF Kept
<1>8. PICK end : /\ end = LowerAll(start, WithPhiCopies(b))
                 /\ code' = [code EXCEPT ![b] = end.code]
                 /\ pins' = end.pins /\ m_cmps' = end.cmps
                 /\ stage' = IF end.failed THEN "rejected" ELSE stage
  BY <1>4, <1>6 DEF LowerBlock
<1>9. Ended(f.blocks[b].instrs, end)
  <2>1. AllCopies(PhiCopies(b))
    BY <1>1, <1>2, <1>5, PhiCopiesNameValues
  <2>2. PICK J, copies : J = f.blocks[b].instrs /\ copies = PhiCopies(b)
    OBVIOUS
  <2>3. IsSeq(J) /\ \A k \in DOMAIN J : IsInstruction(J[k]) /\ (J[k].op \in Jumps => k = Len(J))
    BY <1>2, <1>5, <2>2, LowerableFacts
  <2>4. Ended(J, LowerAll(start, WithCopies(J, copies)))
    BY <1>7, <2>1, <2>2, <2>3, BlockLowered
  <2>5. WithPhiCopies(b) = WithCopies(J, copies)
    BY <1>1, <2>2 DEF WithPhiCopies
  <2> QED BY ONLY <1>8, <2>2, <2>4, <2>5
<1>10. ASSUME ~end.failed PROVE InHand(f, order, place + 1, code')
  <2>1. PICK c, d : c = code /\ d = code'
    OBVIOUS
  <2>2. PICK p \in Nat : p = place
    BY <1>3
  <2>3. d = [c EXCEPT ![b] = end.code] /\ DOMAIN c = ToSet(order) /\ DOMAIN d = ToSet(order)
    BY <1>2, <1>8, <2>1 DEF InHand
  <2>4. Ends(f.blocks[b].instrs, d[b])
    BY <1>5, <1>9, <1>10, <2>3 DEF Ended
  <2>5. \A k \in 1 .. n : k # p + 1 => order[k] # b /\ d[order[k]] = c[order[k]]
    <3>1. \A j, k \in 1 .. n : order[j] = order[k] => j = k
      BY <1>2, <1>3 DEF InHand, IsOrder, Distinct
    <3>2. p + 1 \in 1 .. n
      BY <1>3, <2>2
    <3>3. \A k \in 1 .. n : order[k] \in ToSet(order)
      BY <1>3, <1>5, ElementsOf
    <3> QED BY <1>4, <2>2, <2>3, <3>1, <3>2, <3>3
  <2>6. \A k \in 1 .. p + 1 : Ends(f.blocks[order[k]].instrs, d[order[k]])
    <3> TAKE k \in 1 .. p + 1
    <3>1. CASE k = p + 1
      BY <1>4, <2>2, <2>4, <3>1
    <3>2. CASE k # p + 1
      <4>1. k \in 1 .. p /\ k \in 1 .. n
        BY <1>3, <2>2, <3>2
      <4>2. Ends(f.blocks[order[k]].instrs, c[order[k]])
        BY <1>2, <2>1, <2>2, <4>1 DEF InHand
      <4> QED BY <2>5, <3>2, <4>1, <4>2
    <3> QED BY <3>1, <3>2
  <2>7. \A k \in (p + 1) + 1 .. n : Keeps(<< >>, d[order[k]])
    <3> TAKE k \in (p + 1) + 1 .. n
    <3>1. k \in p + 1 .. n /\ k \in 1 .. n /\ k # p + 1
      OBVIOUS
    <3>2. Keeps(<< >>, c[order[k]])
      BY <1>2, <1>3, <2>1, <2>2, <3>1 DEF InHand
    <3> QED BY <2>5, <3>1, <3>2
  <2>8. IsOrder(f.blocks, order) /\ p + 1 \in 0 .. n
    BY <1>2, <1>3, <2>2 DEF InHand
  <2> QED BY ONLY <1>3, <2>1, <2>2, <2>3, <2>6, <2>7, <2>8 DEF InHand
<1>11. UNCHANGED <<mod, lowered, order>> /\ place' = place + 1 /\ stage = "blocks"
  BY DEF LowerBlock
<1>12. IsLowering(end)
  BY <1>9 DEF Ended
<1>13. pins' \in Seq(PinRegs) /\ \A v \in DOMAIN m_cmps' : m_cmps'[v] \in Comparisons
  BY <1>8, <1>12 DEF IsLowering
<1>14. stage' = "blocks" => InHand(f, order, place + 1, code')
  BY <1>8, <1>10
<1>15. stage' # "done"
  BY <1>8, <1>11
<1> QED BY ONLY LoweringInv, <1>2, <1>11, <1>13, <1>14, <1>15 DEF LoweringInv

LEMMA PinsAreGeneral == PinRegs \subseteq GeneralRegs
BY GeneralAssumption DEF PinRegs, CallerSavedRegs

LEMMA FunctionConverted ==
  ASSUME LoweringInv, FinishFunction
  PROVE  Converted(fct, [body |-> MachineFunction, order |-> order])
<1>1. PICK f : f = fct
  OBVIOUS
<1>2. IsLowerable(f) /\ InHand(f, order, place, code)
  <2>1. Len(lowered) < Len(mod) /\ f = mod[Len(lowered) + 1] /\ InHand(f, order, place, code)
    BY <1>1 DEF FinishFunction, LoweringInv, fct
  <2>2. Len(lowered) + 1 \in 1 .. Len(mod)
    BY <2>1, ModuleFacts
  <2> QED BY <2>1, <2>2, ModuleFacts
<1>3. PICK v \in Nat, n \in Nat, t \in Nat : v = f.values /\ n = Len(order) /\ t = Len(pins)
  BY <1>2, LowerableFacts DEF InHand, IsOrder, LoweringInv
<1>4. DOMAIN order = 1 .. n /\ place = n
  BY <1>2, <1>3 DEF InHand, IsOrder, FinishFunction
<1>5. \A k \in 1 .. t : pins[k] \in GeneralRegs
  BY <1>3, PinsAreGeneral DEF LoweringInv
<1>6. PICK body : body = MachineFunction
  OBVIOUS
<1>7. /\ \A k \in 1 .. n : body.blocks[k].instrs = code[order[k]]
      /\ body.domain = [x \in 1 .. v + t |-> IF x <= v THEN GeneralRegs ELSE {pins[x - v]}]
      /\ body.fixed = v + 1 .. v + t
  <2>1. PICK bs, ds, xs :
          /\ bs = [k \in DOMAIN order |->
                     [instrs |-> code[order[k]],
                      succs |-> {PlaceOf(b) : b \in {c \in ToSet(order) : order[k] \in fct.blocks[c].preds}}]]
          /\ ds = [x \in 1 .. fct.values + Len(pins) |->
                     IF x <= fct.values THEN GeneralRegs ELSE {pins[x - fct.values]}]
          /\ xs = fct.values + 1 .. fct.values + Len(pins)
    OBVIOUS
  <2>2. body = [blocks |-> bs, domain |-> ds, fixed |-> xs]
    BY ONLY <1>6, <2>1 DEF MachineFunction
  <2>3. body.blocks = bs /\ body.domain = ds /\ body.fixed = xs
    BY ONLY <2>2
  <2>4. \A k \in 1 .. n : bs[k].instrs = code[order[k]]
    BY ONLY <1>4, <2>1
  <2> QED BY ONLY <1>1, <1>3, <2>1, <2>3, <2>4
<1>8. \A x \in DOMAIN body.domain : body.domain[x] \subseteq GeneralRegs
  <2> SUFFICES ASSUME NEW x \in 1 .. v + t
               PROVE  body.domain[x] \subseteq GeneralRegs
    BY <1>7
  <2>1. CASE x <= v
    BY <1>7, <2>1
  <2>2. CASE ~(x <= v)
    <3>1. x - v \in 1 .. t
      BY <2>2
    <3> QED BY <1>5, <1>7, <2>2, <3>1
  <2> QED BY <2>1, <2>2
<1>9. Homes(body)
  <2> SUFFICES ASSUME NEW x \in v + 1 .. v + t
               PROVE  HomeOf(body, x) \notin {RSP, RBP}
    BY <1>7 DEF Homes
  <2>1. x - v \in 1 .. t /\ ~(x <= v) /\ x \in 1 .. v + t
    OBVIOUS
  <2>2. body.domain[x] = {pins[x - v]}
    BY <1>7, <2>1
  <2>3. HomeOf(body, x) = pins[x - v]
    BY <2>2 DEF HomeOf
  <2> QED BY <1>5, <2>1, <2>3, PointersKept
<1>10. \A j \in 1 .. n : Ends(f.blocks[order[j]].instrs, body.blocks[j].instrs)
  BY <1>2, <1>4, <1>7 DEF InHand
<1>11. PICK l : l = [body |-> body, order |-> order]
  OBVIOUS
<1>12. l.body = body /\ l.order = order
  BY ONLY <1>11
<1>13. Converted(f, l)
  BY ONLY <1>2, <1>3, <1>8, <1>9, <1>10, <1>12 DEF Converted, InHand
<1> QED BY ONLY <1>1, <1>6, <1>11, <1>13

LEMMA FunctionFinished ==
  ASSUME LoweringInv, FinishFunction
  PROVE  LoweringInv'
<1>1. PICK l : l = [body |-> MachineFunction, order |-> order]
  OBVIOUS
<1>2. Converted(fct, l)
  BY <1>1, FunctionConverted
<1>3. lowered' = Append(lowered, l) /\ UNCHANGED <<mod, pins, m_cmps>> /\ stage' = "function"
  BY <1>1 DEF FinishFunction
<1>4. PICK n \in Nat : n = Len(lowered) /\ n < Len(mod) /\ Len(mod) \in Nat /\ fct = mod[n + 1]
  BY ModuleFacts DEF LoweringInv, FinishFunction, fct
<1>5. PICK S : lowered \in Seq(S)
  BY DEF LoweringInv, IsSeq
<1>6. PICK a : a = Append(lowered, l)
  OBVIOUS
<1>7. IsSeq(a) /\ Len(a) = n + 1 /\ a[n + 1] = l /\ \A k \in 1 .. n : a[k] = lowered[k]
  <2>1. IsSeq(lowered)
    BY DEF LoweringInv
  <2>2. IsSeq(a)
    BY ONLY <1>6, <2>1, IsSeqParts
  <2>3. Len(a) = n + 1 /\ a[n + 1] = l /\ \A k \in 1 .. n : a[k] = lowered[k]
    BY ONLY <1>4, <1>5, <1>6
  <2> QED BY <2>2, <2>3
<1>8. \A k \in 1 .. n + 1 : Converted(mod[k], a[k])
  <2> TAKE k \in 1 .. n + 1
  <2>1. k = n + 1 \/ k \in 1 .. n
    OBVIOUS
  <2> QED BY <1>2, <1>4, <1>7, <2>1 DEF LoweringInv
<1>9. n + 1 <= Len(mod)
  BY <1>4
<1> QED BY ONLY LoweringInv, <1>3, <1>6, <1>7, <1>8, <1>9 DEF LoweringInv

LEMMA LoweringKept ==
  ASSUME LoweringInv, LowerModule \/ UNCHANGED vars
  PROVE  LoweringInv'
<1>1. CASE StartFunction
  BY <1>1, FunctionStarted
<1>2. CASE LowerBlock
  BY <1>2, BlockIsLowered
<1>3. CASE FinishFunction
  BY <1>3, FunctionFinished
<1>4. CASE Finish
  BY <1>4 DEF Finish, LoweringInv
<1>5. CASE UNCHANGED vars
  BY <1>5 DEF vars, LoweringInv
<1> QED BY <1>1, <1>2, <1>3, <1>4, <1>5 DEF LowerModule
-----------------------------------------------------------------------------
(* The run of a function: the IR and the machine side by side.             *)
RunInv ==
  /\ running = 0 => at = 0 /\ ran = 0
  /\ running # 0 => /\ stage = "done" /\ running \in 1 .. Len(lowered)
                    /\ at \in ToSet(lowered[running].order) \cup {0}
                    /\ Sim(ir, machine)

LEMMA PrologueRuns ==
  ASSUME NEW f, NEW vregs, NEW m, m = EntryState(vregs, GeneralRegs \cup ReservedRegs)
  PROVE  LET n == Run(f, m, BarePrologue)
         IN  /\ IsState(n) /\ n.aligned = TRUE /\ n.calls = 0 /\ ~n.returned /\ Framed(n)
<1>1. PICK x, y : BarePrologue = <<x, y>> /\ x = Ins("PUSH", MNONE, PREG(RBP)) /\ y = Ins("MOV", PREG(RBP), PREG(RSP))
  BY DEF BarePrologue
<1>2. PICK p, n : p = Execute(f, m, x) /\ n = Execute(f, p, y)
  OBVIOUS
<1>3. Run(f, m, BarePrologue) = n
  BY <1>1, <1>2, RunTwo
<1>4. /\ DOMAIN m = {"v", "r", "mem", "flags", "calls", "seen", "aligned", "returned", "goal", "left"}
      /\ m.calls = 0 /\ m.aligned = TRUE /\ m.returned = FALSE /\ m.left = FALSE
      /\ m.r = [r \in GeneralRegs \cup ReservedRegs |-> IF r = RSP THEN <<"addr", 0>> ELSE <<"init", r>>]
  BY DEF EntryState
<1>5. {RSP, RBP} \subseteq DOMAIN m.r /\ m.r[RSP] = <<"addr", 0>> /\ m.r[RSP][2] - 8 = -8
  <2>1. RSP \in GeneralRegs \cup ReservedRegs /\ RBP \in GeneralRegs \cup ReservedRegs
    BY GeneralAssumption
  <2>2. m.r[RSP] = <<"addr", 0>>
    BY <1>4, <2>1
  <2>3. 0 - 8 = -8
    OBVIOUS
  <2> QED BY <1>4, <2>1, <2>2, <2>3
<1>6. PICK w : p = [[m EXCEPT !.mem = w] EXCEPT !.r[RSP] = <<"addr", -8>>]
  <2>1. p = [Store(m, -8, Read(f, m, x.src)) EXCEPT !.r[RSP] = <<"addr", -8>>]
    <3>1. x.op = "PUSH"
      BY <1>1 DEF Ins
    <3>2. ~(m.returned \/ m.left)
      BY <1>4
    <3> QED BY <1>2, <1>5, <3>1, <3>2 DEF Execute, ConditionalJumps
  <2>2. PICK z, w, s : z = Read(f, m, x.src) /\ w = [b \in DOMAIN m.mem \cup {-8} |-> IF b = -8 THEN z ELSE m.mem[b]] /\ s = Store(m, -8, z)
    OBVIOUS
  <2>3. s = [m EXCEPT !.mem = w]
    BY <2>2 DEF Store
  <2>4. p = [s EXCEPT !.r[RSP] = <<"addr", -8>>]
    BY <2>1, <2>2
  <2> QED BY <2>3, <2>4
<1>7. IsState(p) /\ p.aligned = TRUE /\ p.calls = 0 /\ p.returned = FALSE /\ p.left = FALSE /\ p.r[RSP] = <<"addr", -8>>
  BY <1>4, <1>5, <1>6 DEF IsState
<1>8. n = [p EXCEPT !.r[RBP] = p.r[RSP]]
  <2>1. y.op = "MOV" /\ y.dst = PREG(RBP) /\ y.src = PREG(RSP)
    BY <1>1 DEF Ins
  <2>2. n = Write(f, p, PREG(RBP), Read(f, p, PREG(RSP)))
    BY <1>2, <1>7, <2>1 DEF Execute, ConditionalJumps
  <2>3. Read(f, p, PREG(RSP)) = p.r[RSP]
    BY DEF Read, PREG
  <2>4. \A z : Write(f, p, PREG(RBP), z) = [p EXCEPT !.r[RBP] = z]
    BY DEF Write, PREG
  <2> QED BY <2>2, <2>3, <2>4
<1>9. IsState(n) /\ n.aligned = TRUE /\ n.calls = 0 /\ ~n.returned /\ Framed(n)
  BY <1>7, <1>8, PointersKept DEF IsState, Framed
<1> QED BY <1>3, <1>9

LEMMA Entered ==
  ASSUME LoweringInv, RunInv, Enter
  PROVE  RunInv'
<1>1. PICK k \in DOMAIN mod :
        /\ running' = k
        /\ ir' = IREntry(mod[k], [p \in 1 .. Len(mod[k].args) |-> Parameter(p)])
        /\ machine' = Run(lowered[k].body, EntryState(DOMAIN lowered[k].body.domain, GeneralRegs \cup ReservedRegs),
                          BarePrologue)
  BY DEF Enter
<1>2. at' = 1 /\ stage' = stage /\ lowered' = lowered /\ stage = "done"
  BY DEF Enter, vars
<1>3. k \in 1 .. Len(lowered) /\ k # 0
  BY <1>2, ModuleFacts DEF LoweringInv
<1>4. 1 \in ToSet(lowered[k].order)
  BY <1>3 DEF LoweringInv, Converted, IsOrder
<1>5. PICK q, n : q = ir' /\ n = machine'
  OBVIOUS
<1>6. IsIRState(q) /\ q.calls = 0 /\ q.returned = FALSE
  <2>1. \E e : q = [env |-> e, calls |-> 0, seen |-> << >>, returned |-> FALSE]
    BY <1>1, <1>5 DEF IREntry, IRStart
  <2> QED BY <2>1 DEF IsIRState
<1>7. IsState(n) /\ n.aligned = TRUE /\ n.calls = 0 /\ ~n.returned /\ Framed(n)
  BY <1>1, <1>5, PrologueRuns
<1>8. n.returned = FALSE
  BY <1>7 DEF IsState
<1>9. Sim(q, n)
  BY <1>6, <1>7, <1>8 DEF Sim
<1> QED BY ONLY <1>1, <1>2, <1>3, <1>4, <1>5, <1>9 DEF RunInv

LEMMA BlockRun ==
  ASSUME LoweringInv, RunInv, RunBlock
  PROVE  RunInv'
<1>1. running # 0 /\ at # 0 /\ UNCHANGED <<vars, running>>
  BY DEF RunInv, RunBlock
<1>2. PICK f, l : f = mod[running] /\ l = lowered[running]
  OBVIOUS
<1>3. Converted(f, l) /\ at \in ToSet(l.order) /\ Sim(ir, machine) /\ stage = "done" /\ running \in 1 .. Len(lowered)
  BY <1>1, <1>2 DEF LoweringInv, RunInv
<1>4. PICK goal : /\ goal \in f.blocks[at].succs \cup {0} /\ at' = goal
                  /\ machine' = RunTo(goal, l.body, machine, WithEpilogue(l.body.blocks[Place(at)].instrs, BareEpilogue))
  BY <1>2 DEF RunBlock
<1>5. PICK j : j = Place(at)
  OBVIOUS
<1>6. j \in 1 .. Len(l.order) /\ l.order[j] = at
  <2>1. \E k \in DOMAIN l.order : l.order[k] = at
    BY <1>3, ElementsOf DEF Converted, IsOrder
  <2>2. j \in DOMAIN l.order /\ l.order[j] = at
    BY <1>2, <1>5, <2>1 DEF Place
  <2> QED BY <1>3, <2>2 DEF Converted, IsOrder
<1>7. PICK I, c : I = f.blocks[at].instrs /\ c = l.body.blocks[j].instrs
  OBVIOUS
<1>8. Ends(I, c) /\ Homes(l.body)
  BY <1>3, <1>6, <1>7 DEF Converted
<1>9. PICK q : q = EnterBlock(f, ir, from, at)
  OBVIOUS
<1>10. PICK m : m = [machine EXCEPT !.goal = goal, !.left = FALSE]
  OBVIOUS
<1>11. Sim(q, m) /\ ~m.left
  <2>1. \E e : q = [ir EXCEPT !.env = e]
    BY <1>9 DEF EnterBlock
  <2>2. IsIRState(q) /\ q.calls = ir.calls /\ q.returned = ir.returned
    BY <1>3, <2>1 DEF Sim, IsIRState
  <2>3. /\ IsState(m) /\ m.left = FALSE /\ m.aligned = machine.aligned /\ m.calls = machine.calls
        /\ m.returned = machine.returned /\ m.r = machine.r
    BY <1>3, <1>10 DEF Sim, IsState
  <2> QED BY <1>3, <2>2, <2>3 DEF Sim, Framed
<1>12. ir' = RunIR(q, I)
  BY <1>2, <1>7, <1>9 DEF RunBlock, RunIRBlock
<1>13. machine' = Exec(l.body, m, c)
  BY <1>4, <1>5, <1>7, <1>10 DEF RunTo, Exec, ExecWith
<1>14. Sim(RunIR(q, I), Exec(l.body, m, c))
  BY <1>8, <1>11 DEF Ends
<1>15. Sim(ir', machine')
  BY ONLY <1>12, <1>13, <1>14
<1>16. at' \in ToSet(l.order) \cup {0}
  BY <1>3, <1>4 DEF Converted, IsOrder
<1>17. running' = running /\ stage' = stage /\ lowered' = lowered
  BY <1>1 DEF vars
<1> QED BY ONLY <1>1, <1>2, <1>3, <1>15, <1>16, <1>17 DEF RunInv

-----------------------------------------------------------------------------
(* The inductive invariant: what is lowered keeps the discipline, and the  *)
(* function that is run has kept it so far.                                *)
LowerRunInv == LoweringInv /\ RunInv

LEMMA InitInv == LowerInit => LowerRunInv
<1> SUFFICES ASSUME LowerInit PROVE LowerRunInv
  OBVIOUS
<1>1. mod \in Modules /\ lowered = << >> /\ pins = << >> /\ m_cmps = << >> /\ stage = "function"
  BY DEF LowerInit, Init
<1>2. mod \in Seq(ToSet(mod))
  BY <1>1, ModulesAssumption
<1>3. Len(mod) \in Nat
  BY <1>2
<1>4. IsSeq(lowered) /\ Len(lowered) = 0 /\ pins \in Seq(PinRegs)
  BY <1>1, IsSeqParts
<1>5. 0 <= Len(mod) /\ (\A k \in 1 .. 0 : FALSE) /\ DOMAIN m_cmps = {}
  BY <1>1, <1>3
<1>6. LoweringInv
  BY <1>1, <1>4, <1>5 DEF LoweringInv
<1>7. RunInv
  BY DEF LowerInit, RunInv
<1> QED BY <1>6, <1>7 DEF LowerRunInv

LEMMA NextInv == LowerRunInv /\ [Next]_<<vars, rvars>> => LowerRunInv'
<1> SUFFICES ASSUME LowerRunInv, [Next]_<<vars, rvars>> PROVE LowerRunInv'
  OBVIOUS
<1>1. LoweringInv /\ RunInv
  BY DEF LowerRunInv
<1>2. CASE Compile
  <2>1. LoweringInv'
    BY <1>1, <1>2, LoweringKept DEF Compile
  <2>2. UNCHANGED rvars /\ stage # "done"
    BY <1>2 DEF Compile, LowerModule, StartFunction, LowerBlock, FinishFunction, Finish
  <2>3. RunInv'
    BY <1>1, <2>2 DEF RunInv, rvars
  <2> QED BY <2>1, <2>3 DEF LowerRunInv
<1>3. CASE Enter
  <2>1. UNCHANGED vars
    BY <1>3 DEF Enter
  <2> QED BY <1>1, <1>3, <2>1, LoweringKept, Entered DEF LowerRunInv
<1>4. CASE RunBlock
  <2>1. UNCHANGED vars
    BY <1>4 DEF RunBlock
  <2> QED BY <1>1, <1>4, <2>1, LoweringKept, BlockRun DEF LowerRunInv
<1>5. CASE UNCHANGED <<vars, rvars>>
  <2>1. LoweringInv'
    BY <1>1, <1>5, LoweringKept
  <2>2. RunInv'
    BY <1>1, <1>5 DEF RunInv, vars, rvars
  <2> QED BY <2>1, <2>2 DEF LowerRunInv
<1> QED BY <1>2, <1>3, <1>4, <1>5 DEF Next

LEMMA Invariance == Spec => []LowerRunInv
BY InitInv, NextInv, PTL DEF Spec

(* Whatever module of well-formed IR is lowered and whatever path is run,  *)
(* every call is made with RSP on a 16-byte boundary, the machine has made *)
(* the calls of the IR and returned when it has, and a return finds RSP    *)
(* where it was on entry (X86.cpp:240-339, Dump.cpp:731-737).              *)
THEOREM StackDisciplineAlways == Spec => []StackDiscipline
<1>1. LowerRunInv => StackDiscipline
  <2> SUFFICES ASSUME LowerRunInv, Ran PROVE StackDiscipline
    BY DEF StackDiscipline
  <2>1. running # 0
    BY DEF LowerRunInv, RunInv, Ran
  <2>2. Sim(ir, machine)
    BY <2>1 DEF LowerRunInv, RunInv
  <2> QED BY <2>2 DEF Sim, StackDiscipline
<1> QED BY <1>1, Invariance, PTL

(* No domain valueVreg makes, or a fixed register has, holds two registers *)
(* of one piece of hardware that family() does not relate                  *)
(* (X86.cpp:398-425 and 807-812).                                          *)
THEOREM DomainsNeverHideAliases == Spec => []DomainsHideNoAlias
<1>1. ASSUME NEW r \in GeneralRegs, NEW s \in GeneralRegs, SharesHardware(r, s) PROVE s \in family(r)
  <2>1. PICK t : t = registers
    OBVIOUS
  <2>2. /\ \A k \in DOMAIN t : t[k].id = k - 1
        /\ \A j, k \in {k \in DOMAIN t : t[k].kind = "INT" /\ t[k].width >= 64} :
             t[j].class = t[k].class /\ t[j].family = t[k].family => j = k
        /\ DOMAIN t \subseteq 1 .. Room
    BY <2>1, TableAssumption
  <2>3. PICK j \in DOMAIN t : t[j].id = r /\ t[j].kind = "INT" /\ t[j].width >= 64
    BY <2>1 DEF GeneralRegs, DomainFor, ToSet
  <2>4. PICK k \in DOMAIN t : t[k].id = s /\ t[k].kind = "INT" /\ t[k].width >= 64
    BY <2>1 DEF GeneralRegs, DomainFor, ToSet
  <2>5. r + 1 = j /\ s + 1 = k
    <3>1. j \in Nat /\ k \in Nat
      BY <2>2 DEF Room
    <3> QED BY <2>2, <2>3, <2>4, <3>1
  <2>6. j = k
    BY <1>1, <2>1, <2>2, <2>3, <2>4, <2>5 DEF SharesHardware, At
  <2>7. r \in family(r)
    BY <2>1, <2>3, <2>5 DEF family, FamilyIn
  <2> QED BY <2>3, <2>4, <2>6, <2>7
<1>2. LowerRunInv => DomainsHideNoAlias
  <2> SUFFICES ASSUME LowerRunInv, NEW k \in DOMAIN lowered, NEW domain, domain = lowered[k].body.domain,
                      NEW x \in DOMAIN domain, NEW y \in DOMAIN domain,
                      NEW r \in domain[x], NEW s \in domain[y], SharesHardware(r, s)
               PROVE  s \in family(r)
    BY DEF DomainsHideNoAlias
  <2>1. LoweringInv
    BY DEF LowerRunInv
  <2>2. k \in 1 .. Len(lowered)
    BY <2>1, ModuleFacts
  <2>3. domain[x] \subseteq GeneralRegs /\ domain[y] \subseteq GeneralRegs
    BY <2>1, <2>2 DEF LoweringInv, Converted
  <2> QED BY <1>1, <2>3
<1> QED BY <1>2, Invariance, PTL
-----------------------------------------------------------------------------
(* The shape of the code, that of IsLowered: n is the last of the virtual  *)
(* registers, b the room left at RSP at the end.                           *)
Names(i) == VregsIn(i.dst) \cup VregsIn(i.src)
MadeBy(c, k) == {j \in 1 .. k : /\ MovesRSP(c[j], "SUB")
                                /\ \A m \in j .. k : ~MovesRSP(c[m], "ADD")}
Follows(c, n, k) ==
  /\ Names(c[k]) \subseteq 1 .. n
  /\ ArgBytes(c, k - 1) \in Nat /\ ArgBytes(c, k) \in Nat
  /\ WrittenAt(c[k], ArgBytes(c, k - 1), ArgBytes(c, k))
Shaped(n, c, b) ==
  /\ IsSeq(c) /\ b \in Nat
  /\ \A k \in 1 .. Len(c) : Follows(c, n, k)
  /\ ArgBytes(c, Len(c)) = b
  /\ b = 0 => MadeBy(c, Len(c)) = {}

LEMMA ArgBytesIs ==
  ASSUME NEW c, NEW k
  PROVE  ArgBytes(c, k) = IF MadeBy(c, k) = {} THEN 0 ELSE c[CHOOSE j \in MadeBy(c, k) : TRUE].src.n
BY DEF ArgBytes, MadeBy

LEMMA BytesOfFront ==
  ASSUME NEW c, NEW d, NEW l \in Nat, \A k \in 1 .. l : d[k] = c[k], NEW k \in 0 .. l
  PROVE  MadeBy(d, k) = MadeBy(c, k) /\ ArgBytes(d, k) = ArgBytes(c, k)
<1>1. \A j \in 1 .. k : d[j] = c[j]
  OBVIOUS
<1>2. ASSUME NEW j \in 1 .. k, NEW m \in j .. k PROVE d[m] = c[m]
  BY <1>1
<1>3. MadeBy(d, k) = MadeBy(c, k)
  BY <1>1, <1>2 DEF MadeBy
<1>4. CASE MadeBy(c, k) = {}
  BY <1>3, <1>4, ArgBytesIs
<1>5. CASE MadeBy(c, k) # {}
  <2>1. PICK j : j = CHOOSE x \in MadeBy(c, k) : TRUE
    OBVIOUS
  <2>2. j \in MadeBy(c, k)
    BY <1>5, <2>1
  <2>3. d[j] = c[j]
    BY <1>1, <2>2 DEF MadeBy
  <2> QED BY <1>3, <1>5, <2>1, <2>3, ArgBytesIs
<1> QED BY <1>3, <1>4, <1>5

LEMMA ShapedNothing == \A n : Shaped(n, << >>, 0)
<1> TAKE n
<1>1. PICK e : e = << >>
  OBVIOUS
<1>2. IsSeq(e) /\ Len(e) = 0
  BY <1>1, IsSeqParts
<1>3. MadeBy(e, 0) = {}
  BY DEF MadeBy
<1>4. ArgBytes(e, 0) = 0
  BY <1>3, ArgBytesIs
<1>5. Shaped(n, e, 0)
  BY <1>2, <1>3, <1>4 DEF Shaped
<1> QED BY <1>1, <1>5

(* One more instruction; room is made in one step and given back in one.   *)
MayFollow(n, i, p, q) ==
  /\ Names(i) \subseteq 1 .. n /\ q \in Nat /\ WrittenAt(i, p, q)
  /\ MovesRSP(i, "SUB") => q # 0

LEMMA StepsOfRSP ==
  ASSUME NEW i, NEW p \in Nat, NEW q \in Nat, WrittenAt(i, p, q)
  PROVE  \/ MovesRSP(i, "SUB") /\ ~MovesRSP(i, "ADD") /\ p = 0 /\ i.src.n = q
         \/ MovesRSP(i, "ADD") /\ ~MovesRSP(i, "SUB") /\ q = 0
         \/ ~MovesRSP(i, "ADD") /\ ~MovesRSP(i, "SUB") /\ q = p
<1>1. PREG(RSP).kind = "PREG" /\ \A x : LIT(x).n = x
  BY DEF PREG, LIT
<1>2. i.dst.kind = "VREG" => ~MovesRSP(i, "ADD") /\ ~MovesRSP(i, "SUB")
  BY <1>1 DEF MovesRSP
<1> QED BY <1>1, <1>2 DEF WrittenAt, MovesRSP, ConditionalJumps

LEMMA ShapedAppend ==
  ASSUME NEW n, NEW c, NEW p, Shaped(n, c, p), NEW i, NEW q, MayFollow(n, i, p, q)
  PROVE  Shaped(n, Append(c, i), q)
<1>1. PICK d : d = Append(c, i)
  OBVIOUS
<1>2. PICK l \in Nat : l = Len(c)
  BY DEF Shaped, IsSeq
<1>3. IsSeq(d) /\ Len(d) = l + 1 /\ d[l + 1] = i /\ \A k \in 1 .. l : d[k] = c[k]
  <2>1. IsSeq(d)
    BY <1>1, IsSeqParts DEF Shaped
  <2>2. PICK S : c \in Seq(S)
    BY DEF Shaped, IsSeq
  <2> QED BY ONLY <1>1, <1>2, <2>1, <2>2
<1>4. \A k \in 0 .. l : MadeBy(d, k) = MadeBy(c, k) /\ ArgBytes(d, k) = ArgBytes(c, k)
  BY <1>3, BytesOfFront
<1>5. /\ p \in Nat /\ q \in Nat /\ Names(i) \subseteq 1 .. n /\ WrittenAt(i, p, q)
      /\ MovesRSP(i, "SUB") => q # 0
  BY DEF Shaped, MayFollow
<1>6. /\ ArgBytes(c, l) = p /\ (p = 0 => MadeBy(c, l) = {})
      /\ \A k \in 1 .. l : Follows(c, n, k)
  BY <1>2 DEF Shaped
<1>7. ArgBytes(d, l + 1) = q /\ (q = 0 => MadeBy(d, l + 1) = {})
  <2>1. CASE MovesRSP(i, "ADD")
    <3>1. \A j \in 1 .. l + 1 : l + 1 \in j .. l + 1
      OBVIOUS
    <3>2. MadeBy(d, l + 1) = {}
      BY <1>3, <2>1, <3>1 DEF MadeBy
    <3>3. q = 0
      BY <1>5, <2>1, StepsOfRSP
    <3> QED BY <3>2, <3>3, ArgBytesIs
  <2>2. CASE MovesRSP(i, "SUB")
    <3>1. ~MovesRSP(i, "ADD") /\ p = 0 /\ i.src.n = q /\ q # 0
      BY <1>5, <2>2, StepsOfRSP
    <3>2. MadeBy(c, l) = {}
      BY <1>6, <3>1
    <3>3. ASSUME NEW j \in 1 .. l, MovesRSP(d[j], "SUB"), \A m \in j .. l + 1 : ~MovesRSP(d[m], "ADD")
          PROVE  FALSE
      <4>1. \A m \in j .. l : m \in 1 .. l /\ m \in j .. l + 1
        OBVIOUS
      <4>2. j \in MadeBy(c, l)
        BY <1>3, <3>3, <4>1 DEF MadeBy
      <4> QED BY <3>2, <4>2
    <3>4. MadeBy(d, l + 1) = {l + 1}
      <4>1. \A j \in 1 .. l + 1 : j = l + 1 \/ j \in 1 .. l
        OBVIOUS
      <4>2. \A m \in l + 1 .. l + 1 : m = l + 1
        OBVIOUS
      <4>3. l + 1 \in 1 .. l + 1
        OBVIOUS
      <4> QED BY <1>3, <2>2, <3>1, <3>3, <4>1, <4>2, <4>3 DEF MadeBy
    <3>5. ArgBytes(d, l + 1) = d[l + 1].src.n
      BY <3>4, ArgBytesIs
    <3> QED BY <1>3, <3>1, <3>5
  <2>3. CASE ~MovesRSP(i, "ADD") /\ ~MovesRSP(i, "SUB")
    <3>1. q = p
      BY <1>5, <2>3, StepsOfRSP
    <3>2. MadeBy(d, l + 1) = MadeBy(d, l)
      <4>1. \A j \in 1 .. l + 1 : MovesRSP(d[j], "SUB") => j \in 1 .. l
        BY <1>3, <2>3
      <4>2. \A j \in 1 .. l : j \in 1 .. l + 1
        OBVIOUS
      <4>3. \A j \in 1 .. l : \A m \in j .. l + 1 : m = l + 1 \/ m \in j .. l
        OBVIOUS
      <4>4. \A j \in 1 .. l : \A m \in j .. l : m \in j .. l + 1
        OBVIOUS
      <4>5. ~MovesRSP(d[l + 1], "ADD")
        BY <1>3, <2>3
      <4> QED BY <4>1, <4>2, <4>3, <4>4, <4>5 DEF MadeBy
    <3>3. MadeBy(d, l) = MadeBy(c, l) /\ ArgBytes(d, l) = ArgBytes(c, l)
      BY <1>4
    <3>4. ArgBytes(d, l + 1) = ArgBytes(d, l)
      <4>1. CASE MadeBy(d, l) = {}
        BY <3>2, <4>1, ArgBytesIs
      <4>2. CASE MadeBy(d, l) # {}
        BY <3>2, <4>2, ArgBytesIs
      <4> QED BY <4>1, <4>2
    <3> QED BY <1>6, <3>1, <3>2, <3>3, <3>4
  <2> QED BY <2>1, <2>2, <2>3
<1>8. ASSUME NEW k \in 1 .. l + 1 PROVE Follows(d, n, k)
  <2>1. CASE k = l + 1
    <3>1. k - 1 = l /\ l \in 0 .. l
      BY <2>1
    <3>2. ArgBytes(d, k - 1) = p /\ ArgBytes(d, k) = q /\ d[k] = i
      BY <1>3, <1>4, <1>6, <1>7, <2>1, <3>1
    <3> QED BY <1>5, <3>2 DEF Follows
  <2>2. CASE k \in 1 .. l
    <3>1. k - 1 \in 0 .. l /\ k \in 0 .. l
      BY <2>2
    <3>2. ArgBytes(d, k - 1) = ArgBytes(c, k - 1) /\ ArgBytes(d, k) = ArgBytes(c, k) /\ d[k] = c[k]
      BY <1>3, <1>4, <2>2, <3>1
    <3> QED BY <1>6, <2>2, <3>2 DEF Follows
  <2> QED BY <2>1, <2>2
<1>9. Shaped(n, d, q)
  BY <1>3, <1>5, <1>7, <1>8 DEF Shaped
<1> QED BY <1>1, <1>9

LEMMA ShapedMore ==
  ASSUME NEW n \in Nat, NEW m \in Nat, n <= m, NEW c, NEW b, Shaped(n, c, b)
  PROVE  Shaped(m, c, b)
<1>1. 1 .. n \subseteq 1 .. m
  OBVIOUS
<1> QED BY <1>1 DEF Shaped, Follows

-----------------------------------------------------------------------------
(* Code that takes room p to room q wherever it is put.                    *)
Adds(n, d, p, q) == IsSeq(d) /\ \A c : Shaped(n, c, p) => Shaped(n, c \o d, q)

LEMMA AddsNothing == \A n, p : Adds(n, << >>, p, p)
<1> TAKE n, p
<1>1. ASSUME NEW c, Shaped(n, c, p) PROVE Shaped(n, c \o << >>, p)
  <2>1. PICK S : c \in Seq(S)
    BY <1>1 DEF Shaped, IsSeq
  <2>2. c \o << >> = c
    BY <2>1, ConcatEmptySeq
  <2> QED BY <1>1, <2>2
<1>2. IsSeq(<< >>)
  BY IsSeqParts
<1> QED BY <1>1, <1>2 DEF Adds

LEMMA AddsMore ==
  ASSUME NEW n, NEW d, NEW p, NEW q, Adds(n, d, p, q), NEW i, NEW r, MayFollow(n, i, q, r)
  PROVE  Adds(n, Append(d, i), p, r)
<1>1. IsSeq(d)
  BY DEF Adds
<1>2. ASSUME NEW c, Shaped(n, c, p) PROVE Shaped(n, c \o Append(d, i), r)
  <2>1. IsSeq(c)
    BY <1>2 DEF Shaped
  <2>2. PICK S : c \in Seq(S) /\ d \in Seq(S)
    BY <1>1, <2>1, TwoInOneSet
  <2>3. PICK e : e = c \o d
    OBVIOUS
  <2>4. Shaped(n, e, q)
    BY <1>2, <2>3 DEF Adds
  <2>5. Shaped(n, Append(e, i), r)
    BY <2>4, ShapedAppend
  <2>6. c \o Append(d, i) = Append(e, i)
    BY <2>2, <2>3, ConcatAppend
  <2> QED BY ONLY <2>5, <2>6
<1>3. IsSeq(Append(d, i))
  BY <1>1, IsSeqParts
<1> QED BY <1>2, <1>3 DEF Adds

LEMMA AddsOne ==
  ASSUME NEW n, NEW i, NEW p, NEW q, MayFollow(n, i, p, q)
  PROVE  Adds(n, <<i>>, p, q)
<1>1. PICK e : e = << >>
  OBVIOUS
<1>2. Adds(n, Append(e, i), p, q)
  BY <1>1, AddsNothing, AddsMore
<1>3. Append(e, i) = <<i>>
  <2>1. e \in Seq({i}) /\ i \in {i}
    BY <1>1
  <2> QED BY <1>1, <2>1, AppendFacts
<1> QED BY ONLY <1>2, <1>3

LEMMA AddsTwo ==
  ASSUME NEW n, NEW i, NEW j, NEW p, NEW q, NEW r, MayFollow(n, i, p, q), MayFollow(n, j, q, r)
  PROVE  Adds(n, <<i, j>>, p, r)
<1>1. PICK e : e = <<i>>
  OBVIOUS
<1>2. Adds(n, e, p, q)
  BY <1>1, AddsOne
<1>3. Adds(n, Append(e, j), p, r)
  BY <1>2, AddsMore
<1> QED BY ONLY <1>1, <1>3, PairIsAppend

LEMMA AddsBoth ==
  ASSUME NEW n, NEW a, NEW b, NEW p, NEW q, NEW r, Adds(n, a, p, q), Adds(n, b, q, r)
  PROVE  Adds(n, a \o b, p, r)
<1>1. IsSeq(a) /\ IsSeq(b)
  BY DEF Adds
<1>2. ASSUME NEW c, Shaped(n, c, p) PROVE Shaped(n, c \o (a \o b), r)
  <2>1. PICK e : e = c \o a
    OBVIOUS
  <2>2. Shaped(n, e, q)
    BY <1>2, <2>1 DEF Adds
  <2>3. Shaped(n, e \o b, r)
    BY <2>2 DEF Adds
  <2>4. e \o b = c \o (a \o b)
    <3>1. IsSeq(c)
      BY <1>2 DEF Shaped
    <3>2. PICK S : c \in Seq(S) /\ a \in Seq(S)
      BY <1>1, <3>1, TwoInOneSet
    <3>3. PICK T : b \in Seq(T)
      BY <1>1 DEF IsSeq
    <3>4. ASSUME NEW d, NEW V, d \in Seq(V), V \in {S, T} PROVE d \in Seq(S \cup T)
      <4>1. Len(d) \in Nat /\ d \in [1 .. Len(d) -> S \cup T]
        BY <3>4
      <4> QED BY <4>1, FunctionIsSequence
    <3>5. c \in Seq(S \cup T) /\ a \in Seq(S \cup T) /\ b \in Seq(S \cup T)
      BY <3>2, <3>3, <3>4
    <3> QED BY <2>1, <3>5, ConcatAssociative
  <2> QED BY ONLY <2>3, <2>4
<1>3. IsSeq(a \o b)
  BY <1>1, IsSeqParts
<1> QED BY <1>2, <1>3 DEF Adds

LEMMA AddsAll ==
  ASSUME NEW n, NEW m \in Nat, NEW d, d = [k \in 1 .. m |-> d[k]], NEW p,
         \A k \in 1 .. m : MayFollow(n, d[k], p, p)
  PROVE  Adds(n, d, p, p)
<1>0. DOMAIN d = 1 .. m
  OBVIOUS
<1>1. IsSeq(d)
  BY <1>0, IsSeqFunction
<1> DEFINE S == {d[k] : k \in DOMAIN d}
<1>2. d \in Seq(S) /\ \A x \in S : MayFollow(n, x, p, p)
  BY <1>0, <1>1 DEF IsSeq
<1> HIDE DEF S
<1> DEFINE T == {c \in Seq(S) : Adds(n, c, p, p)}
<1>3. << >> \in T
  <2>1. << >> \in Seq(S)
    OBVIOUS
  <2> QED BY <2>1, AddsNothing
<1>4. ASSUME NEW c \in Seq(S), NEW x \in S, c \in T PROVE Append(c, x) \in T
  <2>1. Append(c, x) \in Seq(S)
    BY AppendFacts
  <2>2. Adds(n, c, p, p) /\ MayFollow(n, x, p, p)
    BY <1>2, <1>4
  <2>3. Adds(n, Append(c, x), p, p)
    BY <2>2, AddsMore
  <2> QED BY <2>1, <2>3
<1> HIDE DEF T
<1>5. d \in T
  BY <1>2, <1>3, <1>4, SequencesFromEmpty
<1> QED BY <1>5 DEF T

(* One step of each kind.                                                  *)
RegistersIn(n, o) == VregsIn(o) \subseteq 1 .. n
LEMMA MayMove ==
  ASSUME NEW n, NEW op \in {"MOV", "ADD", "IMUL", "CMP"}, NEW x, NEW y, x.kind = "VREG", RegistersIn(n, x), RegistersIn(n, y), NEW p \in Nat
  PROVE  MayFollow(n, Ins(op, x, y), p, p)
<1>1. PICK i : i = Ins(op, x, y)
  OBVIOUS
<1>2. i.op = op /\ i.dst = x /\ i.src = y
  BY <1>1 DEF Ins
<1>3. ~MovesRSP(i, "SUB")
  BY <1>2 DEF MovesRSP
<1>4. WrittenAt(i, p, p)
  BY <1>2 DEF WrittenAt
<1> QED BY <1>1, <1>2, <1>3, <1>4 DEF MayFollow, Names, RegistersIn

LEMMA MayJump ==
  ASSUME NEW n, NEW op \in ConditionalJumps \cup {"JMP", "RET"}, NEW x, NEW y, RegistersIn(n, x), RegistersIn(n, y)
  PROVE  MayFollow(n, Ins(op, x, y), 0, 0)
<1>1. PICK i : i = Ins(op, x, y)
  OBVIOUS
<1>2. i.op = op /\ i.dst = x /\ i.src = y
  BY <1>1 DEF Ins
<1>3. ~MovesRSP(i, "SUB")
  BY <1>2 DEF MovesRSP, ConditionalJumps
<1>4. WrittenAt(i, 0, 0)
  BY <1>2 DEF WrittenAt
<1> QED BY <1>1, <1>2, <1>3, <1>4 DEF MayFollow, Names, RegistersIn

LEMMA MayCall ==
  ASSUME NEW n, NEW f, NEW a, NEW p \in Nat, p % 16 = 0
  PROVE  MayFollow(n, Ins("CALL", SYM(f, a), MNONE), p, p)
<1>1. PICK i : i = Ins("CALL", SYM(f, a), MNONE)
  OBVIOUS
<1>2. i.op = "CALL" /\ i.dst = SYM(f, a) /\ i.src = MNONE
  BY <1>1 DEF Ins
<1>3. ~MovesRSP(i, "SUB")
  BY <1>2 DEF MovesRSP
<1>4. WrittenAt(i, p, p)
  BY <1>2 DEF WrittenAt
<1>5. VregsIn(i.dst) = {} /\ VregsIn(i.src) = {}
  BY <1>2 DEF VregsIn, SYM, MNONE
<1> QED BY <1>1, <1>3, <1>4, <1>5 DEF MayFollow, Names

LEMMA MayStore ==
  ASSUME NEW n, NEW y, RegistersIn(n, y), NEW p \in Nat, NEW d \in 0 .. p - 8
  PROVE  MayFollow(n, Ins("MOV", MEM(RSP, d), y), p, p)
<1>1. PICK i : i = Ins("MOV", MEM(RSP, d), y)
  OBVIOUS
<1>2. i.op = "MOV" /\ i.dst = MEM(RSP, d) /\ i.src = y
  BY <1>1 DEF Ins
<1>3. ~MovesRSP(i, "SUB")
  BY <1>2 DEF MovesRSP
<1>4. i.dst.kind = "MEM" /\ i.dst.n = RSP /\ i.dst.disp = d
  BY <1>2 DEF MEM
<1>5. WrittenAt(i, p, p)
  BY <1>2, <1>4 DEF WrittenAt
<1>6. VregsIn(i.dst) = {}
  BY <1>4 DEF VregsIn
<1> QED BY <1>1, <1>2, <1>3, <1>5, <1>6 DEF MayFollow, Names, RegistersIn

LEMMA MayMakeRoom ==
  ASSUME NEW n, NEW p \in Nat, p # 0
  PROVE  /\ MayFollow(n, Ins("SUB", PREG(RSP), LIT(p)), 0, p)
         /\ MayFollow(n, Ins("ADD", PREG(RSP), LIT(p)), p, 0)
<1>1. PICK i, j : i = Ins("SUB", PREG(RSP), LIT(p)) /\ j = Ins("ADD", PREG(RSP), LIT(p))
  OBVIOUS
<1>2. /\ i.op = "SUB" /\ i.dst = PREG(RSP) /\ i.src = LIT(p)
      /\ j.op = "ADD" /\ j.dst = PREG(RSP) /\ j.src = LIT(p)
  BY <1>1 DEF Ins
<1>3. MovesRSP(i, "SUB") /\ MovesRSP(j, "ADD") /\ ~MovesRSP(j, "SUB")
  BY <1>2 DEF MovesRSP
<1>4. WrittenAt(i, 0, p) /\ WrittenAt(j, p, 0)
  BY <1>2, <1>3 DEF WrittenAt
<1>5. VregsIn(PREG(RSP)) = {} /\ VregsIn(LIT(p)) = {}
  BY DEF VregsIn, PREG, LIT
<1>6. MayFollow(n, i, 0, p)
  BY <1>2, <1>4, <1>5 DEF MayFollow, Names
<1>7. MayFollow(n, j, p, 0)
  BY <1>2, <1>3, <1>4, <1>5 DEF MayFollow, Names
<1> QED BY <1>1, <1>6, <1>7

-----------------------------------------------------------------------------
(* The code of an instruction.                                             *)
LEMMA LoweredNamed ==
  ASSUME NEW f, f.values \in Nat, NEW n \in Nat, f.values <= n, NEW o, IsValue(f, o)
  PROVE  RegistersIn(n, Lowered(o)) /\ (o.kind = "REGISTER" => Lowered(o).kind = "VREG")
<1>1. CASE o.kind = "REGISTER"
  <2>1. Lowered(o) = VREG(o.n)
    BY <1>1 DEF Lowered
  <2>2. Lowered(o).kind = "VREG" /\ Lowered(o).n = o.n
    BY <2>1 DEF VREG
  <2>3. VregsIn(Lowered(o)) = {o.n}
    BY <2>2 DEF VregsIn
  <2>4. o.n \in 1 .. f.values
    BY <1>1 DEF IsValue
  <2> QED BY <2>2, <2>3, <2>4 DEF RegistersIn
<1>2. CASE o.kind # "REGISTER"
  <2>1. Lowered(o).kind \in {"LIT", "LABEL", "NONE"}
    BY <1>2 DEF Lowered, LIT, LABEL, MNONE
  <2>2. VregsIn(Lowered(o)) = {}
    BY <2>1 DEF VregsIn
  <2> QED BY <1>2, <2>2 DEF RegistersIn
<1> QED BY <1>1, <1>2

LEMMA PinNamed ==
  ASSUME fct.values \in Nat, NEW have, Len(have) \in Nat, NEW k \in Nat \ {0}, NEW n \in Nat,
         fct.values + Len(have) + k <= n
  PROVE  RegistersIn(n, Pin(have, k)) /\ Pin(have, k).kind = "VREG"
<1>1. PICK v \in Nat, h \in Nat : v = fct.values /\ h = Len(have)
  OBVIOUS
<1>2. PICK p : p = Pin(have, k)
  OBVIOUS
<1>3. p = VREG(v + h + k)
  BY <1>1, <1>2 DEF Pin
<1>4. p.kind = "VREG" /\ p.n = v + h + k
  BY <1>3 DEF VREG
<1>5. p.n \in 1 .. n
  BY <1>1, <1>4
<1>6. VregsIn(p) = {p.n}
  BY <1>4 DEF VregsIn
<1> QED BY <1>2, <1>4, <1>5, <1>6 DEF RegistersIn

LEMMA ArgumentPinsLength ==
  ASSUME NEW n \in Nat
  PROVE  Len(SubSeq(IntArgRegs, 1, InRegisters(n))) = InRegisters(n)
<1>1. PICK q : q = IntArgRegs
  OBVIOUS
<1>2. q \in Seq({RDI, RSI, RDX, RCX, R8, R9}) /\ Len(q) = 6
  BY <1>1 DEF IntArgRegs
<1>3. PICK k \in 0 .. 6 : k = InRegisters(n)
  <2>1. InRegisters(n) \in 0 .. 6
    BY <1>1, <1>2 DEF InRegisters
  <2> QED BY <2>1
<1>4. 1 \in 1 .. Len(q) + 1 /\ k \in 1 - 1 .. Len(q) /\ k - 1 + 1 = k
  BY <1>2, <1>3
<1>5. Len(SubSeq(q, 1, k)) = k - 1 + 1
  BY ONLY <1>2, <1>4, SubSeqProperties
<1> QED BY ONLY <1>1, <1>3, <1>4, <1>5

LEMMA CallShaped ==
  ASSUME NEW i, IsInstruction(i), i.op = "CALL", fct.values \in Nat, NamesValues(fct, i),
         NEW have, Len(have) \in Nat, NEW n \in Nat,
         n = fct.values + Len(have) + Len(CallSequence(i, have).pins)
  PROVE  Adds(n, CallSequence(i, have).instrs, 0, 0)
<1>1. PICK l \in Nat : l = Len(i.args) /\ DOMAIN i.args = 1 .. l
  <2>1. i.args \in Seq(ToSet(i.args))
    BY DEF IsInstruction, Comparisons, Terminators
  <2>2. Len(i.args) \in Nat /\ DOMAIN i.args = 1 .. Len(i.args)
    BY <2>1
  <2> QED BY <2>2
<1>2. PICK inRegs \in Nat, onStack \in Nat :
        inRegs = InRegisters(Len(i.args)) /\ onStack = Len(i.args) - inRegs /\ inRegs <= 6 /\ inRegs + onStack = l
  <2>1. Len(IntArgRegs) = 6
    BY DEF IntArgRegs
  <2>2. InRegisters(l) \in Nat /\ InRegisters(l) <= l /\ InRegisters(l) <= 6
    BY <2>1 DEF InRegisters
  <2>3. PICK x \in Nat, y \in Nat : x = InRegisters(l) /\ y = l - x /\ x <= 6 /\ x + y = l
    BY <2>2
  <2>4. x = InRegisters(Len(i.args)) /\ y = Len(i.args) - x
    BY ONLY <1>1, <2>3
  <2> QED BY ONLY <2>3, <2>4
<1>26. /\ l \in Nat /\ inRegs \in Nat /\ onStack \in Nat /\ inRegs <= 6 /\ inRegs + onStack = l
  BY <1>2
<1>3. PICK room \in Nat : room = StackRoom(onStack) /\ room % 16 = 0
  BY RoomIsAligned
<1>4. 8 * onStack <= room
  <2>1. 8 * onStack \in Nat
    OBVIOUS
  <2>2. room = 8 * onStack \/ room = 8 * onStack + 8
    BY <1>3 DEF StackRoom
  <2> QED BY <2>1, <2>2
<1>5. PICK r \in {0, 1} : r = IF i.res.kind # "NONE" THEN 1 ELSE 0
  OBVIOUS
<1>27. r \in Nat /\ r <= 1 /\ (i.res.kind # "NONE" => r = 1)
  BY <1>5
<1>6. n = fct.values + Len(have) + (inRegs + r)
  <2>1. PICK s, t : s = SubSeq(IntArgRegs, 1, inRegs) /\ t = IF i.res.kind # "NONE" THEN <<RAX>> ELSE << >>
    OBVIOUS
  <2>2. CallSequence(i, have).pins = s \o t
    BY <1>2, <2>1 DEF CallSequence, Emit
  <2>3. s \in Seq(PinRegs) /\ Len(s) = inRegs
    BY <1>1, <1>2, <2>1, ArgumentPins, ArgumentPinsLength
  <2>4. t \in Seq(PinRegs) /\ Len(t) = r
    <3>1. RAX \in PinRegs
      BY DEF PinRegs
    <3>2. \A S, x : x \in S => << >> \in Seq(S) /\ <<x>> \in Seq(S) /\ Len(<<x>>) = 1
      OBVIOUS
    <3>3. CASE i.res.kind # "NONE"
      BY <1>5, <2>1, <3>1, <3>2, <3>3
    <3>4. CASE i.res.kind = "NONE"
      BY <1>5, <2>1, <3>1, <3>2, <3>4
    <3> QED BY <3>3, <3>4
  <2>5. Len(s \o t) = Len(s) + Len(t)
    BY ONLY <2>3, <2>4, ConcatProperties
  <2>6. Len(CallSequence(i, have).pins) = inRegs + r
    BY ONLY <2>2, <2>3, <2>4, <2>5
  <2> QED BY <2>6
<1>7. fct.values <= n
  <2>1. PICK v \in Nat, h \in Nat : v = fct.values /\ h = Len(have)
    OBVIOUS
  <2>2. v \in Nat /\ h \in Nat /\ n = v + h + (inRegs + r)
    BY <1>6, <2>1
  <2>3. v <= n
    BY ONLY <1>26, <1>27, <2>2
  <2> QED BY <2>1, <2>3
<1>8. /\ \A k \in 1 .. inRegs : RegistersIn(n, Pin(have, k)) /\ Pin(have, k).kind = "VREG"
      /\ i.res.kind # "NONE" => RegistersIn(n, Pin(have, inRegs + 1))
  <2>1. PICK v \in Nat, h \in Nat : v = fct.values /\ h = Len(have)
    OBVIOUS
  <2>2. v \in Nat /\ h \in Nat /\ n = v + h + (inRegs + r)
    BY <1>6, <2>1
  <2>3. ASSUME NEW k, k \in 1 .. inRegs + r PROVE k \in Nat \ {0} /\ v + h + k <= n
    BY ONLY <1>26, <1>27, <2>2, <2>3
  <2>4. \A k \in 1 .. inRegs + r : RegistersIn(n, Pin(have, k)) /\ Pin(have, k).kind = "VREG"
    BY <2>1, <2>3, PinNamed
  <2>5. \A k \in 1 .. inRegs : k \in 1 .. inRegs + r
    BY ONLY <1>26, <1>27
  <2>6. i.res.kind # "NONE" => inRegs + 1 \in 1 .. inRegs + r
    BY ONLY <1>26, <1>27
  <2> QED BY <2>4, <2>5, <2>6
<1>9. PICK a : a = [k \in 1 .. inRegs |-> Ins("MOV", Pin(have, k), Lowered(i.args[k]))]
  OBVIOUS
<1>10. PICK b : b = IF room > 0 THEN <<Ins("SUB", PREG(RSP), LIT(room))>> ELSE << >>
  OBVIOUS
<1>11. PICK c : c = [k \in 1 .. onStack |-> Ins("MOV", MEM(RSP, 8 * (k - 1)), Lowered(i.args[inRegs + k]))]
  OBVIOUS
<1>12. PICK d : d = << Ins("CALL", SYM(i.lhs.n, Len(i.args)), MNONE) >>
  OBVIOUS
<1>13. PICK e : e = IF i.res.kind # "NONE" THEN <<Ins("MOV", Lowered(i.res), Pin(have, inRegs + 1))>> ELSE << >>
  OBVIOUS
<1>14. PICK g : g = IF room > 0 THEN <<Ins("ADD", PREG(RSP), LIT(room))>> ELSE << >>
  OBVIOUS
<1>15. CallSequence(i, have).instrs = a \o b \o c \o d \o e \o g
  BY <1>2, <1>3, <1>9, <1>10, <1>11, <1>12, <1>13, <1>14 DEF CallSequence, Emit
<1>16. \A k \in 1 .. l : RegistersIn(n, Lowered(i.args[k]))
  BY <1>1, <1>7, LoweredNamed DEF NamesValues
<1>17. Adds(n, a, 0, 0)
  <2>1. ASSUME NEW k \in 1 .. inRegs PROVE MayFollow(n, a[k], 0, 0)
    <3>1. a[k] = Ins("MOV", Pin(have, k), Lowered(i.args[k]))
      BY <1>9
    <3>2. k \in 1 .. l
      BY <1>26
    <3> QED BY <1>8, <1>16, <3>1, <3>2, MayMove
  <2>2. a = [k \in 1 .. inRegs |-> a[k]]
    BY <1>9
  <2> QED BY <2>1, <2>2, AddsAll
<1>18. Adds(n, b, 0, room)
  <2>1. CASE room > 0
    BY <1>10, <2>1, MayMakeRoom, AddsOne
  <2>2. CASE ~(room > 0)
    <3>1. room = 0
      BY <2>2
    <3> QED BY <1>10, <2>2, <3>1, AddsNothing
  <2> QED BY <2>1, <2>2
<1>19. Adds(n, c, room, room)
  <2>1. ASSUME NEW k \in 1 .. onStack PROVE MayFollow(n, c[k], room, room)
    <3>1. PICK y, s : y = Lowered(i.args[inRegs + k]) /\ s = 8 * (k - 1)
      OBVIOUS
    <3>2. inRegs + k \in 1 .. l
      BY <1>26
    <3>3. RegistersIn(n, y)
      BY <1>16, <3>1, <3>2
    <3>4. s \in 0 .. room - 8
      BY <1>4, <3>1
    <3>5. c[k] = Ins("MOV", MEM(RSP, s), y)
      BY <1>11, <3>1
    <3> QED BY <3>3, <3>4, <3>5, MayStore
  <2>2. c = [k \in 1 .. onStack |-> c[k]]
    BY <1>11
  <2> QED BY <2>1, <2>2, AddsAll
<1>20. Adds(n, d, room, room)
  BY <1>3, <1>12, MayCall, AddsOne
<1>21. Adds(n, e, room, room)
  <2>1. CASE i.res.kind = "NONE"
    BY <1>13, <2>1, AddsNothing
  <2>2. CASE i.res.kind # "NONE"
    <3>1. i.res.kind = "REGISTER"
      BY <2>2 DEF IsInstruction, Comparisons, Terminators
    <3>2. RegistersIn(n, Lowered(i.res)) /\ Lowered(i.res).kind = "VREG"
      BY <1>7, <3>1, LoweredNamed DEF NamesValues
    <3>3. MayFollow(n, Ins("MOV", Lowered(i.res), Pin(have, inRegs + 1)), room, room)
      BY <1>8, <2>2, <3>2, MayMove
    <3> QED BY <1>13, <2>2, <3>3, AddsOne
  <2> QED BY <2>1, <2>2
<1>22. Adds(n, g, room, 0)
  <2>1. CASE room > 0
    BY <1>14, <2>1, MayMakeRoom, AddsOne
  <2>2. CASE ~(room > 0)
    <3>1. room = 0
      BY <2>2
    <3> QED BY <1>14, <2>2, <3>1, AddsNothing
  <2> QED BY <2>1, <2>2
<1>23. Adds(n, a \o b \o c \o d \o e \o g, 0, 0)
  <2>1. PICK ab : ab = a \o b
    OBVIOUS
  <2>2. PICK abc : abc = ab \o c
    OBVIOUS
  <2>3. PICK abcd : abcd = abc \o d
    OBVIOUS
  <2>4. PICK abcde : abcde = abcd \o e
    OBVIOUS
  <2>5. Adds(n, ab, 0, room)
    BY <1>17, <1>18, <2>1, AddsBoth
  <2>6. Adds(n, abc, 0, room)
    BY <1>19, <2>2, <2>5, AddsBoth
  <2>7. Adds(n, abcd, 0, room)
    BY <1>20, <2>3, <2>6, AddsBoth
  <2>8. Adds(n, abcde, 0, room)
    BY <1>21, <2>4, <2>7, AddsBoth
  <2>9. Adds(n, abcde \o g, 0, 0)
    BY <1>22, <2>8, AddsBoth
  <2> QED BY ONLY <2>1, <2>2, <2>3, <2>4, <2>9
<1> QED BY ONLY <1>15, <1>23

LEMMA InstructionShaped ==
  ASSUME NEW i, IsInstruction(i), fct.values \in Nat, NamesValues(fct, i),
         NEW have, Len(have) \in Nat,
         NEW cmps, \A v \in DOMAIN cmps : cmps[v] \in Comparisons, ~Unbranchable(i, cmps),
         NEW out, out = LowerInstruction(i, have, cmps), Len(out.pins) \in Nat
  PROVE  Adds(fct.values + Len(have) + Len(out.pins), out.instrs, 0, 0)
<1>1. PICK n \in Nat : n = fct.values + Len(have) + Len(out.pins)
  OBVIOUS
<1>2. fct.values <= n
  BY <1>1
<1>3. RegistersIn(n, Lowered(i.res)) /\ RegistersIn(n, Lowered(i.lhs)) /\ RegistersIn(n, Lowered(i.rhs))
  BY <1>2, LoweredNamed DEF NamesValues
<1>4. i.res.kind = "REGISTER" => Lowered(i.res).kind = "VREG"
  BY <1>2, LoweredNamed DEF NamesValues
<1>5. RegistersIn(n, MNONE)
  BY DEF RegistersIn, VregsIn, MNONE
<1>6. CASE i.op \in {"ADD", "MUL"} \cup Comparisons
  <2>1. PICK op \in {"ADD", "IMUL", "CMP"} : out = TwoAddress(op, i)
    BY <1>6 DEF LowerInstruction, Comparisons
  <2>2. i.res.kind = "REGISTER"
    BY <1>6 DEF IsInstruction, Comparisons, Terminators
  <2>3. out.instrs = << Ins("MOV", Lowered(i.res), Lowered(i.lhs)), Ins(op, Lowered(i.res), Lowered(i.rhs)) >>
    BY <2>1 DEF TwoAddress, Emit
  <2>4. MayFollow(n, Ins("MOV", Lowered(i.res), Lowered(i.lhs)), 0, 0)
    BY <1>3, <1>4, <2>2, MayMove
  <2>5. MayFollow(n, Ins(op, Lowered(i.res), Lowered(i.rhs)), 0, 0)
    BY <1>3, <1>4, <2>2, MayMove
  <2>6. Adds(n, out.instrs, 0, 0)
    BY <2>3, <2>4, <2>5, AddsTwo
  <2> QED BY <1>1, <2>6
<1>7. CASE i.op = "COPY"
  <2>1. out.instrs = <<Ins("MOV", Lowered(i.res), Lowered(i.lhs))>>
    BY <1>7 DEF LowerInstruction, Comparisons, Emit
  <2>2. i.res.kind = "REGISTER"
    BY <1>7 DEF IsInstruction, Comparisons, Terminators
  <2>3. MayFollow(n, Ins("MOV", Lowered(i.res), Lowered(i.lhs)), 0, 0)
    BY <1>3, <1>4, <2>2, MayMove
  <2>4. Adds(n, out.instrs, 0, 0)
    BY <2>1, <2>3, AddsOne
  <2> QED BY <1>1, <2>4
<1>8. CASE i.op = "BR"
  <2>1. out.instrs = <<Ins("JMP", Lowered(i.lhs), MNONE)>>
    BY <1>8 DEF LowerInstruction, Comparisons, Emit
  <2>2. MayFollow(n, Ins("JMP", Lowered(i.lhs), MNONE), 0, 0)
    BY <1>3, <1>5, MayJump
  <2>3. Adds(n, out.instrs, 0, 0)
    BY <2>1, <2>2, AddsOne
  <2> QED BY <1>1, <2>3
<1>9. CASE i.op = "CBR"
  <2>1. PICK j : j = JumpOf[cmps[ValueNumber(i.res)]]
    OBVIOUS
  <2>2. out.instrs = << Ins(j, Lowered(i.lhs), MNONE), Ins("JMP", Lowered(i.rhs), MNONE) >>
    BY <1>9, <2>1 DEF LowerInstruction, Comparisons, ConditionalBranch, Emit
  <2>3. j \in ConditionalJumps
    <3>1. cmps[ValueNumber(i.res)] \in Comparisons
      BY <1>9 DEF Unbranchable
    <3>2. \A c \in Comparisons : JumpOf[c] \in ConditionalJumps
      BY DEF Comparisons, JumpOf, ConditionalJumps
    <3> QED BY <2>1, <3>1, <3>2
  <2>4. MayFollow(n, Ins(j, Lowered(i.lhs), MNONE), 0, 0)
    BY <1>3, <1>5, <2>3, MayJump
  <2>5. MayFollow(n, Ins("JMP", Lowered(i.rhs), MNONE), 0, 0)
    BY <1>3, <1>5, MayJump
  <2>6. Adds(n, out.instrs, 0, 0)
    BY <2>2, <2>4, <2>5, AddsTwo
  <2> QED BY <1>1, <2>6
<1>10. CASE i.op = "RET"
  <2>1. out = Return(i, have)
    BY <1>10 DEF LowerInstruction, Comparisons
  <2>2. out.instrs = << Ins("MOV", Pin(have, 1), Lowered(i.lhs)), Ins("RET", MNONE, Lowered(i.lhs)) >>
    BY <2>1 DEF Return, Emit
  <2>3. Len(out.pins) = 1
    <3>1. out.pins = <<RAX>>
      BY <2>1 DEF Return, Emit
    <3>2. \A x : Len(<<x>>) = 1
      OBVIOUS
    <3> QED BY <3>1, <3>2
  <2>4. RegistersIn(n, Pin(have, 1)) /\ Pin(have, 1).kind = "VREG"
    <3>1. fct.values + Len(have) + 1 <= n
      BY <1>1, <2>3
    <3> QED BY <3>1, PinNamed
  <2>5. MayFollow(n, Ins("MOV", Pin(have, 1), Lowered(i.lhs)), 0, 0)
    BY <1>3, <2>4, MayMove
  <2>6. MayFollow(n, Ins("RET", MNONE, Lowered(i.lhs)), 0, 0)
    BY <1>3, <1>5, MayJump
  <2>7. Adds(n, out.instrs, 0, 0)
    BY <2>2, <2>5, <2>6, AddsTwo
  <2> QED BY <1>1, <2>7
<1>11. CASE i.op = "CALL"
  <2>1. out = CallSequence(i, have)
    BY <1>11 DEF LowerInstruction, Comparisons
  <2>2. Adds(n, out.instrs, 0, 0)
    BY <1>1, <1>11, <2>1, CallShaped
  <2> QED BY <1>1, <2>2
<1> QED BY <1>6, <1>7, <1>8, <1>9, <1>10, <1>11 DEF IsInstruction, Terminators

-----------------------------------------------------------------------------
(* The code of a block; at least m registers were fixed when it was begun. *)
Good(m, st) ==
  /\ IsLowering(st)
  /\ m <= Len(st.pins)
  /\ ~st.failed => Shaped(fct.values + Len(st.pins), st.code, 0)

LEMMA NextShaped ==
  ASSUME fct.values \in Nat, NEW m \in Nat, NEW st, Good(m, st),
         NEW i, IsInstruction(i), NamesValues(fct, i)
  PROVE  Good(m, LowerNext(st, i))
<1>0. IsLowering(st) /\ m <= Len(st.pins) /\ (~st.failed => Shaped(fct.values + Len(st.pins), st.code, 0))
  BY DEF Good
<1>1. CASE st.failed \/ Unbranchable(i, st.cmps)
  <2>1. LowerNext(st, i) = [st EXCEPT !.failed = TRUE]
    BY <1>1 DEF LowerNext
  <2>2. IsLowering(LowerNext(st, i)) /\ LowerNext(st, i).failed /\ LowerNext(st, i).pins = st.pins
    BY <1>0, <2>1 DEF IsLowering
  <2> QED BY <1>0, <2>2 DEF Good
<1>2. CASE ~(st.failed \/ Unbranchable(i, st.cmps))
  <2>1. PICK out : out = LowerInstruction(i, st.pins, st.cmps) /\ out.pins \in Seq(PinRegs)
    BY <1>0, <1>2, InstructionLowers DEF IsLowering
  <2>2. PICK n : n = LowerNext(st, i)
    OBVIOUS
  <2>3. n = [st EXCEPT !.code = st.code \o out.instrs, !.pins = st.pins \o out.pins, !.cmps = Recorded(st.cmps, i)]
    BY <1>2, <2>1, <2>2 DEF LowerNext
  <2>4. PICK h \in Nat, t \in Nat : h = Len(st.pins) /\ t = Len(out.pins)
    BY <1>0, <2>1 DEF IsLowering
  <2>5. st.pins \o out.pins \in Seq(PinRegs) /\ Len(st.pins \o out.pins) = h + t
    <3>1. st.pins \in Seq(PinRegs)
      BY <1>0 DEF IsLowering
    <3>2. Len(st.pins \o out.pins) = Len(st.pins) + Len(out.pins) /\ st.pins \o out.pins \in Seq(PinRegs)
      BY ONLY <2>1, <3>1, ConcatProperties
    <3> QED BY ONLY <2>4, <3>2
  <2>6. \A v \in DOMAIN Recorded(st.cmps, i) : Recorded(st.cmps, i)[v] \in Comparisons
    BY <1>0 DEF IsLowering, Recorded
  <2>7. PICK ps, cs, co : ps = st.pins \o out.pins /\ cs = Recorded(st.cmps, i) /\ co = st.code \o out.instrs
    OBVIOUS
  <2>8. n.code = co /\ n.pins = ps /\ n.failed = st.failed /\ IsLowering(n)
    <3>1. n = [st EXCEPT !.code = co, !.pins = ps, !.cmps = cs]
      BY ONLY <2>3, <2>7
    <3>2. DOMAIN st = {"code", "pins", "cmps", "failed"} /\ st.failed \in BOOLEAN
      BY <1>0 DEF IsLowering
    <3>3. n.code = co /\ n.pins = ps /\ n.cmps = cs /\ n.failed = st.failed /\ DOMAIN n = DOMAIN st
      BY ONLY <3>1, <3>2
    <3>4. ps \in Seq(PinRegs) /\ \A v \in DOMAIN cs : cs[v] \in Comparisons
      BY ONLY <2>5, <2>6, <2>7
    <3> QED BY ONLY <3>2, <3>3, <3>4 DEF IsLowering
  <2>9. PICK v \in Nat : v = fct.values
    OBVIOUS
  <2>10. Adds(v + h + t, out.instrs, 0, 0)
    <3>1. Len(st.pins) \in Nat /\ Len(out.pins) \in Nat
      BY <2>4
    <3>2. \A x \in DOMAIN st.cmps : st.cmps[x] \in Comparisons
      BY <1>0 DEF IsLowering
    <3>3. Adds(fct.values + Len(st.pins) + Len(out.pins), out.instrs, 0, 0)
      BY <1>2, <2>1, <3>1, <3>2, InstructionShaped
    <3> QED BY ONLY <2>4, <2>9, <3>3
  <2>11. Shaped(v + h, st.code, 0)
    BY <1>0, <1>2, <2>4, <2>9
  <2>12. v + h \in Nat /\ v + h + t \in Nat /\ v + h <= v + h + t /\ v + h + t = v + (h + t)
    <3>1. v \in Nat /\ h \in Nat /\ t \in Nat
      OBVIOUS
    <3> QED BY ONLY <3>1
  <2>13. Shaped(v + h + t, st.code, 0)
    BY <2>11, <2>12, ShapedMore
  <2>14. Shaped(v + h + t, co, 0)
    BY <2>7, <2>10, <2>13 DEF Adds
  <2>15. Len(n.pins) = h + t
    BY ONLY <2>5, <2>7, <2>8
  <2>16. Shaped(fct.values + Len(n.pins), n.code, 0)
    BY ONLY <2>8, <2>9, <2>12, <2>14, <2>15
  <2>17. m <= h + t
    <3>1. m <= Len(st.pins)
      BY <1>0
    <3>2. m <= h
      BY ONLY <2>4, <3>1
    <3>3. m \in Nat /\ h \in Nat /\ t \in Nat
      OBVIOUS
    <3> QED BY ONLY <3>2, <3>3
  <2>18. Good(m, n)
    BY ONLY <2>8, <2>15, <2>16, <2>17 DEF Good
  <2> QED BY ONLY <2>2, <2>18
<1> QED BY <1>1, <1>2

LEMMA NamedInOneSet ==
  ASSUME NEW f, NEW c, NamesIn(f, c), NEW d, NamesIn(f, d)
  PROVE  \E S : /\ c \in Seq(S) /\ d \in Seq(S) /\ S # {}
                /\ \A x \in S : IsInstruction(x) /\ NamesValues(f, x)
<1> DEFINE S == {x \in {RetInstr(NONE)} \cup {c[k] : k \in DOMAIN c} \cup {d[k] : k \in DOMAIN d} :
                   IsInstruction(x) /\ NamesValues(f, x)}
<1>1. RetInstr(NONE) \in S
  <2>1. PICK r : r = RetInstr(NONE)
    OBVIOUS
  <2>2. /\ r.op = "RET" /\ DOMAIN r = {"op", "res", "lhs", "rhs", "args"} /\ DOMAIN r.args = {}
        /\ r.res.kind = "NONE" /\ r.lhs.kind = "NONE" /\ r.rhs.kind = "NONE"
    BY <2>1 DEF RetInstr, Instr, NONE
  <2>3. IsInstruction(r) /\ NamesValues(f, r)
    BY <2>2 DEF IsInstruction, Terminators, NamesValues, IsValue
  <2> QED BY <2>1, <2>3
<1>2. ASSUME NEW e, e = c \/ e = d PROVE e \in Seq(S)
  <2>1. NamesIn(f, e)
    BY <1>2
  <2>2. Len(e) \in Nat /\ e \in [1 .. Len(e) -> {e[k] : k \in DOMAIN e}]
    BY <2>1 DEF NamesIn, IsSeq
  <2>3. \A k \in 1 .. Len(e) : e[k] \in S
    <3>1. DOMAIN e = 1 .. Len(e)
      BY <2>2
    <3>2. \A k \in DOMAIN e : IsInstruction(e[k]) /\ NamesValues(f, e[k])
      BY <2>1 DEF NamesIn
    <3> QED BY <1>2, <3>1, <3>2
  <2> HIDE DEF S
  <2>4. e \in [1 .. Len(e) -> S]
    BY <2>2, <2>3
  <2>5. PICK l \in Nat : l = Len(e)
    BY <2>2
  <2>6. e \in [1 .. l -> S]
    BY ONLY <2>4, <2>5
  <2> QED BY <2>6, FunctionIsSequence
<1>3. \A x \in S : IsInstruction(x) /\ NamesValues(f, x)
  OBVIOUS
<1> HIDE DEF S
<1> QED BY <1>1, <1>2, <1>3

LEMMA AllShaped ==
  ASSUME fct.values \in Nat, NEW m \in Nat, NEW st, Good(m, st),
         NEW S, \A x \in S : IsInstruction(x) /\ NamesValues(fct, x), NEW c \in Seq(S)
  PROVE  Good(m, LowerAll(st, c))
<1> DEFINE T == {d \in Seq(S) : Good(m, LowerAll(st, d))}
<1>1. << >> \in T
  <2>1. << >> \in Seq(S)
    OBVIOUS
  <2> QED BY <2>1, LowerEmpty
<1>2. ASSUME NEW d \in Seq(S), NEW x \in S, d \in T PROVE Append(d, x) \in T
  <2>1. Good(m, LowerAll(st, d))
    BY <1>2
  <2>2. Append(d, x) \in Seq(S)
    BY AppendFacts
  <2>3. LowerAll(st, Append(d, x)) = LowerNext(LowerAll(st, d), x)
    BY LowerAppend
  <2>4. Good(m, LowerNext(LowerAll(st, d), x))
    BY <2>1, NextShaped
  <2> QED BY <2>2, <2>3, <2>4
<1> HIDE DEF T
<1>3. c \in T
  BY <1>1, <1>2, SequencesFromEmpty
<1> QED BY <1>3 DEF T

LEMMA WithCopiesIsSeq ==
  ASSUME NEW S, S # {}, NEW c \in Seq(S), NEW copies \in Seq(S)
  PROVE  WithCopies(c, copies) \in Seq(S)
<1>1. PICK x : x \in S
  OBVIOUS
<1> QED BY <1>1, CopiesAppend

LEMMA BlockShaped ==
  ASSUME IsLowerable(fct), NEW b \in DOMAIN fct.blocks, NEW m \in Nat, NEW st, Good(m, st)
  PROVE  Good(m, LowerAll(st, WithPhiCopies(b)))
<1>1. PICK J, copies : J = fct.blocks[b].instrs /\ copies = PhiCopies(b)
  OBVIOUS
<1>2. NamesIn(fct, copies)
  BY <1>1, PhiCopiesNameValues
<1>3. NamesIn(fct, J)
  <2>1. IsSeq(J)
    BY <1>1, LowerableFacts
  <2>2. \A k \in DOMAIN J : IsInstruction(J[k]) /\ NamesValues(fct, J[k])
    BY <1>1 DEF IsLowerable
  <2> QED BY <2>1, <2>2 DEF NamesIn
<1>4. PICK S : /\ J \in Seq(S) /\ copies \in Seq(S) /\ S # {}
               /\ \A x \in S : IsInstruction(x) /\ NamesValues(fct, x)
  BY <1>2, <1>3, NamedInOneSet
<1>5. WithCopies(J, copies) \in Seq(S)
  BY <1>4, WithCopiesIsSeq
<1>6. fct.values \in Nat
  BY LowerableFacts
<1>7. Good(m, LowerAll(st, WithCopies(J, copies)))
  BY <1>4, <1>5, <1>6, AllShaped
<1>8. WithPhiCopies(b) = WithCopies(J, copies)
  BY <1>1 DEF WithPhiCopies
<1> QED BY ONLY <1>7, <1>8

-----------------------------------------------------------------------------
(* The shape of what is lowered and of the blocks in hand.                 *)
EveryFunctionLowered == \A k \in DOMAIN lowered : IsLowered(lowered[k].body)

BlocksShaped(f, o, c, ps) == \A k \in 1 .. Len(o) : Shaped(f.values + Len(ps), c[o[k]], 0)

ShapeInv ==
  /\ \A k \in 1 .. Len(lowered) : IsLowered(lowered[k].body)
  /\ stage = "blocks" => BlocksShaped(mod[Len(lowered) + 1], order, code, pins)

LEMMA FunctionInHand ==
  ASSUME LoweringInv, Len(lowered) < Len(mod)
  PROVE  fct = mod[Len(lowered) + 1] /\ IsLowerable(fct) /\ fct.values \in Nat
<1>1. Len(lowered) + 1 \in 1 .. Len(mod)
  BY ModuleFacts
<1>2. fct = mod[Len(lowered) + 1]
  BY DEF fct
<1>3. IsLowerable(fct)
  BY <1>1, <1>2, ModuleFacts
<1> QED BY <1>2, <1>3, LowerableFacts

LEMMA ParametersShaped ==
  ASSUME IsLowerable(fct)
  PROVE  Shaped(fct.values + Len(SubSeq(IntArgRegs, 1, InRegisters(Len(fct.args)))), ParameterMoves, 0)
<1>1. PICK n \in Nat : n = Len(fct.args) /\ DOMAIN fct.args = 1 .. n
  BY LowerableFacts
<1>2. PICK v \in Nat : v = fct.values
  BY LowerableFacts
<1>3. PICK r \in Nat : r = InRegisters(n) /\ (\A k \in 1 .. n : k <= 6 => k <= r) /\ Len(IntArgRegs) = 6
  <2>1. Len(IntArgRegs) = 6
    BY DEF IntArgRegs
  <2>2. InRegisters(n) \in Nat /\ (\A k \in 1 .. n : k <= 6 => k <= InRegisters(n))
    BY <2>1 DEF InRegisters
  <2> QED BY <2>1, <2>2
<1>4. Len(SubSeq(IntArgRegs, 1, InRegisters(Len(fct.args)))) = r
  BY <1>1, <1>3, ArgumentPinsLength
<1>5. PICK c : c = ParameterMoves
  OBVIOUS
<1>6. c = [k \in 1 .. n |-> Ins("MOV", VREG(fct.args[k]),
                               IF k <= Len(IntArgRegs) THEN Pin(<< >>, k) ELSE ParameterPlace(k))]
  BY <1>1, <1>5 DEF ParameterMoves
<1>7. ASSUME NEW k \in 1 .. n PROVE MayFollow(v + r, c[k], 0, 0)
  <2>1. PICK x, y : /\ x = VREG(fct.args[k])
                    /\ y = IF k <= Len(IntArgRegs) THEN Pin(<< >>, k) ELSE ParameterPlace(k)
    OBVIOUS
  <2>2. c[k] = Ins("MOV", x, y)
    BY <1>6, <2>1
  <2>3. fct.args[k] \in 1 .. v
    <3>1. fct.args \in Seq(1 .. fct.values)
      BY DEF IsLowerable
    <3>2. fct.args \in Seq(1 .. v) /\ k \in 1 .. Len(fct.args)
      BY ONLY <1>1, <1>2, <1>7, <3>1
    <3> QED BY ONLY <3>2
  <2>4. v + r \in Nat /\ v <= v + r
    OBVIOUS
  <2>5. x.kind = "VREG" /\ RegistersIn(v + r, x)
    <3>1. x.kind = "VREG" /\ x.n = fct.args[k]
      BY <2>1 DEF VREG
    <3>2. VregsIn(x) = {fct.args[k]}
      BY <3>1 DEF VregsIn
    <3>3. fct.args[k] \in 1 .. v + r
      BY <2>3, <2>4
    <3> QED BY <3>1, <3>2, <3>3 DEF RegistersIn
  <2>6. RegistersIn(v + r, y)
    <3>1. CASE k <= 6
      <4>1. y = Pin(<< >>, k)
        BY <1>3, <2>1, <3>1
      <4>2. PICK e : e = << >>
        OBVIOUS
      <4>3. Len(e) = 0 /\ Len(e) \in Nat
        BY <4>2
      <4>4. k <= r
        BY <1>3, <3>1
      <4>5. v + 0 + k <= v + r /\ k \in Nat \ {0}
        BY <4>4
      <4>6. fct.values + Len(e) + k <= v + r
        BY ONLY <1>2, <4>3, <4>5
      <4>7. RegistersIn(v + r, Pin(e, k))
        BY <1>2, <2>4, <4>3, <4>5, <4>6, PinNamed
      <4> QED BY ONLY <4>1, <4>2, <4>7
    <3>2. CASE ~(k <= 6)
      <4>1. y = ParameterPlace(k)
        BY <1>3, <2>1, <3>2
      <4>2. y.kind = "MEM"
        BY <4>1 DEF ParameterPlace, MEM
      <4>3. VregsIn(y) = {}
        BY <4>2 DEF VregsIn
      <4> QED BY <4>3 DEF RegistersIn
    <3> QED BY <3>1, <3>2
  <2> QED BY <2>2, <2>5, <2>6, MayMove
<1>8. Adds(v + r, c, 0, 0)
  <2>1. c = [k \in 1 .. n |-> c[k]]
    BY <1>6
  <2> QED BY <1>7, <2>1, AddsAll
<1>9. Shaped(v + r, << >> \o c, 0)
  BY <1>8, ShapedNothing DEF Adds
<1>10. << >> \o c = c
  <2>1. PICK S : c \in Seq(S)
    BY <1>8 DEF Adds, IsSeq
  <2> QED BY <2>1, ConcatEmptySeq
<1> QED BY ONLY <1>2, <1>4, <1>5, <1>9, <1>10

LEMMA StartShaped ==
  ASSUME LoweringInv, ShapeInv, StartFunction
  PROVE  ShapeInv'
<1>1. Len(lowered) < Len(mod)
  BY DEF StartFunction
<1>2. fct = mod[Len(lowered) + 1] /\ IsLowerable(fct)
  BY <1>1, FunctionInHand
<1>3. PICK o, c, d, ps : o = order' /\ c = ParameterMoves /\ d = code' /\ ps = pins'
  OBVIOUS
<1>4. d = [b \in ToSet(o) |-> IF b = 1 THEN c ELSE << >>] /\ ps = SubSeq(IntArgRegs, 1, InRegisters(Len(fct.args)))
  BY <1>3 DEF StartFunction
<1>5. Shaped(fct.values + Len(ps), c, 0) /\ Shaped(fct.values + Len(ps), << >>, 0)
  BY <1>2, <1>3, <1>4, ParametersShaped, ShapedNothing
<1>6. IsOrder(fct.blocks, o)
  BY <1>2, <1>3, LowerableFacts, LoweringOrderWalks DEF StartFunction
<1>7. \A k \in 1 .. Len(o) : o[k] \in ToSet(o)
  BY <1>6, ElementsOf DEF IsOrder
<1>8. \A k \in 1 .. Len(o) : Shaped(fct.values + Len(ps), d[o[k]], 0)
  BY <1>4, <1>5, <1>7
<1>9. BlocksShaped(mod[Len(lowered) + 1], o, d, ps)
  BY ONLY <1>2, <1>8 DEF BlocksShaped
<1>10. UNCHANGED <<mod, lowered>>
  BY DEF StartFunction
<1> QED BY ONLY ShapeInv, <1>3, <1>9, <1>10 DEF ShapeInv

LEMMA LowerBlockShaped ==
  ASSUME LoweringInv, ShapeInv, LowerBlock
  PROVE  ShapeInv'
<1>1. Len(lowered) < Len(mod) /\ InHand(mod[Len(lowered) + 1], order, place, code)
  BY DEF LoweringInv, LowerBlock
<1>2. fct = mod[Len(lowered) + 1] /\ IsLowerable(fct) /\ fct.values \in Nat
  BY <1>1, FunctionInHand
<1>3. PICK f, o, p, c, d, ps, qs :
        f = mod[Len(lowered) + 1] /\ o = order /\ p = place + 1 /\ c = code /\ d = code' /\ ps = pins /\ qs = pins'
  OBVIOUS
<1>4. o \in Seq(DOMAIN f.blocks) /\ Distinct(o) /\ DOMAIN c = ToSet(o) /\ p \in 1 .. Len(o)
  <2>1. InHand(f, o, place, c)
    BY <1>1, <1>3
  <2>2. o \in Seq(DOMAIN f.blocks) /\ Distinct(o) /\ DOMAIN c = ToSet(o) /\ place \in 0 .. Len(o)
    BY <2>1 DEF InHand, IsOrder
  <2>3. place < Len(o)
    BY <1>3 DEF LowerBlock
  <2>4. p \in 1 .. Len(o)
    BY <1>3, <2>2, <2>3
  <2> QED BY <2>2, <2>4
<1>5. PICK b : b = o[p] /\ b \in DOMAIN f.blocks /\ b \in ToSet(o)
  BY <1>4, ElementsOf
<1>6. PICK v \in Nat, m \in Nat : v = f.values /\ m = Len(ps)
  BY <1>2, <1>3 DEF LoweringInv
<1>7. PICK start : start = [code |-> c[b], pins |-> ps, cmps |-> m_cmps, failed |-> FALSE]
  OBVIOUS
<1>8. \A k \in 1 .. Len(o) : Shaped(v + m, c[o[k]], 0)
  <2>1. BlocksShaped(f, o, c, ps)
    BY <1>3 DEF ShapeInv, LowerBlock
  <2> QED BY ONLY <1>6, <2>1 DEF BlocksShaped
<1>9. Good(m, start)
  <2>1. DOMAIN start = {"code", "pins", "cmps", "failed"}
    BY <1>7
  <2>2. start.code = c[b] /\ start.pins = ps /\ start.cmps = m_cmps /\ start.failed = FALSE
    BY <1>7
  <2>3. IsLowering(start)
    BY <1>3, <2>1, <2>2 DEF IsLowering, LoweringInv
  <2>4. Shaped(fct.values + Len(start.pins), start.code, 0)
    <3>1. fct.values = v /\ Len(start.pins) = m /\ start.code = c[o[p]]
      BY ONLY <1>2, <1>3, <1>5, <1>6, <2>2
    <3>2. Shaped(v + m, c[o[p]], 0)
      BY <1>4, <1>8
    <3> QED BY ONLY <3>1, <3>2
  <2>5. m <= Len(start.pins)
    BY <1>6, <2>2
  <2> QED BY ONLY <2>3, <2>4, <2>5 DEF Good
<1>10. PICK end : /\ end = LowerAll(start, WithPhiCopies(b))
                  /\ d = [c EXCEPT ![b] = end.code]
                  /\ qs = end.pins
                  /\ stage' = IF end.failed THEN "rejected" ELSE stage
  BY <1>3, <1>5, <1>7 DEF LowerBlock
<1>11. Good(m, end)
  BY <1>2, <1>3, <1>5, <1>9, <1>10, BlockShaped
<1>12. ASSUME stage' = "blocks" PROVE BlocksShaped(f, o, d, qs)
  <2>1. ~end.failed
    BY <1>10, <1>12
  <2>2. PICK l \in Nat : l = Len(qs) /\ m <= l
    BY <1>10, <1>11 DEF Good, IsLowering
  <2>3. Shaped(v + l, end.code, 0)
    <3>1. Shaped(fct.values + Len(end.pins), end.code, 0)
      BY <1>11, <2>1 DEF Good
    <3> QED BY ONLY <1>2, <1>3, <1>6, <1>10, <2>2, <3>1
  <2>4. v + m \in Nat /\ v + l \in Nat /\ v + m <= v + l
    BY <2>2
  <2>5. ASSUME NEW k \in 1 .. Len(o) PROVE Shaped(v + l, d[o[k]], 0)
    <3>1. o[k] \in ToSet(o)
      BY <1>4, ElementsOf
    <3>2. CASE o[k] = b
      <4>1. d[o[k]] = end.code
        BY <1>4, <1>5, <1>10, <3>2
      <4> QED BY <2>3, <4>1
    <3>3. CASE o[k] # b
      <4>1. d[o[k]] = c[o[k]]
        BY <1>4, <1>10, <3>1, <3>3
      <4>2. Shaped(v + m, c[o[k]], 0)
        BY <1>8
      <4>3. Shaped(v + l, c[o[k]], 0)
        BY <2>4, <4>2, ShapedMore
      <4> QED BY <4>1, <4>3
    <3> QED BY <3>2, <3>3
  <2> QED BY ONLY <1>6, <2>2, <2>5 DEF BlocksShaped
<1>13. UNCHANGED <<mod, lowered, order>>
  BY DEF LowerBlock
<1> QED BY ONLY ShapeInv, <1>3, <1>12, <1>13 DEF ShapeInv

BlockFits(bs, ds, b) ==
  LET instrs == bs[b].instrs
  IN  /\ DOMAIN bs[b] = {"instrs", "succs"} /\ bs[b].succs \subseteq DOMAIN bs
      /\ instrs \in Seq({instrs[j] : j \in DOMAIN instrs})
      /\ \A j \in DOMAIN instrs :
           /\ VregsIn(instrs[j].dst) \cup VregsIn(instrs[j].src) \subseteq DOMAIN ds
           /\ {ArgBytes(instrs, j - 1), ArgBytes(instrs, j)} \subseteq Nat
           /\ WrittenAt(instrs[j], ArgBytes(instrs, j - 1), ArgBytes(instrs, j))
      /\ ArgBytes(instrs, Len(instrs)) = 0
BlocksFit(bs, ds) == \A b \in DOMAIN bs : BlockFits(bs, ds, b)

LEMMA FunctionIsLowered ==
  ASSUME LoweringInv, ShapeInv, FinishFunction
  PROVE  IsLowered(MachineFunction)
<1>1. Len(lowered) < Len(mod) /\ InHand(mod[Len(lowered) + 1], order, place, code)
  BY DEF LoweringInv, FinishFunction
<1>2. fct = mod[Len(lowered) + 1] /\ IsLowerable(fct) /\ fct.values \in Nat
  BY <1>1, FunctionInHand
<1>3. PICK v \in Nat, n \in Nat, t \in Nat : v = fct.values /\ n = Len(order) /\ t = Len(pins)
  BY <1>1, <1>2 DEF InHand, IsOrder, LoweringInv
<1>4. DOMAIN order = 1 .. n /\ order \in Seq(DOMAIN fct.blocks) /\ n # 0
  <2>1. order \in Seq(DOMAIN fct.blocks) /\ 1 \in ToSet(order)
    BY <1>1, <1>2 DEF InHand, IsOrder
  <2>2. PICK k \in 1 .. Len(order) : order[k] = 1
    BY <2>1, ElementsOf
  <2> QED BY <1>3, <2>1, <2>2
<1>5. \A k \in 1 .. t : pins[k] \in CallerSavedRegs /\ pins[k] \in GeneralRegs
  <2>1. PinRegs \subseteq CallerSavedRegs
    BY GeneralAssumption DEF PinRegs
  <2> QED BY <1>3, <2>1, PinsAreGeneral DEF LoweringInv
<1>6. PICK bs, ds, xs :
        /\ bs = [k \in DOMAIN order |->
                   [instrs |-> code[order[k]],
                    succs |-> {PlaceOf(b) : b \in {c \in ToSet(order) : order[k] \in fct.blocks[c].preds}}]]
        /\ ds = [x \in 1 .. fct.values + Len(pins) |->
                   IF x <= fct.values THEN GeneralRegs ELSE {pins[x - fct.values]}]
        /\ xs = fct.values + 1 .. fct.values + Len(pins)
  OBVIOUS
<1>7. PICK body : body = [blocks |-> bs, domain |-> ds, fixed |-> xs] /\ body = MachineFunction
  BY ONLY <1>6 DEF MachineFunction
<1>8. body.blocks = bs /\ body.domain = ds /\ body.fixed = xs /\ DOMAIN body = {"blocks", "domain", "fixed"}
  BY ONLY <1>7
<1>9. /\ ds = [x \in 1 .. v + t |-> IF x <= v THEN GeneralRegs ELSE {pins[x - v]}]
      /\ xs = v + 1 .. v + t
  BY ONLY <1>3, <1>6
<1>10. ds \in [DOMAIN ds -> SUBSET GeneralRegs] /\ DOMAIN ds = 1 .. v + t
  <2>1. ASSUME NEW x \in 1 .. v + t PROVE ds[x] \in SUBSET GeneralRegs
    <3>1. CASE x <= v
      BY <1>9, <3>1
    <3>2. CASE ~(x <= v)
      <4>1. x - v \in 1 .. t
        BY <3>2
      <4> QED BY <1>5, <1>9, <3>2, <4>1
    <3> QED BY <3>1, <3>2
  <2> QED BY <1>9, <2>1
<1>11. \A x \in xs : \E r \in CallerSavedRegs : x \in DOMAIN ds /\ ds[x] = {r}
  <2> SUFFICES ASSUME NEW x \in v + 1 .. v + t
               PROVE  \E r \in CallerSavedRegs : x \in DOMAIN ds /\ ds[x] = {r}
    BY <1>9
  <2>1. x - v \in 1 .. t /\ ~(x <= v) /\ x \in 1 .. v + t
    OBVIOUS
  <2>2. ds[x] = {pins[x - v]}
    BY <1>9, <2>1
  <2> QED BY <1>5, <1>10, <2>1, <2>2
<1>12. DOMAIN bs = 1 .. n /\ bs = [k \in 1 .. n |-> bs[k]]
  BY <1>4, <1>6
<1>13. IsSeq(bs) /\ bs # << >>
  <2>1. IsSeq(bs) /\ Len(bs) = n
    BY <1>12, IsSeqFunction
  <2>2. 1 \in DOMAIN bs
    BY <1>4, <1>12
  <2>3. DOMAIN << >> = {}
    OBVIOUS
  <2> QED BY <2>1, <2>2, <2>3
<1>14. ASSUME NEW k \in 1 .. n PROVE BlockFits(bs, ds, k)
  <2>1. PICK c, s : /\ c = code[order[k]]
                    /\ s = {PlaceOf(b) : b \in {a \in ToSet(order) : order[k] \in fct.blocks[a].preds}}
    OBVIOUS
  <2>2. bs[k] = [instrs |-> c, succs |-> s]
    BY <1>4, <1>6, <2>1
  <2>3. DOMAIN bs[k] = {"instrs", "succs"} /\ bs[k].instrs = c /\ bs[k].succs = s
    BY <2>2
  <2>4. s \subseteq 1 .. n
    <3>1. ASSUME NEW b \in ToSet(order) PROVE PlaceOf(b) \in 1 .. n
      <4>1. PICK j \in 1 .. Len(order) : order[j] = b
        BY <1>4, ElementsOf
      <4> QED BY <1>3, <1>4, <4>1 DEF PlaceOf
    <3> QED BY <2>1, <3>1
  <2>5. Shaped(v + t, c, 0)
    <3>1. BlocksShaped(fct, order, code, pins)
      BY <1>2 DEF ShapeInv, FinishFunction
    <3>2. k \in 1 .. Len(order)
      BY <1>3
    <3>3. Shaped(fct.values + Len(pins), code[order[k]], 0)
      BY <3>1, <3>2 DEF BlocksShaped
    <3> QED BY ONLY <1>3, <2>1, <3>3
  <2>6. IsSeq(c) /\ ArgBytes(c, Len(c)) = 0 /\ \A j \in 1 .. Len(c) : Follows(c, v + t, j)
    BY <2>5 DEF Shaped
  <2>7. DOMAIN c = 1 .. Len(c)
    BY <2>6 DEF IsSeq
  <2>8. ASSUME NEW j \in DOMAIN c
        PROVE  /\ VregsIn(c[j].dst) \cup VregsIn(c[j].src) \subseteq DOMAIN ds
               /\ {ArgBytes(c, j - 1), ArgBytes(c, j)} \subseteq Nat
               /\ WrittenAt(c[j], ArgBytes(c, j - 1), ArgBytes(c, j))
    <3>1. Follows(c, v + t, j)
      BY <2>6, <2>7
    <3> QED BY <1>10, <3>1 DEF Follows, Names
  <2>9. c \in Seq({c[j] : j \in DOMAIN c})
    BY <2>6 DEF IsSeq
  <2> QED BY ONLY <1>12, <2>3, <2>4, <2>6, <2>8, <2>9 DEF BlockFits
<1>15. bs \in Seq({bs[k] : k \in DOMAIN bs})
  BY <1>13 DEF IsSeq
<1>16. BlocksFit(bs, ds)
  BY <1>12, <1>14 DEF BlocksFit
<1>17. IsLowered(body)
  <2>1. body.domain \in [DOMAIN body.domain -> SUBSET GeneralRegs]
    BY ONLY <1>8, <1>10
  <2>2. \A x \in body.fixed : \E r \in CallerSavedRegs : x \in DOMAIN body.domain /\ body.domain[x] = {r}
    BY ONLY <1>8, <1>11
  <2>3. body.blocks \in Seq({body.blocks[b] : b \in DOMAIN body.blocks}) /\ body.blocks # << >>
    BY ONLY <1>8, <1>13, <1>15
  <2>4. BlocksFit(body.blocks, body.domain)
    BY ONLY <1>8, <1>16
  <2> QED BY ONLY <1>8, <2>1, <2>2, <2>3, <2>4, Zenon DEF BlockFits, BlocksFit, IsLowered
<1> QED BY ONLY <1>7, <1>17

LEMMA FinishShaped ==
  ASSUME LoweringInv, ShapeInv, FinishFunction
  PROVE  ShapeInv'
<1>1. PICK l : l = [body |-> MachineFunction, order |-> order]
  OBVIOUS
<1>2. l.body = MachineFunction
  BY ONLY <1>1
<1>3. IsLowered(l.body)
  BY <1>2, FunctionIsLowered
<1>4. PICK n \in Nat : n = Len(lowered)
  BY ModuleFacts
<1>5. PICK S : lowered \in Seq(S)
  BY DEF LoweringInv, IsSeq
<1>6. PICK a : a = Append(lowered, l)
  OBVIOUS
<1>7. Len(a) = n + 1 /\ a[n + 1] = l /\ \A k \in 1 .. n : a[k] = lowered[k]
  BY ONLY <1>4, <1>5, <1>6
<1>8. \A k \in 1 .. n + 1 : IsLowered(a[k].body)
  <2> TAKE k \in 1 .. n + 1
  <2>1. k = n + 1 \/ k \in 1 .. n
    OBVIOUS
  <2> QED BY <1>3, <1>4, <1>7, <2>1 DEF ShapeInv
<1>9. lowered' = a /\ stage' = "function"
  BY <1>1, <1>6 DEF FinishFunction
<1> QED BY ONLY <1>7, <1>8, <1>9 DEF ShapeInv

LEMMA ShapeKept ==
  ASSUME LoweringInv, ShapeInv, LowerModule \/ UNCHANGED vars
  PROVE  ShapeInv'
<1>1. CASE StartFunction
  BY <1>1, StartShaped
<1>2. CASE LowerBlock
  BY <1>2, LowerBlockShaped
<1>3. CASE FinishFunction
  BY <1>3, FinishShaped
<1>4. CASE Finish
  BY <1>4 DEF Finish, ShapeInv
<1>5. CASE UNCHANGED vars
  BY <1>5 DEF vars, ShapeInv
<1> QED BY <1>1, <1>2, <1>3, <1>4, <1>5 DEF LowerModule

(* The machine code lower hands to allocate, of every function of every    *)
(* module, is what allocate assumes (FunctionsAssumption): every register  *)
(* named has a domain of general registers and every pin is one register a *)
(* call destroys, each block steps only to blocks of the function, every   *)
(* instruction is of a kind allocate knows, arguments of a call are stored *)
(* inside the room made for them and no jump, and no end of a block, leaves *)
(* room behind (X86.cpp:34-343).                                           *)
THEOREM LoweredCodeIsLowered == Spec => []EveryFunctionLowered
<1>1. LowerInit => ShapeInv
  <2> SUFFICES ASSUME LowerInit PROVE ShapeInv
    OBVIOUS
  <2>1. lowered = << >> /\ stage = "function"
    BY DEF LowerInit, Init
  <2>2. Len(lowered) = 0 /\ (\A k \in 1 .. 0 : FALSE)
    BY <2>1
  <2> QED BY <2>1, <2>2 DEF ShapeInv
<1>2. LowerRunInv /\ ShapeInv /\ [Next]_<<vars, rvars>> => ShapeInv'
  <2> SUFFICES ASSUME LowerRunInv, ShapeInv, [Next]_<<vars, rvars>> PROVE ShapeInv'
    OBVIOUS
  <2>1. LowerModule \/ UNCHANGED vars
    BY DEF Next, Compile, Enter, RunBlock
  <2> QED BY <2>1, ShapeKept DEF LowerRunInv
<1>3. LowerRunInv /\ ShapeInv => EveryFunctionLowered
  BY ModuleFacts DEF LowerRunInv, ShapeInv, EveryFunctionLowered
<1> QED BY <1>1, <1>2, <1>3, Invariance, PTL DEF Spec
=============================================================================

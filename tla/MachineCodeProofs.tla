-------------------------- MODULE MachineCodeProofs ----------------------------
(***************************************************************************)
(* What the proofs about the back end share: theorems about the register   *)
(* table, and lemmas about running machine code, for every list of         *)
(* instructions.                                                           *)
(*                                                                         *)
(* A fold over a sequence is defined by a recursive function; from that    *)
(* definition follows what it makes of the empty sequence and of one with  *)
(* an element more, and from these, by induction on the sequence, the      *)
(* rest (Run, FlattenSeq, WithEpilogue).                                   *)
(***************************************************************************)
EXTENDS Cpu, FiniteSetTheorems, SequenceTheorems, WellFoundedInduction, TLAPS

-----------------------------------------------------------------------------
(* The register table: whatever registers are linked with addSubreg, in    *)
(* whatever order, aliasing is seen from both sides, and the families of   *)
(* the table are what Coloring assumes of them.                            *)
IsRegister(x) ==
  x = [id |-> x.id, label |-> x.label, kind |-> x.kind, width |-> x.width, class |-> x.class,
       family |-> x.family, reserved |-> x.reserved, callerSaved |-> x.callerSaved,
       parent |-> x.parent, subregs |-> x.subregs]

(***************************************************************************)
(* One call of addSubreg (X86.hpp:56-59) keeps both directions of the      *)
(* links in agreement, when the part belonged to no register before and    *)
(* no register is its own part.                                            *)
(***************************************************************************)
THEOREM AddSubregKeepsLinks ==
  ASSUME NEW g, NEW r \in DOMAIN g, NEW s \in DOMAIN g, r # s,
         DistinctIds(g), LinksAgree(g),
         \A k \in DOMAIN g : IsRegister(g[k]),
         g[r].id # 0, g[s].parent = 0
  PROVE  LinksAgree(AddSubreg(g, r, s))
PROOF
<1> DEFINE new == AddSubreg(g, r, s)
<1>1. DOMAIN new = DOMAIN g
  BY DEF AddSubreg
<1>2. new[s] = [g[s] EXCEPT !.parent = g[r].id]
  BY DEF AddSubreg
<1>3. new[r] = [g[r] EXCEPT !.subregs = @ \cup {g[s].id}]
  BY DEF AddSubreg
<1>4. \A k \in DOMAIN g \ {r, s} : new[k] = g[k]
  BY DEF AddSubreg
<1>5. \A k \in DOMAIN g : new[k].id = g[k].id
  BY <1>2, <1>3, <1>4 DEF IsRegister
<1>6. \A k \in DOMAIN g : new[k].parent = IF k = s THEN g[r].id ELSE g[k].parent
  BY <1>2, <1>3, <1>4 DEF IsRegister
<1>7. \A k \in DOMAIN g :
        new[k].subregs = IF k = r THEN g[r].subregs \cup {g[s].id} ELSE g[k].subregs
  BY <1>2, <1>3, <1>4 DEF IsRegister
<1> HIDE DEF new
<1>8. ASSUME NEW j \in DOMAIN g, NEW k \in DOMAIN g, g[j].id # 0
      PROVE  g[k].id \in new[j].subregs <=> new[k].parent = g[j].id
  <2>1. CASE k = s
    <3>1. g[s].id \notin g[j].subregs
      BY <1>8 DEF LinksAgree
    <3>2. new[s].parent = g[j].id <=> j = r
      BY <1>6 DEF DistinctIds
    <3> QED  BY <2>1, <3>1, <3>2, <1>7
  <2>2. CASE k # s
    <3>1. g[k].id # g[s].id
      BY <2>2 DEF DistinctIds
    <3>2. g[k].id \in new[j].subregs <=> g[k].id \in g[j].subregs
      BY <3>1, <1>7
    <3> QED  BY <2>2, <3>2, <1>6, <1>8 DEF LinksAgree
  <2> QED  BY <2>1, <2>2
<1> QED  BY <1>1, <1>5, <1>8 DEF LinksAgree, new

(***************************************************************************)
(* The families computed at the end of the constructor (X86.cpp:807-812),  *)
(* cut down to any set of registers: a register is in its own family, and  *)
(* one register is in the family of another exactly when the other is in   *)
(* its own.  This is FamilyAssumption of Coloring.                         *)
(***************************************************************************)
THEOREM FamiliesFitColoring ==
  ASSUME NEW S \in SUBSET (Ids \ {0})
  PROVE  LET F == [r \in S |-> family(r) \cap (S \cup {0})]
         IN  /\ F \in [S -> SUBSET (S \cup {0})]
             /\ \A r \in S : r \in F[r]
             /\ \A r, s \in S : r \in F[s] => s \in F[r]
PROOF
<1> DEFINE F == [r \in S |-> family(r) \cap (S \cup {0})]
<1>1. \A r \in S : r + 1 \in DOMAIN registers /\ registers[r + 1].id = r /\ r # 0
  BY TableAssumption DEF Ids, Room
<1>2. \A r \in S : r \in F[r]
  BY <1>1 DEF family, FamilyIn
<1>3. ASSUME NEW r \in S, NEW s \in S, r \in F[s]
      PROVE  s \in F[r]
  <2>1. r = s \/ r = registers[s + 1].parent \/ r \in registers[s + 1].subregs
    BY <1>1, <1>3 DEF family, FamilyIn
  <2>2. /\ s \in registers[r + 1].subregs <=> registers[s + 1].parent = r
        /\ r \in registers[s + 1].subregs <=> registers[r + 1].parent = s
    BY <1>1, TableAssumption DEF LinksAgree
  <2>3. s \in family(r)
    BY <1>1, <2>1, <2>2 DEF family, FamilyIn
  <2> QED  BY <2>3
<1>4. F \in [S -> SUBSET (S \cup {0})]
  OBVIOUS
<1> QED  BY <1>2, <1>3, <1>4

-----------------------------------------------------------------------------
(* Induction over numbers and over sequences, on sets instead of formulas. *)
LEMMA LeastNumber ==
  ASSUME NEW T, T \subseteq Nat, T # {}
  PROVE  \E n \in T : \A m \in T : n <= m
<1> DEFINE below == {p \in Nat \X Nat : p[1] < p[2]}
<1>1. OpToRel(<, Nat) = below
  BY DEF OpToRel
<1>2. IsWellFoundedOn(below, Nat)
  BY <1>1, NatLessThanWellFounded
<1> HIDE DEF below
<1>3. PICK n \in T : \A m \in T : <<m, n>> \notin below
  BY <1>2, WFMin
<1>4. ASSUME NEW m \in T PROVE n <= m
  <2>1. n \in Nat /\ m \in Nat /\ <<m, n>> \notin below
    BY <1>3
  <2> QED BY <2>1 DEF below
<1> QED BY <1>4

LEMMA NumbersFrom0 ==
  ASSUME NEW T, 0 \in T, \A n \in Nat : n \in T => n + 1 \in T
  PROVE  \A n \in Nat : n \in T
<1> DEFINE Missing == {n \in Nat : n \notin T}
<1> SUFFICES ASSUME Missing # {} PROVE FALSE
  OBVIOUS
<1>1. PICK n \in Missing : \A m \in Missing : n <= m
  <2>1. Missing \subseteq Nat
    OBVIOUS
  <2> HIDE DEF Missing
  <2> QED BY <2>1, LeastNumber
<1>2. n \in Nat /\ n \notin T /\ n # 0 /\ n - 1 \in Nat /\ (n - 1) + 1 = n
  OBVIOUS
<1>3. n - 1 \in Missing /\ ~(n <= n - 1)
  BY <1>2
<1> QED BY <1>1, <1>3

LEMMA SequencesFromEmpty ==
  ASSUME NEW S, NEW T, << >> \in T, \A s \in Seq(S) : \A x \in S : s \in T => Append(s, x) \in T
  PROVE  \A s \in Seq(S) : s \in T
<1> DEFINE N == {n \in Nat : \A s \in Seq(S) : Len(s) = n => s \in T}
<1>1. 0 \in N
  <2>1. \A s \in Seq(S) : Len(s) = 0 => s = << >>
    OBVIOUS
  <2> QED BY <2>1
<1>2. ASSUME NEW n \in Nat, n \in N PROVE n + 1 \in N
  <2>1. ASSUME NEW s \in Seq(S), Len(s) = n + 1 PROVE s \in T
    <3> DEFINE front == SubSeq(s, 1, n)
    <3>1. s[n + 1] \in S
      BY <2>1
    <3>2. front \in Seq(S) /\ Len(front) = n /\ s = Append(front, s[n + 1])
      <4>1. front \in Seq(S) /\ Len(front) = n /\ \A i \in 1 .. n : front[i] = s[i]
        BY <2>1, SubSeqProperties
      <4>2. Len(Append(front, s[n + 1])) = n + 1
        BY <4>1
      <4>3. ASSUME NEW i \in 1 .. n + 1 PROVE Append(front, s[n + 1])[i] = s[i]
        <5> HIDE DEF front
        <5> QED BY <4>1, <3>1
      <4>4. Append(front, s[n + 1]) \in Seq(S)
        BY <4>1, <3>1
      <4> HIDE DEF front
      <4> QED BY <4>1, <4>2, <4>3, <4>4, <2>1, SeqEqual
    <3>3. front \in T
      BY <3>2, <1>2
    <3> HIDE DEF front
    <3> QED BY <3>1, <3>2, <3>3
  <2> QED BY <2>1
<1> HIDE DEF N
<1>3. \A n \in Nat : n \in N
  BY <1>1, <1>2, NumbersFrom0
<1>4. ASSUME NEW s \in Seq(S) PROVE s \in T
  <2>1. Len(s) \in N
    BY <1>3
  <2> QED BY <2>1 DEF N
<1> QED BY <1>4

-----------------------------------------------------------------------------
(* Sequences put together.                                                 *)
LEMMA AppendFacts ==
  ASSUME NEW S, NEW s \in Seq(S), NEW x \in S
  PROVE  Append(s, x) = s \o <<x>> /\ Append(s, x) \in Seq(S) /\ <<x>> \in Seq(S) /\ Append(<< >>, x) = <<x>>
OBVIOUS

LEMMA ConcatAppend ==
  ASSUME NEW S, NEW s \in Seq(S), NEW t \in Seq(S), NEW x \in S
  PROVE  s \o Append(t, x) = Append(s \o t, x)
<1>1. <<x>> \in Seq(S) /\ s \o t \in Seq(S)
  BY ConcatProperties
<1>2. Append(t, x) = t \o <<x>> /\ Append(s \o t, x) = (s \o t) \o <<x>>
  BY <1>1, AppendFacts
<1>3. (s \o t) \o <<x>> = s \o (t \o <<x>>)
  BY <1>1, ConcatAssociative
<1> QED BY <1>2, <1>3

LEMMA FunctionIsSequence ==
  ASSUME NEW n \in Nat, NEW T, NEW f \in [1 .. n -> T]
  PROVE  f \in Seq(T) /\ Len(f) = n /\ DOMAIN f = 1 .. n
<1>1. DOMAIN f = 1 .. n
  OBVIOUS
<1>2. f \in Seq(T)
  BY SeqDef
<1>3. Len(f) \in Nat /\ 1 .. Len(f) = 1 .. n
  BY <1>1, <1>2
<1>4. ASSUME NEW a \in Nat, NEW b \in Nat, 1 .. a = 1 .. b PROVE a <= b
  <2> SUFFICES ASSUME b < a PROVE FALSE
    OBVIOUS
  <2>1. a \in 1 .. a /\ a \notin 1 .. b
    OBVIOUS
  <2> QED BY <2>1, <1>4
<1>5. Len(f) <= n /\ n <= Len(f)
  BY <1>3, <1>4
<1> QED BY <1>1, <1>2, <1>3, <1>5

LEMMA PairIsAppend == \A x, y : Append(<<x>>, y) = <<x, y>>
<1> TAKE x, y
<1>1. <<x>> \in Seq({x, y}) /\ y \in {x, y}
  OBVIOUS
<1>2. PICK s : s = <<x>>
  OBVIOUS
<1>3. s \in Seq({x, y}) /\ Len(s) = 1 /\ s[1] = x
  BY <1>1, <1>2
<1>4. Len(Append(s, y)) = 2 /\ Append(s, y)[1] = x /\ Append(s, y)[2] = y /\ Append(s, y) \in Seq({x, y})
  <2>1. y \in {x, y} /\ 1 \in 1 .. Len(s) /\ Len(s) + 1 = 2
    BY <1>3
  <2>2. Append(s, y) \in Seq({x, y}) /\ Len(Append(s, y)) = Len(s) + 1
    BY <1>3, <2>1, AppendProperties
  <2>3. Append(s, y)[1] = s[1] /\ Append(s, y)[Len(s) + 1] = y
    <3>1. s \in Seq({x, y}) /\ y \in {x, y}
      BY <1>3
    <3>2. (\A k \in 1 .. Len(s) : Append(s, y)[k] = s[k]) /\ Append(s, y)[Len(s) + 1] = y
      BY ONLY <3>1, AppendProperties
    <3> QED BY ONLY <2>1, <3>2
  <2> QED BY ONLY <1>3, <2>1, <2>2, <2>3
<1>5. <<x, y>> \in Seq({x, y}) /\ Len(<<x, y>>) = 2 /\ <<x, y>>[1] = x /\ <<x, y>>[2] = y
  OBVIOUS
<1>6. \A k \in 1 .. 2 : k = 1 \/ k = 2
  OBVIOUS
<1>7. Append(s, y) = <<x, y>>
  BY <1>4, <1>5, <1>6, SeqEqual
<1> QED BY ONLY <1>2, <1>7

(* Sequences, whatever their elements are.                                 *)
IsSeq(c) == c \in Seq({c[k] : k \in DOMAIN c})

LEMMA SeqIsSeq == ASSUME NEW S, NEW c \in Seq(S) PROVE IsSeq(c)
<1> DEFINE E == {c[k] : k \in DOMAIN c}
<1>1. DOMAIN c = 1 .. Len(c) /\ Len(c) \in Nat
  OBVIOUS
<1>2. c = [k \in 1 .. Len(c) |-> c[k]]
  BY <1>1
<1>3. \A k \in 1 .. Len(c) : c[k] \in E
  BY <1>1
<1> HIDE DEF E
<1>4. c \in [1 .. Len(c) -> E]
  BY <1>2, <1>3
<1>5. c \in Seq(E)
  BY <1>1, <1>4, FunctionIsSequence
<1> QED BY <1>5 DEF E, IsSeq

LEMMA IsSeqParts ==
  /\ IsSeq(<< >>)
  /\ \A x : IsSeq(<<x>>)
  /\ \A x, y : IsSeq(<<x, y>>)
  /\ \A c, x : IsSeq(c) => IsSeq(Append(c, x))
  /\ \A a, b : IsSeq(a) /\ IsSeq(b) => IsSeq(a \o b)
<1>1. IsSeq(<< >>)
  <2>1. << >> \in Seq({})
    OBVIOUS
  <2> QED BY <2>1, SeqIsSeq
<1>2. ASSUME NEW x PROVE IsSeq(<<x>>)
  <2>1. <<x>> \in Seq({x})
    OBVIOUS
  <2> QED BY <2>1, SeqIsSeq
<1>3. ASSUME NEW x, NEW y PROVE IsSeq(<<x, y>>)
  <2>1. <<x, y>> \in Seq({x, y})
    OBVIOUS
  <2> QED BY <2>1, SeqIsSeq
<1>4. ASSUME NEW c, NEW x, IsSeq(c) PROVE IsSeq(Append(c, x))
  <2>1. PICK S : c \in Seq(S)
    BY <1>4 DEF IsSeq
  <2>2. c \in Seq(S \cup {x})
    <3>1. Len(c) \in Nat /\ c \in [1 .. Len(c) -> S \cup {x}]
      BY <2>1
    <3> QED BY <3>1, FunctionIsSequence
  <2>3. x \in S \cup {x}
    OBVIOUS
  <2>4. Append(c, x) \in Seq(S \cup {x})
    BY ONLY <2>2, <2>3, AppendFacts
  <2> QED BY <2>4, SeqIsSeq
<1>5. ASSUME NEW a, NEW b, IsSeq(a), IsSeq(b) PROVE IsSeq(a \o b)
  <2>1. PICK S : a \in Seq(S)
    BY <1>5 DEF IsSeq
  <2>2. PICK T : b \in Seq(T)
    BY <1>5 DEF IsSeq
  <2>3. a \in Seq(S \cup T)
    <3>1. Len(a) \in Nat /\ a \in [1 .. Len(a) -> S \cup T]
      BY <2>1
    <3> QED BY <3>1, FunctionIsSequence
  <2>4. b \in Seq(S \cup T)
    <3>1. Len(b) \in Nat /\ b \in [1 .. Len(b) -> S \cup T]
      BY <2>2
    <3> QED BY <3>1, FunctionIsSequence
  <2>5. a \o b \in Seq(S \cup T)
    BY <2>3, <2>4, ConcatProperties
  <2> QED BY <2>5, SeqIsSeq
<1> QED BY <1>1, <1>2, <1>3, <1>4, <1>5

LEMMA IsSeqFunction ==
  ASSUME NEW n \in Nat, NEW c, DOMAIN c = 1 .. n, c = [k \in 1 .. n |-> c[k]]
  PROVE  IsSeq(c) /\ Len(c) = n
<1> DEFINE E == {c[k] : k \in DOMAIN c}
<1>1. c \in [1 .. n -> E]
  OBVIOUS
<1> HIDE DEF E
<1>2. c \in Seq(E) /\ Len(c) = n
  BY <1>1, FunctionIsSequence
<1> QED BY <1>2, SeqIsSeq

LEMMA TwoInOneSet ==
  ASSUME NEW a, NEW b, IsSeq(a), IsSeq(b)
  PROVE  \E S : a \in Seq(S) /\ b \in Seq(S)
<1>1. PICK S : a \in Seq(S)
  BY DEF IsSeq
<1>2. PICK T : b \in Seq(T)
  BY DEF IsSeq
<1>3. a \in Seq(S \cup T)
  <2>1. Len(a) \in Nat /\ a \in [1 .. Len(a) -> S \cup T]
    BY <1>1
  <2> QED BY <2>1, FunctionIsSequence
<1>4. b \in Seq(S \cup T)
  <2>1. Len(b) \in Nat /\ b \in [1 .. Len(b) -> S \cup T]
    BY <1>2
  <2> QED BY <2>1, FunctionIsSequence
<1> QED BY <1>3, <1>4

-----------------------------------------------------------------------------
(* Run, from the function it is defined by.                                *)
RunsFrom(f, st, c, n, h) == h = [k \in 0 .. n |-> IF k = 0 THEN st ELSE Execute(f, h[k - 1], c[k])]

LEMMA RunExists ==
  ASSUME NEW f, NEW st, NEW c, NEW m \in Nat
  PROVE  \E h : RunsFrom(f, st, c, m, h)
<1> DEFINE T == {n \in Nat : \E h : RunsFrom(f, st, c, n, h)}
<1>1. 0 \in T
  <2> DEFINE h == [k \in 0 .. 0 |-> st]
  <2>1. RunsFrom(f, st, c, 0, h)
    BY DEF RunsFrom
  <2> QED BY <2>1
<1>2. ASSUME NEW n \in Nat, n \in T PROVE n + 1 \in T
  <2>1. PICK h : RunsFrom(f, st, c, n, h)
    BY <1>2
  <2> DEFINE g == [k \in 0 .. n + 1 |-> IF k = 0 THEN st ELSE Execute(f, h[k - 1], c[k])]
  <2>2. \A k \in 0 .. n : g[k] = h[k]
    BY <2>1 DEF RunsFrom
  <2>3. \A k \in 0 .. n + 1 : k # 0 => k - 1 \in 0 .. n
    OBVIOUS
  <2>4. RunsFrom(f, st, c, n + 1, g)
    BY <2>2, <2>3 DEF RunsFrom
  <2> HIDE DEF g
  <2> QED BY <2>4
<1> HIDE DEF T
<1>3. m \in T
  BY <1>1, <1>2, NumbersFrom0
<1> QED BY <1>3 DEF T

LEMMA RunUnique ==
  ASSUME NEW f, NEW st, NEW c, NEW d, NEW n \in Nat, NEW m \in Nat, n <= m,
         \A k \in 1 .. n : c[k] = d[k],
         NEW g, RunsFrom(f, st, c, n, g), NEW h, RunsFrom(f, st, d, m, h), NEW j \in 0 .. n
  PROVE  g[j] = h[j]
<1> DEFINE T == {k \in Nat : k \in 0 .. n => g[k] = h[k]}
<1>1. 0 \in T
  BY DEF RunsFrom
<1>2. ASSUME NEW k \in Nat, k \in T PROVE k + 1 \in T
  <2> SUFFICES ASSUME k + 1 \in 0 .. n PROVE g[k + 1] = h[k + 1]
    OBVIOUS
  <2>1. k + 1 # 0 /\ (k + 1) - 1 = k /\ k \in 0 .. n /\ k + 1 \in 0 .. m /\ k + 1 \in 1 .. n
    OBVIOUS
  <2>2. g[k + 1] = Execute(f, g[k], c[k + 1])
    BY <2>1 DEF RunsFrom
  <2>3. h[k + 1] = Execute(f, h[k], d[k + 1])
    BY <2>1 DEF RunsFrom
  <2> QED BY <1>2, <2>1, <2>2, <2>3
<1> HIDE DEF T
<1>3. j \in T
  BY <1>1, <1>2, NumbersFrom0
<1> QED BY <1>3 DEF T

LEMMA RunIs ==
  ASSUME NEW f, NEW st, NEW S, NEW c \in Seq(S)
  PROVE  \E h : RunsFrom(f, st, c, Len(c), h) /\ Run(f, st, c) = h[Len(c)]
<1> DEFINE Is(h) == h = [k \in 0 .. Len(c) |->
              IF k = 0 THEN st
              ELSE CHOOSE s \in {Execute(f, t, c[k]) : t \in {h[k - 1]}} : TRUE]
<1>1. \A h, k : (CHOOSE s \in {Execute(f, t, c[k]) : t \in {h[k - 1]}} : TRUE) = Execute(f, h[k - 1], c[k])
  OBVIOUS
<1>2. \A h : Is(h) <=> RunsFrom(f, st, c, Len(c), h)
  BY <1>1 DEF RunsFrom
<1>3. \E h : Is(h)
  <2>1. Len(c) \in Nat
    OBVIOUS
  <2>2. PICK h : RunsFrom(f, st, c, Len(c), h)
    BY <2>1, RunExists
  <2> HIDE DEF Is
  <2> QED BY <1>2, <2>2
<1> DEFINE states == CHOOSE h : Is(h)
<1>4. Is(states)
  <2> HIDE DEF Is
  <2> QED BY <1>3
<1>5. Run(f, st, c) = states[Len(c)]
  BY DEF Run
<1> HIDE DEF states
<1> QED BY <1>2, <1>4, <1>5

LEMMA RunEmpty == ASSUME NEW f, NEW st PROVE Run(f, st, << >>) = st
<1>1. << >> \in Seq({}) /\ Len(<< >>) = 0
  OBVIOUS
<1>2. PICK h : RunsFrom(f, st, << >>, 0, h) /\ Run(f, st, << >>) = h[0]
  BY <1>1, RunIs
<1> QED BY <1>2 DEF RunsFrom

LEMMA RunAppend ==
  ASSUME NEW f, NEW st, NEW S, NEW c \in Seq(S), NEW i \in S
  PROVE  Run(f, st, Append(c, i)) = Execute(f, Run(f, st, c), i)
<1> DEFINE n == Len(c)
<1> DEFINE d == Append(c, i)
<1>1. n \in Nat /\ d \in Seq(S) /\ Len(d) = n + 1 /\ d[n + 1] = i /\ \A k \in 1 .. n : c[k] = d[k]
  OBVIOUS
<1>2. PICK g : RunsFrom(f, st, c, n, g) /\ Run(f, st, c) = g[n]
  <2> HIDE DEF d
  <2> QED BY RunIs
<1> HIDE DEF d
<1>3. PICK h : RunsFrom(f, st, d, n + 1, h) /\ Run(f, st, d) = h[n + 1]
  BY <1>1, RunIs
<1> HIDE DEF n
<1>4. g[n] = h[n]
  <2>1. n \in Nat /\ n + 1 \in Nat /\ n <= n + 1 /\ n \in 0 .. n /\ \A k \in 1 .. n : c[k] = d[k]
    BY <1>1
  <2>2. RunsFrom(f, st, c, n, g) /\ RunsFrom(f, st, d, n + 1, h)
    BY <1>2, <1>3
  <2> QED BY ONLY <2>1, <2>2, RunUnique
<1>5. h[n + 1] = Execute(f, h[n], d[n + 1])
  BY <1>1, <1>3 DEF RunsFrom
<1> QED BY <1>1, <1>2, <1>3, <1>4, <1>5 DEF d

LEMMA RunTwo ==
  ASSUME NEW f, NEW m, NEW x, NEW y
  PROVE  Run(f, m, <<x, y>>) = Execute(f, Execute(f, m, x), y)
<1>1. PICK e \in Seq({x, y}) : e = <<x>>
  <2>1. <<x>> \in Seq({x, y})
    OBVIOUS
  <2> QED BY <2>1
<1>2. << >> \in Seq({x, y}) /\ x \in {x, y} /\ y \in {x, y}
  OBVIOUS
<1>3. Append(<< >>, x) = e
  BY <1>1, <1>2, AppendFacts
<1>4. \A d \in Seq({x, y}), i \in {x, y} : Run(f, m, Append(d, i)) = Execute(f, Run(f, m, d), i)
  BY RunAppend
<1>5. Run(f, m, << >>) = m
  BY RunEmpty
<1>6. Run(f, m, e) = Execute(f, m, x)
  BY ONLY <1>2, <1>3, <1>4, <1>5
<1>7. Append(e, y) = <<x, y>>
  BY <1>1, PairIsAppend
<1>8. Run(f, m, Append(e, y)) = Execute(f, Run(f, m, e), y)
  BY <1>2, RunAppend
<1> QED BY ONLY <1>6, <1>7, <1>8

LEMMA RunConcat ==
  ASSUME NEW f, NEW st, NEW S, NEW a \in Seq(S), NEW b \in Seq(S)
  PROVE  Run(f, st, a \o b) = Run(f, Run(f, st, a), b)
<1> DEFINE T == {c \in Seq(S) : Run(f, st, a \o c) = Run(f, Run(f, st, a), c)}
<1>1. << >> \in T
  <2>1. a \o << >> = a /\ << >> \in Seq(S)
    BY ConcatEmptySeq
  <2>2. Run(f, Run(f, st, a), << >>) = Run(f, st, a)
    BY RunEmpty
  <2> QED BY <2>1, <2>2
<1>2. ASSUME NEW c \in Seq(S), NEW x \in S, c \in T PROVE Append(c, x) \in T
  <2>1. a \o Append(c, x) = Append(a \o c, x) /\ a \o c \in Seq(S) /\ Append(c, x) \in Seq(S)
    BY ConcatAppend, ConcatProperties, AppendFacts
  <2>2. Run(f, st, Append(a \o c, x)) = Execute(f, Run(f, st, a \o c), x)
    <3>1. \A d \in Seq(S) : Run(f, st, Append(d, x)) = Execute(f, Run(f, st, d), x)
      BY RunAppend
    <3> QED BY ONLY <2>1, <3>1
  <2>3. Run(f, Run(f, st, a), Append(c, x)) = Execute(f, Run(f, Run(f, st, a), c), x)
    BY RunAppend
  <2>4. Run(f, st, a \o c) = Run(f, Run(f, st, a), c)
    BY <1>2
  <2> QED BY <2>1, <2>2, <2>3, <2>4
<1> HIDE DEF T
<1>3. b \in T
  BY <1>1, <1>2, SequencesFromEmpty
<1> QED BY <1>3 DEF T

-----------------------------------------------------------------------------
(* FlattenSeq, likewise.                                                   *)
Joined(s, t) == s \o t
Agree(c, d, n) == \A k \in 1 .. n : c[k] = d[k]
JoinsFrom(c, n, h) == h = [k \in 0 .. n |-> IF k = 0 THEN << >> ELSE Joined(h[k - 1], c[k])]

LEMMA JoinExists ==
  ASSUME NEW c, NEW m \in Nat
  PROVE  \E h : JoinsFrom(c, m, h)
<1> DEFINE T == {n \in Nat : \E h : JoinsFrom(c, n, h)}
<1>1. 0 \in T
  <2> DEFINE h == [k \in 0 .. 0 |-> << >>]
  <2>1. JoinsFrom(c, 0, h)
    BY DEF JoinsFrom
  <2> QED BY <2>1
<1>2. ASSUME NEW n \in Nat, n \in T PROVE n + 1 \in T
  <2>1. PICK h : JoinsFrom(c, n, h)
    BY <1>2
  <2> DEFINE g == [k \in 0 .. n + 1 |-> IF k = 0 THEN << >> ELSE Joined(h[k - 1], c[k])]
  <2>2. \A k \in 0 .. n : g[k] = h[k]
    BY <2>1 DEF JoinsFrom
  <2>3. \A k \in 0 .. n + 1 : k # 0 => k - 1 \in 0 .. n
    OBVIOUS
  <2>4. JoinsFrom(c, n + 1, g)
    BY <2>2, <2>3 DEF JoinsFrom
  <2> HIDE DEF g
  <2> QED BY <2>4
<1> HIDE DEF T
<1>3. m \in T
  BY <1>1, <1>2, NumbersFrom0
<1> QED BY <1>3 DEF T

LEMMA JoinUnique ==
  ASSUME NEW c, NEW d, NEW n \in Nat, NEW m \in Nat, n <= m,
         Agree(c, d, n),
         NEW g, JoinsFrom(c, n, g), NEW h, JoinsFrom(d, m, h), NEW j \in 0 .. n
  PROVE  g[j] = h[j]
<1> DEFINE T == {k \in Nat : k \in 0 .. n => g[k] = h[k]}
<1>1. 0 \in T
  BY DEF JoinsFrom
<1>2. ASSUME NEW k \in Nat, k \in T PROVE k + 1 \in T
  <2> SUFFICES ASSUME k + 1 \in 0 .. n PROVE g[k + 1] = h[k + 1]
    OBVIOUS
  <2>1. k + 1 # 0 /\ (k + 1) - 1 = k /\ k \in 0 .. n /\ k + 1 \in 0 .. m /\ k + 1 \in 1 .. n
    OBVIOUS
  <2>2. g[k + 1] = Joined(g[k], c[k + 1])
    BY <2>1 DEF JoinsFrom
  <2>3. h[k + 1] = Joined(h[k], d[k + 1])
    BY <2>1 DEF JoinsFrom
  <2>4. c[k + 1] = d[k + 1]
    BY <2>1 DEF Agree
  <2> QED BY <1>2, <2>1, <2>2, <2>3, <2>4
<1> HIDE DEF T
<1>3. j \in T
  BY <1>1, <1>2, NumbersFrom0
<1> QED BY <1>3 DEF T

LEMMA JoinIs ==
  ASSUME NEW S, NEW c \in Seq(Seq(S))
  PROVE  \E h : JoinsFrom(c, Len(c), h) /\ FlattenSeq(c) = h[Len(c)]
<1> DEFINE n == Len(c)
<1> DEFINE Is(g) == g = [i \in 1 .. n |-> IF i = 1 THEN c[i] ELSE Joined(g[i - 1], c[i])]
<1>0. n \in Nat /\ (\A i \in 1 .. n : c[i] \in Seq(S)) /\ (n = 0 => c = << >>)
  OBVIOUS
<1>1. FlattenSeq(c) = IF n = 0 THEN c ELSE (CHOOSE g : Is(g))[n]
  BY DEF FlattenSeq, Joined
<1>2. \A i \in 1 .. n : Joined(<< >>, c[i]) = c[i]
  <2> TAKE i \in 1 .. n
  <2>1. c[i] \in Seq(S)
    BY <1>0
  <2> QED BY <2>1, ConcatEmptySeq DEF Joined
<1> HIDE DEF n
<1>3. PICK h : JoinsFrom(c, n, h)
  BY <1>0, JoinExists
<1>4. \A k \in 0 .. n : h[k] = IF k = 0 THEN << >> ELSE Joined(h[k - 1], c[k])
  BY <1>3 DEF JoinsFrom
<1>5. CASE n = 0
  <2>1. h[0] = << >>
    BY <1>4, <1>5
  <2> QED BY <2>1, <1>0, <1>1, <1>3, <1>5 DEF n
<1>6. CASE n # 0
  <2>1. \E g : Is(g)
    <3> DEFINE g == [i \in 1 .. n |-> h[i]]
    <3>1. ASSUME NEW i \in 1 .. n PROVE h[i] = IF i = 1 THEN c[i] ELSE Joined(g[i - 1], c[i])
      <4>1. i \in 0 .. n /\ i # 0 /\ 0 \in 0 .. n /\ (i # 1 => i - 1 \in 1 .. n)
        BY <1>0
      <4>2. CASE i = 1
        BY <4>1, <4>2, <1>2, <1>4
      <4>3. CASE i # 1
        BY <4>1, <4>3, <1>4
      <4> QED BY <4>2, <4>3
    <3>2. Is(g)
      BY <3>1
    <3> HIDE DEF g, Is
    <3> QED BY <3>2
  <2> DEFINE joined == CHOOSE g : Is(g)
  <2>2. Is(joined)
    <3> HIDE DEF Is
    <3> QED BY <2>1
  <2>3. FlattenSeq(c) = joined[n]
    BY <1>1, <1>6
  <2> HIDE DEF joined
  <2> DEFINE f == [k \in 0 .. n |-> IF k = 0 THEN << >> ELSE joined[k]]
  <2>4. ASSUME NEW k \in 0 .. n
        PROVE  (IF k = 0 THEN << >> ELSE joined[k]) = IF k = 0 THEN << >> ELSE Joined(f[k - 1], c[k])
    <3>1. CASE k = 1
      <4>1. 1 \in 1 .. n /\ 0 \in 0 .. n /\ f[0] = << >>
        BY <1>0, <3>1
      <4>2. joined[1] = c[1]
        BY <2>2, <4>1
      <4> HIDE DEF f
      <4> QED BY <3>1, <4>1, <4>2, <1>2
    <3>2. CASE k \in 2 .. n
      <4>1. k - 1 \in 1 .. n /\ k \in 1 .. n /\ k # 1 /\ k # 0 /\ k - 1 \in 0 .. n /\ k - 1 # 0
        BY <1>0, <3>2
      <4>2. joined[k] = Joined(joined[k - 1], c[k])
        BY <2>2, <4>1
      <4>3. f[k - 1] = joined[k - 1]
        BY <4>1
      <4> HIDE DEF f
      <4> QED BY <4>1, <4>2, <4>3
    <3> QED BY <1>0, <3>1, <3>2
  <2>5. JoinsFrom(c, n, f)
    BY <2>4 DEF JoinsFrom
  <2>6. f[n] = joined[n]
    BY <1>0, <1>6
  <2> HIDE DEF f
  <2> QED BY <2>3, <2>5, <2>6 DEF n
<1> QED BY <1>5, <1>6

LEMMA FlattenEmpty == FlattenSeq(<< >>) = << >>
BY DEF FlattenSeq

LEMMA FlattenAppend ==
  ASSUME NEW S, NEW c \in Seq(Seq(S)), NEW i \in Seq(S)
  PROVE  FlattenSeq(Append(c, i)) = FlattenSeq(c) \o i
<1> DEFINE n == Len(c)
<1> DEFINE d == Append(c, i)
<1>1. n \in Nat /\ d \in Seq(Seq(S)) /\ Len(d) = n + 1 /\ d[n + 1] = i /\ \A k \in 1 .. n : c[k] = d[k]
  OBVIOUS
<1>2. PICK g : JoinsFrom(c, n, g) /\ FlattenSeq(c) = g[n]
  <2> HIDE DEF d
  <2> QED BY JoinIs
<1> HIDE DEF d
<1>3. PICK h : JoinsFrom(d, n + 1, h) /\ FlattenSeq(d) = h[n + 1]
  BY <1>1, JoinIs
<1> HIDE DEF n
<1>4. g[n] = h[n]
  <2>1. n \in Nat /\ n + 1 \in Nat /\ n <= n + 1 /\ n \in 0 .. n /\ Agree(c, d, n)
    BY <1>1 DEF Agree
  <2>2. JoinsFrom(c, n, g) /\ JoinsFrom(d, n + 1, h)
    BY <1>2, <1>3
  <2> QED BY ONLY <2>1, <2>2, JoinUnique
<1>5. h[n + 1] = Joined(h[n], d[n + 1])
  BY <1>1, <1>3 DEF JoinsFrom
<1> QED BY <1>1, <1>2, <1>3, <1>4, <1>5 DEF d, Joined

LEMMA FlattenType ==
  ASSUME NEW S, NEW c \in Seq(Seq(S))
  PROVE  FlattenSeq(c) \in Seq(S)
<1> DEFINE T == {d \in Seq(Seq(S)) : FlattenSeq(d) \in Seq(S)}
<1>1. << >> \in T
  <2>1. << >> \in Seq(S) /\ << >> \in Seq(Seq(S))
    OBVIOUS
  <2> QED BY <2>1, FlattenEmpty
<1>2. ASSUME NEW d \in Seq(Seq(S)), NEW x \in Seq(S), d \in T PROVE Append(d, x) \in T
  <2>1. FlattenSeq(Append(d, x)) = FlattenSeq(d) \o x
    BY FlattenAppend
  <2>2. FlattenSeq(d) \in Seq(S)
    BY <1>2
  <2>3. FlattenSeq(d) \o x \in Seq(S)
    BY <2>2, ConcatProperties
  <2>4. Append(d, x) \in Seq(Seq(S))
    OBVIOUS
  <2> QED BY <2>1, <2>3, <2>4
<1> HIDE DEF T
<1>3. c \in T
  BY <1>1, <1>2, SequencesFromEmpty
<1> QED BY <1>3 DEF T

(* Each instruction of a sequence is replaced by a few.                    *)
Mapped(g, c) == FlattenSeq([k \in DOMAIN c |-> g[c[k]]])

LEMMA MappedAppend ==
  ASSUME NEW S, NEW g \in [S -> Seq(S)], NEW c \in Seq(S), NEW i \in S
  PROVE  Mapped(g, c) \in Seq(S) /\ Mapped(g, Append(c, i)) = Mapped(g, c) \o g[i]
<1> DEFINE parts == [k \in DOMAIN c |-> g[c[k]]]
<1> DEFINE more == [k \in DOMAIN Append(c, i) |-> g[Append(c, i)[k]]]
<1>1. g[i] \in Seq(S)
  OBVIOUS
<1>2. Mapped(g, c) = FlattenSeq(parts) /\ Mapped(g, Append(c, i)) = FlattenSeq(more)
  BY DEF Mapped
<1>3. parts \in Seq(Seq(S)) /\ Len(parts) = Len(c)
  <2>1. DOMAIN c = 1 .. Len(c) /\ Len(c) \in Nat /\ \A k \in 1 .. Len(c) : c[k] \in S
    OBVIOUS
  <2>2. parts \in [1 .. Len(c) -> Seq(S)]
    BY <2>1
  <2> HIDE DEF parts
  <2> QED BY <2>1, <2>2, FunctionIsSequence
<1>4. more \in Seq(Seq(S)) /\ Len(more) = Len(c) + 1
  <2>1. Append(c, i) \in Seq(S) /\ Len(Append(c, i)) = Len(c) + 1
    OBVIOUS
  <2>2. PICK d \in Seq(S) : d = Append(c, i) /\ Len(d) = Len(c) + 1
    BY <2>1
  <2>3. DOMAIN d = 1 .. Len(c) + 1 /\ Len(c) + 1 \in Nat /\ \A k \in 1 .. Len(c) + 1 : d[k] \in S
    BY <2>2
  <2>4. more = [k \in DOMAIN d |-> g[d[k]]]
    BY <2>2
  <2> HIDE DEF more
  <2>5. more \in [1 .. Len(c) + 1 -> Seq(S)]
    BY <2>3, <2>4
  <2> QED BY <2>3, <2>5, FunctionIsSequence
<1>5. more = Append(parts, g[i])
  <2>1. Append(parts, g[i]) \in Seq(Seq(S)) /\ Len(Append(parts, g[i])) = Len(c) + 1
    <3> HIDE DEF parts
    <3> QED BY <1>1, <1>3
  <2>2. ASSUME NEW k \in 1 .. Len(c) + 1 PROVE more[k] = Append(parts, g[i])[k]
    <3>1. CASE k \in 1 .. Len(c)
      BY <3>1, <1>3
    <3>2. CASE k = Len(c) + 1
      BY <3>2, <1>3
    <3> QED BY <3>1, <3>2
  <2> HIDE DEF parts, more
  <2> QED BY <2>1, <2>2, <1>4, SeqEqual
<1> HIDE DEF parts, more
<1>6. FlattenSeq(more) = FlattenSeq(parts) \o g[i] /\ FlattenSeq(parts) \in Seq(S)
  BY <1>1, <1>3, <1>5, FlattenAppend, FlattenType
<1> QED BY <1>2, <1>6

LEMMA MappedEmpty == ASSUME NEW g PROVE Mapped(g, << >>) = << >>
<1>1. [k \in DOMAIN << >> |-> g[<< >>[k]]] = << >>
  OBVIOUS
<1> QED BY <1>1, FlattenEmpty DEF Mapped

(* The epilogue goes in front of a RET.                                    *)
LEMMA EpilogueAppend ==
  ASSUME NEW S, NEW c \in Seq(S), NEW i \in S, NEW before \in Seq(S)
  PROVE  /\ WithEpilogue(c, before) \in Seq(S)
         /\ WithEpilogue(Append(c, i), before) =
              WithEpilogue(c, before) \o (IF i.op = "RET" THEN Append(before, i) ELSE <<i>>)
<1> DEFINE g == [x \in S |-> IF x.op = "RET" THEN Append(before, x) ELSE <<x>>]
<1>1. g \in [S -> Seq(S)] /\ \A x \in S : g[x] = IF x.op = "RET" THEN Append(before, x) ELSE <<x>>
  OBVIOUS
<1>2. ASSUME NEW d \in Seq(S) PROVE WithEpilogue(d, before) = Mapped(g, d)
  <2>1. \A k \in DOMAIN d : d[k] \in S
    OBVIOUS
  <2> HIDE DEF g
  <2>2. [k \in DOMAIN d |-> IF d[k].op = "RET" THEN Append(before, d[k]) ELSE <<d[k]>>] = [k \in DOMAIN d |-> g[d[k]]]
    BY <1>1, <2>1
  <2> QED BY <2>2 DEF Mapped, WithEpilogue
<1> HIDE DEF g
<1>3. Append(c, i) \in Seq(S)
  OBVIOUS
<1>4. WithEpilogue(c, before) = Mapped(g, c) /\ WithEpilogue(Append(c, i), before) = Mapped(g, Append(c, i))
  BY <1>2, <1>3
<1>5. Mapped(g, c) \in Seq(S) /\ Mapped(g, Append(c, i)) = Mapped(g, c) \o g[i]
  BY <1>1, MappedAppend
<1>6. g[i] = IF i.op = "RET" THEN Append(before, i) ELSE <<i>>
  BY <1>1
<1> QED BY ONLY <1>4, <1>5, <1>6

(* Running code, each RET after the epilogue e.                            *)
ExecWith(e, f, st, c) == Run(f, st, WithEpilogue(c, e))

LEMMA ExecWithEmpty == ASSUME NEW e, NEW f, NEW st PROVE ExecWith(e, f, st, << >>) = st
<1>1. [k \in DOMAIN << >> |-> IF << >>[k].op = "RET" THEN Append(e, << >>[k]) ELSE << << >>[k] >>] = << >>
  OBVIOUS
<1>2. WithEpilogue(<< >>, e) = << >>
  BY <1>1, FlattenEmpty DEF WithEpilogue
<1> QED BY <1>2, RunEmpty DEF ExecWith

LEMMA ExecWithAppend ==
  ASSUME NEW e, IsSeq(e), NEW f, NEW st, NEW c, IsSeq(c), NEW i
  PROVE  /\ i.op # "RET" => ExecWith(e, f, st, Append(c, i)) = Execute(f, ExecWith(e, f, st, c), i)
         /\ i.op = "RET" => ExecWith(e, f, st, Append(c, i)) = Execute(f, Run(f, ExecWith(e, f, st, c), e), i)
<1>2. PICK S : Append(c, i) \in Seq(S) /\ e \in Seq(S)
  BY IsSeqParts, TwoInOneSet
<1>3. c \in Seq(S) /\ i \in S
  <2>1. c = [k \in 1 .. Len(c) |-> c[k]] /\ Len(c) \in Nat
    BY DEF IsSeq
  <2>2. PICK T : c \in Seq(T)
    BY DEF IsSeq
  <2>3. PICK d : d = Append(c, i)
    OBVIOUS
  <2>4. Len(d) = Len(c) + 1 /\ d[Len(c) + 1] = i /\ \A k \in 1 .. Len(c) : d[k] = c[k]
    BY <2>2, <2>3
  <2>5. \A k \in 1 .. Len(c) + 1 : d[k] \in S
    BY <1>2, <2>3, <2>4
  <2>6. \A k \in 1 .. Len(c) : k \in 1 .. Len(c) + 1 /\ Len(c) + 1 \in 1 .. Len(c) + 1
    BY <2>1
  <2>7. c \in [1 .. Len(c) -> S]
    BY <2>1, <2>4, <2>5, <2>6
  <2>8. Len(c) + 1 \in 1 .. Len(c) + 1
    BY <2>1
  <2> QED BY <2>1, <2>4, <2>5, <2>7, <2>8, FunctionIsSequence
<1>4. /\ WithEpilogue(c, e) \in Seq(S)
      /\ WithEpilogue(Append(c, i), e) = WithEpilogue(c, e) \o (IF i.op = "RET" THEN Append(e, i) ELSE <<i>>)
  BY <1>2, <1>3, EpilogueAppend, ZenonT(60)
<1>5. PICK w \in Seq(S) : w = WithEpilogue(c, e)
  BY <1>4
<1>6. <<i>> \in Seq(S) /\ Append(e, i) \in Seq(S)
  BY <1>2, <1>3, AppendFacts
<1>7. ExecWith(e, f, st, c) = Run(f, st, w)
  BY <1>5 DEF ExecWith
<1>8. CASE i.op # "RET"
  <2>1. WithEpilogue(Append(c, i), e) = Append(w, i)
    BY <1>3, <1>4, <1>5, <1>8, AppendFacts
  <2>2. Run(f, st, Append(w, i)) = Execute(f, Run(f, st, w), i)
    BY <1>3, RunAppend
  <2> QED BY <1>7, <1>8, <2>1, <2>2 DEF ExecWith
<1>9. CASE i.op = "RET"
  <2>1. WithEpilogue(Append(c, i), e) = w \o Append(e, i)
    BY <1>4, <1>5, <1>9
  <2>2. Run(f, st, w \o Append(e, i)) = Run(f, Run(f, st, w), Append(e, i))
    <3>1. \A d \in Seq(S) : Run(f, st, w \o d) = Run(f, Run(f, st, w), d)
      BY RunConcat
    <3> QED BY ONLY <3>1, <1>6
  <2>3. Run(f, Run(f, st, w), Append(e, i)) = Execute(f, Run(f, Run(f, st, w), e), i)
    BY <1>2, <1>3, RunAppend
  <2> QED BY <1>7, <1>9, <2>1, <2>2, <2>3 DEF ExecWith
<1> QED BY <1>8, <1>9

LEMMA ExecWithConcat ==
  ASSUME NEW e, IsSeq(e), NEW f, NEW st, NEW a, IsSeq(a), NEW b, IsSeq(b)
  PROVE  ExecWith(e, f, st, a \o b) = ExecWith(e, f, ExecWith(e, f, st, a), b)
<1>1. PICK S : a \in Seq(S) /\ b \in Seq(S)
  BY TwoInOneSet
<1> DEFINE T == {c \in Seq(S) : ExecWith(e, f, st, a \o c) = ExecWith(e, f, ExecWith(e, f, st, a), c)}
<1>2. << >> \in T
  <2>1. a \o << >> = a /\ << >> \in Seq(S)
    BY <1>1, ConcatEmptySeq
  <2>2. ExecWith(e, f, ExecWith(e, f, st, a), << >>) = ExecWith(e, f, st, a)
    BY ExecWithEmpty
  <2> QED BY <2>1, <2>2
<1>3. ASSUME NEW c \in Seq(S), NEW x \in S, c \in T PROVE Append(c, x) \in T
  <2>1. a \o Append(c, x) = Append(a \o c, x) /\ a \o c \in Seq(S) /\ Append(c, x) \in Seq(S)
    BY <1>1, ConcatAppend, ConcatProperties, AppendFacts
  <2>2. PICK d : d = a \o c
    OBVIOUS
  <2>3. IsSeq(d) /\ IsSeq(c)
    BY <2>1, <2>2, SeqIsSeq
  <2>4. ExecWith(e, f, st, d) = ExecWith(e, f, ExecWith(e, f, st, a), c)
    BY <1>3, <2>2
  <2>5. ExecWith(e, f, st, Append(d, x)) = ExecWith(e, f, ExecWith(e, f, st, a), Append(c, x))
    <3>1. CASE x.op = "RET"
      BY <2>3, <2>4, <3>1, ExecWithAppend
    <3>2. CASE x.op # "RET"
      BY <2>3, <2>4, <3>2, ExecWithAppend
    <3> QED BY <3>1, <3>2
  <2> QED BY <2>1, <2>2, <2>5
<1> HIDE DEF T
<1>4. b \in T
  BY <1>1, <1>2, <1>3, SequencesFromEmpty
<1> QED BY <1>4 DEF T

-----------------------------------------------------------------------------
(* The state of a machine, as far as its shape goes.                       *)
IsState(m) ==
  /\ DOMAIN m = {"v", "r", "mem", "flags", "calls", "seen", "aligned", "returned", "goal", "left"}
  /\ {RSP, RBP} \subseteq DOMAIN m.r
  /\ m.returned \in BOOLEAN /\ m.left \in BOOLEAN

(* The stack and the frame pointer hold no value of the program.           *)
LEMMA PointersKept == RSP \notin GeneralRegs /\ RBP \notin GeneralRegs /\ RAX \in GeneralRegs /\ RSP # RBP
BY GeneralAssumption DEF RSP, RBP, CallerSavedRegs

(* Nothing is run after a RET or a jump.                                   *)
LEMMA RunHalted ==
  ASSUME NEW f, NEW m, m.returned \/ m.left, NEW c, IsSeq(c)
  PROVE  Run(f, m, c) = m
<1>1. PICK S : c \in Seq(S)
  BY DEF IsSeq
<1>2. \A i : Execute(f, m, i) = m
  BY DEF Execute, ConditionalJumps
<1> DEFINE T == {d \in Seq(S) : Run(f, m, d) = m}
<1>3. << >> \in T
  <2>1. << >> \in Seq(S)
    OBVIOUS
  <2> QED BY <2>1, RunEmpty
<1>4. ASSUME NEW d \in Seq(S), NEW i \in S, d \in T PROVE Append(d, i) \in T
  <2>1. Append(d, i) \in Seq(S)
    OBVIOUS
  <2>2. Run(f, m, Append(d, i)) = Execute(f, Run(f, m, d), i)
    BY RunAppend
  <2> QED BY <1>2, <1>4, <2>1, <2>2
<1> HIDE DEF T
<1>5. c \in T
  BY <1>1, <1>3, <1>4, SequencesFromEmpty
<1> QED BY <1>5 DEF T

=============================================================================

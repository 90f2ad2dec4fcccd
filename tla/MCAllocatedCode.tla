-------------------------- MODULE MCAllocatedCode ---------------------------
(***************************************************************************)
(* Instances of AllocatedCode: lowered functions, as X86::lower writes     *)
(* them.  Virtual registers 1 .. 8 are values; from 11 on they are the     *)
(* fixed registers of the calling convention, a new one at each use.       *)
(***************************************************************************)
EXTENDS AllocatedCode

Regs == GeneralRegs \cup ReservedRegs
ParentOf == [r \in Regs |-> At(r).parent]
FamilyOf == [r \in Regs |-> family(r) \cap (Regs \cup {0})]
Vregs == 1 .. 32

(* A function over the fixed registers `pins`; its values may take `D`.    *)
Fct(D, pins, blocks) ==
  [blocks |-> blocks,
   domain |-> [x \in Vregs |-> IF x \in DOMAIN pins THEN {pins[x]} ELSE D],
   fixed  |-> DOMAIN pins]

Block(succs, instrs) == [instrs |-> instrs, succs |-> succs]

Mov(d, s) == Ins("MOV", VREG(d), VREG(s))
Set(d, l) == Ins("MOV", VREG(d), LIT(l))
Add(d, s) == Ins("ADD", VREG(d), VREG(s))
Inc(d)    == Ins("ADD", VREG(d), LIT(1))
Cmp(a, b) == Ins("CMP", VREG(a), VREG(b))
Call(f, n) == Ins("CALL", SYM(f, n), MNONE)
Jmp(b)    == Ins("JMP", LABEL(b), MNONE)
Jl(b)     == Ins("JL", LABEL(b), MNONE)
Ret(v)    == Ins("RET", MNONE, VREG(v))

(* All registers a value may take, and fewer, for the pressure of a large  *)
(* function in a small one.                                                *)
All == GeneralRegs
Few == {RAX, RBX, RSI, RDI, R10}

Pins == (11 :> RDI) @@ (12 :> RSI) @@ (13 :> RDI) @@ (14 :> RSI) @@ (15 :> RAX)
          @@ (16 :> RDI) @@ (17 :> RAX) @@ (18 :> RAX)

Sum(d, x, y) == << Mov(d, x), Add(d, y) >>

(* f(a, b) = g(a) + a + b: both live across the call.                      *)
AcrossCall(D) ==
  Fct(D, Pins,
      << Block({}, << Mov(1, 11), Mov(2, 12), Mov(13, 1), Call("g", 1), Mov(3, 15),
                      Mov(4, 3), Add(4, 1), Mov(5, 4), Add(5, 2), Mov(17, 5), Ret(5) >>) >>)

(* f(n): i = 0; while (i < n) { g(i); i = i + 1 } return i.                *)
CallInLoop(D) ==
  Fct(D, Pins,
      << Block({2}, << Mov(1, 11), Set(2, 0), Jmp(2) >>),
         Block({3, 4}, << Mov(3, 2), Cmp(3, 1), Jl(3), Jmp(4) >>),
         Block({2}, << Mov(13, 2), Call("g", 1), Mov(4, 2), Inc(4), Mov(2, 4), Jmp(2) >>),
         Block({}, << Mov(17, 2), Ret(2) >>) >>)

(* f(a, b): if (a < b) { c = g(b) } else { c = a } return c + a + b.       *)
CallInBranch(D) ==
  Fct(D, Pins,
      << Block({2, 3}, << Mov(1, 11), Mov(2, 12), Mov(3, 1), Cmp(3, 2), Jl(2), Jmp(3) >>),
         Block({4}, << Mov(13, 2), Call("g", 1), Mov(4, 15), Mov(5, 4), Jmp(4) >>),
         Block({4}, << Mov(5, 1), Jmp(4) >>),
         Block({}, << Mov(6, 5), Add(6, 1), Mov(7, 6), Add(7, 2), Mov(17, 7), Ret(7) >>) >>)

(* f(a, b, ..., h): two arguments on the stack, and a call with seven.     *)
Pins7 == (11 :> RDI) @@ (12 :> RSI) @@ (13 :> RDX) @@ (14 :> RCX) @@ (15 :> R8) @@ (16 :> R9)
           @@ (17 :> RAX) @@ (18 :> RAX)
StackArguments(D) ==
  Fct(D, Pins7,
      << Block({}, << Ins("MOV", VREG(1), MEM(RBP, 16)), Ins("MOV", VREG(2), MEM(RBP, 24)),
                      Mov(11, 1), Mov(12, 2), Set(13, 3), Set(14, 4), Set(15, 5), Set(16, 6),
                      Ins("SUB", PREG(RSP), LIT(16)),
                      Ins("MOV", MEM(RSP, 0), VREG(2)), Call("g", 7), Mov(3, 17),
                      Ins("ADD", PREG(RSP), LIT(16)),
                      Mov(4, 3), Add(4, 1), Mov(5, 4), Add(5, 2), Mov(18, 5), Ret(5) >>) >>)

(* f(a, b, c, d, e, g, m) = k(a) + a + m: m comes on the stack.            *)
Pins6 == (21 :> RDI) @@ (22 :> RSI) @@ (23 :> RDX) @@ (24 :> RCX) @@ (25 :> R8) @@ (26 :> R9)
           @@ (27 :> RDI) @@ (28 :> RSI) @@ (29 :> RAX) @@ (30 :> RAX)
Parameters6 == [k \in 1 .. 6 |-> Mov(k, 20 + k)]

StackParameter(D) ==
  Fct(D, Pins6,
      << Block({}, Parameters6
                     \o << Ins("MOV", VREG(7), MEM(RBP, 16)), Mov(27, 1), Call("k", 1), Mov(8, 29) >>
                     \o Sum(9, 8, 1) \o Sum(10, 9, 7) \o << Mov(30, 10), Ret(10) >>) >>)

(* An operation of the IR that defines value d, lowered: a sum, and calls  *)
(* with one and two arguments (pins 13 .. 15 belong to the first operation *)
(* of a function, 23 .. 25 to the second).                                 *)
Call1(d, p, x) == << Mov(p + 3, x), Call("g", 1), Mov(d, p + 5) >>
Call2(d, p, x, y) == << Mov(p + 3, x), Mov(p + 4, y), Call("h", 2), Mov(d, p + 5) >>

Operations(d, p, values) ==
  {Sum(d, x, y) : x, y \in values} \cup {Call1(d, p, x) : x \in values}

(* Two arguments in the order of the values, and in every order.           *)
OrderedCalls(d, p, values) ==
  UNION {{Call2(d, p, x, y) : y \in {z \in values : x <= z}} : x \in values}

Pins2 == (11 :> RDI) @@ (12 :> RSI) @@ (13 :> RDI) @@ (14 :> RSI) @@ (15 :> RAX)
           @@ (23 :> RDI) @@ (24 :> RSI) @@ (25 :> RAX) @@ (17 :> RAX)

(* f(a, b): c = op1; d = op2; return d + u.                                *)
Straight(D, op1, op2, u) ==
  Fct(D, Pins2,
      << Block({}, << Mov(1, 11), Mov(2, 12) >> \o op1 \o op2
                     \o Sum(5, 4, u) \o << Mov(17, 5), Ret(5) >>) >>)

(* f(a, b): c = a; while (c < b) { c = op } return c + u.                  *)
Loop(D, op, u) ==
  Fct(D, Pins2,
      << Block({2}, << Mov(1, 11), Mov(2, 12), Mov(3, 1), Jmp(2) >>),
         Block({3, 4}, << Mov(4, 3), Cmp(4, 2), Jl(3), Jmp(4) >>),
         Block({2}, op \o << Mov(3, 5), Jmp(2) >>),
         Block({}, Sum(6, 3, u) \o << Mov(17, 6), Ret(6) >>) >>)

Hand ==
  {AcrossCall(All), CallInLoop(All), CallInLoop(Few), CallInBranch(All),
   CallInBranch(Few), StackArguments(All), StackArguments({RAX, RBX, R10}),
   StackParameter(Few)}

SmallFunctions ==
  Hand
  \cup {Straight(Few, op1, op2, u) :
          op1 \in Operations(3, 10, {1, 2}) \cup OrderedCalls(3, 10, {1, 2}),
          op2 \in Operations(4, 20, {1, 2, 3}),
          u \in {1, 2, 3}}
  \cup {Loop(Few, op, u) :
          op \in Operations(5, 10, {1, 2, 3}),
          u \in {1, 2, 3}}

(* f(a, b, c, d, e, g) = h(b, a) + a + b + c + d + e + g: six values live  *)
(* across a call, and five registers that survive one.                     *)
SixAcrossCall ==
  Fct(All, Pins6,
      << Block({}, Parameters6
                     \o << Mov(27, 2), Mov(28, 1), Call("h", 2), Mov(7, 29) >>
                     \o FlattenSeq([k \in 1 .. 6 |-> Sum(7 + k, 6 + k, k)])
                     \o << Mov(30, 13), Ret(13) >>) >>)

ManyParameters == {SixAcrossCall}

=============================================================================

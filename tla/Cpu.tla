-------------------------------- MODULE Cpu ---------------------------------
(***************************************************************************)
(* What running machine code does, as far as a caller can tell: the        *)
(* environment the generated code is written for (the processor and the    *)
(* System V calling convention), not part of the repository.               *)
(*                                                                         *)
(* Values are symbolic: <<"init", r>> is what register r held on entry,    *)
(* <<"addr", a>> an address relative to the entry RSP, <<"ret", k>> the    *)
(* result of the k-th call, <<"add", x, y>> a sum.  `seen` collects what   *)
(* the rest of the world learns: the arguments of each call, the flags     *)
(* each conditional jump tests, the value returned.                        *)
(***************************************************************************)
EXTENDS MachineCode, TLC

(* The state a function is entered in: the CALL has just pushed the        *)
(* return address at RSP, the stack arguments lie above it.                *)
StackArgs == 2
EntryState(vregs, regs) ==
  [v |-> [x \in vregs |-> <<"unset", x>>],
   r |-> [r \in regs |-> IF r = RSP THEN <<"addr", 0>> ELSE <<"init", r>>],
   mem |-> [a \in {8 * k : k \in 0 .. StackArgs} |-> <<"stack", a>>],
   flags |-> <<"unset">>, calls |-> 0, seen |-> << >>, aligned |-> TRUE, returned |-> FALSE,
   goal |-> 0, left |-> FALSE]

(* A fixed virtual register is its physical register.                      *)
HomeOf(f, x) == CHOOSE r \in f.domain[x] : TRUE

AddressOf(st, o) == <<"addr", st.r[o.n][2] + o.disp>>

Read(f, st, o) ==
  CASE o.kind = "VREG" -> IF o.n \in f.fixed THEN st.r[HomeOf(f, o.n)] ELSE st.v[o.n]
    [] o.kind = "PREG" -> st.r[o.n]
    [] o.kind = "LIT"  -> <<"lit", o.n>>
    [] o.kind = "MEM"  ->
         LET a == AddressOf(st, o)[2] IN IF a \in DOMAIN st.mem THEN st.mem[a] ELSE <<"junk">>

Store(st, a, x) ==
  [st EXCEPT !.mem = [b \in DOMAIN st.mem \cup {a} |-> IF b = a THEN x ELSE st.mem[b]]]

Write(f, st, o, x) ==
  CASE o.kind = "VREG" -> IF o.n \in f.fixed THEN [st EXCEPT !.r[HomeOf(f, o.n)] = x]
                          ELSE [st EXCEPT !.v[o.n] = x]
    [] o.kind = "PREG" -> [st EXCEPT !.r[o.n] = x]
    [] o.kind = "MEM"  -> Store(st, AddressOf(st, o)[2], x)

(* Arithmetic on an address moves it; on anything else it is a term.       *)
Combine(op, x, y) ==
  CASE op = "ADD" /\ x[1] = "addr" /\ y[1] = "lit" -> <<"addr", x[2] + y[2]>>
    [] op = "SUB" /\ x[1] = "addr" /\ y[1] = "lit" -> <<"addr", x[2] - y[2]>>
    [] OTHER -> <<IF op = "IMUL" THEN "MUL" ELSE op, x, y>>

(* The arguments of a call: the first in registers, the others on top of   *)
(* the stack.                                                              *)
ArgumentsOf(st, callee) ==
  [k \in 1 .. callee.args |->
     IF k <= Len(IntArgRegs) THEN st.r[IntArgRegs[k]]
     ELSE LET a == st.r[RSP][2] + 8 * (k - Len(IntArgRegs) - 1)
          IN  IF a \in DOMAIN st.mem THEN st.mem[a] ELSE <<"junk">>]

(* A call destroys the caller-saved registers and all below RSP, and       *)
(* returns a value in RAX.  The convention wants RSP on a 16-byte boundary *)
(* (the entry RSP is 8 off one, the return address having been pushed).    *)
AfterCall(st, callee) ==
  [st EXCEPT
     !.seen = Append(@, <<"call", callee.n, ArgumentsOf(st, callee)>>),
     !.calls = @ + 1,
     !.aligned = @ /\ (st.r[RSP][2] + 8) % 16 = 0,
     !.mem = [a \in {b \in DOMAIN st.mem : b >= st.r[RSP][2]} |-> st.mem[a]],
     !.r = [r \in DOMAIN st.r |->
              IF r = RAX THEN <<"ret", st.calls + 1>>
              ELSE IF r \in CallerSavedRegs THEN <<"junk">> ELSE st.r[r]]]

(* One instruction of f, in a run of a block that goes on to the block     *)
(* labelled st.goal: the path is chosen first, and a jump must lead along  *)
(* it.  Nothing is run after the jump that is taken, or after a RET.       *)
Leave(st, target) ==
  IF target = st.goal THEN [st EXCEPT !.left = TRUE]
  ELSE [st EXCEPT !.left = TRUE, !.seen = Append(@, <<"astray", target>>)]

Execute(f, st, i) ==
  IF st.returned \/ st.left THEN st
  ELSE CASE i.op = "MOV" -> Write(f, st, i.dst, Read(f, st, i.src))
         [] i.op \in {"ADD", "SUB", "IMUL"} ->
              LET x == Combine(i.op, Read(f, st, i.dst), Read(f, st, i.src))
              IN  Write(f, [st EXCEPT !.flags = <<"result", x>>], i.dst, x)
         [] i.op = "CMP" -> [st EXCEPT !.flags = <<"cmp", Read(f, st, i.dst), Read(f, st, i.src)>>]
         [] i.op = "PUSH" ->
              LET a == st.r[RSP][2] - 8
              IN  [Store(st, a, Read(f, st, i.src)) EXCEPT !.r[RSP] = <<"addr", a>>]
         [] i.op = "POP" ->
              LET a == st.r[RSP][2]
                  x == IF a \in DOMAIN st.mem THEN st.mem[a] ELSE <<"junk">>
              IN  [Write(f, st, i.dst, x) EXCEPT !.r[RSP] = <<"addr", a + 8>>]
         [] i.op \in ConditionalJumps ->
              [st EXCEPT !.seen = Append(@, <<i.op, st.flags>>), !.left = (i.dst.n = st.goal)]
         [] i.op = "JMP" -> Leave(st, i.dst.n)
         [] i.op = "CALL" -> AfterCall(st, i.dst)
         [] i.op = "RET" ->
              [st EXCEPT !.seen = Append(@, <<"returns", st.r[RAX]>>), !.returned = TRUE]
         [] OTHER -> st

(* A list of instructions; the epilogue is emitted in front of each RET    *)
(* (src/core/utils/Dump.cpp:731-737).                                      *)
WithEpilogue(instrs, epilogue) ==
  FlattenSeq([k \in DOMAIN instrs |->
                IF instrs[k].op = "RET" THEN Append(epilogue, instrs[k]) ELSE <<instrs[k]>>])

(* Running instructions one after the other.  Each state is bound to a     *)
(* variable, for TLC to evaluate it once.                                  *)
Run(f, st, instrs) ==
  LET ran[k \in 0 .. Len(instrs)] ==
        IF k = 0 THEN st
        ELSE CHOOSE s \in {Execute(f, t, instrs[k]) : t \in {ran[k - 1]}} : TRUE
  IN  ran[Len(instrs)]

RunTo(goal, f, st, instrs) == Run(f, [st EXCEPT !.goal = goal, !.left = FALSE], instrs)

=============================================================================

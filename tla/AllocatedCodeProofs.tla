------------------------ MODULE AllocatedCodeProofs -------------------------
(***************************************************************************)
(* Proofs about AllocatedCode: whatever function lower() may leave, and    *)
(* however the allocator spills, colours and rewrites it, RSP is on a      *)
(* 16-byte boundary at every call the allocated code makes, and the caller *)
(* finds its registers as they were.                                       *)
(*                                                                         *)
(* The proof has three parts: what running code of a certain shape does to *)
(* the frame (Moves, Frame), that every rewriting keeps the shape          *)
(* (IsCode), and an invariant of the allocator that ties the two together. *)
(***************************************************************************)
EXTENDS AllocatedCode, MachineCodeProofs, FiniteSetTheorems

-----------------------------------------------------------------------------
(* What an instruction of a function in the hands of the allocator may be, *)
(* with m bytes left at RSP before it and n after: the shape IsLowered     *)
(* asks for, together with the loads and stores of spill slots.  w names   *)
(* the places results go to, the virtual registers named, and the bytes of *)
(* slots in use.                                                           *)
Virtual(low) == [low |-> low, kind |-> "VREG", places |-> Vreg, names |-> Vreg]
Physical(low, S) == [low |-> low, kind |-> "PREG", places |-> S, names |-> {}]

Names(i) == VregsIn(i.dst) \cup VregsIn(i.src)

Moves(w, i, m, n) ==
  /\ Names(i) \subseteq w.names
  /\ \/ MovesRSP(i, "SUB") /\ m = 0 /\ i.src = LIT(n)
     \/ MovesRSP(i, "ADD") /\ n = 0 /\ i.src = LIT(m)
     \/ i.op \in {"MOV", "ADD", "IMUL"} /\ i.dst.kind = w.kind /\ i.dst.n \in w.places /\ n = m
     \/ i.op = "MOV" /\ i.dst.kind = "MEM" /\ i.dst.n = RSP /\ i.dst.disp \in 0 .. m - 8 /\ n = m
     \/ i.op = "MOV" /\ i.dst.kind = "MEM" /\ i.dst.n = RBP /\ i.dst.disp \in -w.low .. -8 /\ n = m
     \/ i.op = "CMP" /\ n = m
     \/ i.op = "CALL" /\ m % 16 = 0 /\ n = m
     \/ i.op \in ConditionalJumps \cup {"JMP", "RET"} /\ m = 0 /\ n = 0

-----------------------------------------------------------------------------
(* The frame: below the return address the saved RBP, then size bytes of   *)
(* slots, then the saved registers in the order they were pushed, then     *)
(* `room` bytes for the arguments of a call.                               *)
SavedAt(size, k) == 0 - 8 - size - 8 * k

Frame(size, saved, m, room) ==
  /\ IsState(m) /\ GeneralRegs \subseteq DOMAIN m.r
  /\ m.aligned = TRUE
  /\ m.r[RBP] = <<"addr", -8>>
  /\ m.r[RSP] = <<"addr", SavedAt(size, Len(saved)) - room>>
  /\ -8 \in DOMAIN m.mem /\ m.mem[-8] = <<"init", RBP>>
  /\ \A k \in 1 .. Len(saved) :
       SavedAt(size, k) \in DOMAIN m.mem /\ m.mem[SavedAt(size, k)] = <<"init", saved[k]>>
  /\ \A r \in GeneralRegs \ CallerSavedRegs :
       (\A k \in 1 .. Len(saved) : saved[k] # r) => m.r[r] = <<"init", r>>

(* The caller's view of the registers, after the return.                   *)
Restored(m) ==
  /\ IsState(m)
  /\ m.aligned = TRUE
  /\ \A r \in (GeneralRegs \cup ReservedRegs) \ CallerSavedRegs :
       m.r[r] = IF r = RSP THEN <<"addr", 0>> ELSE <<"init", r>>

(* Part way through a block, with room bytes at RSP if no jump is taken.   *)
Outcome(size, saved, m, room) ==
  /\ m.returned \in BOOLEAN /\ m.left \in BOOLEAN
  /\ IF m.returned THEN Restored(m)
     ELSE IF m.left THEN Frame(size, saved, m, 0)
     ELSE Frame(size, saved, m, room)

(* n holds all that the frame is read for as m does.                       *)
SameFrame(size, saved, m, n) ==
  /\ IsState(n) /\ DOMAIN n.r = DOMAIN m.r
  /\ n.aligned = TRUE
  /\ n.r[RBP] = m.r[RBP]
  /\ \A a \in {-8} \cup {SavedAt(size, k) : k \in 1 .. Len(saved)} :
       a \in DOMAIN m.mem => a \in DOMAIN n.mem /\ n.mem[a] = m.mem[a]
  /\ \A r \in GeneralRegs \ CallerSavedRegs :
       (\A k \in 1 .. Len(saved) : saved[k] # r) => n.r[r] = m.r[r]

LEMMA FrameKept ==
  ASSUME NEW size, NEW saved, NEW m, NEW room, Frame(size, saved, m, room),
         NEW n, SameFrame(size, saved, m, n),
         NEW new, n.r[RSP] = <<"addr", SavedAt(size, Len(saved)) - new>>
  PROVE  Frame(size, saved, n, new)
<1>1. IsState(n) /\ GeneralRegs \subseteq DOMAIN n.r /\ n.aligned = TRUE /\ n.r[RBP] = <<"addr", -8>>
  BY DEF Frame, SameFrame
<1>2. -8 \in DOMAIN n.mem /\ n.mem[-8] = <<"init", RBP>>
  BY DEF Frame, SameFrame
<1>3. ASSUME NEW k \in 1 .. Len(saved)
      PROVE  SavedAt(size, k) \in DOMAIN n.mem /\ n.mem[SavedAt(size, k)] = <<"init", saved[k]>>
  <2>1. PICK a : a = SavedAt(size, k)
    OBVIOUS
  <2>2. a \in DOMAIN m.mem /\ m.mem[a] = <<"init", saved[k]>>
    BY <2>1 DEF Frame
  <2>3. a \in {-8} \cup {SavedAt(size, j) : j \in 1 .. Len(saved)}
    BY <2>1
  <2>4. a \in DOMAIN n.mem /\ n.mem[a] = m.mem[a]
    BY <2>2, <2>3 DEF SameFrame
  <2> QED BY <2>1, <2>2, <2>4
<1>4. ASSUME NEW r \in GeneralRegs \ CallerSavedRegs, \A k \in 1 .. Len(saved) : saved[k] # r
      PROVE  n.r[r] = <<"init", r>>
  BY <1>4 DEF Frame, SameFrame
<1> QED BY <1>1, <1>2, <1>3, <1>4 DEF Frame

(* A register that is given out, or a byte between the frame's parts, may  *)
(* be written.                                                             *)
Given(saved) == CallerSavedRegs \cup {saved[k] : k \in 1 .. Len(saved)}

LEMMA RegisterWritten ==
  ASSUME NEW size, NEW saved, NEW m, NEW room, Frame(size, saved, m, room),
         NEW g \in Given(saved), g # RSP, g # RBP, NEW x,
         NEW n, n = [m EXCEPT !.r[g] = x]
  PROVE  Frame(size, saved, n, room) /\ n.returned = m.returned /\ n.left = m.left
<1>1. IsState(m)
  BY DEF Frame
<1>2. n.r = [m.r EXCEPT ![g] = x] /\ DOMAIN n = DOMAIN m /\ n.mem = m.mem /\ n.aligned = m.aligned
      /\ n.returned = m.returned /\ n.left = m.left
  BY <1>1 DEF IsState
<1>3. \A r : r # g /\ r \in DOMAIN m.r => n.r[r] = m.r[r]
  BY <1>2
<1>4. IsState(n)
  BY <1>1, <1>2 DEF IsState
<1>5. n.r[RSP] = m.r[RSP] /\ n.r[RBP] = m.r[RBP]
  BY <1>1, <1>3 DEF IsState
<1>6. ASSUME NEW r \in GeneralRegs \ CallerSavedRegs, \A k \in 1 .. Len(saved) : saved[k] # r
      PROVE  n.r[r] = m.r[r]
  <2>1. r # g /\ r \in DOMAIN m.r
    BY <1>6 DEF Given, Frame
  <2> QED BY <2>1, <1>3
<1>7. SameFrame(size, saved, m, n)
  BY <1>2, <1>4, <1>5, <1>6 DEF SameFrame, Frame
<1>8. n.r[RSP] = <<"addr", SavedAt(size, Len(saved)) - room>>
  BY <1>5 DEF Frame
<1> QED BY <1>2, <1>7, <1>8, FrameKept

LEMMA SlotWritten ==
  ASSUME NEW size, NEW saved, NEW m, NEW room, Frame(size, saved, m, room),
         NEW a, a # -8, \A k \in 1 .. Len(saved) : a # SavedAt(size, k), NEW x,
         NEW n, n = Store(m, a, x)
  PROVE  Frame(size, saved, n, room) /\ n.returned = m.returned /\ n.left = m.left
<1>1. IsState(m)
  BY DEF Frame
<1>2. PICK w : w = [b \in DOMAIN m.mem \cup {a} |-> IF b = a THEN x ELSE m.mem[b]]
  OBVIOUS
<1>3. n = [m EXCEPT !.mem = w]
  BY <1>2 DEF Store
<1>4. n.mem = w /\ DOMAIN n = DOMAIN m /\ n.r = m.r /\ n.aligned = m.aligned
      /\ n.returned = m.returned /\ n.left = m.left
  BY <1>1, <1>3 DEF IsState
<1>5. \A b \in DOMAIN m.mem : b # a => b \in DOMAIN n.mem /\ n.mem[b] = m.mem[b]
  BY <1>2, <1>4
<1>6. \A b \in {-8} \cup {SavedAt(size, k) : k \in 1 .. Len(saved)} : b # a
  OBVIOUS
<1>7. SameFrame(size, saved, m, n)
  BY <1>1, <1>4, <1>5, <1>6 DEF SameFrame, Frame, IsState
<1>8. n.r[RSP] = <<"addr", SavedAt(size, Len(saved)) - room>>
  BY <1>4 DEF Frame
<1> QED BY <1>4, <1>7, <1>8, FrameKept

LEMMA FlagsWritten ==
  ASSUME NEW size, NEW saved, NEW m, NEW room, Frame(size, saved, m, room), NEW x
  PROVE  /\ Frame(size, saved, [m EXCEPT !.flags = x], room)
         /\ [m EXCEPT !.flags = x].returned = m.returned /\ [m EXCEPT !.flags = x].left = m.left
         /\ [m EXCEPT !.flags = x].r = m.r
<1>1. PICK n : n = [m EXCEPT !.flags = x]
  OBVIOUS
<1>2. DOMAIN n = DOMAIN m /\ n.r = m.r /\ n.aligned = m.aligned /\ n.mem = m.mem
      /\ n.returned = m.returned /\ n.left = m.left
  BY <1>1 DEF Frame, IsState
<1>3. SameFrame(size, saved, m, n)
  BY <1>2 DEF SameFrame, Frame, IsState
<1>4. n.r[RSP] = <<"addr", SavedAt(size, Len(saved)) - room>>
  BY <1>2 DEF Frame
<1> QED BY <1>1, <1>2, <1>3, <1>4, FrameKept

(* The sizes fit: low bytes of slots in use of size, and RSP is on a       *)
(* boundary when there is no room below the saved registers.               *)
Layout(size, saved, low) ==
  /\ size \in Nat /\ low \in 0 .. size
  /\ saved \in Seq(GeneralRegs \ CallerSavedRegs)
  /\ (size + 8 * Len(saved)) % 16 = 0

LEMMA LayoutFacts ==
  ASSUME NEW size, NEW saved, NEW low, Layout(size, saved, low)
  PROVE  /\ size \in Nat /\ low \in Nat /\ low <= size /\ Len(saved) \in Nat
         /\ RSP \notin Given(saved) /\ RBP \notin Given(saved)
         /\ \A k \in 1 .. Len(saved) : SavedAt(size, k) \in Int /\ SavedAt(size, k) < -8 - low
                                       /\ SavedAt(size, k) >= SavedAt(size, Len(saved))
         /\ SavedAt(size, Len(saved)) \in Int /\ SavedAt(size, Len(saved)) <= -8
<1>1. size \in Nat /\ low \in Nat /\ low <= size /\ Len(saved) \in Nat
  BY DEF Layout
<1>2. RSP \notin Given(saved) /\ RBP \notin Given(saved)
  BY PointersKept DEF Layout, Given, CallerSavedRegs
<1> QED BY <1>1, <1>2 DEF SavedAt

Stands(size, saved, m, room) == Frame(size, saved, m, room) /\ m.returned = FALSE /\ m.left = FALSE

Shifts(i, room, new) ==
  \/ MovesRSP(i, "SUB") /\ room = 0 /\ i.src = LIT(new)
  \/ MovesRSP(i, "ADD") /\ new = 0 /\ i.src = LIT(room)

LEMMA PointerMoved ==
  ASSUME NEW size, NEW saved, NEW low, Layout(size, saved, low),
         NEW m, NEW room \in Nat, Stands(size, saved, m, room),
         NEW i, NEW new \in Nat, Shifts(i, room, new), NEW f
  PROVE  Stands(size, saved, Execute(f, m, i), new)
<1>0. PICK n : /\ n = Execute(f, m, i) /\ Frame(size, saved, m, room) /\ m.returned = FALSE /\ m.left = FALSE
  BY DEF Stands
<1>1. PICK b : b = SavedAt(size, Len(saved))
  OBVIOUS
<1>2. b \in Int
  BY <1>1, LayoutFacts
<1>3. Read(f, m, i.dst) = <<"addr", b - room>>
  BY <1>0, <1>1 DEF Shifts, MovesRSP, Read, PREG, Frame
<1>4. PICK x : x = <<"addr", b - new>>
  OBVIOUS
<1>5. Combine(i.op, Read(f, m, i.dst), Read(f, m, i.src)) = x
  <2>1. CASE MovesRSP(i, "SUB") /\ room = 0 /\ i.src = LIT(new)
    <3>1. Read(f, m, i.src) = <<"lit", new>> /\ b - room - new = b - new
      BY <1>2, <2>1 DEF Read, LIT
    <3>2. Combine("SUB", <<"addr", b - room>>, <<"lit", new>>) = <<"addr", b - room - new>>
      BY DEF Combine
    <3> QED BY <1>3, <1>4, <2>1, <3>1, <3>2 DEF MovesRSP
  <2>2. CASE MovesRSP(i, "ADD") /\ new = 0 /\ i.src = LIT(room)
    <3>1. Read(f, m, i.src) = <<"lit", room>> /\ (b - room) + room = b - new
      BY <1>2, <2>2 DEF Read, LIT
    <3>2. Combine("ADD", <<"addr", b - room>>, <<"lit", room>>) = <<"addr", (b - room) + room>>
      BY DEF Combine
    <3> QED BY <1>3, <1>4, <2>2, <3>1, <3>2 DEF MovesRSP
  <2> QED BY <2>1, <2>2 DEF Shifts
<1>6. PICK p : p = [m EXCEPT !.flags = <<"result", x>>]
  OBVIOUS
<1>7. Frame(size, saved, p, room) /\ p.returned = FALSE /\ p.left = FALSE
  BY <1>0, <1>6, FlagsWritten
<1>8. n = Write(f, p, i.dst, x)
  <2>1. i.op \in {"ADD", "SUB"}
    BY DEF Shifts, MovesRSP
  <2> QED BY <1>0, <1>5, <1>6, <2>1 DEF Execute, ConditionalJumps
<1>9. n = [p EXCEPT !.r[RSP] = x]
  BY <1>8 DEF Write, Shifts, MovesRSP, PREG
<1>10. /\ DOMAIN n = DOMAIN p /\ n.r = [p.r EXCEPT ![RSP] = x] /\ n.mem = p.mem /\ n.aligned = p.aligned
       /\ n.returned = p.returned /\ n.left = p.left
  BY <1>7, <1>9 DEF Frame, IsState
<1>11. n.r[RSP] = x /\ \A r : r # RSP /\ r \in DOMAIN p.r => n.r[r] = p.r[r]
  BY <1>7, <1>10 DEF Frame, IsState
<1>12. SameFrame(size, saved, p, n)
  <2>1. RSP # RBP /\ RBP \in DOMAIN p.r /\ RSP \notin GeneralRegs /\ GeneralRegs \subseteq DOMAIN p.r
    BY <1>7, PointersKept DEF Frame, IsState
  <2> QED BY <1>7, <1>10, <1>11, <2>1 DEF SameFrame, Frame, IsState
<1>13. n.r[RSP] = <<"addr", SavedAt(size, Len(saved)) - new>>
  BY <1>1, <1>4, <1>11
<1>14. Frame(size, saved, n, new)
  BY <1>7, <1>12, <1>13, FrameKept
<1> QED BY ONLY <1>0, <1>7, <1>10, <1>14 DEF Stands

StoresOnStack(i, low, room) ==
  /\ i.op = "MOV" /\ i.dst.kind = "MEM"
  /\ \/ i.dst.n = RSP /\ i.dst.disp \in 0 .. room - 8
     \/ i.dst.n = RBP /\ i.dst.disp \in -low .. -8

LEMMA MemoryMoved ==
  ASSUME NEW size, NEW saved, NEW low, Layout(size, saved, low),
         NEW m, NEW room \in Nat, Frame(size, saved, m, room), m.returned = FALSE, m.left = FALSE,
         NEW i, StoresOnStack(i, low, room),
         NEW f, NEW n, n = Execute(f, m, i)
  PROVE  Frame(size, saved, n, room) /\ n.returned = FALSE /\ n.left = FALSE
<1>0. /\ i.op = "MOV" /\ i.dst.kind = "MEM"
      /\ \/ i.dst.n = RSP /\ i.dst.disp \in 0 .. room - 8
         \/ i.dst.n = RBP /\ i.dst.disp \in -low .. -8
  BY DEF StoresOnStack
<1>1. PICK x : x = Read(f, m, i.src)
  OBVIOUS
<1>2. PICK a : a = AddressOf(m, i.dst)[2]
  OBVIOUS
<1>3. n = Store(m, a, x)
  <2>1. n = Write(f, m, i.dst, x)
    BY <1>0, <1>1 DEF Execute, ConditionalJumps
  <2> QED BY <1>0, <1>2, <2>1 DEF Write
<1>4. a # -8 /\ \A k \in 1 .. Len(saved) : a # SavedAt(size, k)
  <2>1. a = m.r[i.dst.n][2] + i.dst.disp
    BY <1>2 DEF AddressOf
  <2>2. CASE i.dst.n = RSP /\ i.dst.disp \in 0 .. room - 8
    <3>1. PICK b : b = SavedAt(size, Len(saved))
      OBVIOUS
    <3>2. b \in Int /\ b <= -8 /\ \A k \in 1 .. Len(saved) : SavedAt(size, k) \in Int /\ SavedAt(size, k) >= b
      BY <3>1, LayoutFacts
    <3>3. a = (b - room) + i.dst.disp
      BY <2>1, <2>2, <3>1 DEF Frame
    <3>4. i.dst.disp \in Int /\ i.dst.disp <= room - 8
      BY <2>2
    <3>5. a \in Int /\ a < b
      BY <3>2, <3>3, <3>4
    <3> QED BY <3>2, <3>5
  <2>3. CASE i.dst.n = RBP /\ i.dst.disp \in -low .. -8
    <3>1. low \in Nat /\ \A k \in 1 .. Len(saved) : SavedAt(size, k) \in Int /\ SavedAt(size, k) < -8 - low
      BY LayoutFacts
    <3>2. a = -8 + i.dst.disp
      BY <2>1, <2>3 DEF Frame
    <3>3. i.dst.disp \in Int /\ i.dst.disp <= -8 /\ i.dst.disp >= -low
      BY <2>3, <3>1
    <3>4. a \in Int /\ a < -8 /\ a >= -8 - low
      BY <3>1, <3>2, <3>3
    <3> QED BY <3>1, <3>4
  <2> QED BY <1>0, <2>2, <2>3
<1> QED BY <1>3, <1>4, SlotWritten

Computes(i, saved) == i.op \in {"MOV", "ADD", "IMUL"} /\ i.dst.kind = "PREG" /\ i.dst.n \in Given(saved)

LEMMA ResultMoved ==
  ASSUME NEW size, NEW saved, NEW low, Layout(size, saved, low),
         NEW m, NEW room \in Nat, Frame(size, saved, m, room), m.returned = FALSE, m.left = FALSE,
         NEW i, Computes(i, saved),
         NEW f, NEW n, n = Execute(f, m, i)
  PROVE  Frame(size, saved, n, room) /\ n.returned = FALSE /\ n.left = FALSE
<1>0. i.op \in {"MOV", "ADD", "IMUL"} /\ i.dst.kind = "PREG" /\ i.dst.n \in Given(saved)
  BY DEF Computes
<1>1. i.dst.n # RSP /\ i.dst.n # RBP
  BY <1>0, LayoutFacts
<1>2. \E p, x : Frame(size, saved, p, room) /\ p.returned = FALSE /\ p.left = FALSE /\ n = Write(f, p, i.dst, x)
  <2>1. CASE i.op = "MOV"
    BY <2>1 DEF Execute, ConditionalJumps
  <2>2. CASE i.op \in {"ADD", "IMUL"}
    <3>1. PICK x : x = Combine(i.op, Read(f, m, i.dst), Read(f, m, i.src))
      OBVIOUS
    <3>2. PICK p : p = [m EXCEPT !.flags = <<"result", x>>]
      OBVIOUS
    <3>3. Frame(size, saved, p, room) /\ p.returned = FALSE /\ p.left = FALSE
      BY <3>2, FlagsWritten
    <3>4. n = Write(f, p, i.dst, x)
      BY <2>2, <3>1, <3>2 DEF Execute, ConditionalJumps
    <3> QED BY <3>3, <3>4
  <2> QED BY <1>0, <2>1, <2>2
<1>3. PICK p, x : Frame(size, saved, p, room) /\ p.returned = FALSE /\ p.left = FALSE /\ n = Write(f, p, i.dst, x)
  BY <1>2
<1>4. PICK g : g = i.dst.n
  OBVIOUS
<1>5. n = [p EXCEPT !.r[g] = x]
  BY <1>0, <1>3, <1>4 DEF Write
<1> QED BY <1>0, <1>1, <1>3, <1>4, <1>5, RegisterWritten

LEMMA SixteensAdd ==
  ASSUME NEW t \in Nat, t % 16 = 0, NEW room \in Nat, room % 16 = 0
  PROVE  (0 - t - room) % 16 = 0
<1>1. t \div 16 \in Nat /\ t = 16 * (t \div 16)
  OBVIOUS
<1>2. room \div 16 \in Nat /\ room = 16 * (room \div 16)
  OBVIOUS
<1>3. PICK p \in Nat, q \in Nat : t = 16 * p /\ room = 16 * q
  BY <1>1, <1>2
<1>4. 0 - t - room = 16 * (0 - p - q)
  BY <1>3
<1>5. \A z \in Int : (16 * z) % 16 = 0
  OBVIOUS
<1> QED BY <1>4, <1>5

LEMMA CallKeepsFrame ==
  ASSUME NEW size, NEW saved, NEW low, Layout(size, saved, low),
         NEW m, NEW room \in Nat, Frame(size, saved, m, room), m.returned = FALSE, m.left = FALSE,
         NEW i, i.op = "CALL", room % 16 = 0,
         NEW f, NEW n, n = Execute(f, m, i)
  PROVE  Frame(size, saved, n, room) /\ n.returned = FALSE /\ n.left = FALSE
<1>1. n = AfterCall(m, i.dst)
  BY DEF Execute, ConditionalJumps
<1>2. PICK b : b = SavedAt(size, Len(saved))
  OBVIOUS
<1>3. b \in Int /\ m.r[RSP][2] = b - room /\ b - room <= -8
  BY <1>2, LayoutFacts DEF Frame
<1>4. (m.r[RSP][2] + 8) % 16 = 0
  <2>1. m.r[RSP][2] + 8 = 0 - (size + 8 * Len(saved)) - room
    <3>1. size \in Nat /\ Len(saved) \in Nat /\ room \in Nat
      BY LayoutFacts
    <3>2. b = 0 - 8 - size - 8 * Len(saved)
      BY <1>2 DEF SavedAt
    <3>3. m.r[RSP][2] = b - room
      BY <1>3
    <3>4. PICK l : l = Len(saved)
      OBVIOUS
    <3> QED BY ONLY <3>1, <3>2, <3>3, <3>4
  <2>2. PICK t \in Nat : t = size + 8 * Len(saved)
    BY LayoutFacts
  <2>3. t % 16 = 0
    BY <2>2 DEF Layout
  <2>4. (0 - t - room) % 16 = 0
    BY <2>3, SixteensAdd
  <2> QED BY <2>1, <2>2, <2>4
<1>5. PICK r : r = [g \in DOMAIN m.r |-> IF g = RAX THEN <<"ret", m.calls + 1>>
                                   ELSE IF g \in CallerSavedRegs THEN <<"junk">> ELSE m.r[g]]
  OBVIOUS
<1>6. PICK w : w = [a \in {c \in DOMAIN m.mem : c >= m.r[RSP][2]} |-> m.mem[a]]
  OBVIOUS
<1>7. PICK al \in BOOLEAN : al = (m.aligned /\ (m.r[RSP][2] + 8) % 16 = 0)
  OBVIOUS
<1>8. al = TRUE
  BY <1>4, <1>7 DEF Frame
<1>9. \E seen, calls : n = [m EXCEPT !.seen = seen, !.calls = calls, !.aligned = al, !.mem = w, !.r = r]
  <2>1. PICK seen, calls : seen = Append(m.seen, <<"call", i.dst.n, ArgumentsOf(m, i.dst)>>) /\ calls = m.calls + 1
    OBVIOUS
  <2>2. n = [m EXCEPT !.seen = seen, !.calls = calls, !.aligned = al, !.mem = w, !.r = r]
    BY <1>1, <1>5, <1>6, <1>7, <2>1 DEF AfterCall
  <2> QED BY <2>2
<1>10. /\ DOMAIN n = DOMAIN m /\ n.r = r /\ n.mem = w /\ n.aligned = TRUE
       /\ n.returned = m.returned /\ n.left = m.left
  BY <1>8, <1>9 DEF Frame, IsState
<1>11. DOMAIN n.r = DOMAIN m.r /\ \A g \in DOMAIN m.r : g \notin CallerSavedRegs => n.r[g] = m.r[g]
  BY <1>5, <1>10, GeneralAssumption
<1>12. RSP \notin CallerSavedRegs /\ RBP \notin CallerSavedRegs
  BY PointersKept DEF CallerSavedRegs
<1>13. n.r[RSP] = m.r[RSP] /\ n.r[RBP] = m.r[RBP] /\ IsState(n)
  BY <1>10, <1>11, <1>12 DEF Frame, IsState
<1>14. ASSUME NEW a \in {-8} \cup {SavedAt(size, k) : k \in 1 .. Len(saved)}, a \in DOMAIN m.mem
       PROVE  a \in DOMAIN n.mem /\ n.mem[a] = m.mem[a]
  <2>1. a >= b - room
    <3>1. CASE a = -8
      BY <3>1, <1>3
    <3>2. CASE a \in {SavedAt(size, k) : k \in 1 .. Len(saved)}
      BY <3>2, <1>2, <1>3, LayoutFacts
    <3> QED BY <3>1, <3>2
  <2> QED BY <1>3, <1>6, <1>10, <1>14, <2>1
<1>15. SameFrame(size, saved, m, n)
  BY <1>10, <1>11, <1>13, <1>14 DEF SameFrame, Frame
<1>16. n.r[RSP] = <<"addr", SavedAt(size, Len(saved)) - room>>
  BY <1>13 DEF Frame
<1> QED BY <1>10, <1>15, <1>16, FrameKept

LEMMA JumpKeepsFrame ==
  ASSUME NEW size, NEW saved, NEW m, Frame(size, saved, m, 0), m.returned = FALSE, m.left = FALSE,
         NEW i, i.op \in ConditionalJumps \cup {"JMP"},
         NEW f, NEW n, n = Execute(f, m, i)
  PROVE  Frame(size, saved, n, 0) /\ n.returned = FALSE /\ n.left \in BOOLEAN
<1>1. PICK left \in BOOLEAN : \E seen : n = [m EXCEPT !.seen = seen, !.left = left]
  <2>1. CASE i.op \in ConditionalJumps
    <3>1. n = [m EXCEPT !.seen = Append(m.seen, <<i.op, m.flags>>), !.left = (i.dst.n = m.goal)]
      BY <2>1 DEF Execute, ConditionalJumps
    <3>2. PICK left \in BOOLEAN : left = (i.dst.n = m.goal)
      OBVIOUS
    <3>3. PICK seen : seen = Append(m.seen, <<i.op, m.flags>>)
      OBVIOUS
    <3>4. n = [m EXCEPT !.seen = seen, !.left = left]
      BY <3>1, <3>2, <3>3
    <3> QED BY <3>4
  <2>2. CASE i.op = "JMP"
    <3>1. n = Leave(m, i.dst.n)
      BY <2>2 DEF Execute, ConditionalJumps
    <3>2. CASE i.dst.n = m.goal
      <4>1. n = [m EXCEPT !.left = TRUE]
        BY <3>1, <3>2 DEF Leave
      <4>2. n = [m EXCEPT !.seen = m.seen, !.left = TRUE]
        BY <4>1 DEF Frame, IsState
      <4> QED BY <4>2
    <3>3. CASE i.dst.n # m.goal
      BY <3>1, <3>3 DEF Leave
    <3> QED BY <3>2, <3>3
  <2> QED BY <2>1, <2>2
<1>2. PICK seen : n = [m EXCEPT !.seen = seen, !.left = left]
  BY <1>1
<1>3. /\ DOMAIN n = DOMAIN m /\ n.r = m.r /\ n.mem = m.mem /\ n.aligned = m.aligned
      /\ n.returned = m.returned /\ n.left = left
  BY <1>2 DEF Frame, IsState
<1>4. SameFrame(size, saved, m, n)
  BY <1>3 DEF SameFrame, Frame, IsState
<1>5. n.r[RSP] = <<"addr", SavedAt(size, Len(saved)) - 0>>
  BY <1>3 DEF Frame
<1> QED BY <1>3, <1>4, <1>5, FrameKept

LEMMA CompareKeepsFrame ==
  ASSUME NEW size, NEW saved, NEW m, NEW room, Frame(size, saved, m, room), m.returned = FALSE, m.left = FALSE,
         NEW i, i.op = "CMP", NEW f, NEW n, n = Execute(f, m, i)
  PROVE  Frame(size, saved, n, room) /\ n.returned = FALSE /\ n.left = FALSE
<1>1. PICK x : n = [m EXCEPT !.flags = x]
  BY DEF Execute, ConditionalJumps
<1> QED BY <1>1, FlagsWritten

(* So any of these instructions leaves the frame standing, with the room   *)
(* Moves says.                                                             *)
LEMMA MoveKeepsFrame ==
  ASSUME NEW size, NEW saved, NEW low, Layout(size, saved, low),
         NEW m, NEW room \in Nat, Frame(size, saved, m, room), m.returned = FALSE, m.left = FALSE,
         NEW i, NEW new \in Nat, Moves(Physical(low, Given(saved)), i, room, new), i.op # "RET",
         NEW f, NEW n, n = Execute(f, m, i)
  PROVE  Outcome(size, saved, n, new)
<1>1. PICK w : w = Physical(low, Given(saved)) /\ w.low = low /\ w.kind = "PREG" /\ w.places = Given(saved)
  BY DEF Physical
<1>2. CASE \/ MovesRSP(i, "SUB") /\ room = 0 /\ i.src = LIT(new)
           \/ MovesRSP(i, "ADD") /\ new = 0 /\ i.src = LIT(room)
  <2>1. Shifts(i, room, new) /\ Stands(size, saved, m, room)
    BY <1>2 DEF Shifts, Stands
  <2>2. Stands(size, saved, n, new)
    BY <2>1, PointerMoved
  <2> QED BY <2>2 DEF Outcome, Stands
<1>3. CASE i.op \in {"MOV", "ADD", "IMUL"} /\ i.dst.kind = "PREG" /\ i.dst.n \in Given(saved) /\ new = room
  <2>1. Frame(size, saved, n, room) /\ n.returned = FALSE /\ n.left = FALSE
    <3>1. Computes(i, saved)
      BY <1>3 DEF Computes
    <3>2. /\ Layout(size, saved, low) /\ room \in Nat /\ Frame(size, saved, m, room)
          /\ m.returned = FALSE /\ m.left = FALSE /\ n = Execute(f, m, i)
      OBVIOUS
    <3> QED BY ONLY <3>1, <3>2, ResultMoved, ZenonT(60)
  <2> QED BY <1>3, <2>1 DEF Outcome
<1>4. CASE /\ i.op = "MOV" /\ i.dst.kind = "MEM" /\ new = room
           /\ \/ i.dst.n = RSP /\ i.dst.disp \in 0 .. room - 8
              \/ i.dst.n = RBP /\ i.dst.disp \in -low .. -8
  <2>1. Frame(size, saved, n, room) /\ n.returned = FALSE /\ n.left = FALSE
    <3>1. StoresOnStack(i, low, room)
      BY <1>4 DEF StoresOnStack
    <3>2. /\ Layout(size, saved, low) /\ room \in Nat /\ Frame(size, saved, m, room)
          /\ m.returned = FALSE /\ m.left = FALSE /\ n = Execute(f, m, i)
      OBVIOUS
    <3> QED BY ONLY <3>1, <3>2, MemoryMoved, ZenonT(60)
  <2> QED BY <1>4, <2>1 DEF Outcome
<1>5. CASE i.op = "CMP" /\ new = room
  <2>1. Frame(size, saved, n, new) /\ n.returned = FALSE /\ n.left = FALSE
    BY <1>5, CompareKeepsFrame
  <2> QED BY <2>1 DEF Outcome
<1>6. CASE i.op = "CALL" /\ room % 16 = 0 /\ new = room
  <2>1. Frame(size, saved, n, room) /\ n.returned = FALSE /\ n.left = FALSE
    <3>1. i.op = "CALL" /\ room % 16 = 0
      BY <1>6
    <3>2. /\ Layout(size, saved, low) /\ room \in Nat /\ Frame(size, saved, m, room)
          /\ m.returned = FALSE /\ m.left = FALSE /\ n = Execute(f, m, i)
      OBVIOUS
    <3> QED BY ONLY <3>1, <3>2, CallKeepsFrame, ZenonT(60)
  <2> QED BY <1>6, <2>1 DEF Outcome
<1>7. CASE i.op \in ConditionalJumps \cup {"JMP"} /\ room = 0 /\ new = 0
  BY <1>7, JumpKeepsFrame DEF Outcome
<1>8. Moves(w, i, room, new)
  BY <1>1
<1> QED BY <1>1, <1>2, <1>3, <1>4, <1>5, <1>6, <1>7, <1>8 DEF Moves

-----------------------------------------------------------------------------
(* The code around the body.                                               *)
Pushes(saved) == [k \in DOMAIN saved |-> Ins("PUSH", MNONE, PREG(saved[k]))]
Pops(saved) == [k \in DOMAIN saved |-> Ins("POP", PREG(saved[k]), MNONE)]

PrologueOf(size, saved) ==
  << Ins("PUSH", MNONE, PREG(RBP)), Ins("MOV", PREG(RBP), PREG(RSP)) >>
    \o (IF size > 0 THEN <<Ins("SUB", PREG(RSP), LIT(size))>> ELSE << >>)
    \o Pushes(saved)
EpilogueOf(saved) ==
  Pops(Reverse(saved)) \o << Ins("MOV", PREG(RSP), PREG(RBP)), Ins("POP", PREG(RBP), MNONE) >>

Pushed(m, r, n) ==
  LET a == m.r[RSP][2] - 8
  IN  /\ IsState(n) /\ n.returned = FALSE /\ n.left = FALSE /\ n.aligned = m.aligned
      /\ n.r = [m.r EXCEPT ![RSP] = <<"addr", a>>]
      /\ n.mem = [b \in DOMAIN m.mem \cup {a} |-> IF b = a THEN m.r[r] ELSE m.mem[b]]
Popped(m, r, n) ==
  LET a == m.r[RSP][2]
  IN  /\ IsState(n) /\ n.returned = FALSE /\ n.left = FALSE /\ n.aligned = m.aligned
      /\ DOMAIN n.r = DOMAIN m.r /\ n.r[RSP] = <<"addr", a + 8>>
      /\ r # RSP /\ r \in DOMAIN m.r => n.r[r] = m.mem[a]
      /\ \A g \in DOMAIN m.r : g # RSP /\ g # r => n.r[g] = m.r[g]
      /\ n.mem = m.mem

LEMMA PushMade ==
  ASSUME NEW f, NEW m, IsState(m), m.returned = FALSE, m.left = FALSE, NEW r
  PROVE  Pushed(m, r, Execute(f, m, Ins("PUSH", MNONE, PREG(r))))
<1>0. PICK i, a, n : i = Ins("PUSH", MNONE, PREG(r)) /\ a = m.r[RSP][2] - 8 /\ n = Execute(f, m, i)
  OBVIOUS
<1>1. i.op = "PUSH" /\ i.src = PREG(r)
  BY <1>0 DEF Ins
<1>2. Read(f, m, PREG(r)) = m.r[r]
  BY DEF Read, PREG
<1>3. PICK w : w = [b \in DOMAIN m.mem \cup {a} |-> IF b = a THEN m.r[r] ELSE m.mem[b]]
  OBVIOUS
<1>4. PICK s : s = Store(m, a, m.r[r])
  OBVIOUS
<1>5. s = [m EXCEPT !.mem = w]
  BY <1>3, <1>4 DEF Store
<1>6. n = [s EXCEPT !.r[RSP] = <<"addr", a>>]
  BY <1>0, <1>1, <1>2, <1>4 DEF Execute, ConditionalJumps
<1>7. /\ DOMAIN s = DOMAIN m /\ s.r = m.r /\ s.mem = w /\ s.aligned = m.aligned
      /\ s.returned = FALSE /\ s.left = FALSE
  BY <1>5 DEF IsState
<1>8. /\ IsState(n) /\ n.returned = FALSE /\ n.left = FALSE /\ n.aligned = m.aligned
      /\ n.r = [m.r EXCEPT ![RSP] = <<"addr", a>>] /\ n.mem = w
  BY <1>6, <1>7 DEF IsState
<1> QED BY <1>0, <1>3, <1>8 DEF Pushed

LEMMA PopMade ==
  ASSUME NEW f, NEW m, IsState(m), m.returned = FALSE, m.left = FALSE, NEW r, m.r[RSP][2] \in DOMAIN m.mem
  PROVE  Popped(m, r, Execute(f, m, Ins("POP", PREG(r), MNONE)))
<1>0. PICK i, a, n : i = Ins("POP", PREG(r), MNONE) /\ a = m.r[RSP][2] /\ n = Execute(f, m, i)
  OBVIOUS
<1>1. i.op = "POP" /\ i.dst = PREG(r)
  BY <1>0 DEF Ins
<1>2. PICK x : x = m.mem[a]
  OBVIOUS
<1>3. PICK s : s = [m EXCEPT !.r[r] = x]
  OBVIOUS
<1>4. n = [s EXCEPT !.r[RSP] = <<"addr", a + 8>>]
  <2>1. n = [Write(f, m, i.dst, x) EXCEPT !.r[RSP] = <<"addr", a + 8>>]
    BY <1>0, <1>1, <1>2 DEF Execute, ConditionalJumps
  <2>2. Write(f, m, i.dst, x) = s
    BY <1>1, <1>3 DEF Write, PREG
  <2> QED BY <2>1, <2>2
<1>5. /\ DOMAIN s = DOMAIN m /\ s.r = [m.r EXCEPT ![r] = x] /\ s.mem = m.mem /\ s.aligned = m.aligned
      /\ s.returned = FALSE /\ s.left = FALSE
  BY <1>3 DEF IsState
<1>6. /\ DOMAIN n = DOMAIN m /\ n.r = [s.r EXCEPT ![RSP] = <<"addr", a + 8>>] /\ n.mem = m.mem
      /\ n.aligned = m.aligned /\ n.returned = FALSE /\ n.left = FALSE
  BY <1>4, <1>5 DEF IsState
<1>7. DOMAIN n.r = DOMAIN m.r /\ RSP \in DOMAIN m.r
  BY <1>5, <1>6 DEF IsState
<1>8. IsState(n)
  BY <1>6, <1>7 DEF IsState
<1>9. /\ n.r[RSP] = <<"addr", a + 8>>
      /\ \A g \in DOMAIN m.r : g # RSP => n.r[g] = s.r[g]
      /\ \A g \in DOMAIN m.r : g # r => s.r[g] = m.r[g]
      /\ r \in DOMAIN m.r => s.r[r] = x
  BY <1>5, <1>6, <1>7
<1> QED BY <1>0, <1>2, <1>6, <1>7, <1>8, <1>9 DEF Popped

Copied(m, r, q, n) ==
  /\ IsState(n) /\ n.returned = FALSE /\ n.left = FALSE /\ n.aligned = m.aligned
  /\ n.r = [m.r EXCEPT ![r] = m.r[q]] /\ n.mem = m.mem

LEMMA CopyMade ==
  ASSUME NEW f, NEW m, IsState(m), m.returned = FALSE, m.left = FALSE, NEW r, NEW q
  PROVE  Copied(m, r, q, Execute(f, m, Ins("MOV", PREG(r), PREG(q))))
<1>0. PICK i, n : i = Ins("MOV", PREG(r), PREG(q)) /\ n = Execute(f, m, i)
  OBVIOUS
<1>1. i.op = "MOV" /\ i.dst = PREG(r) /\ i.src = PREG(q)
  BY <1>0 DEF Ins
<1>2. n = Write(f, m, i.dst, Read(f, m, i.src))
  BY <1>0, <1>1 DEF Execute, ConditionalJumps
<1>3. Read(f, m, PREG(q)) = m.r[q]
  BY DEF Read, PREG
<1>4. \A v : Write(f, m, PREG(r), v) = [m EXCEPT !.r[r] = v]
  BY DEF Write, PREG
<1>5. n = [m EXCEPT !.r[r] = m.r[q]]
  BY <1>1, <1>2, <1>3, <1>4
<1>6. Copied(m, r, q, n)
  BY <1>5 DEF IsState, Copied
<1> QED BY <1>0, <1>6

(* Pushing a register makes a frame with one more saved, popping it undoes *)
(* that.                                                                   *)
LEMMA FramePushed ==
  ASSUME NEW size \in Nat, NEW saved \in Seq(GeneralRegs \ CallerSavedRegs), NEW r \in GeneralRegs \ CallerSavedRegs,
         \A k \in 1 .. Len(saved) : saved[k] # r,
         NEW m, Stands(size, saved, m, 0), NEW f
  PROVE  Stands(size, Append(saved, r), Execute(f, m, Ins("PUSH", MNONE, PREG(r))), 0)
<1>0. PICK n, more : /\ n = Execute(f, m, Ins("PUSH", MNONE, PREG(r))) /\ more = Append(saved, r)
                     /\ Frame(size, saved, m, 0) /\ m.returned = FALSE /\ m.left = FALSE
  BY DEF Stands
<1>1. Len(saved) \in Nat /\ Len(more) = Len(saved) + 1 /\ more[Len(saved) + 1] = r
      /\ \A k \in 1 .. Len(saved) : more[k] = saved[k]
  BY <1>0
<1>2. PICK a : a = SavedAt(size, Len(more))
  OBVIOUS
<1>3. a \in Int /\ a = SavedAt(size, Len(saved)) - 8 /\ a # -8 /\ \A k \in 1 .. Len(saved) : SavedAt(size, k) \in Int /\ SavedAt(size, k) # a
  BY <1>1, <1>2 DEF SavedAt
<1>4. m.r[RSP][2] - 8 = a
  <2>1. m.r[RSP] = <<"addr", SavedAt(size, Len(saved)) - 0>>
    BY <1>0 DEF Frame
  <2>2. SavedAt(size, Len(saved)) - 0 - 8 = SavedAt(size, Len(saved)) - 8
    BY <1>1 DEF SavedAt
  <2> QED BY <1>3, <2>1, <2>2
<1>5. IsState(m)
  BY <1>0 DEF Frame
<1>6. /\ IsState(n) /\ n.returned = FALSE /\ n.left = FALSE /\ n.aligned = m.aligned
      /\ n.r = [m.r EXCEPT ![RSP] = <<"addr", a>>]
      /\ n.mem = [b \in DOMAIN m.mem \cup {a} |-> IF b = a THEN m.r[r] ELSE m.mem[b]]
  <2>1. Pushed(m, r, n)
    BY <1>0, <1>5, PushMade
  <2> QED BY <1>4, <2>1 DEF Pushed
<1>7. \A g \in DOMAIN m.r : g # RSP => n.r[g] = m.r[g]
  BY <1>6
<1>8. n.r[RSP] = <<"addr", SavedAt(size, Len(more)) - 0>> /\ n.r[RBP] = <<"addr", -8>> /\ DOMAIN n.r = DOMAIN m.r
  <2>1. RSP \in DOMAIN m.r /\ RBP \in DOMAIN m.r /\ RBP # RSP
    BY <1>5, PointersKept DEF IsState
  <2>2. a = SavedAt(size, Len(more)) - 0
    BY <1>2, <1>3
  <2> QED BY <1>0, <1>6, <1>7, <2>1, <2>2 DEF Frame
<1>9. -8 \in DOMAIN n.mem /\ n.mem[-8] = <<"init", RBP>>
  BY <1>0, <1>3, <1>6 DEF Frame
<1>10. m.r[r] = <<"init", r>>
  BY <1>0 DEF Frame
<1>11. ASSUME NEW k \in 1 .. Len(more)
       PROVE  SavedAt(size, k) \in DOMAIN n.mem /\ n.mem[SavedAt(size, k)] = <<"init", more[k]>>
  <2>1. CASE k = Len(more)
    BY <1>1, <1>2, <1>6, <1>10, <2>1
  <2>2. CASE k \in 1 .. Len(saved)
    <3>1. SavedAt(size, k) \in DOMAIN m.mem /\ m.mem[SavedAt(size, k)] = <<"init", saved[k]>>
      BY <1>0, <2>2 DEF Frame
    <3>2. SavedAt(size, k) # a
      BY <1>3, <2>2
    <3> QED BY <1>1, <1>6, <2>2, <3>1, <3>2
  <2> QED BY <1>1, <2>1, <2>2
<1>12. ASSUME NEW g \in GeneralRegs \ CallerSavedRegs, \A k \in 1 .. Len(more) : more[k] # g
       PROVE  n.r[g] = <<"init", g>>
  <2>1. \A k \in 1 .. Len(saved) : saved[k] # g
    BY <1>1, <1>12
  <2>2. m.r[g] = <<"init", g>> /\ g \in DOMAIN m.r /\ g # RSP
    BY <1>0, <2>1, PointersKept DEF Frame
  <2> QED BY <1>7, <2>2
<1>13. n.aligned = TRUE /\ GeneralRegs \subseteq DOMAIN n.r
  BY <1>0, <1>6, <1>8 DEF Frame
<1>14. Frame(size, more, n, 0)
  BY <1>6, <1>8, <1>9, <1>11, <1>12, <1>13 DEF Frame
<1> QED BY ONLY <1>0, <1>6, <1>14 DEF Stands

LEMMA FramePopped ==
  ASSUME NEW size \in Nat, NEW saved \in Seq(GeneralRegs \ CallerSavedRegs), NEW r \in GeneralRegs \ CallerSavedRegs,
         NEW m, Stands(size, Append(saved, r), m, 0), NEW f
  PROVE  Stands(size, saved, Execute(f, m, Ins("POP", PREG(r), MNONE)), 0)
<1>0. PICK n, more : /\ n = Execute(f, m, Ins("POP", PREG(r), MNONE)) /\ more = Append(saved, r)
                     /\ Frame(size, more, m, 0) /\ m.returned = FALSE /\ m.left = FALSE
  BY DEF Stands
<1>1. Len(saved) \in Nat /\ Len(more) = Len(saved) + 1 /\ more[Len(saved) + 1] = r
      /\ \A k \in 1 .. Len(saved) : more[k] = saved[k]
  BY <1>0
<1>2. PICK a : a = SavedAt(size, Len(more))
  OBVIOUS
<1>3. a \in Int /\ a + 8 = SavedAt(size, Len(saved)) - 0 /\ a - 0 = a
  BY <1>1, <1>2 DEF SavedAt
<1>4. m.r[RSP][2] = a
  <2>1. m.r[RSP] = <<"addr", SavedAt(size, Len(more)) - 0>>
    BY <1>0 DEF Frame
  <2> QED BY <1>2, <1>3, <2>1
<1>5. IsState(m)
  BY <1>0 DEF Frame
<1>6. a \in DOMAIN m.mem /\ m.mem[a] = <<"init", r>>
  BY <1>0, <1>1, <1>2 DEF Frame
<1>7. /\ IsState(n) /\ n.returned = FALSE /\ n.left = FALSE /\ n.aligned = m.aligned
      /\ DOMAIN n.r = DOMAIN m.r /\ n.r[RSP] = <<"addr", a + 8>>
      /\ r # RSP /\ r \in DOMAIN m.r => n.r[r] = m.mem[a]
      /\ \A g \in DOMAIN m.r : g # RSP /\ g # r => n.r[g] = m.r[g]
      /\ n.mem = m.mem
  <2>1. Popped(m, r, n)
    BY <1>0, <1>4, <1>5, <1>6, PopMade
  <2> QED BY <1>4, <2>1 DEF Popped
<1>8. r # RSP /\ r # RBP /\ RSP # RBP /\ RBP \in DOMAIN m.r /\ GeneralRegs \subseteq DOMAIN m.r
  BY <1>0, <1>5, PointersKept DEF IsState, Frame
<1>9. n.r[RBP] = <<"addr", -8>>
  BY <1>0, <1>7, <1>8 DEF Frame
<1>10. ASSUME NEW k \in 1 .. Len(saved)
       PROVE  SavedAt(size, k) \in DOMAIN n.mem /\ n.mem[SavedAt(size, k)] = <<"init", saved[k]>>
  BY <1>0, <1>1, <1>7 DEF Frame
<1>11. ASSUME NEW g \in GeneralRegs \ CallerSavedRegs, \A k \in 1 .. Len(saved) : saved[k] # g
       PROVE  n.r[g] = <<"init", g>>
  <2>1. CASE g = r
    BY <1>6, <1>7, <1>8, <2>1
  <2>2. CASE g # r
    <3>1. \A k \in 1 .. Len(more) : more[k] # g
      BY <1>1, <1>11, <2>2
    <3>2. m.r[g] = <<"init", g>> /\ g # RSP
      BY <1>0, <3>1, PointersKept DEF Frame
    <3> QED BY <1>7, <1>8, <2>2, <3>2
  <2> QED BY <2>1, <2>2
<1>12. n.aligned = TRUE /\ GeneralRegs \subseteq DOMAIN n.r /\ -8 \in DOMAIN n.mem /\ n.mem[-8] = <<"init", RBP>>
  BY <1>0, <1>7 DEF Frame
<1>13. Frame(size, saved, n, 0)
  BY <1>3, <1>7, <1>9, <1>10, <1>11, <1>12 DEF Frame
<1> QED BY ONLY <1>0, <1>7, <1>13 DEF Stands

-----------------------------------------------------------------------------
(* The prologue makes the frame, the epilogue takes it down.               *)
LEMMA RunJoined ==
  ASSUME NEW f, NEW m, NEW a, IsSeq(a), NEW b, IsSeq(b)
  PROVE  Run(f, m, a \o b) = Run(f, Run(f, m, a), b)
<1>1. PICK S : a \in Seq(S) /\ b \in Seq(S)
  BY TwoInOneSet
<1> QED BY <1>1, RunConcat

LEMMA RunAppended ==
  ASSUME NEW f, NEW m, NEW c, IsSeq(c), NEW i
  PROVE  Run(f, m, Append(c, i)) = Execute(f, Run(f, m, c), i)
<1>1. IsSeq(<<i>>)
  BY IsSeqParts
<1>2. PICK S : c \in Seq(S) /\ <<i>> \in Seq(S)
  BY <1>1, TwoInOneSet
<1>3. i \in S
  BY <1>2
<1> QED BY <1>2, <1>3, RunAppend

LEMMA RunOne == ASSUME NEW f, NEW m, NEW x PROVE Run(f, m, <<x>>) = Execute(f, m, x)
<1>1. PICK e : e = << >>
  OBVIOUS
<1>2. e \in Seq({x}) /\ x \in {x}
  BY <1>1
<1>3. Append(e, x) = <<x>>
  BY <1>1, <1>2, AppendFacts
<1>4. Run(f, m, Append(e, x)) = Execute(f, Run(f, m, e), x)
  BY ONLY <1>2, RunAppend
<1> QED BY ONLY <1>1, <1>3, <1>4, RunEmpty

Each(g, s) == [k \in DOMAIN s |-> g[s[k]]]

LEMMA EachAppend ==
  ASSUME NEW S, NEW g, NEW s \in Seq(S), NEW x \in S
  PROVE  IsSeq(Each(g, s)) /\ Each(g, Append(s, x)) = Append(Each(g, s), g[x])
<1>0. PICK t : t = Append(s, x)
  OBVIOUS
<1>1. /\ Len(s) \in Nat /\ DOMAIN s = 1 .. Len(s) /\ Len(t) = Len(s) + 1 /\ DOMAIN t = 1 .. Len(s) + 1
      /\ t[Len(s) + 1] = x /\ \A k \in 1 .. Len(s) : t[k] = s[k]
  BY <1>0
<1>2. PICK a : a = Each(g, s) /\ a = [k \in DOMAIN s |-> g[s[k]]]
  BY DEF Each
<1>3. PICK b : b = Each(g, t) /\ b = [k \in DOMAIN t |-> g[t[k]]]
  BY DEF Each
<1>4. a = [k \in 1 .. Len(s) |-> a[k]] /\ DOMAIN a = 1 .. Len(s)
  BY <1>1, <1>2
<1>5. IsSeq(a) /\ Len(a) = Len(s)
  BY <1>1, <1>4, IsSeqFunction
<1>6. Len(s) + 1 \in Nat /\ b = [k \in 1 .. Len(s) + 1 |-> b[k]] /\ DOMAIN b = 1 .. Len(s) + 1
  BY <1>1, <1>3
<1>7. PICK n \in Nat : n = Len(s) + 1
  BY <1>6
<1>8. IsSeq(b) /\ Len(b) = n
  BY <1>6, <1>7, IsSeqFunction
<1>9. PICK U : a \in Seq(U) /\ b \in Seq(U)
  BY <1>5, <1>8, TwoInOneSet
<1>10. b[n] = g[x] /\ n \in DOMAIN b /\ g[x] \in U
  <2>1. n \in 1 .. n /\ DOMAIN b = 1 .. n /\ DOMAIN t = 1 .. n /\ t[n] = x
    BY <1>1, <1>6, <1>7
  <2>2. b[n] = g[x]
    BY <1>3, <2>1
  <2>3. b[n] \in U
    BY <1>9, <2>1
  <2> QED BY <2>1, <2>2, <2>3
<1>11. PICK c : c = Append(a, g[x])
  OBVIOUS
<1>12. /\ c \in Seq(U) /\ Len(c) = n /\ c[n] = g[x] /\ \A k \in 1 .. Len(s) : c[k] = a[k]
  BY <1>5, <1>7, <1>9, <1>10, <1>11
<1>13. ASSUME NEW k \in 1 .. n PROVE b[k] = c[k]
  <2>1. CASE k = n
    BY <1>10, <1>12, <2>1
  <2>2. CASE k \in 1 .. Len(s)
    <3>1. c[k] = g[s[k]]
      BY <1>1, <1>2, <1>12, <2>2
    <3>2. b[k] = g[t[k]] /\ t[k] = s[k]
      BY <1>1, <1>3, <2>2
    <3> QED BY <3>1, <3>2
  <2> QED BY <1>1, <1>7, <2>1, <2>2
<1>14. b = c
  BY <1>8, <1>9, <1>12, <1>13, SeqEqual
<1> QED BY <1>0, <1>2, <1>3, <1>5, <1>11, <1>14

LEMMA PushesAppend ==
  ASSUME NEW S, NEW s \in Seq(S), NEW x \in S
  PROVE  IsSeq(Pushes(s)) /\ Pushes(Append(s, x)) = Append(Pushes(s), Ins("PUSH", MNONE, PREG(x)))
<1>1. PICK g : g = [r \in S |-> Ins("PUSH", MNONE, PREG(r))]
  OBVIOUS
<1>2. PICK t : t = Append(s, x) /\ t \in Seq(S)
  <2>1. Append(s, x) \in Seq(S)
    BY AppendFacts
  <2> QED BY <2>1
<1>3. ASSUME NEW d \in Seq(S) PROVE Pushes(d) = Each(g, d)
  <2>1. \A k \in DOMAIN d : d[k] \in S
    OBVIOUS
  <2> QED BY <1>1, <2>1 DEF Pushes, Each
<1>4. g[x] = Ins("PUSH", MNONE, PREG(x))
  BY <1>1
<1>5. Pushes(s) = Each(g, s) /\ Pushes(t) = Each(g, t)
  BY <1>2, <1>3
<1>6. IsSeq(Each(g, s)) /\ Each(g, Append(s, x)) = Append(Each(g, s), g[x])
  BY EachAppend
<1> QED BY ONLY <1>2, <1>4, <1>5, <1>6

LEMMA PushesEmpty == Pushes(<< >>) = << >>
BY DEF Pushes

LEMMA PopsAppend ==
  ASSUME NEW S, NEW s \in Seq(S), NEW x \in S
  PROVE  /\ IsSeq(Pops(Reverse(s)))
         /\ Pops(Reverse(Append(s, x))) = <<Ins("POP", PREG(x), MNONE)>> \o Pops(Reverse(s))
<1>1. PICK t : t = Append(s, x) /\ t \in Seq(S)
  <2>1. Append(s, x) \in Seq(S)
    BY AppendFacts
  <2> QED BY <2>1
<1>2. PICK n \in Nat : n = Len(s)
  OBVIOUS
<1>3. /\ DOMAIN s = 1 .. n /\ Len(t) = n + 1 /\ DOMAIN t = 1 .. n + 1
      /\ t[n + 1] = x /\ \A k \in 1 .. n : t[k] = s[k]
  BY <1>1, <1>2
<1>4. PICK a : a = Pops(Reverse(s))
  OBVIOUS
<1>5. PICK b : b = Pops(Reverse(t))
  OBVIOUS
<1>6. DOMAIN a = 1 .. n /\ a = [k \in 1 .. n |-> a[k]] /\ \A k \in 1 .. n : a[k] = Ins("POP", PREG(s[(n - k) + 1]), MNONE)
  BY <1>2, <1>4 DEF Pops, Reverse
<1>7. PICK j \in Nat : j = n + 1
  OBVIOUS
<1>8. DOMAIN b = 1 .. j /\ b = [k \in 1 .. j |-> b[k]] /\ \A k \in 1 .. j : b[k] = Ins("POP", PREG(t[(j - k) + 1]), MNONE)
  BY <1>3, <1>5, <1>7 DEF Pops, Reverse
<1>9. IsSeq(a) /\ Len(a) = n
  BY <1>6, IsSeqFunction
<1>10. IsSeq(b) /\ Len(b) = j
  BY <1>8, IsSeqFunction
<1>11. PICK p : p = <<Ins("POP", PREG(x), MNONE)>>
  OBVIOUS
<1>12. IsSeq(p) /\ Len(p) = 1 /\ p[1] = Ins("POP", PREG(x), MNONE)
  <2>1. IsSeq(p)
    BY <1>11, IsSeqParts
  <2> QED BY <1>11, <2>1
<1>13. PICK c : c = p \o a
  OBVIOUS
<1>14. PICK U : p \in Seq(U) /\ a \in Seq(U)
  BY <1>9, <1>12, TwoInOneSet
<1>15. /\ c \in Seq(U) /\ Len(c) = j
       /\ \A k \in 1 .. j : c[k] = IF k <= 1 THEN p[k] ELSE a[k - 1]
  <2>1. /\ c \in Seq(U) /\ Len(c) = Len(p) + Len(a)
        /\ \A k \in 1 .. Len(p) + Len(a) : c[k] = IF k <= Len(p) THEN p[k] ELSE a[k - Len(p)]
    BY <1>13, <1>14, ConcatProperties
  <2>2. Len(p) + Len(a) = j
    BY <1>7, <1>9, <1>12
  <2> QED BY <1>12, <2>1, <2>2
<1>16. ASSUME NEW k \in 1 .. j PROVE b[k] = c[k]
  <2>1. CASE k = 1
    <3>1. (j - k) + 1 = n + 1
      BY <1>7, <2>1
    <3>2. b[k] = Ins("POP", PREG(x), MNONE)
      BY <1>3, <1>8, <3>1
    <3>3. c[k] = p[1]
      BY <1>15, <2>1
    <3> QED BY <1>12, <3>2, <3>3
  <2>2. CASE k # 1
    <3>1. k - 1 \in 1 .. n /\ (j - k) + 1 = (n - (k - 1)) + 1 /\ (j - k) + 1 \in 1 .. n /\ ~(k <= 1)
      BY <1>7, <2>2
    <3>2. b[k] = Ins("POP", PREG(t[(j - k) + 1]), MNONE) /\ t[(j - k) + 1] = s[(j - k) + 1]
      BY <1>3, <1>8, <3>1
    <3>3. c[k] = Ins("POP", PREG(s[(n - (k - 1)) + 1]), MNONE)
      BY <1>6, <1>15, <3>1
    <3> QED BY <3>1, <3>2, <3>3
  <2> QED BY <2>1, <2>2
<1>17. c \in Seq(U) /\ IsSeq(c)
  BY <1>15, SeqIsSeq
<1>18. PICK V : b \in Seq(V) /\ c \in Seq(V)
  BY <1>10, <1>17, TwoInOneSet
<1>19. b = c
  BY <1>10, <1>15, <1>16, <1>18, SeqEqual
<1> QED BY <1>1, <1>4, <1>5, <1>9, <1>11, <1>13, <1>19

LEMMA PopsEmpty == Pops(Reverse(<< >>)) = << >>
BY DEF Pops, Reverse

Distinct(s) == \A j, k \in 1 .. Len(s) : s[j] = s[k] => j = k

LEMMA SavedPushed ==
  ASSUME NEW f, NEW size \in Nat, NEW saved \in Seq(GeneralRegs \ CallerSavedRegs), Distinct(saved),
         NEW m, Stands(size, << >>, m, 0)
  PROVE  Stands(size, saved, Run(f, m, Pushes(saved)), 0)
<1> DEFINE S == GeneralRegs \ CallerSavedRegs
<1> DEFINE T == {s \in Seq(S) : Distinct(s) => Stands(size, s, Run(f, m, Pushes(s)), 0)}
<1>1. << >> \in T
  <2>1. << >> \in Seq(S)
    OBVIOUS
  <2>2. Run(f, m, Pushes(<< >>)) = m
    BY PushesEmpty, RunEmpty
  <2> QED BY <2>1, <2>2
<1>2. ASSUME NEW s \in Seq(S), NEW x \in S, s \in T PROVE Append(s, x) \in T
  <2>1. PICK t : t = Append(s, x)
    OBVIOUS
  <2>2. t \in Seq(S) /\ Len(t) = Len(s) + 1 /\ t[Len(s) + 1] = x /\ Len(s) \in Nat /\ \A k \in 1 .. Len(s) : t[k] = s[k]
    BY <2>1
  <2>3. ASSUME Distinct(t) PROVE Stands(size, t, Run(f, m, Pushes(t)), 0)
    <3>1. Distinct(s) /\ \A k \in 1 .. Len(s) : s[k] # x
      <4>1. \A k \in 1 .. Len(s) : k \in 1 .. Len(t) /\ k # Len(s) + 1 /\ s[k] = t[k]
        BY <2>2
      <4>2. Len(s) + 1 \in 1 .. Len(t)
        BY <2>2
      <4>3. \A j, k \in 1 .. Len(t) : t[j] = t[k] => j = k
        BY <2>3 DEF Distinct
      <4>4. \A k \in 1 .. Len(s) : s[k] # x
        BY ONLY <2>2, <4>1, <4>2, <4>3
      <4>5. Distinct(s)
        BY ONLY <4>1, <4>3 DEF Distinct
      <4> QED BY <4>4, <4>5
    <3>2. PICK n : n = Run(f, m, Pushes(s))
      OBVIOUS
    <3>3. Stands(size, s, n, 0)
      BY <1>2, <3>1, <3>2
    <3>4. IsSeq(Pushes(s)) /\ Pushes(t) = Append(Pushes(s), Ins("PUSH", MNONE, PREG(x)))
      BY <2>1, PushesAppend
    <3>5. PICK i, c : i = Ins("PUSH", MNONE, PREG(x)) /\ c = Pushes(s)
      OBVIOUS
    <3>6. Run(f, m, Append(c, i)) = Execute(f, Run(f, m, c), i)
      BY <3>4, <3>5, RunAppended
    <3>7. Run(f, m, Pushes(t)) = Execute(f, n, Ins("PUSH", MNONE, PREG(x)))
      BY ONLY <3>2, <3>4, <3>5, <3>6
    <3>8. Stands(size, Append(s, x), Execute(f, n, Ins("PUSH", MNONE, PREG(x))), 0)
      BY <3>1, <3>3, FramePushed
    <3> QED BY ONLY <2>1, <3>7, <3>8
  <2> QED BY <2>1, <2>2, <2>3
<1> HIDE DEF S, T
<1>3. saved \in Seq(S)
  BY DEF S
<1>4. saved \in T
  BY <1>1, <1>2, <1>3, SequencesFromEmpty
<1> QED BY <1>4 DEF T

LEMMA SavedPopped ==
  ASSUME NEW f, NEW size \in Nat, NEW saved \in Seq(GeneralRegs \ CallerSavedRegs),
         NEW m, Stands(size, saved, m, 0)
  PROVE  Stands(size, << >>, Run(f, m, Pops(Reverse(saved))), 0)
<1> DEFINE S == GeneralRegs \ CallerSavedRegs
<1> DEFINE T == {s \in Seq(S) : \A n : Stands(size, s, n, 0) => Stands(size, << >>, Run(f, n, Pops(Reverse(s))), 0)}
<1>1. << >> \in T
  <2>1. << >> \in Seq(S)
    OBVIOUS
  <2>2. \A n : Run(f, n, Pops(Reverse(<< >>))) = n
    BY PopsEmpty, RunEmpty
  <2> QED BY <2>1, <2>2
<1>2. ASSUME NEW s \in Seq(S), NEW x \in S, s \in T PROVE Append(s, x) \in T
  <2>1. PICK t : t = Append(s, x)
    OBVIOUS
  <2>2. t \in Seq(S)
    BY <2>1
  <2>3. ASSUME NEW n, Stands(size, t, n, 0) PROVE Stands(size, << >>, Run(f, n, Pops(Reverse(t))), 0)
    <3>1. PICK i, a, c : i = Ins("POP", PREG(x), MNONE) /\ a = <<i>> /\ c = Pops(Reverse(s))
      OBVIOUS
    <3>2. IsSeq(c) /\ Pops(Reverse(t)) = a \o c
      BY <2>1, <3>1, PopsAppend
    <3>3. IsSeq(a)
      BY <3>1, IsSeqParts
    <3>4. Run(f, n, a \o c) = Run(f, Run(f, n, a), c)
      BY <3>2, <3>3, RunJoined
    <3>5. PICK p : p = Execute(f, n, i)
      OBVIOUS
    <3>6. Run(f, n, a) = p
      BY <3>1, <3>5, RunOne
    <3>7. Stands(size, s, p, 0)
      <4>1. Stands(size, Append(s, x), n, 0)
        BY <2>1, <2>3
      <4>2. Stands(size, s, Execute(f, n, Ins("POP", PREG(x), MNONE)), 0)
        BY <4>1, FramePopped
      <4> QED BY ONLY <3>1, <3>5, <4>2
    <3>8. Stands(size, << >>, Run(f, p, c), 0)
      BY <1>2, <3>1, <3>7
    <3> QED BY ONLY <3>2, <3>4, <3>6, <3>8
  <2> QED BY <2>1, <2>2, <2>3
<1> HIDE DEF S, T
<1>3. saved \in Seq(S)
  BY DEF S
<1>4. saved \in T
  BY <1>1, <1>2, <1>3, SequencesFromEmpty
<1> QED BY <1>4 DEF T

LEMMA FrameMade ==
  ASSUME NEW f, NEW vregs, NEW size \in Nat,
         NEW m, m = EntryState(vregs, GeneralRegs \cup ReservedRegs)
  PROVE  Stands(size, << >>, Run(f, m, << Ins("PUSH", MNONE, PREG(RBP)), Ins("MOV", PREG(RBP), PREG(RSP)) >>
                    \o (IF size > 0 THEN <<Ins("SUB", PREG(RSP), LIT(size))>> ELSE << >>)), 0)
<1>1. PICK x, y, z : /\ x = Ins("PUSH", MNONE, PREG(RBP)) /\ y = Ins("MOV", PREG(RBP), PREG(RSP))
                     /\ z = Ins("SUB", PREG(RSP), LIT(size))
  OBVIOUS
<1>2. PICK a, b : a = <<x, y>> /\ b = IF size > 0 THEN <<z>> ELSE << >>
  OBVIOUS
<1>3. IsSeq(a) /\ IsSeq(b)
  BY <1>2, IsSeqParts
<1>4. PICK p, q : p = Execute(f, m, x) /\ q = Execute(f, p, y)
  OBVIOUS
<1>5. Run(f, m, a) = q
  BY <1>2, <1>4, RunTwo
<1>6. /\ DOMAIN m = {"v", "r", "mem", "flags", "calls", "seen", "aligned", "returned", "goal", "left"}
      /\ m.aligned = TRUE /\ m.returned = FALSE /\ m.left = FALSE
      /\ m.r = [r \in GeneralRegs \cup ReservedRegs |-> IF r = RSP THEN <<"addr", 0>> ELSE <<"init", r>>]
  BY DEF EntryState
<1>7. RSP \in GeneralRegs \cup ReservedRegs /\ RBP \in GeneralRegs \cup ReservedRegs /\ RSP # RBP
  BY GeneralAssumption, PointersKept
<1>8. IsState(m) /\ m.r[RSP] = <<"addr", 0>> /\ m.r[RBP] = <<"init", RBP>> /\ GeneralRegs \subseteq DOMAIN m.r
      /\ \A r \in GeneralRegs : m.r[r] = <<"init", r>>
  BY <1>6, <1>7, PointersKept DEF IsState
<1>9. m.r[RSP][2] - 8 = -8
  <2>1. 0 - 8 = -8
    OBVIOUS
  <2>2. m.r[RSP] = <<"addr", 0>>
    BY <1>8
  <2>3. <<"addr", 0>>[2] = 0
    OBVIOUS
  <2> QED BY ONLY <2>1, <2>2, <2>3
<1>10. Pushed(m, RBP, p)
  BY <1>1, <1>4, <1>6, <1>8, PushMade
<1>11. /\ IsState(p) /\ p.returned = FALSE /\ p.left = FALSE /\ p.aligned = TRUE
       /\ p.r = [m.r EXCEPT ![RSP] = <<"addr", -8>>] /\ -8 \in DOMAIN p.mem /\ p.mem[-8] = <<"init", RBP>>
  <2>1. PICK c : c = m.r[RSP][2] - 8 /\ c = -8
    BY <1>9
  <2>2. /\ IsState(p) /\ p.returned = FALSE /\ p.left = FALSE /\ p.aligned = m.aligned
        /\ p.r = [m.r EXCEPT ![RSP] = <<"addr", c>>]
    BY ONLY <1>10, <2>1 DEF Pushed
  <2>3. p.mem = [e \in DOMAIN m.mem \cup {c} |-> IF e = c THEN m.r[RBP] ELSE m.mem[e]]
    BY ONLY <1>10, <2>1 DEF Pushed
  <2>4. c \in DOMAIN p.mem /\ p.mem[c] = m.r[RBP]
    BY ONLY <2>3
  <2>5. p.aligned = TRUE
    BY ONLY <1>6, <2>2
  <2> QED BY ONLY <1>8, <2>1, <2>2, <2>4, <2>5
<1>12. /\ DOMAIN p.r = DOMAIN m.r /\ p.r[RSP] = <<"addr", -8>>
       /\ \A r \in DOMAIN m.r : r # RSP => p.r[r] = m.r[r]
  BY <1>6, <1>7, <1>11
<1>13. Copied(p, RBP, RSP, q)
  BY <1>1, <1>4, <1>11, CopyMade
<1>14. /\ IsState(q) /\ q.returned = FALSE /\ q.left = FALSE /\ q.aligned = TRUE
       /\ q.r = [p.r EXCEPT ![RBP] = <<"addr", -8>>] /\ q.mem = p.mem
  BY <1>11, <1>12, <1>13 DEF Copied
<1>15. /\ DOMAIN q.r = DOMAIN m.r /\ q.r[RBP] = <<"addr", -8>> /\ q.r[RSP] = <<"addr", -8>>
       /\ \A r \in GeneralRegs : q.r[r] = <<"init", r>>
  <2>1. RSP \in DOMAIN m.r /\ RBP \in DOMAIN m.r
    BY <1>8 DEF IsState
  <2> QED BY <1>7, <1>8, <1>12, <1>14, <2>1, PointersKept
<1>16. Len(<< >>) = 0 /\ 0 \in Nat /\ -8 = SavedAt(0, 0) - 0
  BY DEF SavedAt
<1>17. Stands(0, << >>, q, 0)
  <2>1. PICK e : e = << >> /\ Len(e) = 0 /\ 1 .. Len(e) = {}
    BY <1>16
  <2>2. q.r[RSP] = <<"addr", SavedAt(0, Len(e)) - 0>>
    BY <1>15, <1>16, <2>1
  <2>3. IsState(q) /\ GeneralRegs \subseteq DOMAIN q.r /\ q.aligned = TRUE /\ q.r[RBP] = <<"addr", -8>>
    BY <1>8, <1>14, <1>15
  <2>4. -8 \in DOMAIN q.mem /\ q.mem[-8] = <<"init", RBP>>
    BY <1>11, <1>14
  <2>5. Frame(0, e, q, 0)
    BY <1>15, <2>1, <2>2, <2>3, <2>4 DEF Frame
  <2> QED BY <1>14, <2>1, <2>5 DEF Stands
<1>18. Run(f, m, a \o b) = Run(f, q, b)
  BY <1>3, <1>5, RunJoined
<1>19. CASE size = 0
  <2>1. Run(f, q, b) = q
    BY <1>2, <1>19, RunEmpty
  <2> QED BY <1>1, <1>2, <1>17, <1>18, <1>19, <2>1
<1>20. CASE size > 0
  <2>1. b = <<z>>
    BY <1>2, <1>20
  <2>2. PICK n : n = Execute(f, q, z)
    OBVIOUS
  <2>3. Run(f, q, b) = n
    BY <2>1, <2>2, RunOne
  <2>4. /\ z.op = "SUB" /\ z.dst = PREG(RSP) /\ z.src = LIT(size)
    BY <1>1 DEF Ins
  <2>5. Layout(0, << >>, 0)
    <3>1. << >> \in Seq(GeneralRegs \ CallerSavedRegs) /\ Len(<< >>) = 0
      OBVIOUS
    <3> QED BY <3>1 DEF Layout
  <2>6. Stands(0, << >>, n, size)
    <3>1. Shifts(z, 0, size)
      BY <2>4 DEF Shifts, MovesRSP
    <3>2. Stands(0, << >>, Execute(f, q, z), size)
      <4>1. \A e : Layout(0, e, 0) /\ Stands(0, e, q, 0) => Stands(0, e, Execute(f, q, z), size)
        BY <1>16, <3>1, PointerMoved
      <4> QED BY <1>17, <2>5, <4>1
    <3> QED BY ONLY <2>2, <3>2
  <2>7. SavedAt(0, Len(<< >>)) - size = SavedAt(size, Len(<< >>)) - 0
    BY <1>16 DEF SavedAt
  <2>8. Stands(size, << >>, n, 0)
    BY <1>16, <2>6, <2>7 DEF Stands, Frame
  <2> QED BY <1>1, <1>2, <1>18, <2>3, <2>8
<1> QED BY <1>19, <1>20

LEMMA PrologueMakesFrame ==
  ASSUME NEW f, NEW vregs, NEW size \in Nat, NEW saved \in Seq(GeneralRegs \ CallerSavedRegs), Distinct(saved)
  PROVE  Stands(size, saved, Run(f, EntryState(vregs, GeneralRegs \cup ReservedRegs), PrologueOf(size, saved)), 0)
<1>1. PICK m : m = EntryState(vregs, GeneralRegs \cup ReservedRegs)
  OBVIOUS
<1>2. PICK a : a = << Ins("PUSH", MNONE, PREG(RBP)), Ins("MOV", PREG(RBP), PREG(RSP)) >>
                    \o (IF size > 0 THEN <<Ins("SUB", PREG(RSP), LIT(size))>> ELSE << >>)
  OBVIOUS
<1>3. PICK b : b = Pushes(saved)
  OBVIOUS
<1>4. IsSeq(a) /\ IsSeq(b)
  <2>1. IsSeq(<< Ins("PUSH", MNONE, PREG(RBP)), Ins("MOV", PREG(RBP), PREG(RSP)) >>)
    BY IsSeqParts
  <2>2. IsSeq(IF size > 0 THEN <<Ins("SUB", PREG(RSP), LIT(size))>> ELSE << >>)
    BY IsSeqParts
  <2>3. IsSeq(a)
    BY <1>2, <2>1, <2>2, IsSeqParts
  <2>4. IsSeq(b)
    <3>1. DOMAIN b = 1 .. Len(saved) /\ b = [k \in 1 .. Len(saved) |-> b[k]] /\ Len(saved) \in Nat
      BY <1>3 DEF Pushes
    <3> QED BY <3>1, IsSeqFunction
  <2> QED BY <2>3, <2>4
<1>5. Run(f, m, a \o b) = Run(f, Run(f, m, a), b)
  BY <1>4, RunJoined
<1>6. PICK n : n = Run(f, m, a)
  OBVIOUS
<1>7. Stands(size, << >>, n, 0)
  BY <1>1, <1>2, <1>6, FrameMade
<1>8. Stands(size, saved, Run(f, n, Pushes(saved)), 0)
  BY <1>7, SavedPushed
<1>9. PrologueOf(size, saved) = a \o b
  BY <1>2, <1>3 DEF PrologueOf
<1> QED BY ONLY <1>1, <1>3, <1>5, <1>6, <1>8, <1>9

LEMMA EpilogueRestores ==
  ASSUME NEW f, NEW size \in Nat, NEW saved \in Seq(GeneralRegs \ CallerSavedRegs),
         NEW m, Stands(size, saved, m, 0)
  PROVE  LET n == Run(f, m, EpilogueOf(saved))
         IN  IsState(n) /\ Restored(n) /\ n.returned = FALSE /\ n.left = FALSE
<1>1. PICK x, y : x = Ins("MOV", PREG(RSP), PREG(RBP)) /\ y = Ins("POP", PREG(RBP), MNONE)
  OBVIOUS
<1>2. PICK a, b : a = Pops(Reverse(saved)) /\ b = <<x, y>>
  OBVIOUS
<1>3. IsSeq(a) /\ IsSeq(b)
  <2>1. DOMAIN a = 1 .. Len(saved) /\ a = [k \in 1 .. Len(saved) |-> a[k]] /\ Len(saved) \in Nat
    BY <1>2 DEF Pops, Reverse
  <2> QED BY <1>2, <2>1, IsSeqFunction, IsSeqParts
<1>4. PICK p : p = Run(f, m, a)
  OBVIOUS
<1>5. Stands(size, << >>, p, 0)
  BY <1>2, <1>4, SavedPopped
<1>6. PICK q, n : q = Execute(f, p, x) /\ n = Execute(f, q, y)
  OBVIOUS
<1>7. Run(f, m, EpilogueOf(saved)) = n
  <2>1. EpilogueOf(saved) = a \o b
    BY <1>1, <1>2 DEF EpilogueOf
  <2>2. Run(f, m, a \o b) = Run(f, p, b)
    BY <1>3, <1>4, RunJoined
  <2>3. Run(f, p, b) = n
    BY <1>2, <1>6, RunTwo
  <2> QED BY ONLY <2>1, <2>2, <2>3
<1>8. /\ IsState(p) /\ p.returned = FALSE /\ p.left = FALSE /\ p.aligned = TRUE
      /\ GeneralRegs \subseteq DOMAIN p.r /\ p.r[RBP] = <<"addr", -8>>
      /\ -8 \in DOMAIN p.mem /\ p.mem[-8] = <<"init", RBP>>
      /\ \A r \in GeneralRegs \ CallerSavedRegs : p.r[r] = <<"init", r>>
  <2>1. Len(<< >>) = 0 /\ 1 .. 0 = {}
    OBVIOUS
  <2> QED BY <1>5, <2>1 DEF Stands, Frame
<1>9. Copied(p, RSP, RBP, q)
  BY <1>1, <1>6, <1>8, CopyMade
<1>10. /\ IsState(q) /\ q.returned = FALSE /\ q.left = FALSE /\ q.aligned = TRUE
       /\ q.r = [p.r EXCEPT ![RSP] = <<"addr", -8>>] /\ q.mem = p.mem
  BY <1>8, <1>9 DEF Copied
<1>11. /\ DOMAIN q.r = DOMAIN p.r /\ q.r[RSP] = <<"addr", -8>> /\ \A r \in DOMAIN p.r : r # RSP => q.r[r] = p.r[r]
  BY <1>8, <1>10 DEF IsState
<1>12. q.r[RSP][2] = -8 /\ -8 \in DOMAIN q.mem
  BY <1>8, <1>10, <1>11
<1>13. Popped(q, RBP, n)
  BY <1>1, <1>6, <1>10, <1>12, PopMade
<1>14. /\ IsState(n) /\ n.returned = FALSE /\ n.left = FALSE /\ n.aligned = TRUE
       /\ n.r[RSP] = <<"addr", 0>> /\ n.r[RBP] = <<"init", RBP>>
       /\ \A r \in DOMAIN p.r : r # RSP /\ r # RBP => n.r[r] = p.r[r]
  <2>1. RBP # RSP /\ RBP \in DOMAIN q.r /\ -8 + 8 = 0
    BY <1>10, PointersKept DEF IsState
  <2> QED BY <1>8, <1>10, <1>11, <1>12, <1>13, <2>1 DEF Popped
<1>15. Restored(n)
  <2>1. ASSUME NEW r \in (GeneralRegs \cup ReservedRegs) \ CallerSavedRegs
        PROVE  n.r[r] = IF r = RSP THEN <<"addr", 0>> ELSE <<"init", r>>
    <3>1. CASE r = RSP
      BY <1>14, <3>1
    <3>2. CASE r = RBP
      BY <1>14, <3>2, PointersKept
    <3>3. CASE r \in GeneralRegs \ CallerSavedRegs
      BY <1>8, <1>14, <3>3, PointersKept
    <3> QED BY <3>1, <3>2, <3>3, GeneralAssumption
  <2> QED BY <1>14, <2>1 DEF Restored
<1> QED BY <1>7, <1>14, <1>15

-----------------------------------------------------------------------------
(* A list of instructions that takes m bytes left at RSP to n.             *)
Levels(w, c, m, n, h) ==
  /\ h \in [0 .. Len(c) -> Nat] /\ h[0] = m /\ h[Len(c)] = n
  /\ \A k \in 1 .. Len(c) : Moves(w, c[k], h[k - 1], h[k])
IsCode(w, c, m, n) == IsSeq(c) /\ \E h : Levels(w, c, m, n, h)

LEMMA CodeEmpty ==
  ASSUME NEW w
  PROVE  /\ \A m \in Nat : IsCode(w, << >>, m, m)
         /\ \A m, n : IsCode(w, << >>, m, n) => m = n
<1>1. PICK e : e = << >>
  OBVIOUS
<1>2. IsSeq(e) /\ Len(e) = 0
  BY <1>1, IsSeqParts
<1>3. ASSUME NEW m \in Nat PROVE IsCode(w, e, m, m)
  <2>1. PICK h : h = [k \in 0 .. 0 |-> m]
    OBVIOUS
  <2>2. h \in [0 .. Len(e) -> Nat] /\ h[0] = m /\ h[Len(e)] = m
    BY <1>2, <2>1
  <2>3. Levels(w, e, m, m, h)
    BY <1>2, <2>2 DEF Levels
  <2> QED BY <1>2, <2>3 DEF IsCode
<1>4. ASSUME NEW m, NEW n, IsCode(w, e, m, n) PROVE m = n
  BY <1>2, <1>4 DEF IsCode, Levels
<1> QED BY <1>1, <1>3, <1>4

LEMMA CodeAppend ==
  ASSUME NEW w, NEW c, NEW m, NEW p, IsCode(w, c, m, p), NEW i, NEW n \in Nat, Moves(w, i, p, n)
  PROVE  IsCode(w, Append(c, i), m, n)
<1>1. PICK h : Levels(w, c, m, p, h)
  BY DEF IsCode
<1>2. IsSeq(c) /\ Len(c) \in Nat
  BY DEF IsCode, IsSeq
<1>3. PICK d : d = Append(c, i)
  OBVIOUS
<1>4. IsSeq(d) /\ Len(d) = Len(c) + 1 /\ d[Len(c) + 1] = i /\ \A k \in 1 .. Len(c) : d[k] = c[k]
  <2>1. IsSeq(d)
    BY <1>2, <1>3, IsSeqParts
  <2>2. PICK S : c \in Seq(S)
    BY <1>2 DEF IsSeq
  <2> QED BY <1>3, <2>1, <2>2
<1>5. PICK l \in Nat : l = Len(c)
  BY <1>2
<1>6. PICK g : g = [k \in 0 .. l + 1 |-> IF k = l + 1 THEN n ELSE h[k]]
  OBVIOUS
<1>7. h \in [0 .. l -> Nat] /\ h[0] = m /\ h[l] = p
  BY <1>1, <1>5 DEF Levels
<1>8. /\ g \in [0 .. l + 1 -> Nat] /\ g[l + 1] = n /\ g[0] = m /\ g[l] = p
      /\ \A k \in 0 .. l : g[k] = h[k]
  BY <1>6, <1>7
<1>9. ASSUME NEW k \in 1 .. l + 1 PROVE Moves(w, d[k], g[k - 1], g[k])
  <2>1. CASE k = l + 1
    <3>1. k - 1 = l
      BY <2>1
    <3> QED BY <1>4, <1>5, <1>8, <2>1, <3>1
  <2>2. CASE k \in 1 .. l
    <3>1. k - 1 \in 0 .. l /\ k \in 0 .. l
      BY <2>2
    <3>2. Moves(w, c[k], h[k - 1], h[k])
      BY <1>1, <1>5, <2>2 DEF Levels
    <3> QED BY <1>4, <1>5, <1>8, <2>2, <3>1, <3>2
  <2> QED BY <2>1, <2>2
<1>10. Levels(w, d, m, n, g)
  BY <1>4, <1>5, <1>8, <1>9 DEF Levels
<1> QED BY <1>3, <1>4, <1>10 DEF IsCode

LEMMA CodeFront ==
  ASSUME NEW w, NEW c, IsSeq(c), NEW i, NEW m, NEW n, IsCode(w, Append(c, i), m, n)
  PROVE  n \in Nat /\ \E p \in Nat : IsCode(w, c, m, p) /\ Moves(w, i, p, n)
<1>1. PICK d : d = Append(c, i)
  OBVIOUS
<1>2. PICK h : Levels(w, d, m, n, h)
  BY <1>1 DEF IsCode
<1>3. PICK l \in Nat : l = Len(c)
  BY DEF IsSeq
<1>4. Len(d) = l + 1 /\ d[l + 1] = i /\ \A k \in 1 .. l : d[k] = c[k]
  <2>1. PICK S : c \in Seq(S)
    BY DEF IsSeq
  <2> QED BY <1>1, <1>3, <2>1
<1>5. /\ h \in [0 .. l + 1 -> Nat] /\ h[0] = m /\ h[l + 1] = n
      /\ \A k \in 1 .. l + 1 : Moves(w, d[k], h[k - 1], h[k])
  BY <1>2, <1>4 DEF Levels
<1>6. PICK g : g = [k \in 0 .. l |-> h[k]]
  OBVIOUS
<1>7. g \in [0 .. l -> Nat] /\ g[0] = m /\ g[l] = h[l] /\ h[l] \in Nat /\ n \in Nat
  BY <1>5, <1>6
<1>8. ASSUME NEW k \in 1 .. l PROVE Moves(w, c[k], g[k - 1], g[k])
  <2>1. g[k - 1] = h[k - 1] /\ g[k] = h[k] /\ k \in 1 .. l + 1
    BY <1>6
  <2> QED BY <1>4, <1>5, <2>1
<1>9. Levels(w, c, m, h[l], g)
  BY <1>3, <1>7, <1>8 DEF Levels
<1>10. Moves(w, i, h[l], n)
  <2>1. l + 1 \in 1 .. l + 1 /\ (l + 1) - 1 = l
    OBVIOUS
  <2> QED BY <1>4, <1>5, <2>1
<1> QED BY <1>7, <1>9, <1>10 DEF IsCode

LEMMA CodeConcat ==
  ASSUME NEW w, NEW a, NEW b, NEW m, NEW p, NEW n, IsCode(w, a, m, p), IsCode(w, b, p, n)
  PROVE  IsCode(w, a \o b, m, n)
<1>1. IsSeq(a) /\ IsSeq(b)
  BY DEF IsCode
<1>2. PICK S : a \in Seq(S) /\ b \in Seq(S)
  BY <1>1, TwoInOneSet
<1> DEFINE T == {d \in Seq(S) : \A q : IsCode(w, d, p, q) => IsCode(w, a \o d, m, q)}
<1>3. << >> \in T
  <2>1. << >> \in Seq(S) /\ a \o << >> = a
    BY <1>2, ConcatEmptySeq
  <2> QED BY <2>1, CodeEmpty
<1>4. ASSUME NEW d \in Seq(S), NEW x \in S, d \in T PROVE Append(d, x) \in T
  <2>1. a \o Append(d, x) = Append(a \o d, x) /\ Append(d, x) \in Seq(S)
    BY <1>2, ConcatAppend, AppendFacts
  <2>2. ASSUME NEW q, IsCode(w, Append(d, x), p, q) PROVE IsCode(w, a \o Append(d, x), m, q)
    <3>1. IsSeq(d)
      BY SeqIsSeq
    <3>2. PICK r \in Nat : IsCode(w, d, p, r) /\ Moves(w, x, r, q) /\ q \in Nat
      BY <2>2, <3>1, CodeFront
    <3>3. PICK e : e = a \o d
      OBVIOUS
    <3>4. IsCode(w, e, m, r)
      BY <1>4, <3>2, <3>3
    <3>5. IsCode(w, Append(e, x), m, q)
      BY <3>2, <3>4, CodeAppend
    <3> QED BY ONLY <2>1, <3>3, <3>5
  <2> QED BY <2>1, <2>2
<1> HIDE DEF T
<1>5. b \in T
  BY <1>2, <1>3, <1>4, SequencesFromEmpty
<1> QED BY <1>5 DEF T

LEMMA CodeOne ==
  ASSUME NEW w, NEW i, NEW m \in Nat, NEW n \in Nat, Moves(w, i, m, n)
  PROVE  IsCode(w, <<i>>, m, n)
<1>1. PICK e : e = << >>
  OBVIOUS
<1>2. IsCode(w, e, m, m)
  BY <1>1, CodeEmpty
<1>3. IsCode(w, Append(e, i), m, n)
  BY <1>2, CodeAppend
<1>4. Append(e, i) = <<i>>
  <2>1. e \in Seq({i}) /\ i \in {i}
    BY <1>1
  <2> QED BY <1>1, <2>1, AppendFacts
<1> QED BY ONLY <1>3, <1>4

-----------------------------------------------------------------------------
(* A block of such code: it stops on a jump with the frame as it was, or   *)
(* on a RET, behind the epilogue, with the caller's registers restored, or *)
(* falls through.                                                          *)
LEMMA HaltedOutcome ==
  ASSUME NEW size, NEW saved, NEW m, NEW room, Outcome(size, saved, m, room), m.returned \/ m.left, NEW new
  PROVE  Outcome(size, saved, m, new)
BY DEF Outcome

LEMMA RetRestores ==
  ASSUME NEW f, NEW size \in Nat, NEW saved \in Seq(GeneralRegs \ CallerSavedRegs),
         NEW m, Stands(size, saved, m, 0), NEW i, i.op = "RET", NEW new
  PROVE  Outcome(size, saved, Execute(f, Run(f, m, EpilogueOf(saved)), i), new)
<1>1. PICK p : p = Run(f, m, EpilogueOf(saved))
  OBVIOUS
<1>2. IsState(p) /\ Restored(p) /\ p.returned = FALSE /\ p.left = FALSE
  BY <1>1, EpilogueRestores
<1>3. PICK seen : seen = Append(p.seen, <<"returns", p.r[RAX]>>)
  OBVIOUS
<1>4. Execute(f, p, i) = [p EXCEPT !.seen = seen, !.returned = TRUE]
  BY <1>2, <1>3 DEF Execute, ConditionalJumps
<1>5. PICK n : n = [p EXCEPT !.seen = seen, !.returned = TRUE]
  OBVIOUS
<1>6. n.returned = TRUE /\ n.left = FALSE /\ n.r = p.r /\ n.aligned = p.aligned
  BY <1>2, <1>5 DEF IsState
<1>7. IsState(n)
  BY <1>2, <1>5, <1>6 DEF IsState
<1>8. Outcome(size, saved, n, new)
  BY <1>2, <1>6, <1>7 DEF Outcome, Restored
<1> QED BY ONLY <1>1, <1>4, <1>5, <1>8

LEMMA BlockRuns ==
  ASSUME NEW size, NEW saved, NEW low, Layout(size, saved, low),
         NEW f, NEW m, Outcome(size, saved, m, 0),
         NEW c, NEW n, IsCode(Physical(low, Given(saved)), c, 0, n)
  PROVE  Outcome(size, saved, Run(f, m, WithEpilogue(c, EpilogueOf(saved))), n)
<1>1. PICK e, w : e = EpilogueOf(saved) /\ w = Physical(low, Given(saved))
  OBVIOUS
<1>2. IsSeq(e)
  <2>1. PICK a : a = Pops(Reverse(saved))
    OBVIOUS
  <2>2. DOMAIN a = 1 .. Len(saved) /\ a = [k \in 1 .. Len(saved) |-> a[k]] /\ Len(saved) \in Nat
    BY <2>1 DEF Pops, Reverse, Layout
  <2>3. IsSeq(a)
    BY <2>2, IsSeqFunction
  <2> QED BY <1>1, <2>1, <2>3, IsSeqParts DEF EpilogueOf
<1>3. IsSeq(c)
  BY DEF IsCode
<1>4. PICK S : c \in Seq(S)
  BY <1>3 DEF IsSeq
<1> DEFINE T == {d \in Seq(S) : \A q : IsCode(w, d, 0, q) => Outcome(size, saved, ExecWith(e, f, m, d), q)}
<1>5. << >> \in T
  <2>1. << >> \in Seq(S)
    OBVIOUS
  <2> QED BY <2>1, CodeEmpty, ExecWithEmpty
<1>6. ASSUME NEW d \in Seq(S), NEW x \in S, d \in T PROVE Append(d, x) \in T
  <2>1. PICK t : t = Append(d, x)
    OBVIOUS
  <2>2. t \in Seq(S) /\ IsSeq(d)
    BY <2>1, AppendFacts, SeqIsSeq
  <2>3. ASSUME NEW q, IsCode(w, t, 0, q) PROVE Outcome(size, saved, ExecWith(e, f, m, t), q)
    <3>1. PICK p \in Nat : IsCode(w, d, 0, p) /\ Moves(w, x, p, q) /\ q \in Nat
      BY <2>1, <2>2, <2>3, CodeFront
    <3>2. PICK s : s = ExecWith(e, f, m, d)
      OBVIOUS
    <3>3. Outcome(size, saved, s, p)
      BY <1>6, <3>1, <3>2
    <3>4. /\ x.op # "RET" => ExecWith(e, f, m, t) = Execute(f, s, x)
          /\ x.op = "RET" => ExecWith(e, f, m, t) = Execute(f, Run(f, s, e), x)
      BY <1>2, <2>1, <2>2, <3>2, ExecWithAppend
    <3>5. CASE s.returned \/ s.left
      <4>1. Execute(f, s, x) = s
        BY <3>5 DEF Execute
      <4>2. Run(f, s, e) = s
        BY <1>2, <3>5, RunHalted
      <4>3. ExecWith(e, f, m, t) = s
        BY <3>4, <4>1, <4>2
      <4> QED BY <3>3, <3>5, <4>3, HaltedOutcome
    <3>6. CASE ~(s.returned \/ s.left)
      <4>1. Stands(size, saved, s, p)
        BY <3>3, <3>6 DEF Outcome, Stands
      <4>2. CASE x.op = "RET"
        <5>1. p = 0
          BY <3>1, <4>2 DEF Moves, MovesRSP
        <5>2. size \in Nat /\ saved \in Seq(GeneralRegs \ CallerSavedRegs) /\ Stands(size, saved, s, 0)
          BY <4>1, <5>1 DEF Layout
        <5>3. Outcome(size, saved, Execute(f, Run(f, s, EpilogueOf(saved)), x), q)
          BY <4>2, <5>2, RetRestores
        <5> QED BY ONLY <1>1, <3>4, <4>2, <5>3
      <4>3. CASE x.op # "RET"
        <5>1. Frame(size, saved, s, p) /\ s.returned = FALSE /\ s.left = FALSE
          BY <4>1 DEF Stands
        <5>2. PICK v : v = Execute(f, s, x)
          OBVIOUS
        <5>3. Moves(Physical(low, Given(saved)), x, p, q)
          BY <1>1, <3>1
        <5>4. Outcome(size, saved, v, q)
          BY <3>1, <4>3, <5>1, <5>2, <5>3, MoveKeepsFrame
        <5> QED BY ONLY <3>4, <4>3, <5>2, <5>4
      <4> QED BY <4>2, <4>3
    <3> QED BY <3>5, <3>6
  <2> QED BY <2>1, <2>2, <2>3
<1> HIDE DEF T
<1>7. c \in T
  BY <1>4, <1>5, <1>6, SequencesFromEmpty
<1>8. Outcome(size, saved, ExecWith(e, f, m, c), n)
  BY <1>1, <1>7 DEF T
<1> QED BY <1>1, <1>8 DEF ExecWith

-----------------------------------------------------------------------------
(* A finite set of numbers in increasing order: each comes up, and once.   *)
Rank(S, r) == Cardinality({q \in S : q <= r})
Ranked(S) == \A k \in 1 .. Cardinality(S) : \E r \in S : Rank(S, r) = k
FiniteNumbers(S) == S \subseteq Nat /\ IsFiniteSet(S)

LEMMA GreatestNumber ==
  ASSUME NEW S, FiniteNumbers(S), S # {}
  PROVE  \E x \in S : \A y \in S : y <= x
<1> DEFINE T == {n \in Nat : \A U \in SUBSET Nat :
                   (IsFiniteSet(U) /\ U # {} /\ Cardinality(U) = n) => \E x \in U : \A y \in U : y <= x}
<1>1. 0 \in T
  BY FS_EmptySet
<1>2. ASSUME NEW n \in Nat, n \in T PROVE n + 1 \in T
  <2>1. ASSUME NEW U \in SUBSET Nat, IsFiniteSet(U), U # {}, Cardinality(U) = n + 1
        PROVE  \E x \in U : \A y \in U : y <= x
    <3>1. PICK z : z \in U
      BY <2>1
    <3>2. PICK V : V = U \ {z}
      OBVIOUS
    <3>3. V \in SUBSET Nat /\ IsFiniteSet(V) /\ Cardinality(V) = n
      <4>1. IsFiniteSet(U \ {z}) /\ Cardinality(U \ {z}) = Cardinality(U) - 1
        <5>1. z \in U
          BY <3>1
        <5> QED BY ONLY <2>1, <5>1, FS_RemoveElement
      <4>2. V \in SUBSET Nat
        BY <2>1, <3>2
      <4> QED BY <2>1, <3>2, <4>1, <4>2
    <3>4. CASE V = {}
      BY <3>1, <3>2, <3>4
    <3>5. CASE V # {}
      <4>1. PICK x \in V : \A y \in V : y <= x
        BY <1>2, <3>3, <3>5
      <4>2. x \in Nat /\ z \in Nat /\ x \in U /\ \A y \in U : y \in Nat /\ (y \in V \/ y = z)
        BY <3>1, <3>2
      <4> QED BY <3>1, <4>1, <4>2
    <3> QED BY <3>4, <3>5
  <2> QED BY <2>1
<1> HIDE DEF T
<1>3. Cardinality(S) \in T
  BY <1>1, <1>2, NumbersFrom0, FS_CardinalityType DEF FiniteNumbers
<1> QED BY <1>3 DEF T, FiniteNumbers

LEMMA RankType ==
  ASSUME NEW S, FiniteNumbers(S), NEW r \in S
  PROVE  Rank(S, r) \in 1 .. Cardinality(S)
<1>1. PICK T : T = {q \in S : q <= r}
  OBVIOUS
<1>2. T \in SUBSET S /\ r \in T
  BY <1>1 DEF FiniteNumbers
<1>3. IsFiniteSet(T) /\ Cardinality(T) <= Cardinality(S) /\ Cardinality(T) \in Nat /\ Cardinality(S) \in Nat
  BY <1>2, FS_Subset, FS_CardinalityType DEF FiniteNumbers
<1>4. Cardinality(T) # 0
  BY <1>2, <1>3, FS_EmptySet
<1> QED BY <1>1, <1>3, <1>4 DEF Rank

LEMMA RankInjective ==
  ASSUME NEW S, FiniteNumbers(S), NEW r \in S, NEW s \in S, Rank(S, r) = Rank(S, s)
  PROVE  r = s
<1>1. ASSUME NEW a \in S, NEW b \in S, a < b PROVE Rank(S, a) # Rank(S, b)
  <2>1. PICK A, B : A = {q \in S : q <= a} /\ B = {q \in S : q <= b}
    OBVIOUS
  <2>2. S \subseteq Nat
    BY DEF FiniteNumbers
  <2>3. A \in SUBSET B /\ b \in B /\ b \notin A /\ B \in SUBSET S
    <3>1. \A q \in S : q \in Nat /\ a \in Nat /\ b \in Nat /\ (q <= a => q <= b)
      BY <1>1, <2>2
    <3>2. b <= b /\ ~(b <= a)
      BY <1>1, <3>1
    <3> QED BY <2>1, <3>1, <3>2
  <2>4. IsFiniteSet(B)
    BY <2>3, FS_Subset DEF FiniteNumbers
  <2>5. Cardinality(B) # Cardinality(A)
    BY <2>3, <2>4, FS_Subset
  <2> QED BY <2>1, <2>5 DEF Rank
<1>2. r \in Nat /\ s \in Nat
  BY DEF FiniteNumbers
<1>3. r < s \/ s < r \/ r = s
  BY <1>2
<1> QED BY <1>1, <1>3

LEMMA EachRank ==
  ASSUME NEW S, FiniteNumbers(S)
  PROVE  Ranked(S)
<1> DEFINE T == {n \in Nat : \A U \in SUBSET Nat : (IsFiniteSet(U) /\ Cardinality(U) = n) => Ranked(U)}
<1>1. 0 \in T
  BY DEF Ranked
<1>2. ASSUME NEW n \in Nat, n \in T PROVE n + 1 \in T
  <2>1. ASSUME NEW U \in SUBSET Nat, IsFiniteSet(U), Cardinality(U) = n + 1 PROVE Ranked(U)
    <3>1. U # {}
      BY <2>1, FS_EmptySet
    <3>2. PICK x \in U : \A y \in U : y <= x
      BY <2>1, <3>1, GreatestNumber DEF FiniteNumbers
    <3>3. PICK V : V = U \ {x}
      OBVIOUS
    <3>4. V \in SUBSET Nat /\ IsFiniteSet(V) /\ Cardinality(V) = n
      <4>1. IsFiniteSet(U \ {x}) /\ Cardinality(U \ {x}) = Cardinality(U) - 1
        <5>1. x \in U
          BY <3>2
        <5> QED BY ONLY <2>1, <5>1, FS_RemoveElement
      <4>2. V \in SUBSET Nat
        BY <2>1, <3>3
      <4> QED BY <2>1, <3>3, <4>1, <4>2
    <3>5. Ranked(V)
      BY <1>2, <3>4
    <3>6. ASSUME NEW k \in 1 .. n PROVE \E r \in U : Rank(U, r) = k
      <4>1. PICK r \in V : Rank(V, r) = k
        BY <3>4, <3>5 DEF Ranked
      <4>2. r \in Nat /\ x \in Nat /\ ~(x <= r) /\ r \in U
        BY <3>2, <3>3
      <4>3. {q \in U : q <= r} = {q \in V : q <= r}
        BY <3>3, <4>2
      <4> QED BY <4>1, <4>2, <4>3 DEF Rank
    <3>7. Rank(U, x) = n + 1
      <4>1. {q \in U : q <= x} = U
        BY <3>2
      <4> QED BY <2>1, <4>1 DEF Rank
    <3>8. \A k \in 1 .. n + 1 : k \in 1 .. n \/ k = n + 1
      OBVIOUS
    <3> QED BY <2>1, <3>6, <3>7, <3>8 DEF Ranked
  <2> QED BY <2>1
<1> HIDE DEF T
<1>3. Cardinality(S) \in T
  BY <1>1, <1>2, NumbersFrom0, FS_CardinalityType DEF FiniteNumbers
<1> QED BY <1>3 DEF T, FiniteNumbers

LEMMA AscendingFacts ==
  ASSUME NEW S, FiniteNumbers(S)
  PROVE  /\ Ascending(S) \in Seq(S) /\ Len(Ascending(S)) = Cardinality(S) /\ Cardinality(S) \in Nat
         /\ Distinct(Ascending(S))
         /\ \A r \in S : \E k \in 1 .. Len(Ascending(S)) : Ascending(S)[k] = r
<1>1. PICK n \in Nat : n = Cardinality(S)
  BY FS_CardinalityType DEF FiniteNumbers
<1>2. PICK a : a = Ascending(S)
  OBVIOUS
<1>3. a = [k \in 1 .. n |-> CHOOSE r \in S : Rank(S, r) = k]
  BY <1>1, <1>2 DEF Ascending, Rank
<1>4. ASSUME NEW k \in 1 .. n PROVE a[k] \in S /\ Rank(S, a[k]) = k
  <2>1. \E r \in S : Rank(S, r) = k
    BY <1>1, EachRank DEF Ranked
  <2>2. a[k] = CHOOSE r \in S : Rank(S, r) = k
    BY <1>3
  <2> QED BY <2>1, <2>2
<1>5. a \in [1 .. n -> S]
  BY <1>3, <1>4
<1>6. a \in Seq(S) /\ Len(a) = n
  BY <1>5, FunctionIsSequence
<1>7. Distinct(a)
  BY <1>4, <1>6 DEF Distinct
<1>8. ASSUME NEW r \in S PROVE \E k \in 1 .. n : a[k] = r
  <2>1. PICK k \in 1 .. n : k = Rank(S, r)
    BY <1>1, RankType
  <2>2. a[k] \in S /\ Rank(S, a[k]) = Rank(S, r)
    BY <1>4, <2>1
  <2> QED BY <2>1, <2>2, RankInjective
<1> QED BY <1>1, <1>2, <1>6, <1>7, <1>8

-----------------------------------------------------------------------------
(* Code put together from pieces.                                          *)
LEMMA CodeFlatten ==
  ASSUME NEW w, NEW S, NEW c \in Seq(Seq(S)), NEW h \in [0 .. Len(c) -> Nat],
         \A k \in 1 .. Len(c) : IsCode(w, c[k], h[k - 1], h[k])
  PROVE  IsCode(w, FlattenSeq(c), h[0], h[Len(c)])
<1>1. PICK l \in Nat : l = Len(c)
  OBVIOUS
<1>2. PICK j : JoinsFrom(c, l, j) /\ FlattenSeq(c) = j[l]
  BY <1>1, JoinIs
<1>3. \A k \in 0 .. l : j[k] = IF k = 0 THEN << >> ELSE Joined(j[k - 1], c[k])
  BY <1>2 DEF JoinsFrom
<1> DEFINE T == {k \in Nat : k \in 0 .. l => IsCode(w, j[k], h[0], h[k])}
<1>4. 0 \in T
  <2>1. j[0] = << >> /\ h[0] \in Nat
    BY <1>1, <1>3
  <2> QED BY <2>1, CodeEmpty
<1>5. ASSUME NEW k \in Nat, k \in T PROVE k + 1 \in T
  <2>1. ASSUME k + 1 \in 0 .. l PROVE IsCode(w, j[k + 1], h[0], h[k + 1])
    <3>1. k \in 0 .. l /\ k + 1 # 0 /\ (k + 1) - 1 = k /\ k + 1 \in 1 .. l
      BY <2>1
    <3>2. j[k + 1] = j[k] \o c[k + 1]
      <4>1. j[k + 1] = Joined(j[k], c[k + 1])
        BY <1>3, <2>1, <3>1
      <4> QED BY <4>1 DEF Joined
    <3>3. IsCode(w, j[k], h[0], h[k]) /\ IsCode(w, c[k + 1], h[k], h[k + 1])
      BY <1>1, <1>5, <3>1
    <3>4. IsCode(w, j[k] \o c[k + 1], h[0], h[k + 1])
      BY <3>3, CodeConcat
    <3> QED BY ONLY <3>2, <3>4
  <2> QED BY <2>1
<1> HIDE DEF T
<1>6. l \in T
  BY <1>4, <1>5, NumbersFrom0
<1> QED BY <1>1, <1>2, <1>6 DEF T

LEMMA OneSet ==
  ASSUME NEW l \in Nat, NEW c, DOMAIN c = 1 .. l, c = [k \in 1 .. l |-> c[k]], \A k \in 1 .. l : IsSeq(c[k])
  PROVE  Len(c) = l /\ \E S : c \in Seq(Seq(S))
<1>1. PICK S : S = UNION {{c[k][j] : j \in DOMAIN c[k]} : k \in 1 .. l}
  OBVIOUS
<1>2. ASSUME NEW k \in 1 .. l PROVE c[k] \in Seq(S)
  <2>1. PICK E : E = {c[k][j] : j \in DOMAIN c[k]}
    OBVIOUS
  <2>2. c[k] \in Seq(E) /\ E \subseteq S
    BY <1>1, <2>1 DEF IsSeq
  <2>3. Len(c[k]) \in Nat /\ c[k] \in [1 .. Len(c[k]) -> S]
    BY <2>2
  <2> QED BY <2>3, FunctionIsSequence
<1>3. c \in [1 .. l -> Seq(S)]
  BY <1>2
<1> QED BY <1>3, FunctionIsSequence

(* Each instruction replaced by code.                                      *)
LEMMA CodeReplaced ==
  ASSUME NEW w, NEW c, NEW m, NEW n, IsCode(w, c, m, n), NEW v, NEW d,
         DOMAIN d = DOMAIN c, d = [k \in DOMAIN c |-> d[k]],
         \A k \in DOMAIN c : \A p, q \in Nat : Moves(w, c[k], p, q) => IsCode(v, d[k], p, q)
  PROVE  IsCode(v, FlattenSeq(d), m, n)
<1>1. PICK l \in Nat : l = Len(c)
  BY DEF IsCode, IsSeq
<1>2. DOMAIN c = 1 .. l
  BY <1>1 DEF IsCode, IsSeq
<1>3. PICK h : Levels(w, c, m, n, h)
  BY DEF IsCode
<1>4. /\ h \in [0 .. l -> Nat] /\ h[0] = m /\ h[l] = n
      /\ \A k \in 1 .. l : Moves(w, c[k], h[k - 1], h[k])
  BY <1>1, <1>3 DEF Levels
<1>5. ASSUME NEW k \in 1 .. l PROVE IsCode(v, d[k], h[k - 1], h[k])
  <2>1. h[k - 1] \in Nat /\ h[k] \in Nat
    BY <1>4
  <2> QED BY <1>2, <1>4, <2>1
<1>6. \A k \in 1 .. l : IsSeq(d[k])
  BY <1>5 DEF IsCode
<1>7. Len(d) = l /\ \E S : d \in Seq(Seq(S))
  BY <1>2, <1>6, OneSet
<1>8. PICK S : d \in Seq(Seq(S))
  BY <1>7
<1>9. IsCode(v, FlattenSeq(d), h[0], h[Len(d)])
  BY <1>4, <1>5, <1>7, <1>8, CodeFlatten
<1> QED BY <1>4, <1>7, <1>9

LEMMA CodeEach ==
  ASSUME NEW w, NEW m \in Nat, NEW c, IsSeq(c), \A k \in DOMAIN c : Moves(w, c[k], m, m)
  PROVE  IsCode(w, c, m, m)
<1>1. PICK l \in Nat : l = Len(c)
  BY DEF IsSeq
<1>2. DOMAIN c = 1 .. l
  BY <1>1 DEF IsSeq
<1>3. PICK h : h = [k \in 0 .. l |-> m]
  OBVIOUS
<1>4. h \in [0 .. l -> Nat] /\ \A k \in 0 .. l : h[k] = m
  BY <1>3
<1>5. \A k \in 1 .. l : k \in 0 .. l /\ k - 1 \in 0 .. l
  OBVIOUS
<1>6. Levels(w, c, m, m, h)
  BY <1>1, <1>2, <1>4, <1>5 DEF Levels
<1> QED BY <1>6 DEF IsCode

LEMMA MovesGrows ==
  ASSUME NEW low \in Nat, NEW more \in Nat, low <= more, NEW i, NEW m, NEW n, Moves(Virtual(low), i, m, n)
  PROVE  Moves(Virtual(more), i, m, n)
<1>1. \A d : d \in -low .. -8 => d \in -more .. -8
  OBVIOUS
<1>2. Virtual(low).low = low /\ Virtual(more).low = more /\ Virtual(more).kind = Virtual(low).kind
      /\ Virtual(more).places = Virtual(low).places /\ Virtual(more).names = Virtual(low).names
  BY DEF Virtual
<1> QED BY <1>1, <1>2 DEF Moves

-----------------------------------------------------------------------------
(* What lower() leaves is such code.                                       *)
LEMMA LoweredIsCode ==
  ASSUME NEW f, IsLowered(f), DOMAIN f.domain = Vreg, NEW b \in DOMAIN f.blocks
  PROVE  IsCode(Virtual(0), f.blocks[b].instrs, 0, 0)
<1>1. PICK c : c = f.blocks[b].instrs
  OBVIOUS
<1>2. IsSeq(c)
  <2>1. f.blocks[b].instrs \in Seq({f.blocks[b].instrs[k] : k \in DOMAIN f.blocks[b].instrs})
    BY Zenon DEF IsLowered
  <2> QED BY <1>1, <2>1 DEF IsSeq
<1>3. PICK l \in Nat : l = Len(c)
  BY <1>2 DEF IsSeq
<1>4. DOMAIN c = 1 .. l
  BY <1>2, <1>3 DEF IsSeq
<1>5. PICK h : h = [k \in 0 .. l |-> ArgBytes(c, k)]
  OBVIOUS
<1>6. ArgBytes(c, 0) = 0
  BY DEF ArgBytes
<1>7. ArgBytes(c, l) = 0
  BY <1>1, <1>3 DEF IsLowered
<1>8. \A k \in 1 .. l : /\ Names(c[k]) \subseteq Vreg
                       /\ ArgBytes(c, k - 1) \in Nat /\ ArgBytes(c, k) \in Nat
                       /\ WrittenAt(c[k], ArgBytes(c, k - 1), ArgBytes(c, k))
  <2>1. \A k \in DOMAIN c :
                /\ VregsIn(c[k].dst) \cup VregsIn(c[k].src) \subseteq DOMAIN f.domain
                /\ {ArgBytes(c, k - 1), ArgBytes(c, k)} \subseteq Nat
                /\ WrittenAt(c[k], ArgBytes(c, k - 1), ArgBytes(c, k))
    BY <1>1 DEF IsLowered
  <2> QED BY <1>4, <2>1 DEF Names
<1>9. \A k \in 1 .. l : k - 1 \in 0 .. l /\ k \in 0 .. l
  OBVIOUS
<1>10. \A k \in 0 .. l : ArgBytes(c, k) \in Nat
  <2>1. \A k \in 0 .. l : k = 0 \/ k \in 1 .. l
    OBVIOUS
  <2> QED BY <1>6, <1>8, <2>1
<1>11. h \in [0 .. l -> Nat] /\ h[0] = 0 /\ h[l] = 0
  BY <1>5, <1>6, <1>7, <1>10
<1>12. ASSUME NEW k \in 1 .. l PROVE Moves(Virtual(0), c[k], h[k - 1], h[k])
  <2>1. h[k - 1] = ArgBytes(c, k - 1) /\ h[k] = ArgBytes(c, k)
    BY <1>5, <1>9
  <2>2. PICK i, p, q : i = c[k] /\ p = h[k - 1] /\ q = h[k]
    OBVIOUS
  <2>3. WrittenAt(i, p, q) /\ Names(i) \subseteq Vreg
    BY <1>8, <2>1, <2>2
  <2>4. i.dst.kind = "VREG" => i.dst.n \in Vreg
    BY <2>3 DEF Names, VregsIn
  <2>5. Moves(Virtual(0), i, p, q)
    BY <2>3, <2>4 DEF WrittenAt, Moves, Virtual
  <2> QED BY <2>2, <2>5
<1>13. Levels(Virtual(0), c, 0, 0, h)
  BY <1>3, <1>11, <1>12 DEF Levels
<1> QED BY <1>1, <1>2, <1>13 DEF IsCode

-----------------------------------------------------------------------------
(* Spill code keeps it so, in more slots.                                  *)
SlotBytes == offset + 8 * Cardinality(spilled)

LEMMA SlotPlace ==
  ASSUME offset \in Nat, FiniteNumbers(spilled), NEW s \in spilled
  PROVE  /\ SlotBytes \in Nat /\ offset <= SlotBytes
         /\ Slot(s).kind = "MEM" /\ Slot(s).n = RBP /\ Slot(s).disp \in -SlotBytes .. -8
<1>1. PICK n \in Nat : n = Cardinality(spilled)
  BY FS_CardinalityType DEF FiniteNumbers
<1>2. PICK k \in 1 .. n : k = Rank(spilled, s)
  BY <1>1, RankType
<1>3. Slot(s) = MEM(RBP, -(offset + 8 * k))
  BY <1>2 DEF Slot, Rank
<1>4. SlotBytes = offset + 8 * n
  BY <1>1 DEF SlotBytes
<1>5. -(offset + 8 * k) \in -(offset + 8 * n) .. -8
  OBVIOUS
<1>6. offset + 8 * n \in Nat /\ offset <= offset + 8 * n
  OBVIOUS
<1> QED BY <1>3, <1>4, <1>5, <1>6 DEF MEM

LEMMA LoadsAreCode ==
  ASSUME offset \in Nat, FiniteNumbers(spilled), spilled \subseteq Vreg, NEW i, NEW m \in Nat
  PROVE  IsCode(Virtual(SlotBytes), Loads(i), m, m)
<1>1. PICK S : S = {s \in spilled : LoadBefore(i, s)}
  OBVIOUS
<1>2. S \subseteq spilled /\ FiniteNumbers(S)
  <2>1. S \in SUBSET spilled
    BY <1>1
  <2> QED BY <2>1, FS_Subset DEF FiniteNumbers
<1>3. PICK a : a = Ascending(S)
  OBVIOUS
<1>4. a \in Seq(S)
  BY <1>2, <1>3, AscendingFacts
<1>5. PICK l \in Nat : l = Len(a) /\ DOMAIN a = 1 .. l
  BY <1>4
<1>6. PICK d : d = Loads(i)
  OBVIOUS
<1>7. d = [k \in DOMAIN a |-> Ins("MOV", VREG(a[k]), Slot(a[k]))]
  BY <1>1, <1>3, <1>6 DEF Loads
<1>8. IsSeq(d) /\ DOMAIN d = 1 .. l
  BY <1>5, <1>7, IsSeqFunction
<1>9. ASSUME NEW k \in 1 .. l PROVE Moves(Virtual(SlotBytes), d[k], m, m)
  <2>1. PICK s \in spilled : s = a[k]
    BY <1>2, <1>4, <1>5
  <2>2. d[k] = Ins("MOV", VREG(s), Slot(s))
    BY <1>5, <1>7, <2>1
  <2>3. Slot(s).kind = "MEM" /\ s \in Vreg
    BY SlotPlace
  <2>4. d[k].op = "MOV" /\ d[k].dst.kind = "VREG" /\ d[k].dst.n = s /\ Names(d[k]) \subseteq Vreg
    BY <2>2, <2>3 DEF Ins, VREG, Names, VregsIn
  <2> QED BY <2>3, <2>4 DEF Moves, Virtual
<1>10. IsCode(Virtual(SlotBytes), d, m, m)
  BY <1>8, <1>9, CodeEach
<1> QED BY <1>6, <1>10

LEMMA StoresAreCode ==
  ASSUME offset \in Nat, FiniteNumbers(spilled), spilled \subseteq Vreg, NEW i, NEW m \in Nat
  PROVE  IsCode(Virtual(SlotBytes), Stores(i), m, m)
<1>1. PICK S : S = {s \in spilled : StoreAfter(i, s)}
  OBVIOUS
<1>2. S \subseteq spilled /\ FiniteNumbers(S)
  <2>1. S \in SUBSET spilled
    BY <1>1
  <2> QED BY <2>1, FS_Subset DEF FiniteNumbers
<1>3. PICK a : a = Ascending(S)
  OBVIOUS
<1>4. a \in Seq(S)
  BY <1>2, <1>3, AscendingFacts
<1>5. PICK l \in Nat : l = Len(a) /\ DOMAIN a = 1 .. l
  BY <1>4
<1>6. PICK d, z : d = Stores(i) /\ z = Reverse(a)
  OBVIOUS
<1>7. z = [k \in 1 .. l |-> a[(l - k) + 1]] /\ DOMAIN z = 1 .. l /\ \A k \in 1 .. l : z[k] \in S
  <2>1. z = [k \in 1 .. l |-> a[(l - k) + 1]]
    BY <1>5, <1>6 DEF Reverse
  <2>2. \A k \in 1 .. l : (l - k) + 1 \in 1 .. l
    OBVIOUS
  <2> QED BY <1>4, <1>5, <2>1, <2>2
<1>8. d = [k \in 1 .. l |-> Ins("MOV", Slot(z[k]), VREG(z[k]))]
  BY <1>1, <1>3, <1>6, <1>7 DEF Stores
<1>9. IsSeq(d) /\ DOMAIN d = 1 .. l
  BY <1>8, IsSeqFunction
<1>10. ASSUME NEW k \in 1 .. l PROVE Moves(Virtual(SlotBytes), d[k], m, m)
  <2>1. PICK s \in spilled : s = z[k]
    BY <1>2, <1>7
  <2>2. d[k] = Ins("MOV", Slot(s), VREG(s))
    BY <1>8, <2>1
  <2>3. Slot(s).kind = "MEM" /\ Slot(s).n = RBP /\ Slot(s).disp \in -SlotBytes .. -8 /\ s \in Vreg
    BY SlotPlace
  <2>4. d[k].op = "MOV" /\ d[k].dst = Slot(s) /\ Names(d[k]) \subseteq Vreg
    BY <2>2, <2>3 DEF Ins, VREG, Names, VregsIn
  <2> QED BY <2>3, <2>4 DEF Moves, Virtual
<1>11. IsCode(Virtual(SlotBytes), d, m, m)
  BY <1>9, <1>10, CodeEach
<1> QED BY <1>6, <1>11

LEMMA SpillCodeIsCode ==
  ASSUME offset \in Nat, FiniteNumbers(spilled), spilled \subseteq Vreg,
         NEW c, NEW m, NEW n, IsCode(Virtual(offset), c, m, n), NEW base
  PROVE  IsCode(Virtual(SlotBytes), WithLoadsAndStores(c, base), m, n)
<1>1. PICK w, v : w = Virtual(offset) /\ v = Virtual(SlotBytes)
  OBVIOUS
<1>2. PICK d : d = [k \in DOMAIN c |-> Loads(base + k) \o <<c[k]>> \o Stores(base + k)]
  OBVIOUS
<1>3. SlotBytes \in Nat /\ offset <= SlotBytes
  <2>1. PICK j \in Nat : j = Cardinality(spilled)
    BY FS_CardinalityType DEF FiniteNumbers
  <2> QED BY <2>1 DEF SlotBytes
<1>4. ASSUME NEW k \in DOMAIN c, NEW p \in Nat, NEW q \in Nat, Moves(w, c[k], p, q)
      PROVE  IsCode(v, d[k], p, q)
  <2>1. PICK before_k, after_k, i : before_k = Loads(base + k) /\ after_k = Stores(base + k) /\ i = c[k]
    OBVIOUS
  <2>2. d[k] = before_k \o <<i>> \o after_k
    BY <1>2, <2>1
  <2>3. IsCode(v, before_k, p, p) /\ IsCode(v, after_k, q, q)
    BY <1>1, <2>1, LoadsAreCode, StoresAreCode
  <2>4. Moves(v, i, p, q)
    BY <1>1, <1>3, <1>4, <2>1, MovesGrows
  <2>5. IsCode(v, <<i>>, p, q)
    BY <2>4, CodeOne
  <2>6. IsCode(v, before_k \o <<i>>, p, q)
    BY <2>3, <2>5, CodeConcat
  <2>7. IsCode(v, (before_k \o <<i>>) \o after_k, p, q)
    BY <2>3, <2>6, CodeConcat
  <2> QED BY ONLY <2>2, <2>7
<1>5. DOMAIN d = DOMAIN c /\ d = [k \in DOMAIN c |-> d[k]]
  BY <1>2
<1>6. IsCode(v, FlattenSeq(d), m, n)
  BY <1>1, <1>4, <1>5, CodeReplaced
<1> QED BY <1>1, <1>2, <1>6 DEF WithLoadsAndStores

-----------------------------------------------------------------------------
(* So does putting in the colours, when they are registers given out.      *)
LEMMA RecoloredMoves ==
  ASSUME NEW low, NEW S, NEW i, NEW m, NEW n, Moves(Virtual(low), i, m, n),
         \A x \in Names(i) : colors[x] \in S
  PROVE  Moves(Physical(low, S), Recolored(i), m, n)
<1>1. PICK j : j = Recolored(i)
  OBVIOUS
<1>2. j.op = i.op /\ j.dst = Colored(i.dst) /\ j.src = Colored(i.src)
  BY <1>1 DEF Recolored, Ins
<1>3. Names(j) = {}
  <2>1. \A o : Colored(o).kind # "VREG"
    BY DEF Colored, PREG
  <2> QED BY <1>2, <2>1 DEF Names, VregsIn
<1>4. i.dst.kind = "VREG" => j.dst.kind = "PREG" /\ j.dst.n \in S
  BY <1>2 DEF Colored, PREG, Names, VregsIn
<1>5. i.dst.kind # "VREG" => j.dst = i.dst
  BY <1>2 DEF Colored
<1>6. \A op : MovesRSP(i, op) => MovesRSP(j, op)
  <2>1. PREG(RSP).kind # "VREG"
    BY DEF PREG
  <2> QED BY <1>2, <1>5, <2>1 DEF MovesRSP
<1>7. \A k : i.src = LIT(k) => j.src = LIT(k)
  BY <1>2 DEF Colored, LIT
<1>8. Virtual(low).kind = "VREG" /\ Virtual(low).low = low /\ Physical(low, S).kind = "PREG"
      /\ Physical(low, S).places = S /\ Physical(low, S).names = {} /\ Physical(low, S).low = low
  BY DEF Virtual, Physical
<1>9. PICK v : v = Physical(low, S)
  OBVIOUS
<1>10. v.kind = "PREG" /\ v.places = S /\ v.names = {} /\ v.low = low
  BY <1>8, <1>9
<1>11. CASE MovesRSP(i, "SUB") /\ m = 0 /\ i.src = LIT(n)
  <2>1. MovesRSP(j, "SUB") /\ j.src = LIT(n)
    BY <1>6, <1>7, <1>11
  <2> QED BY <1>1, <1>3, <1>9, <1>10, <1>11, <2>1 DEF Moves
<1>12. CASE MovesRSP(i, "ADD") /\ n = 0 /\ i.src = LIT(m)
  <2>1. MovesRSP(j, "ADD") /\ j.src = LIT(m)
    BY <1>6, <1>7, <1>12
  <2> QED BY <1>1, <1>3, <1>9, <1>10, <1>12, <2>1 DEF Moves
<1>13. CASE i.op \in {"MOV", "ADD", "IMUL"} /\ i.dst.kind = "VREG" /\ n = m
  <2>1. j.op \in {"MOV", "ADD", "IMUL"} /\ j.dst.kind = v.kind /\ j.dst.n \in v.places
    BY <1>2, <1>4, <1>10, <1>13
  <2> QED BY <1>1, <1>3, <1>9, <1>10, <1>13, <2>1 DEF Moves
<1>14. CASE i.op = "MOV" /\ i.dst.kind = "MEM" /\ i.dst.n = RSP /\ i.dst.disp \in 0 .. m - 8 /\ n = m
  <2>1. j.op = "MOV" /\ j.dst = i.dst
    BY <1>2, <1>5, <1>14
  <2> QED BY <1>1, <1>3, <1>9, <1>10, <1>14, <2>1 DEF Moves
<1>15. CASE i.op = "MOV" /\ i.dst.kind = "MEM" /\ i.dst.n = RBP /\ i.dst.disp \in -low .. -8 /\ n = m
  <2>1. j.op = "MOV" /\ j.dst = i.dst
    BY <1>2, <1>5, <1>15
  <2> QED BY <1>1, <1>3, <1>9, <1>10, <1>15, <2>1 DEF Moves
<1>16. CASE i.op = "CMP" /\ n = m
  BY <1>1, <1>2, <1>3, <1>9, <1>10, <1>16 DEF Moves
<1>17. CASE i.op = "CALL" /\ m % 16 = 0 /\ n = m
  BY <1>1, <1>2, <1>3, <1>9, <1>10, <1>17 DEF Moves
<1>18. CASE i.op \in ConditionalJumps \cup {"JMP", "RET"} /\ m = 0 /\ n = 0
  BY <1>1, <1>2, <1>3, <1>9, <1>10, <1>18 DEF Moves
<1> QED BY <1>8, <1>11, <1>12, <1>13, <1>14, <1>15, <1>16, <1>17, <1>18 DEF Moves

LEMMA ColoredIsCode ==
  ASSUME NEW low, NEW S, NEW c, NEW m, NEW n, IsCode(Virtual(low), c, m, n),
         \A k \in DOMAIN c : \A x \in Names(c[k]) : colors[x] \in S
  PROVE  IsCode(Physical(low, S), WithColors(c), m, n)
<1>1. PICK w, v : w = Virtual(low) /\ v = Physical(low, S)
  OBVIOUS
<1>2. PICK d : d = [k \in DOMAIN c |-> IF IsSelfMove(Recolored(c[k])) THEN << >> ELSE <<Recolored(c[k])>>]
  OBVIOUS
<1>3. ASSUME NEW k \in DOMAIN c, NEW p \in Nat, NEW q \in Nat, Moves(w, c[k], p, q)
      PROVE  IsCode(v, d[k], p, q)
  <2>1. PICK j : j = Recolored(c[k])
    OBVIOUS
  <2>2. Moves(v, j, p, q)
    BY <1>1, <1>3, <2>1, RecoloredMoves
  <2>3. CASE IsSelfMove(j)
    <3>1. p = q
      BY <2>2, <2>3 DEF IsSelfMove, Moves, MovesRSP, ConditionalJumps
    <3>2. d[k] = << >>
      BY <1>2, <2>1, <2>3
    <3> QED BY <3>1, <3>2, CodeEmpty
  <2>4. CASE ~IsSelfMove(j)
    <3>1. d[k] = <<j>>
      BY <1>2, <2>1, <2>4
    <3>2. IsCode(v, <<j>>, p, q)
      BY <2>2, CodeOne
    <3> QED BY ONLY <3>1, <3>2
  <2> QED BY <2>3, <2>4
<1>4. DOMAIN d = DOMAIN c /\ d = [k \in DOMAIN c |-> d[k]]
  BY <1>2
<1>5. IsCode(v, FlattenSeq(d), m, n)
  BY <1>1, <1>3, <1>4, CodeReplaced
<1> QED BY <1>1, <1>2, <1>5 DEF WithColors

-----------------------------------------------------------------------------
(* The frame built around it.                                              *)
LEMMA FrameArithmetic ==
  ASSUME NEW o \in Nat, NEW k \in Nat
  PROVE  /\ ((o + 15) \div 16) * 16 \in Nat /\ o <= ((o + 15) \div 16) * 16
         /\ (((o + 15) \div 16) * 16) % 16 = 0
         /\ k % 2 = 1 => (8 + 8 * k) % 16 = 0
         /\ k % 2 # 1 => (8 * k) % 16 = 0
OBVIOUS

LEMMA FrameFits ==
  ASSUME offset \in Nat, NEW n \in Nat, n = Cardinality(callee_saved)
  PROVE  FrameSize \in Nat /\ offset <= FrameSize /\ (FrameSize + 8 * n) % 16 = 0
<1>1. PICK a : a = ((offset + 15) \div 16) * 16
  OBVIOUS
<1>2. a \in Nat /\ offset <= a /\ a % 16 = 0
  BY <1>1, FrameArithmetic
<1>3. FrameSize = a + (IF n % 2 = 1 THEN 8 ELSE 0)
  BY <1>1 DEF FrameSize
<1>4. CASE n % 2 = 1
  <2>1. (8 + 8 * n) % 16 = 0
    BY <1>4, FrameArithmetic
  <2>2. FrameSize = a + 8
    BY <1>3, <1>4
  <2> QED BY <1>2, <2>1, <2>2
<1>5. CASE n % 2 # 1
  <2>1. (8 * n) % 16 = 0
    BY <1>5, FrameArithmetic
  <2>2. FrameSize = a
    BY <1>2, <1>3, <1>5
  <2>3. PICK e \in Nat : e = 8 * n
    OBVIOUS
  <2>4. (a + e) % 16 = 0
    BY <1>2, <2>1, <2>3
  <2> QED BY <1>2, <2>2, <2>3, <2>4
<1> QED BY <1>4, <1>5

LEMMA FrameCode ==
  /\ PrologueCode = PrologueOf(FrameSize, Ascending(callee_saved))
  /\ EpilogueCode = EpilogueOf(Ascending(callee_saved))
BY DEF PrologueCode, EpilogueCode, PrologueOf, EpilogueOf, Pushes, Pops

-----------------------------------------------------------------------------
(* Every register a block names is an operand of the function.             *)
LEMMA FlattenCovers ==
  ASSUME NEW S, NEW c \in Seq(Seq(S)), NEW b \in 1 .. Len(c), NEW k \in 1 .. Len(c[b])
  PROVE  \E p \in DOMAIN FlattenSeq(c) : FlattenSeq(c)[p] = c[b][k]
<1>1. PICK l \in Nat : l = Len(c)
  OBVIOUS
<1>2. PICK j : JoinsFrom(c, l, j) /\ FlattenSeq(c) = j[l]
  BY <1>1, JoinIs
<1>3. \A i \in 0 .. l : j[i] = IF i = 0 THEN << >> ELSE Joined(j[i - 1], c[i])
  BY <1>2 DEF JoinsFrom
<1> DEFINE T == {i \in Nat : i \in 0 .. l =>
                   j[i] \in Seq(S) /\ (b <= i => \E p \in DOMAIN j[i] : j[i][p] = c[b][k])}
<1>4. 0 \in T
  <2>1. j[0] = << >>
    <3>1. 0 \in 0 .. l
      OBVIOUS
    <3> QED BY <1>3, <3>1
  <2>3. ~(b <= 0)
    OBVIOUS
  <2>2. << >> \in Seq(S)
    OBVIOUS
  <2> QED BY <2>1, <2>2, <2>3
<1>5. ASSUME NEW i \in Nat, i \in T PROVE i + 1 \in T
  <2>1. ASSUME i + 1 \in 0 .. l
        PROVE  j[i + 1] \in Seq(S) /\ (b <= i + 1 => \E p \in DOMAIN j[i + 1] : j[i + 1][p] = c[b][k])
    <3>1. i \in 0 .. l /\ i + 1 # 0 /\ (i + 1) - 1 = i /\ i + 1 \in 1 .. l
      BY <2>1
    <3>2. PICK s, t : s = j[i] /\ t = c[i + 1]
      OBVIOUS
    <3>3. j[i + 1] = s \o t
      <4>1. j[i + 1] = Joined(j[i], c[i + 1])
        BY <1>3, <2>1, <3>1
      <4> QED BY <3>2, <4>1 DEF Joined
    <3>4. s \in Seq(S) /\ t \in Seq(S) /\ (b <= i => \E p \in DOMAIN s : s[p] = c[b][k])
      BY <1>1, <1>5, <3>1, <3>2
    <3>5. PICK u : u = s \o t
      OBVIOUS
    <3>6. /\ u \in Seq(S) /\ DOMAIN u = 1 .. Len(s) + Len(t)
          /\ \A q \in 1 .. Len(s) : u[q] = s[q]
          /\ \A q \in 1 .. Len(t) : u[Len(s) + q] = t[q]
      BY <3>4, <3>5, SMTT(60)
    <3>7. Len(s) \in Nat /\ Len(t) \in Nat /\ DOMAIN s = 1 .. Len(s) /\ DOMAIN t = 1 .. Len(t)
      BY <3>4
    <3>8. ASSUME b <= i PROVE \E p \in DOMAIN u : u[p] = c[b][k]
      <4>1. PICK p \in DOMAIN s : s[p] = c[b][k]
        BY <3>4, <3>8
      <4> QED BY <3>6, <3>7, <4>1
    <3>9. ASSUME b = i + 1 PROVE \E p \in DOMAIN u : u[p] = c[b][k]
      <4>1. k \in 1 .. Len(t) /\ t[k] = c[b][k]
        BY <3>2, <3>9
      <4>2. Len(s) + k \in DOMAIN u /\ u[Len(s) + k] = t[k]
        BY <3>6, <3>7, <4>1
      <4> QED BY <4>1, <4>2
    <3>10. b <= i + 1 => b <= i \/ b = i + 1
      OBVIOUS
    <3> QED BY <3>3, <3>5, <3>6, <3>8, <3>9, <3>10
  <2> QED BY <2>1
<1> HIDE DEF T
<1>6. l \in T
  BY <1>4, <1>5, NumbersFrom0
<1>7. l \in 0 .. l /\ b <= l
  BY <1>1
<1> QED BY <1>2, <1>6, <1>7 DEF T

-----------------------------------------------------------------------------
(***************************************************************************)
(* The invariant.  Until the allocator is done, fct is the lowered         *)
(* function with code for the slots in use; when it is done, it is code on *)
(* registers given out, between a prologue and an epilogue that agree with *)
(* each other; from then on the machine running it is in its frame, or has *)
(* left it with the caller's registers restored.                           *)
(***************************************************************************)
Skeleton(f, s) ==
  /\ s \in Functions
  /\ DOMAIN f = {"blocks", "domain", "fixed"} /\ f.domain = s.domain /\ f.fixed = s.fixed
  /\ DOMAIN f.blocks = DOMAIN s.blocks /\ f.blocks = [b \in DOMAIN s.blocks |-> f.blocks[b]]
  /\ \A b \in DOMAIN f.blocks : DOMAIN f.blocks[b] = {"instrs", "succs"}

Uncolored(o, f) == \A b \in DOMAIN f.blocks : IsCode(Virtual(o), f.blocks[b].instrs, 0, 0)

Covers(nodes, f) ==
  /\ nodes \subseteq Vreg
  /\ \A b \in DOMAIN f.blocks : \A k \in DOMAIN f.blocks[b].instrs : Names(f.blocks[b].instrs[k]) \subseteq nodes

Colorable(p) ==
  /\ \A x \in p.nodes : p.domain[x] \subseteq GeneralRegs
  /\ p.fixed \subseteq p.nodes /\ \A x \in p.fixed : \E r \in CallerSavedRegs : p.domain[x] = {r}

(* What the colouring loop has given out is caller-saved, or saved.        *)
Accounted(p, st, g, d, c, sp, cs) ==
  /\ \A x \in p.nodes : d[x] \subseteq GeneralRegs
  /\ DOMAIN g \subseteq p.nodes
  /\ sp \subseteq p.nodes /\ IsFiniteSet(sp)
  /\ cs \subseteq GeneralRegs \ CallerSavedRegs /\ IsFiniteSet(cs)
  /\ \A x \in DOMAIN c : c[x] \in CallerSavedRegs \cup cs
  /\ st = "select" => p.nodes \subseteq DOMAIN g \cup DOMAIN c \cup sp

Framed(saved, low, o, pro, epi, f) ==
  /\ Layout(o, saved, low) /\ Distinct(saved)
  /\ pro = PrologueOf(o, saved) /\ epi = EpilogueOf(saved)
  /\ \A b \in DOMAIN f.blocks : IsCode(Physical(low, Given(saved)), f.blocks[b].instrs, 0, 0)

Started == at # 0 \/ ran > 0

FrameInv ==
  /\ Skeleton(fct, source)
  /\ offset \in Nat
  /\ phase # "allocated" => Uncolored(offset, fct)
  /\ phase = "coloring" =>
       /\ Covers(problem.nodes, fct) /\ Colorable(problem)
       /\ Accounted(problem, stage, graph, domains, colors, spilled, callee_saved)
  /\ phase = "allocated" =>
       \E saved, low : /\ Framed(saved, low, offset, prologue, epilogue, fct)
                       /\ Started => Outcome(offset, saved, after, 0)
  /\ at \in {0} \cup DOMAIN source.blocks /\ ran \in Nat
  /\ Started => phase = "allocated"

-----------------------------------------------------------------------------
LEMMA RegistersAreNumbers == GeneralRegs \subseteq Nat
<1>1. \A k \in DOMAIN registers : k \in 1 .. Room /\ registers[k].id = k - 1
  BY TableAssumption, Zenon
<1>2. ASSUME NEW r \in GeneralRegs PROVE r \in Nat
  <2>1. PICK q \in ToSet(registers) : r = q.id
    BY DEF GeneralRegs, DomainFor
  <2>2. PICK k \in DOMAIN registers : q = registers[k]
    BY <2>1 DEF ToSet
  <2>3. k \in 1 .. 125 /\ r = k - 1
    BY <1>1, <2>1, <2>2 DEF Room
  <2> QED BY <2>3
<1> QED BY <1>2

LEMMA LoweredFacts ==
  ASSUME NEW f, NEW s, Skeleton(f, s)
  PROVE  /\ IsLowered(s) /\ f.domain \in [Vreg -> SUBSET GeneralRegs]
         /\ \A x \in f.fixed : \E r \in CallerSavedRegs : x \in Vreg /\ f.domain[x] = {r}
         /\ \E l \in Nat : l # 0 /\ DOMAIN f.blocks = 1 .. l /\ DOMAIN s.blocks = 1 .. l
<1>1. IsLowered(s) /\ DOMAIN s.domain = Vreg
  BY FunctionsAssumption DEF Skeleton
<1>2. s.domain \in [Vreg -> SUBSET GeneralRegs]
      /\ \A x \in s.fixed : \E r \in CallerSavedRegs : x \in Vreg /\ s.domain[x] = {r}
  <2>1. s.domain \in [DOMAIN s.domain -> SUBSET GeneralRegs]
        /\ \A x \in s.fixed : \E r \in CallerSavedRegs : x \in DOMAIN s.domain /\ s.domain[x] = {r}
    BY <1>1, Zenon DEF IsLowered
  <2> QED BY <1>1, <2>1, Zenon
<1>3. s.blocks \in Seq({s.blocks[b] : b \in DOMAIN s.blocks}) /\ s.blocks # << >>
  BY <1>1, Zenon DEF IsLowered
<1>4. \E l \in Nat : l # 0 /\ DOMAIN s.blocks = 1 .. l
  BY <1>3
<1> QED BY <1>1, <1>2, <1>4 DEF Skeleton

LEMMA InitKeeps == Init => FrameInv
<1> SUFFICES ASSUME Init PROVE FrameInv
  OBVIOUS
<1>1. fct \in Functions /\ source = fct /\ phase = "liveness" /\ offset = 0 /\ at = 0 /\ ran = 0
  BY DEF Init, AllocatorInit
<1>2. IsLowered(fct) /\ DOMAIN fct.domain = Vreg
  BY <1>1, FunctionsAssumption
<1>3. DOMAIN fct = {"blocks", "domain", "fixed"} /\ \A b \in DOMAIN fct.blocks : DOMAIN fct.blocks[b] = {"instrs", "succs"}
  BY <1>2, Zenon DEF IsLowered
<1>4. fct.blocks = [b \in DOMAIN fct.blocks |-> fct.blocks[b]]
  <2>1. fct.blocks \in Seq({fct.blocks[b] : b \in DOMAIN fct.blocks})
    BY <1>2, Zenon DEF IsLowered
  <2> QED BY <2>1
<1>5. Skeleton(fct, source)
  BY <1>1, <1>3, <1>4 DEF Skeleton
<1>6. Uncolored(offset, fct)
  BY <1>1, <1>2, LoweredIsCode DEF Uncolored
<1> QED BY <1>1, <1>5, <1>6 DEF FrameInv, Started

LEMMA AnalyseKeeps == ASSUME FrameInv, Analyse, UNCHANGED rvars PROVE FrameInv'
<1>1. phase = "liveness"
  BY DEF Analyse
<1>2. UNCHANGED <<fct, source, phase, offset, at, ran>>
  BY DEF Analyse, rvars
<1> QED BY <1>1, <1>2 DEF FrameInv, Started

(* The operands of a function, from its code.                              *)
LEMMA CodeCovered ==
  ASSUME NEW f, NEW l \in Nat, DOMAIN f.blocks = 1 .. l, NEW o, Uncolored(o, f)
  PROVE  Covers(Operands(Order(f.blocks)), f)
<1>1. PICK c : c = [b \in DOMAIN f.blocks |-> f.blocks[b].instrs]
  OBVIOUS
<1>2. DOMAIN c = 1 .. l /\ c = [b \in 1 .. l |-> c[b]]
  BY <1>1
<1>3. \A b \in 1 .. l : IsCode(Virtual(o), c[b], 0, 0)
  BY <1>1 DEF Uncolored
<1>4. Len(c) = l /\ \E S : c \in Seq(Seq(S))
  BY <1>2, <1>3, OneSet DEF IsCode
<1>5. PICK S : c \in Seq(Seq(S))
  BY <1>4
<1>6. PICK T : T = {i \in S : Names(i) \subseteq Vreg}
  OBVIOUS
<1>7. ASSUME NEW b \in 1 .. l, NEW k \in DOMAIN c[b] PROVE Names(c[b][k]) \subseteq Vreg
  <2>1. PICK h : Levels(Virtual(o), c[b], 0, 0, h) /\ IsSeq(c[b])
    BY <1>3 DEF IsCode
  <2>2. k \in 1 .. Len(c[b])
    BY <2>1 DEF IsSeq
  <2>3. Moves(Virtual(o), c[b][k], h[k - 1], h[k])
    BY <2>1, <2>2 DEF Levels
  <2>4. Virtual(o).names = Vreg
    BY DEF Virtual
  <2> QED BY <2>3, <2>4 DEF Moves
<1>8. c \in Seq(Seq(T))
  <2>1. ASSUME NEW b \in 1 .. l PROVE c[b] \in Seq(T)
    <3>1. c[b] \in Seq(S)
      BY <1>4, <1>5
    <3>2. PICK d : d = c[b]
      OBVIOUS
    <3>3. Len(d) \in Nat /\ \A k \in 1 .. Len(d) : d[k] \in S /\ k \in DOMAIN d
      BY <3>1, <3>2
    <3>4. \A k \in 1 .. Len(d) : d[k] \in T
      BY <1>6, <1>7, <3>2, <3>3
    <3>5. d \in [1 .. Len(d) -> T]
      BY <3>1, <3>2, <3>3, <3>4
    <3> QED BY <3>2, <3>3, <3>5, FunctionIsSequence
  <2>2. c \in [1 .. l -> Seq(T)]
    BY <1>2, <2>1
  <2> QED BY <2>2, FunctionIsSequence
<1>9. PICK order : order = FlattenSeq(c)
  OBVIOUS
<1>10. Order(f.blocks) = order
  BY <1>1, <1>9 DEF Order
<1>11. order \in Seq(T)
  BY <1>8, <1>9, FlattenType
<1>12. PICK N : N = Operands(order)
  OBVIOUS
<1>13. \A p \in DOMAIN order : Names(order[p]) \subseteq N /\ Names(order[p]) \subseteq Vreg
  <2>1. \A p \in DOMAIN order : order[p] \in T
    BY <1>11
  <2> QED BY <1>6, <1>12, <2>1 DEF Names, Operands
<1>14. N \subseteq Vreg
  <2>1. ASSUME NEW x \in N PROVE x \in Vreg
    <3>1. PICK p \in DOMAIN order : x \in VregsIn(order[p].src) \cup VregsIn(order[p].dst)
      BY <1>12 DEF Operands
    <3> QED BY <1>13, <3>1 DEF Names
  <2> QED BY <2>1
<1>15. ASSUME NEW b \in DOMAIN f.blocks, NEW k \in DOMAIN f.blocks[b].instrs
       PROVE  Names(f.blocks[b].instrs[k]) \subseteq N
  <2>1. b \in 1 .. Len(c) /\ c[b] = f.blocks[b].instrs
    BY <1>1, <1>4
  <2>2. k \in 1 .. Len(c[b])
    <3>1. IsSeq(c[b])
      BY <1>3, <1>4, <2>1 DEF IsCode
    <3> QED BY <2>1, <3>1 DEF IsSeq
  <2>3. PICK p \in DOMAIN order : order[p] = c[b][k]
    BY <1>8, <1>9, <2>1, <2>2, FlattenCovers
  <2> QED BY <1>13, <2>1, <2>3
<1> QED BY <1>10, <1>12, <1>14, <1>15 DEF Covers

LEMMA ProblemFits ==
  ASSUME NEW f, NEW s, Skeleton(f, s), Operands(Order(f.blocks)) \subseteq Vreg, NEW out
  PROVE  Colorable(ProblemOf(f, out)) /\ ProblemOf(f, out).nodes = Operands(Order(f.blocks))
         /\ DOMAIN ProblemOf(f, out).inter = Operands(Order(f.blocks))
<1>1. PICK order, nodes, p : order = Order(f.blocks) /\ nodes = Operands(order) /\ p = ProblemOf(f, out)
  OBVIOUS
<1>2. /\ p.nodes = nodes /\ p.fixed = nodes \cap f.fixed /\ DOMAIN p.inter = nodes
      /\ p.domain = [x \in nodes |-> IF x \in f.fixed THEN f.domain[x]
                                     ELSE f.domain[x] \ ClobberedUnder(order, out, x)]
  BY <1>1 DEF ProblemOf
<1>3. f.domain \in [Vreg -> SUBSET GeneralRegs]
      /\ \A x \in f.fixed : \E r \in CallerSavedRegs : x \in Vreg /\ f.domain[x] = {r}
  BY LoweredFacts
<1>4. ASSUME NEW x \in nodes
      PROVE  p.domain[x] \subseteq GeneralRegs /\ (x \in f.fixed => p.domain[x] = f.domain[x])
  <2>1. f.domain[x] \subseteq GeneralRegs
    BY <1>1, <1>3
  <2> QED BY <1>2, <2>1
<1>5. Colorable(p)
  BY <1>2, <1>3, <1>4 DEF Colorable
<1> QED BY <1>1, <1>2, <1>5

LEMMA BuildKeeps == ASSUME FrameInv, BuildGraph, UNCHANGED rvars PROVE FrameInv'
<1>1. phase = "liveness" /\ phase' = "coloring" /\ UNCHANGED <<fct, source, offset, at, ran>>
  BY DEF BuildGraph, rvars
<1>2. /\ problem' = ProblemOf(fct, live_out) /\ stage' = "precolor" /\ graph' = problem'.inter
      /\ domains' = problem'.domain /\ colors' = [x \in {} |-> 0] /\ spilled' = {} /\ callee_saved' = {}
  BY DEF BuildGraph
<1>3. Skeleton(fct, source) /\ Uncolored(offset, fct)
  BY <1>1 DEF FrameInv
<1>4. PICK N : N = Operands(Order(fct.blocks))
  OBVIOUS
<1>5. Covers(N, fct)
  BY <1>3, <1>4, LoweredFacts, CodeCovered
<1>6. N \subseteq Vreg
  BY <1>5 DEF Covers
<1>7. Colorable(problem') /\ problem'.nodes = N /\ DOMAIN problem'.inter = N
  BY <1>2, <1>3, <1>4, <1>6, ProblemFits
<1>8. Accounted(problem', stage', graph', domains', colors', spilled', callee_saved')
  <2>1. \A x \in N : problem'.domain[x] \subseteq GeneralRegs
    BY <1>7 DEF Colorable
  <2>2. DOMAIN colors' = {} /\ IsFiniteSet({})
    BY <1>2, FS_EmptySet
  <2> QED BY <1>2, <1>7, <2>1, <2>2 DEF Accounted
<1>9. ~Started
  BY <1>1 DEF FrameInv
<1> QED BY <1>1, <1>3, <1>5, <1>7, <1>8, <1>9 DEF FrameInv, Started

-----------------------------------------------------------------------------
(* The steps of the colouring loop.                                        *)
LEMMA RootIsItself == \A c \in Reg : C!Root[c] = c
<1>1. \A r \in Reg : Parent[r] = 0
  BY TargetAssumption
<1> DEFINE Is(g) == g = [r \in Reg |-> IF Parent[r] = 0 THEN r ELSE g[Parent[r]]]
<1>2. PICK g : g = [r \in Reg |-> r]
  OBVIOUS
<1>3. Is(g)
  BY <1>1, <1>2
<1>4. C!Root = CHOOSE h : Is(h)
  BY DEF C!Root
<1>5. Is(C!Root)
  <2> HIDE DEF Is
  <2> QED BY <1>3, <1>4
<1>6. PICK h : h = C!Root
  OBVIOUS
<1>7. Is(h)
  BY <1>5, <1>6
<1>8. \A c \in Reg : h[c] = c
  BY <1>1, <1>7
<1> QED BY <1>6, <1>8

LEMMA SavedWhenGiven ==
  ASSUME NEW c \in GeneralRegs
  PROVE  IF c \in CallerSavedRegs THEN C!MustSave(c) = {} ELSE C!MustSave(c) = {c}
<1>1. c \in Reg /\ CallerSaved = CallerSavedRegs /\ Reserved = ReservedRegs
  BY TargetAssumption
<1>2. c \notin Reserved
  BY <1>1, GeneralAssumption
<1>3. C!Root[c] = c
  BY <1>1, RootIsItself
<1> QED BY <1>1, <1>2, <1>3 DEF C!MustSave

LEMMA PrecolorKeeps ==
  ASSUME Colorable(problem), Accounted(problem, stage, graph, domains, colors, spilled, callee_saved), C!Precolor
  PROVE  Accounted(problem, stage', graph', domains', colors', spilled', callee_saved')
<1>1. /\ stage' = "select" /\ colors' = [x \in problem.fixed |-> C!FixedColor(x)]
      /\ domains' = [x \in problem.nodes |-> C!Narrowed(x)]
      /\ graph' = [x \in problem.nodes \ problem.fixed |-> problem.inter[x] \cap (problem.nodes \ problem.fixed)]
      /\ UNCHANGED <<spilled, callee_saved>>
  BY DEF C!Precolor, C!Nodes, C!Free
<1>2. problem.fixed \subseteq problem.nodes
  BY DEF Colorable
<1>3. ASSUME NEW x \in problem.nodes PROVE domains'[x] \subseteq GeneralRegs
  <2>1. domains'[x] = C!Narrowed(x)
    BY <1>1
  <2>2. C!Narrowed(x) \subseteq problem.domain[x]
    BY DEF C!Narrowed
  <2> QED BY <2>1, <2>2 DEF Colorable
<1>4. ASSUME NEW x \in DOMAIN colors' PROVE colors'[x] \in CallerSavedRegs
  <2>1. x \in problem.fixed /\ colors'[x] = C!FixedColor(x)
    BY <1>1
  <2>2. PICK r \in CallerSavedRegs : problem.domain[x] = {r}
    BY <2>1 DEF Colorable
  <2>3. r \in Nat
    BY RegistersAreNumbers DEF CallerSavedRegs
  <2>4. C!Least({r}) = r
    BY <2>3 DEF C!Least
  <2> QED BY <2>1, <2>2, <2>4 DEF C!FixedColor
<1>5. DOMAIN graph' = problem.nodes \ problem.fixed /\ DOMAIN colors' = problem.fixed
  BY <1>1
<1> QED BY <1>1, <1>2, <1>3, <1>4, <1>5 DEF Accounted

LEMMA ColorStepKeeps ==
  ASSUME Accounted(problem, stage, graph, domains, colors, spilled, callee_saved),
         NEW x \in DOMAIN graph, NEW c \in Reg, C!Color(x, c)
  PROVE  Accounted(problem, stage', graph', domains', colors', spilled', callee_saved')
<1>1. /\ colors' = [y \in DOMAIN colors \cup {x} |-> IF y = x THEN c ELSE colors[y]]
      /\ callee_saved' = callee_saved \cup C!MustSave(c)
      /\ domains' = C!Erased(x, c) /\ graph' = C!Without(x) /\ c \in C!Picks(x)
      /\ UNCHANGED <<stage, spilled>>
  BY DEF C!Color
<1>2. c \in domains[x]
  BY <1>1 DEF C!Picks, C!Biased
<1>3. c \in GeneralRegs
  BY <1>2 DEF Accounted
<1>4. DOMAIN graph' = DOMAIN graph \ {x}
  BY <1>1 DEF C!Without
<1>5. ASSUME NEW y \in problem.nodes PROVE domains'[y] \subseteq GeneralRegs
  <2>1. domains'[y] \subseteq domains[y]
    BY <1>1 DEF C!Erased, C!Nodes
  <2> QED BY <2>1 DEF Accounted
<1>6. callee_saved' \subseteq GeneralRegs \ CallerSavedRegs /\ IsFiniteSet(callee_saved')
      /\ c \in CallerSavedRegs \cup callee_saved' /\ callee_saved \subseteq callee_saved'
  <2>1. callee_saved \subseteq GeneralRegs \ CallerSavedRegs /\ IsFiniteSet(callee_saved)
    BY DEF Accounted
  <2>2. CASE c \in CallerSavedRegs
    <3>1. callee_saved' = callee_saved
      BY <1>1, <1>3, <2>2, SavedWhenGiven
    <3> QED BY <2>1, <2>2, <3>1
  <2>3. CASE c \notin CallerSavedRegs
    <3>1. callee_saved' = callee_saved \cup {c}
      BY <1>1, <1>3, <2>3, SavedWhenGiven
    <3>2. IsFiniteSet(callee_saved \cup {c})
      BY <2>1, FS_AddElement
    <3> QED BY <1>3, <2>1, <2>3, <3>1, <3>2
  <2> QED BY <2>2, <2>3
<1>7. DOMAIN colors' = DOMAIN colors \cup {x}
      /\ \A y \in DOMAIN colors' : colors'[y] \in CallerSavedRegs \cup callee_saved'
  <2>1. DOMAIN colors' = DOMAIN colors \cup {x}
    BY <1>1
  <2>2. ASSUME NEW y \in DOMAIN colors' PROVE colors'[y] \in CallerSavedRegs \cup callee_saved'
    <3>1. colors'[y] = IF y = x THEN c ELSE colors[y]
      BY <1>1, <2>1
    <3>2. y # x => colors[y] \in CallerSavedRegs \cup callee_saved
      BY <2>1 DEF Accounted
    <3> QED BY <1>6, <3>1, <3>2
  <2> QED BY <2>1, <2>2
<1> QED BY <1>1, <1>4, <1>5, <1>6, <1>7 DEF Accounted

LEMMA SpillStepKeeps ==
  ASSUME Accounted(problem, stage, graph, domains, colors, spilled, callee_saved),
         NEW x \in DOMAIN graph, C!Spill(x)
  PROVE  Accounted(problem, stage', graph', domains', colors', spilled', callee_saved')
<1>1. spilled' = spilled \cup {x} /\ graph' = C!Without(x) /\ UNCHANGED <<stage, domains, colors, callee_saved>>
  BY DEF C!Spill
<1>2. DOMAIN graph' = DOMAIN graph \ {x}
  BY <1>1 DEF C!Without
<1>3. IsFiniteSet(spilled')
  BY <1>1, FS_AddElement DEF Accounted
<1> QED BY <1>1, <1>2, <1>3 DEF Accounted

LEMMA ColorKeeps == ASSUME FrameInv, ColorRegisters, UNCHANGED rvars PROVE FrameInv'
<1>1. phase = "coloring" /\ C!Next /\ UNCHANGED <<fct, source, phase, offset, at, ran>>
  BY DEF ColorRegisters, rvars
<1>2. Colorable(problem) /\ Accounted(problem, stage, graph, domains, colors, spilled, callee_saved)
  BY <1>1 DEF FrameInv
<1>3. problem' = problem
  BY <1>1 DEF C!Next, C!Precolor, C!Color, C!SpillColorless, C!SpillHighestDegree, C!Spill
<1>4. Accounted(problem, stage', graph', domains', colors', spilled', callee_saved')
  <2>1. CASE C!Precolor
    BY <1>2, <2>1, PrecolorKeeps
  <2>2. ASSUME NEW x \in DOMAIN graph, NEW c \in Reg, C!Color(x, c)
        PROVE  Accounted(problem, stage', graph', domains', colors', spilled', callee_saved')
    BY <1>2, <2>2, ColorStepKeeps
  <2>3. ASSUME NEW x \in DOMAIN graph, C!SpillColorless(x) \/ C!SpillHighestDegree(x)
        PROVE  Accounted(problem, stage', graph', domains', colors', spilled', callee_saved')
    <3>1. C!Spill(x)
      BY <2>3 DEF C!SpillColorless, C!SpillHighestDegree
    <3> QED BY <1>2, <3>1, SpillStepKeeps
  <2> QED BY <1>1, <2>1, <2>2, <2>3 DEF C!Next
<1>5. ~Started
  BY <1>1 DEF FrameInv
<1> QED BY <1>1, <1>3, <1>4, <1>5 DEF FrameInv, Started

-----------------------------------------------------------------------------
(* Another round, or the end.                                              *)
LEMMA RewriteKeeps == ASSUME FrameInv, Rewrite, UNCHANGED rvars PROVE FrameInv'
<1>1. /\ phase = "coloring" /\ phase' = "liveness" /\ UNCHANGED <<source, at, ran>>
      /\ fct' = [fct EXCEPT !.blocks = WithSpillCode(fct.blocks)] /\ offset' = SlotBytes
  BY DEF Rewrite, rvars, SlotBytes
<1>2. Skeleton(fct, source) /\ Uncolored(offset, fct) /\ offset \in Nat
  BY <1>1 DEF FrameInv
<1>3. FiniteNumbers(spilled) /\ spilled \subseteq Vreg
  <2>1. spilled \subseteq problem.nodes /\ IsFiniteSet(spilled) /\ problem.nodes \subseteq Vreg
    BY <1>1 DEF FrameInv, Accounted, Covers
  <2> QED BY <2>1, TargetAssumption DEF FiniteNumbers
<1>4. SlotBytes \in Nat
  <2>1. PICK j \in Nat : j = Cardinality(spilled)
    BY <1>3, FS_CardinalityType DEF FiniteNumbers
  <2> QED BY <1>2, <2>1 DEF SlotBytes
<1>5. PICK B : B = WithSpillCode(fct.blocks)
  OBVIOUS
<1>6. B = [b \in DOMAIN fct.blocks |->
             [fct.blocks[b] EXCEPT !.instrs = WithLoadsAndStores(fct.blocks[b].instrs, Base(fct.blocks, b))]]
  BY <1>5 DEF WithSpillCode
<1>7. fct'.blocks = B /\ DOMAIN fct' = DOMAIN fct /\ fct'.domain = fct.domain /\ fct'.fixed = fct.fixed
  BY <1>1, <1>2, <1>5 DEF Skeleton
<1>8. ASSUME NEW b \in DOMAIN fct.blocks
      PROVE  /\ DOMAIN B[b] = {"instrs", "succs"}
             /\ IsCode(Virtual(SlotBytes), B[b].instrs, 0, 0)
  <2>1. PICK c : c = WithLoadsAndStores(fct.blocks[b].instrs, Base(fct.blocks, b))
    OBVIOUS
  <2>2. B[b] = [fct.blocks[b] EXCEPT !.instrs = c]
    BY <1>6, <2>1
  <2>3. DOMAIN fct.blocks[b] = {"instrs", "succs"}
    BY <1>2 DEF Skeleton
  <2>4. DOMAIN B[b] = {"instrs", "succs"} /\ B[b].instrs = c
    BY <2>2, <2>3
  <2>5. IsCode(Virtual(SlotBytes), c, 0, 0)
    BY <1>2, <1>3, <2>1, SpillCodeIsCode DEF Uncolored
  <2> QED BY <2>4, <2>5
<1>9. DOMAIN B = DOMAIN fct.blocks /\ B = [b \in DOMAIN fct.blocks |-> B[b]]
  BY <1>6
<1>10. Skeleton(fct', source')
  BY <1>1, <1>2, <1>7, <1>8, <1>9 DEF Skeleton
<1>11. Uncolored(offset', fct')
  BY <1>1, <1>7, <1>8, <1>9 DEF Uncolored
<1>12. ~Started
  BY <1>1 DEF FrameInv
<1> QED BY <1>1, <1>4, <1>10, <1>11, <1>12 DEF FrameInv, Started

LEMMA ApplyKeeps == ASSUME FrameInv, Apply, UNCHANGED rvars PROVE FrameInv'
<1>1. /\ phase = "coloring" /\ phase' = "allocated" /\ C!Finished /\ spilled = {} /\ UNCHANGED <<source, at, ran>>
      /\ fct' = [fct EXCEPT !.blocks =
                   [b \in DOMAIN fct.blocks |->
                      [fct.blocks[b] EXCEPT !.instrs = WithColors(fct.blocks[b].instrs)]]]
      /\ offset' = FrameSize /\ prologue' = PrologueCode /\ epilogue' = EpilogueCode
  BY DEF Apply, rvars
<1>2. Skeleton(fct, source) /\ Uncolored(offset, fct) /\ offset \in Nat
  BY <1>1 DEF FrameInv
<1>3. Covers(problem.nodes, fct) /\ Accounted(problem, stage, graph, domains, colors, spilled, callee_saved)
  BY <1>1 DEF FrameInv
<1>4. callee_saved \subseteq GeneralRegs \ CallerSavedRegs /\ FiniteNumbers(callee_saved)
  BY <1>3, RegistersAreNumbers DEF Accounted, FiniteNumbers
<1>5. PICK n \in Nat : n = Cardinality(callee_saved)
  BY <1>4, FS_CardinalityType DEF FiniteNumbers
<1>6. PICK saved : saved = Ascending(callee_saved)
  OBVIOUS
<1>7. saved \in Seq(callee_saved) /\ Len(saved) = n /\ Distinct(saved)
      /\ \A r \in callee_saved : \E k \in 1 .. Len(saved) : saved[k] = r
  BY <1>4, <1>5, <1>6, AscendingFacts
<1>8. Layout(FrameSize, saved, offset)
  <2>1. saved \in Seq(GeneralRegs \ CallerSavedRegs)
    <3>1. Len(saved) \in Nat /\ saved \in [1 .. Len(saved) -> GeneralRegs \ CallerSavedRegs]
      BY <1>4, <1>7
    <3> QED BY <3>1, FunctionIsSequence
  <2>2. FrameSize \in Nat /\ offset <= FrameSize /\ (FrameSize + 8 * n) % 16 = 0
    BY <1>2, <1>5, FrameFits
  <2> QED BY <1>2, <1>7, <2>1, <2>2 DEF Layout
<1>9. prologue' = PrologueOf(offset', saved) /\ epilogue' = EpilogueOf(saved)
  BY <1>1, <1>6, FrameCode
<1>10. \A x \in problem.nodes : colors[x] \in Given(saved)
  <2>1. problem.nodes \subseteq DOMAIN colors
    BY <1>1, <1>3 DEF Accounted, C!Finished
  <2>2. \A x \in DOMAIN colors : colors[x] \in CallerSavedRegs \cup callee_saved
    BY <1>3 DEF Accounted
  <2>3. CallerSavedRegs \cup callee_saved \subseteq Given(saved)
    BY <1>7 DEF Given
  <2> QED BY <2>1, <2>2, <2>3
<1>11. PICK B : B = [b \in DOMAIN fct.blocks |->
                       [fct.blocks[b] EXCEPT !.instrs = WithColors(fct.blocks[b].instrs)]]
  OBVIOUS
<1>12. fct'.blocks = B /\ DOMAIN fct' = DOMAIN fct /\ fct'.domain = fct.domain /\ fct'.fixed = fct.fixed
  BY <1>1, <1>2, <1>11 DEF Skeleton
<1>13. ASSUME NEW b \in DOMAIN fct.blocks
       PROVE  /\ DOMAIN B[b] = {"instrs", "succs"}
              /\ IsCode(Physical(offset, Given(saved)), B[b].instrs, 0, 0)
  <2>1. PICK c, d : c = fct.blocks[b].instrs /\ d = WithColors(c)
    OBVIOUS
  <2>2. B[b] = [fct.blocks[b] EXCEPT !.instrs = d]
    BY <1>11, <2>1
  <2>3. DOMAIN fct.blocks[b] = {"instrs", "succs"}
    BY <1>2 DEF Skeleton
  <2>4. DOMAIN B[b] = {"instrs", "succs"} /\ B[b].instrs = d
    BY <2>2, <2>3
  <2>5. IsCode(Virtual(offset), c, 0, 0)
    BY <1>2, <2>1 DEF Uncolored
  <2>6. \A k \in DOMAIN c : \A x \in Names(c[k]) : colors[x] \in Given(saved)
    BY <1>3, <1>10, <2>1 DEF Covers
  <2>7. IsCode(Physical(offset, Given(saved)), d, 0, 0)
    BY <2>1, <2>5, <2>6, ColoredIsCode
  <2> QED BY <2>4, <2>7
<1>14. DOMAIN B = DOMAIN fct.blocks /\ B = [b \in DOMAIN fct.blocks |-> B[b]]
  BY <1>11
<1>15. Skeleton(fct', source')
  BY <1>1, <1>2, <1>12, <1>13, <1>14 DEF Skeleton
<1>16. Framed(saved, offset, offset', prologue', epilogue', fct')
  BY <1>1, <1>7, <1>8, <1>9, <1>12, <1>13, <1>14 DEF Framed
<1>17. ~Started
  BY <1>1 DEF FrameInv
<1>18. FrameSize \in Nat
  BY <1>8 DEF Layout
<1> QED BY <1>1, <1>15, <1>16, <1>17, <1>18 DEF FrameInv, Started

-----------------------------------------------------------------------------
(* Running what the allocator left.                                        *)
LEMMA EnterKeeps == ASSUME FrameInv, Enter PROVE FrameInv'
<1>1. /\ phase = "allocated" /\ ran = 0 /\ at' = 1 /\ after' = Run(fct, EntryState(Vreg, Reg), prologue)
      /\ UNCHANGED <<fct, source, phase, offset, prologue, epilogue, ran>>
  BY DEF Enter, avars
<1>2. Skeleton(fct, source)
  BY DEF FrameInv
<1>3. PICK saved, low : Framed(saved, low, offset, prologue, epilogue, fct)
  BY <1>1 DEF FrameInv
<1>4. offset \in Nat /\ saved \in Seq(GeneralRegs \ CallerSavedRegs) /\ Distinct(saved)
      /\ prologue = PrologueOf(offset, saved)
  BY <1>3 DEF Framed, Layout
<1>5. Stands(offset, saved, Run(fct, EntryState(Vreg, GeneralRegs \cup ReservedRegs), PrologueOf(offset, saved)), 0)
  BY <1>4, PrologueMakesFrame
<1>6. Stands(offset, saved, after', 0)
  <2>1. Reg = GeneralRegs \cup ReservedRegs
    BY TargetAssumption
  <2>2. after' = Run(fct, EntryState(Vreg, GeneralRegs \cup ReservedRegs), PrologueOf(offset, saved))
    BY ONLY <1>1, <1>4, <2>1
  <2> QED BY ONLY <1>5, <2>2
<1>7. Outcome(offset, saved, after', 0)
  BY <1>6 DEF Stands, Outcome
<1>8. 1 \in DOMAIN source.blocks
  BY <1>2, LoweredFacts
<1> QED BY <1>1, <1>2, <1>3, <1>4, <1>7, <1>8 DEF FrameInv, Started

LEMMA GoalSet ==
  ASSUME NEW size, NEW saved, NEW m, Outcome(size, saved, m, 0), NEW goal
  PROVE  Outcome(size, saved, [m EXCEPT !.goal = goal, !.left = FALSE], 0)
<1>1. PICK n : n = [m EXCEPT !.goal = goal, !.left = FALSE]
  OBVIOUS
<1>2. IsState(m)
  BY DEF Outcome, Restored, Frame
<1>3. DOMAIN n = DOMAIN m /\ n.r = m.r /\ n.mem = m.mem /\ n.aligned = m.aligned
      /\ n.returned = m.returned /\ n.left = FALSE
  BY <1>1, <1>2 DEF IsState
<1>4. IsState(n)
  BY <1>2, <1>3 DEF IsState
<1>5. CASE m.returned
  <2>1. Restored(m)
    BY <1>5 DEF Outcome
  <2>2. Restored(n)
    BY <1>3, <1>4, <2>1 DEF Restored
  <2> QED BY <1>1, <1>3, <1>4, <1>5, <2>2 DEF Outcome, IsState
<1>6. CASE ~m.returned
  <2>1. Frame(size, saved, m, 0)
    BY <1>6 DEF Outcome
  <2>2. Frame(size, saved, n, 0)
    BY <1>3, <1>4, <2>1 DEF Frame
  <2> QED BY <1>1, <1>3, <1>4, <1>6, <2>2 DEF Outcome, IsState
<1> QED BY <1>5, <1>6

LEMMA RunKeeps == ASSUME FrameInv, RunBlock PROVE FrameInv'
<1>1. at # 0 /\ ran' = ran + 1 /\ UNCHANGED <<fct, source, phase, offset, prologue, epilogue>>
  BY DEF RunBlock, avars
<1>2. PICK goal \in source.blocks[at].succs \cup {0} :
        /\ after' = RunTo(goal, fct, after, WithEpilogue(fct.blocks[at].instrs, epilogue))
        /\ at' = goal
  BY DEF RunBlock
<1>3. Started /\ phase = "allocated" /\ Skeleton(fct, source) /\ offset \in Nat /\ ran \in Nat
      /\ at \in DOMAIN source.blocks
  BY <1>1 DEF FrameInv, Started
<1>4. PICK saved, low : Framed(saved, low, offset, prologue, epilogue, fct) /\ Outcome(offset, saved, after, 0)
  BY <1>3 DEF FrameInv
<1>5. PICK c, m : c = fct.blocks[at].instrs /\ m = [after EXCEPT !.goal = goal, !.left = FALSE]
  OBVIOUS
<1>6. Layout(offset, saved, low) /\ epilogue = EpilogueOf(saved) /\ IsCode(Physical(low, Given(saved)), c, 0, 0)
  BY <1>3, <1>4, <1>5 DEF Framed, Skeleton
<1>7. Outcome(offset, saved, m, 0)
  BY <1>4, <1>5, GoalSet
<1>8. Outcome(offset, saved, Run(fct, m, WithEpilogue(c, EpilogueOf(saved))), 0)
  BY <1>6, <1>7, BlockRuns
<1>9. after' = Run(fct, m, WithEpilogue(c, EpilogueOf(saved)))
  BY <1>2, <1>5, <1>6 DEF RunTo
<1>10. Outcome(offset, saved, after', 0)
  BY ONLY <1>8, <1>9
<1>11. at' \in {0} \cup DOMAIN source.blocks
  <2>1. source.blocks[at].succs \subseteq DOMAIN source.blocks
    <3>1. IsLowered(source)
      BY <1>3, LoweredFacts
    <3> QED BY <1>3, <3>1, Zenon DEF IsLowered
  <2> QED BY <1>2, <2>1
<1>12. ran' \in Nat
  BY <1>1, <1>3
<1> QED BY <1>1, <1>3, <1>4, <1>10, <1>11, <1>12 DEF FrameInv, Started

(***************************************************************************)
(* The invariant holds of every lowered function, on every path through    *)
(* it, whatever the allocator chooses where the code leaves it open.       *)
(***************************************************************************)
THEOREM FrameKeeps == Spec => []FrameInv
<1>1. Init => FrameInv
  BY InitKeeps
<1>2. ASSUME FrameInv, [Next]_vars PROVE FrameInv'
  <2>1. CASE Allocate
    <3>1. AllocatorNext /\ UNCHANGED rvars
      BY <2>1 DEF Allocate
    <3> QED BY <1>2, <3>1, AnalyseKeeps, BuildKeeps, ColorKeeps, RewriteKeeps, ApplyKeeps DEF AllocatorNext
  <2>2. CASE Enter
    BY <1>2, <2>2, EnterKeeps
  <2>3. CASE RunBlock
    BY <1>2, <2>3, RunKeeps
  <2>4. CASE UNCHANGED vars
    <3>1. /\ UNCHANGED <<fct, source, phase, offset, prologue, epilogue, at, ran, after>>
          /\ UNCHANGED <<problem, stage, graph, domains, colors, spilled, callee_saved>>
      BY <2>4 DEF vars, avars, rvars, cvars
    <3> QED BY <1>2, <3>1 DEF FrameInv, Started
  <2> QED BY <1>2, <2>1, <2>2, <2>3, <2>4 DEF Next
<1> QED BY <1>1, <1>2, PTL DEF Spec

(***************************************************************************)
(* RSP is on a 16-byte boundary at every call the allocated code makes     *)
(* (X86.cpp:1297-1302 and 1329-1331): with any number of slots, rounds of  *)
(* spilling, saved registers and stack arguments.                          *)
(***************************************************************************)
THEOREM CallsAlwaysAligned == Spec => []CallsAligned
<1>1. ASSUME FrameInv PROVE CallsAligned
  <2> SUFFICES ASSUME ran > 0 PROVE after.aligned
    BY DEF CallsAligned, Running
  <2>1. Started /\ phase = "allocated"
    BY <1>1 DEF FrameInv, Started
  <2>2. PICK saved : Outcome(offset, saved, after, 0)
    BY <1>1, <2>1 DEF FrameInv
  <2> QED BY <2>2 DEF Outcome, Restored, Frame
<1> QED BY <1>1, FrameKeeps, PTL

(***************************************************************************)
(* When the allocated code has returned, the caller finds RSP, RBP and the *)
(* callee-saved registers as it left them: every colour taken from them is *)
(* pushed, and popped in reverse (X86.cpp:1146-1154 and 1329-1352), on     *)
(* whichever RET the path ends.                                            *)
(***************************************************************************)
THEOREM CallerAlwaysRestored == Spec => []RestoresCaller
<1>1. ASSUME FrameInv PROVE RestoresCaller
  <2> SUFFICES ASSUME ran > 0, after.returned, NEW r \in Reg \ CallerSaved
               PROVE  after.r[r] = IF r = RSP THEN <<"addr", 0>> ELSE <<"init", r>>
    BY DEF RestoresCaller, Running
  <2>1. Started /\ phase = "allocated"
    BY <1>1 DEF FrameInv, Started
  <2>2. PICK saved : Outcome(offset, saved, after, 0)
    BY <1>1, <2>1 DEF FrameInv
  <2>3. Restored(after)
    BY <2>2 DEF Outcome
  <2>4. r \in (GeneralRegs \cup ReservedRegs) \ CallerSavedRegs
    BY TargetAssumption
  <2> QED BY <2>3, <2>4 DEF Restored
<1> QED BY <1>1, FrameKeeps, PTL

=============================================================================

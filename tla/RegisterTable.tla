--------------------------- MODULE RegisterTable ----------------------------
(***************************************************************************)
(* The register table of the x86 target, src/core/codegen/X86.cpp lines    *)
(* 365-433 and the constructor from line 435 on: 124 registers, which is   *)
(* part of which, under which id and name each is found, and the sets of   *)
(* aliases the allocator asks for.                                         *)
(*                                                                         *)
(* The constructor declares the registers in groups, RAX with EAX, AX, AH  *)
(* and AL for one.  The label of a register is the name of its group, a    *)
(* number in the numbered groups, and its place in the group: AX is        *)
(* <<"RAX", 0, 3>>, XMM7 is <<"ZMM", 7, 3>>.                               *)
(***************************************************************************)
EXTENDS Integers, Sequences, SequencesExt

-----------------------------------------------------------------------------
(* A register before it is linked to others (X86.hpp:27-37).               *)
Register(id, label, kind, width, class, family, reserved, callerSaved) ==
  [id |-> id, label |-> label, kind |-> kind, width |-> width, class |-> class,
   family |-> family, reserved |-> reserved, callerSaved |-> callerSaved,
   parent |-> 0, subregs |-> {}]

(* Register::addSubreg: register s of the group g becomes a part of r.     *)
AddSubreg(g, r, s) ==
  [k \in DOMAIN g |->
     CASE k = s -> [g[k] EXCEPT !.parent = g[r].id]
       [] k = r -> [g[k] EXCEPT !.subregs = @ \cup {g[s].id}]
       [] OTHER -> g[k]]

Latest(S) == CHOOSE k \in S : \A j \in S : j <= k

(* In a group each register is a part of the last wider one before it: AH  *)
(* and AL are both parts of AX.                                            *)
Wider(widths, k) == Latest({j \in 1 .. k - 1 : widths[j] > widths[k]})

Linked(g, widths) ==
  LET made[k \in DOMAIN g] ==
        IF k = 1 THEN g ELSE AddSubreg(made[k - 1], Wider(widths, k), k)
  IN  made[Len(g)]

Group(first, name, n, kind, widths, class, family, reserved, callerSaved) ==
  Linked([k \in DOMAIN widths |->
            Register(first + k - 1, <<name, n, k>>, kind, widths[k], class, family,
                     reserved, callerSaved)],
         widths)

(* The groups in the order they are added.                                 *)
GPNames == <<"RAX", "RCX", "RDX", "RBX", "RSP", "RBP", "RSI", "RDI",
             "R8", "R9", "R10", "R11", "R12", "R13", "R14", "R15">>
CalleeSavedNames == {"RBX", "RSP", "RBP", "R12", "R13", "R14", "R15"}

General(f) ==
  LET name == GPNames[f + 1]
  IN  Group(IF f < 4 THEN 1 + 5 * f ELSE 21 + 4 * (f - 4), name, 0, "INT",
            IF f < 4 THEN <<64, 32, 16, 8, 8>> ELSE <<64, 32, 16, 8>>, "GP", f,
            name \in {"RSP", "RBP"}, name \notin CalleeSavedNames)

Vector(f) == Group(69 + 3 * f, "ZMM", f, "FLOAT", <<512, 256, 128>>, "VECTOR", f, FALSE, TRUE)
Mask(f) == Group(117 + f, "K", f, "UINT", <<64>>, "MASK", f, FALSE, TRUE)

-----------------------------------------------------------------------------
(* The table once every register is added, in this order (lines 681-805).  *)
registers ==
  <<Register(0, <<"NONE", 0, 1>>, "VOID", 1, "GP", 0, FALSE, FALSE)>>
    \o FlattenSeq([k \in 1 .. 16 |-> General(k - 1)])
    \o FlattenSeq([k \in 1 .. 16 |-> Vector(k - 1)])
    \o FlattenSeq([k \in 1 .. 8 |-> Mask(k - 1)])

Room == 125   \* reserve() of line 680

(* The names are views of the labels in the vector: the ones put down      *)
(* before the vector outgrows its room and moves are lost.                 *)
Named == IF Len(registers) <= Room THEN DOMAIN registers ELSE Room + 1 .. Len(registers)

(* m_registers is indexed by id, from 0.                                   *)
At(id) == registers[id + 1]

(* A name put down twice finds the later register.                         *)
GetRegId(label) == registers[Latest({k \in Named : registers[k].label = label})].id
GetReg(label) == At(GetRegId(label))

(* The register that fills a whole group: GetReg of "RAX".                 *)
Whole(name) == GetReg(<<name, 0, 1>>).id

(* X86::family: a register, the one it is part of, and its direct parts    *)
(* (lines 807-812); 0 stands for no register.                              *)
FamilyIn(t, r) == {t[r].id, t[r].parent} \cup t[r].subregs
family(id) == FamilyIn(registers, id + 1)

(* The domain valueVreg gives a value (lines 398-411).                     *)
IgnoresWidth(kind, width) ==
  {r.id : r \in {q \in ToSet(registers) : ~q.reserved /\ q.kind = kind}}
DomainFor(kind, width) ==
  {r.id : r \in {q \in ToSet(registers) : ~q.reserved /\ q.kind = kind /\ q.width >= width}}

Ids == {registers[k].id : k \in DOMAIN registers}

-----------------------------------------------------------------------------
(* What the rest of the back end takes for granted of the table t: a       *)
(* register sits at its id, and the links agree from both ends.            *)
DistinctIds(t) == \A j, k \in DOMAIN t : t[j].id = t[k].id => j = k

LinksAgree(t) ==
  \A j, k \in DOMAIN t :
    t[j].id # 0 => (t[k].id \in t[j].subregs <=> t[k].parent = t[j].id)

LinksStayInside(t) ==
  \A k \in DOMAIN t :
    /\ t[k].parent \in {t[j].id : j \in DOMAIN t} \cup {0}
    /\ t[k].subregs \subseteq {t[j].id : j \in DOMAIN t}

(* A table of constants, checked as it stands: the vector keeps to its     *)
(* room, "m_registers is indexed by Register::id()" (X86.hpp:334), a name  *)
(* finds its register, and addSubreg links each register but the first of  *)
(* its group to a wider one, soundly.  Of the parts of one piece of        *)
(* hardware that hold integers only one is 64 bits wide.                   *)
ASSUME TableAssumption ==
  /\ DOMAIN registers \subseteq 1 .. Room
  /\ \A k \in DOMAIN registers : registers[k].id = k - 1
  /\ \A k \in DOMAIN registers : GetReg(registers[k].label) = registers[k]
  /\ \A k \in DOMAIN registers : registers[k].parent = 0 <=> registers[k].label[3] = 1
  /\ LinksAgree(registers)
  /\ LinksStayInside(registers)
  /\ LET wide == {k \in DOMAIN registers : registers[k].kind = "INT" /\ registers[k].width >= 64}
     IN  \A j, k \in wide :
           registers[j].class = registers[k].class /\ registers[j].family = registers[k].family => j = k

=============================================================================

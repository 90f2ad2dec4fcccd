----------------------------- MODULE ResolvedUnit ----------------------------
(***************************************************************************)
(* What the two resolvers promise together: each name of an accepted unit  *)
(* is bound to the declaration that lexical scoping calls for, a unit that *)
(* breaks its rules is refused, and the signatures of the methods are true *)
(* of their bodies.  Scoping is defined here from the text of the unit,    *)
(* with no scope and no symbol.                                            *)
(***************************************************************************)
EXTENDS Types, FiniteSetsExt

-----------------------------------------------------------------------------
(* Regions: the unit itself (0), and what lies between a block, function   *)
(* or module node and the node that closes it.                             *)
CloserOf(u, o) == Min({q \in o .. Len(u) : Count(u, Opens, o, q) = Count(u, Closes, o, q)})

RegionsAround(u, p) == {0} \cup {o \in 1 .. p - 1 : u[o].n \in Opens /\ CloserOf(u, o) >= p}
RegionOf(u, p) == Max(RegionsAround(u, p))

(* A module sees nothing of what is around it.                             *)
Visible(u, p) ==
  LET modules == {r \in RegionsAround(u, p) : r # 0 /\ u[r].n = "module"}
  IN  IF modules = {} THEN RegionsAround(u, p) ELSE {r \in RegionsAround(u, p) : r >= Max(modules)}

(* The places where region r declares x before p.                          *)
Declares(u, r, x, p) ==
  {d \in 1 .. p - 1 : u[d].n \in DeclaringNodes /\ u[d].name = x /\ RegionOf(u, d) = r}

CoreNames == {"Int", "Nothing", "print", "Core", "Main"}
NothingThere == <<"none", 0>>
InCore(x) == IF x \in CoreNames THEN <<"core", x>> ELSE NothingThere

(* What x denotes at p: the first declaration of the innermost region that *)
(* has one, or a name of Core.                                             *)
Binding(u, p, x) ==
  LET regions == {r \in Visible(u, p) : Declares(u, r, x, p) # {}}
  IN  IF regions = {} THEN InCore(x) ELSE <<"decl", Min(Declares(u, Max(regions), x, p))>>

(* What x denotes as a member of what `of` denotes, at p.                  *)
InRegion(u, r, x, p) ==
  IF Declares(u, r, x, p) = {} THEN NothingThere ELSE <<"decl", Min(Declares(u, r, x, p))>>
MemberBinding(u, of, x, p) ==
  CASE of = <<"core", "Core">> -> InCore(x)
    [] of = <<"core", "Main">> -> InRegion(u, 0, x, p)
    [] of[1] = "decl" /\ u[of[2]].n = "module" -> InRegion(u, of[2], x, p)
    [] OTHER -> NothingThere

(* What each node denotes.                                                 *)
Denotation(u) ==
  LET denotes[p \in 0 .. Len(u)] ==
        CASE p # 0 /\ u[p].n = "identifier" -> Binding(u, p, u[p].name)
          [] p # 0 /\ u[p].n = "member" -> MemberBinding(u, denotes[p - 1], u[p].name, p)
          [] p # 0 /\ u[p].n = "call" -> denotes[p - u[p].callee]
          [] OTHER -> NothingThere
  IN  denotes

SymbolOf(denoted) ==
  CASE denoted[1] = "decl" -> SymbolAt(denoted[2])
    [] denoted[1] = "core" -> scopes[Core].names[denoted[2]]
    [] denoted[1] = "none" -> 0

(* The rules: no name twice in a region but for the methods of a function, *)
(* a declaration for each name, members only of modules that have them.    *)
FollowsRules(u, p, denotes) ==
  CASE u[p].n \in {"var", "module"} -> Declares(u, RegionOf(u, p), u[p].name, p) = {}
    [] u[p].n = "function" ->
         \A d \in Declares(u, RegionOf(u, p), u[p].name, p) : u[d].n = "function"
    [] u[p].n = "identifier" -> denotes[p] # NothingThere
    [] u[p].n = "member" -> denotes[p] # NothingThere \/ denotes[p - 1] = NothingThere
    [] OTHER -> TRUE
WellScoped(u) == \E denotes \in {Denotation(u)} : \A p \in DOMAIN u : FollowsRules(u, p, denotes)

-----------------------------------------------------------------------------
RegionsOpen == Count(unit, Opens, 1, pos - 1) - Count(unit, Closes, 1, pos - 1)

TypeOK ==
  /\ pos \in 1 .. Len(unit) + 1
  /\ stage \in {"names", "types", "done", "unresolved", "mistyped"}
  /\ m_current_scope \in DOMAIN scopes
  /\ Len(saved) = IF stage \in {"names", "unresolved"} THEN RegionsOpen ELSE 0
  /\ stage = "types" /\ pos > Len(unit) => m_current_scope = Main /\ results = << >>
  /\ \A s \in DOMAIN scopes : scopes[s].parent < s
  /\ \A s \in DOMAIN scopes : \A x \in DOMAIN scopes[s].names : symbols[scopes[s].names[x]].name = x

(***************************************************************************)
(* "Two names denote the same binding iff they resolve to the same Symbol  *)
(* address" (Scope.hpp:38-39): a name of an accepted unit has the symbol   *)
(* of the declaration it denotes, and two declarations share one only if   *)
(* they are methods of one function.                                       *)
(***************************************************************************)
RightBindings ==
  /\ \E denotes \in {Denotation(unit)} :
       \A p \in DOMAIN unit :
         unit[p].n \in {"identifier", "member", "call"} => SymbolAt(p) = SymbolOf(denotes[p])
  /\ LET decls == {d \in DOMAIN unit : unit[d].n \in DeclaringNodes}
     IN  \A d, e \in decls :
           SymbolAt(d) = SymbolAt(e) <=> unit[d].name = unit[e].name /\ RegionOf(unit, d) = RegionOf(unit, e)
ResolvesToInnermost == stage = "done" => RightBindings

(***************************************************************************)
(* The names of a unit are refused exactly if it breaks the rules.  They   *)
(* are refused at the first node that does, in a walk that opens and       *)
(* leaves scopes on the way; "A module only sees its own names and Core's, *)
(* whatever encloses it" (line 101).                                       *)
(***************************************************************************)
RefusesExactlyIllScoped ==
  /\ stage = "unresolved" => ~WellScoped(unit)
  /\ stage \in {"done", "mistyped"} => WellScoped(unit)

(***************************************************************************)
(* Of an accepted unit, the paths of a function -- its returns and its     *)
(* `if`s without a block, not those of a function inside it -- agree with  *)
(* its signature, however they are nested.  One that has no type may hide  *)
(* a return that disagrees only where the function is annotated: "The      *)
(* annotation wins" (line 365), and an untyped body is not compared with   *)
(* it (line 374).  No two methods of a function have the same parameter    *)
(* types, which is what dispatch will go by.                               *)
(***************************************************************************)
Returning == {"return", "bareif"}
Around(p) == {f \in RegionsAround(unit, p) : f # 0 /\ unit[f].n \in {"function", "module"}}
ReturnsOf(f) == {p \in f + 1 .. CloserOf(unit, f) : unit[p].n \in Returning /\ Max(Around(p)) = f}
Excused(found, f) == NOTYPE \in found /\ unit[f].hasReturnType
SoundSignatures ==
  stage = "done" =>
    /\ \A m \in DOMAIN m_methods :
         m_methods[m].decl # 0 =>
           LET found == {TypeAt(p) : p \in ReturnsOf(m_methods[m].decl)}
           IN  found \subseteq {NOTHING, m_methods[m].type[3]} \/ Excused(found, m_methods[m].decl)
    /\ \A m, o \in DOMAIN m_methods :
         (m_methods[m].of = m_methods[o].of /\ m # o) => m_methods[m].type[2] # m_methods[o].type[2]

=============================================================================

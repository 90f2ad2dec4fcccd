-------------------------------- MODULE Types --------------------------------
(***************************************************************************)
(* TypeResolver, core/context/Resolver.cpp lines 181-400: a second walk    *)
(* over the unit gives types to its nodes, to the symbols of its variables *)
(* and parameters, and to its methods.  What the visits under way hold is  *)
(* a stack: the types of operands, the type a block has so far, and the    *)
(* function or module around it.                                           *)
(***************************************************************************)
EXTENDS Scopes

VARIABLES
  m_node_types,
  results         \* the results and locals of the visits under way

tvars == <<m_node_types, results>>
vars == <<unit, pos, stage, symbols, svars, tvars>>

TInit ==
  /\ Init
  /\ m_node_types = << >>
  /\ results = << >>

-----------------------------------------------------------------------------
Result(of, type) == [of |-> of, node |-> pos, type |-> type]
Local(k) == results[Len(results) - k]
Without(k) == SubSeq(results, 1, Len(results) - k)

(* A visit that takes k results and returns a type.                        *)
Gives(k, type) == results' = Append(Without(k), Result("value", type))

TypeOf(s) == IF s = 0 THEN NOTYPE ELSE symbols[s].type
TypeAt(p) == IF p \in DOMAIN m_node_types THEN m_node_types[p] ELSE NOTYPE
Filled(f, g) == [p \in DOMAIN f \cup DOMAIN g |-> IF p \in DOMAIN f THEN f[p] ELSE g[p]]
SetTypes(ps, type) == m_node_types' = Filled(m_node_types, [p \in ps |-> type])

Mistyped == stage' = "mistyped" /\ UNCHANGED <<unit, pos, symbols, svars, tvars>>

(* joinTypes (lines 334-345), where Nothing is of a path with no return.   *)
Conflict(a, b) == a # b /\ {a, b} \cap {NOTYPE, NOTHING} = {}
SkipsUntyped(a, b) == IF a \in {NOTYPE, NOTHING} THEN b ELSE a
JoinTypes(a, b) ==
  CASE NOTYPE \in {a, b} -> NOTYPE
    [] NOTYPE \notin {a, b} /\ a = NOTHING -> b
    [] NOTYPE \notin {a, b} /\ a # NOTHING -> a

(* A statement that returns, in a block: the type of the block so far. In  *)
(* a module, or in the unit, nothing becomes of it (lines 294-309).        *)
InBlock(rest) == rest # << >> /\ rest[Len(rest)].of = "block"
Clashes(rest, type) == InBlock(rest) /\ Conflict(rest[Len(rest)].type, type)
JoinedInto(rest, type) ==
  IF InBlock(rest) THEN [rest EXCEPT ![Len(rest)].type = JoinTypes(@, type)] ELSE rest

-----------------------------------------------------------------------------
(* visitVarDecl (lines 196-216): the type is the symbol's of the           *)
(* annotation, the node after; the initializer is not visited.             *)
EndOfStatement == CHOOSE q \in pos .. Len(unit) : unit[q].n = "expr" /\ \A r \in pos .. q - 1 : unit[r].n # "expr"

TypeVarDecl ==
  /\ At("types", "var")
  /\ LET declared == TypeOf(SymbolAt(pos + 1))
     IN  /\ symbols' = IF declared = NOTYPE THEN symbols
                       ELSE [symbols EXCEPT ![SymbolAt(pos)].type = declared]
         /\ SetTypes(IF declared = NOTYPE THEN {} ELSE {pos}, declared)
         /\ Gives(0, declared)
  /\ pos' = EndOfStatement
  /\ UNCHANGED <<unit, stage, svars>>

TypeLiteral ==
  /\ At("types", "literal")
  /\ SetTypes({pos}, INT)
  /\ Gives(0, INT)
  /\ Forward
  /\ UNCHANGED <<symbols, svars>>

(* visitIdentifier (lines 226-234).                                        *)
TypeIdentifier ==
  /\ At("types", "identifier")
  /\ IF SymbolAt(pos) # 0 /\ symbols[SymbolAt(pos)].kind \in {"Variable", "Parameter"}
       THEN SetTypes({pos}, TypeOf(SymbolAt(pos))) /\ Gives(0, TypeOf(SymbolAt(pos)))
       ELSE SetTypes({}, NOTYPE) /\ Gives(0, NOTYPE)
  /\ Forward
  /\ UNCHANGED <<symbols, svars>>

(* visitBinaryExpr and visitAssign (lines 236-261).                        *)
BothTyped == Local(1).type # NOTYPE /\ Local(0).type # NOTYPE
Agree == BothTyped => Local(1).type = Local(0).type

TypeOperation ==
  /\ At("types", "binary") \/ At("types", "assign")
  /\ Agree
  /\ IF BothTyped THEN SetTypes({pos}, Local(1).type) /\ Gives(2, Local(1).type)
     ELSE SetTypes({}, NOTYPE) /\ Gives(2, NOTYPE)
  /\ Forward
  /\ UNCHANGED <<symbols, svars>>

(* visitCallExpr and visitMemberExpr (lines 263-285): the type of the      *)
(* symbol, which a call has from its callee.                               *)
TypeCall ==
  /\ At("types", "call")
  /\ Gives(unit[pos].args + 1, TypeOf(SymbolAt(pos)))
  /\ Forward
  /\ UNCHANGED <<symbols, svars, m_node_types>>

TypeMember ==
  /\ At("types", "member")
  /\ Gives(1, TypeOf(SymbolAt(pos)))
  /\ Forward
  /\ UNCHANGED <<symbols, svars, m_node_types>>

TypeExprStmt ==
  /\ At("types", "expr")
  /\ results' = Without(1)
  /\ Forward
  /\ UNCHANGED <<symbols, svars, m_node_types>>

(* visitReturnStmt (lines 328-332), and what the block makes of it.        *)
TypeReturn ==
  /\ At("types", "return")
  /\ ~Clashes(Without(1), Local(0).type)
  /\ SetTypes({pos}, Local(0).type)
  /\ results' = JoinedInto(Without(1), Local(0).type)
  /\ Forward
  /\ UNCHANGED <<symbols, svars>>

(* visitIfStmt and visitWhileStmt (lines 311-326), and what the block      *)
(* makes of them.                                                          *)
Branches == IF unit[pos].hasElse THEN 2 ELSE 1
BranchType == IF unit[pos].hasElse THEN JoinTypes(Local(1).type, Local(0).type) ELSE Local(0).type
BranchesClash == unit[pos].hasElse /\ Conflict(Local(1).type, Local(0).type)

TypeControl ==
  /\ At("types", "if") \/ At("types", "while")
  /\ ~BranchesClash
  /\ ~Clashes(Without(Branches + 1), BranchType)
  /\ SetTypes({pos}, BranchType)
  /\ results' = JoinedInto(Without(Branches + 1), BranchType)
  /\ Forward
  /\ UNCHANGED <<symbols, svars>>

(* An `if` without a block: nothing is visited for it, which has no type   *)
(* (AstVisitor.hpp lines 48-51).                                           *)
TypeBareIf ==
  /\ At("types", "bareif")
  /\ SetTypes({pos}, NOTYPE)
  /\ results' = JoinedInto(Without(1), NOTYPE)
  /\ Forward
  /\ UNCHANGED <<symbols, svars>>

-----------------------------------------------------------------------------
TypeBlock ==
  /\ At("types", "block")
  /\ results' = Append(results, Result("block", NOTHING))
  /\ Forward
  /\ UNCHANGED <<symbols, svars, m_node_types>>

TypeEndBlock ==
  /\ At("types", "endblock")
  /\ SetTypes({Local(0).node}, Local(0).type)
  /\ Gives(1, Local(0).type)
  /\ Forward
  /\ UNCHANGED <<symbols, svars>>

TypeModule ==
  /\ At("types", "module")
  /\ results' = Append(results, Result("module", NOTYPE))
  /\ Forward
  /\ UNCHANGED <<symbols, svars, m_node_types>>

TypeEndModule ==
  /\ At("types", "endmodule")
  /\ results' = Without(1)
  /\ Forward
  /\ UNCHANGED <<symbols, svars, m_node_types>>

(* visitFctDecl up to its body (lines 347-361).  Each parameter is         *)
(* followed by its annotation, the last one by the return type.  They are  *)
(* typed in turn: an annotation may name a parameter before it, and has    *)
(* the type that one was just given.                                       *)
AfterParam(f, p) == IF p = ParamNode(f, unit[f].args) THEN Body(unit, f) ELSE p + 2

TypeFunction ==
  /\ At("types", "function")
  /\ results' = Append(results, Result("function", NOTYPE))
  /\ pos' = IF unit[pos].args = 0 THEN Body(unit, pos) ELSE ParamNode(pos, 1)
  /\ UNCHANGED <<unit, stage, symbols, svars, m_node_types>>

(* A parameter (lines 350-361).  (One with no symbol is a null pointer at  *)
(* line 359; the units have none.)                                         *)
Annotation == TypeOf(SymbolAt(pos + 1))

TypeParam ==
  /\ At("types", "param")
  /\ Annotation # NOTYPE
  /\ symbols' = [symbols EXCEPT ![SymbolAt(pos)].type = Annotation]
  /\ SetTypes({pos}, Annotation)
  /\ pos' = AfterParam(Local(0).node, pos)
  /\ UNCHANGED <<unit, stage, svars, results>>

(* The rest of visitFctDecl (lines 364-399).                               *)
Decl == Local(1).node
ParamTypes == [k \in 1 .. unit[Decl].args |-> TypeAt(ParamNode(Decl, k))]
BodyType == Local(0).type
ReturnType ==
  IF unit[Decl].hasReturnType THEN TypeOf(SymbolAt(ParamNode(Decl, unit[Decl].args + 1))) ELSE BodyType

Mismatch == BodyType \notin {NOTYPE, NOTHING, ReturnType}
Duplicate ==
  \E m \in DOMAIN m_methods :
    /\ m_methods[m].of = SymbolAt(Decl)
    /\ m_methods[m].decl # Decl
    /\ m_methods[m].type # NOTYPE
    /\ m_methods[m].type[2] = ParamTypes

TypeEndFunction ==
  /\ At("types", "endfunction")
  /\ ReturnType # NOTYPE /\ ~Mismatch /\ ~Duplicate
  /\ LET m == CHOOSE m \in DOMAIN m_methods : m_methods[m].decl = Decl
         signature == FunctionType(ParamTypes, ReturnType)
     IN  /\ m_methods' = [m_methods EXCEPT ![m].type = signature]
         /\ SetTypes({Decl}, signature)
  /\ results' = Without(2)
  /\ Forward
  /\ UNCHANGED <<symbols, scopes, m_current_scope, saved, m_node_symbls>>

(* The exceptions: OperandMismatch, TypeMismatch, ConflictingReturnTypes,  *)
(* UndefinedParameterType, UndefinedReturnType, DuplicateMethod.           *)
RefuseType ==
  /\ \/ (At("types", "binary") \/ At("types", "assign")) /\ ~Agree
     \/ At("types", "return") /\ Clashes(Without(1), Local(0).type)
     \/ /\ At("types", "if") \/ At("types", "while")
        /\ BranchesClash \/ Clashes(Without(Branches + 1), BranchType)
     \/ At("types", "param") /\ Annotation = NOTYPE
     \/ At("types", "endfunction") /\ (ReturnType = NOTYPE \/ Mismatch \/ Duplicate)
  /\ Mistyped

Typed ==
  /\ stage = "types"
  /\ pos > Len(unit)
  /\ stage' = "done"
  /\ UNCHANGED <<unit, pos, symbols, svars, tvars>>

ResolveTypes ==
  \/ TypeVarDecl \/ TypeLiteral \/ TypeIdentifier \/ TypeOperation \/ TypeCall \/ TypeMember
  \/ TypeExprStmt \/ TypeReturn \/ TypeControl \/ TypeBareIf \/ TypeBlock \/ TypeEndBlock
  \/ TypeModule \/ TypeEndModule \/ TypeFunction \/ TypeParam \/ TypeEndFunction
  \/ RefuseType \/ Typed

Next == (ResolveNames /\ UNCHANGED tvars) \/ ResolveTypes

Spec == TInit /\ [][Next]_vars

=============================================================================

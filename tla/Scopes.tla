------------------------------- MODULE Scopes --------------------------------
(***************************************************************************)
(* ScopeResolver, core/context/Resolver.cpp lines 8-179, with the scopes   *)
(* (Scope.cpp) and the tables of nodes (ASTContext) it fills: one walk     *)
(* over the syntax tree opens scopes, declares symbols and binds each name *)
(* to a symbol.                                                            *)
(*                                                                         *)
(* A unit is the sequence of its nodes.  An expression comes after its     *)
(* operands; a declaration comes before its parts, a declared name before  *)
(* its type; a block, a module and a function are closed by a node of      *)
(* their own, and the condition and the blocks of an `if` or a `while`     *)
(* come before it.  An `if` whose block the parser leaves out (Parser.cpp  *)
(* line 117) is a node of a kind of its own.                               *)
(* A node is known by its place; 0 is no symbol, no scope.                 *)
(* An assignment's value is bound before its target; neither declares      *)
(* anything, so the order only decides which of two errors is reported.    *)
(***************************************************************************)
EXTENDS Integers, Sequences, FiniteSets

CONSTANT Units   \* the units a behaviour may start from

VARIABLES
  unit,             \* the unit, left alone
  pos,              \* the node the walk is at
  stage,            \* "names", "types", "done"; "unresolved", "mistyped": by an exception
  scopes,           \* all scopes: kind, parent, and the symbols of their names
  symbols,          \* all symbols
  m_methods,        \* all methods, in order of declaration
  m_current_scope,
  saved,            \* the scopes to go back to, locals of the visits under way
  m_node_symbls

svars == <<scopes, m_methods, m_current_scope, saved, m_node_symbls>>

-----------------------------------------------------------------------------
(* Types: those registered once are equal when they are the same.          *)
NOTYPE  == << >>
INT     == <<"Int">>
NOTHING == <<"Nothing">>
FunctionType(args, returns) == <<"Function", args, returns>>

(* Nodes.                                                                  *)
Node(n, name) ==
  [n |-> n, name |-> name, args |-> 0, callee |-> 0, hasReturnType |-> FALSE, hasElse |-> FALSE]
IDENTIFIER(x) == Node("identifier", x)
LITERAL       == Node("literal", "")
BINARY        == Node("binary", "")
ASSIGN        == Node("assign", "")
CALL(k, back) == [Node("call", "") EXCEPT !.args = k, !.callee = back]   \* its callee is `back` nodes before
MEMBER(x)     == Node("member", x)
VAR(x)        == Node("var", x)
EXPRSTMT      == Node("expr", "")
RETURN        == Node("return", "")
BLOCK         == Node("block", "")
ENDBLOCK      == Node("endblock", "")
IF_(else)     == [Node("if", "") EXCEPT !.hasElse = else]
BAREIF        == Node("bareif", "")
WHILE         == Node("while", "")
MODULE_(m)    == Node("module", m)
ENDMODULE     == Node("endmodule", "")
FUNCTION(f, k, ret) == [Node("function", f) EXCEPT !.args = k, !.hasReturnType = ret]
PARAM(x)      == Node("param", x)
ENDFUNCTION   == Node("endfunction", "")

ExpressionNodes == {"identifier", "literal", "binary", "assign", "call", "member"}
DeclaringNodes == {"var", "param", "function", "module"}
Opens == {"block", "function", "module"}
Closes == {"endblock", "endfunction", "endmodule"}
Count(u, kinds, p, q) == Cardinality({k \in p .. q : u[k].n \in kinds})

(* A unit, as the parser makes it: nothing is closed that is not open, and *)
(* all is closed at last; a callee and the base of a member are            *)
(* expressions; the parameters of a function follow it, each with its      *)
(* type, and have different names.  (Of two that have the same name the    *)
(* second has no symbol, which is a null pointer at line 359.)             *)
Balanced(u) ==
  /\ \A p \in DOMAIN u : Count(u, Closes, 1, p) <= Count(u, Opens, 1, p)
  /\ \A o \in DOMAIN u : u[o].n \in Opens =>
       \E q \in o .. Len(u) : Count(u, Opens, o, q) = Count(u, Closes, o, q)
HasOperands(u) ==
  \A p \in DOMAIN u :
    /\ u[p].n = "call" => u[p].callee \in 1 .. p - 1 /\ u[p - u[p].callee].n \in ExpressionNodes
    /\ u[p].n = "member" => p > 1 /\ u[p - 1].n \in ExpressionNodes
ParamsFirst(u) ==
  \A p \in DOMAIN u : u[p].n = "param" =>
    \E f \in 1 .. p - 1 :
      /\ u[f].n = "function"
      /\ \A q \in f + 1 .. p - 1 : /\ u[q].n \in {"param", "identifier"}
                                   /\ u[q].n = "param" => u[q].name # u[p].name

(* It is a syntax tree: before each node some wait for the one they are    *)
(* part of, the last one first to be taken.  These are operands and        *)
(* conditions, blocks that are closed, and the declarations and regions    *)
(* that are not.                                                           *)
Takes(node) ==
  CASE node.n = "call" -> node.args + 1
    [] node.n \in {"if", "while"} -> IF node.hasElse THEN 3 ELSE 2
    [] node.n \in {"binary", "assign", "endfunction"} -> 2
    [] node.n \in {"member", "expr", "return", "bareif", "endblock", "endmodule"} -> 1
    [] OTHER -> 0
Waits(n) == n \in ExpressionNodes \cup Opens \cup {"var", "endblock"}
Kind(u, held, k) == u[held[Len(held) - k]].n   \* of the k-th below the last one

(* The type and the initializer of a variable, the parameters and types of *)
(* a function stay with it.                                                *)
InDeclaration(u, held, p) ==
  /\ held # << >>
  /\ \/ Kind(u, held, 0) = "var" /\ u[p].n \in ExpressionNodes
     \/ Kind(u, held, 0) = "function" /\ u[p].n \in {"param", "identifier"}

WaitingAfter(u, held, p) ==
  IF InDeclaration(u, held, p) THEN held
  ELSE LET left == SubSeq(held, 1, Len(held) - Takes(u[p]))
       IN  IF Waits(u[p].n) THEN Append(left, p) ELSE left
Waiting(u) ==
  LET waiting[p \in 1 .. Len(u) + 1] ==
        IF p = 1 THEN << >> ELSE WaitingAfter(u, waiting[p - 1], p - 1)
  IN  waiting

(* What a node takes is of the right kind, a statement -- the node that it *)
(* ends with, too -- is one of the unit, of a block or of a module, a      *)
(* declaration has its parts, and a parameter is one of these.             *)
TakesItsParts(u, held, p) ==
  LET n == u[p].n
      k == Takes(u[p])
  IN  /\ k \in 0 .. Len(held)
      /\ n # "param"
      /\ n \in {"binary", "assign", "call", "member", "return", "bareif"} =>
           \A j \in 0 .. k - 1 : Kind(u, held, j) \in ExpressionNodes
      /\ n = "expr" => Kind(u, held, 0) \in ExpressionNodes \cup {"var"}
      /\ n \in {"if", "while"} =>
           /\ \A j \in 0 .. k - 2 : Kind(u, held, j) = "endblock"
           /\ Kind(u, held, k - 1) \in ExpressionNodes
      /\ n = "endblock" => Kind(u, held, 0) = "block"
      /\ n = "endmodule" => Kind(u, held, 0) = "module"
      /\ n = "endfunction" => Kind(u, held, 0) = "endblock" /\ Kind(u, held, 1) = "function"
Statements ==
  {"expr", "return", "if", "bareif", "while", "var", "function", "module", "endfunction", "endmodule"}
IsOfAList(u, held, p) ==
  LET k == Takes(u[p])
  IN  u[p].n \in Statements => Len(held) = k \/ Kind(u, held, k) \in {"block", "module"}
Body(u, p) == p + 2 * u[p].args + (IF u[p].hasReturnType THEN 2 ELSE 1)
ParamNode(f, k) == f + 2 * k - 1
HasItsParts(u, p) ==
  /\ u[p].n = "var" =>
       \E q \in p + 1 .. Len(u) : u[q].n = "expr" /\ \A r \in p + 1 .. q - 1 : u[r].n \in ExpressionNodes
  /\ u[p].n = "function" =>
       /\ u[p].args \in Nat /\ Body(u, p) <= Len(u) /\ u[Body(u, p)].n = "block"
       /\ \A q \in p + 1 .. Body(u, p) - 1 :
            u[q].n = IF \E k \in 1 .. u[p].args : q = ParamNode(p, k) THEN "param" ELSE "identifier"
IsTree(u) ==
  \E waiting \in {Waiting(u)} :
    /\ waiting[Len(u) + 1] = << >>
    /\ \A p \in DOMAIN u :
         \/ InDeclaration(u, waiting[p], p)
         \/ TakesItsParts(u, waiting[p], p) /\ IsOfAList(u, waiting[p], p) /\ HasItsParts(u, p)

IsUnit(u) ==
  /\ u \in Seq({u[p] : p \in DOMAIN u})
  /\ Balanced(u) /\ HasOperands(u) /\ ParamsFirst(u) /\ IsTree(u)

ASSUME UnitsAssumption == \A u \in Units : IsUnit(u)

(* Symbols, scopes, methods.                                               *)
Symbol(kind, name, type, mscope) == [kind |-> kind, name |-> name, type |-> type, moduleScope |-> mscope]
Scope(kind, parent) == [kind |-> kind, parent |-> parent, names |-> << >>]
Method(of, decl, type) == [of |-> of, decl |-> decl, type |-> type]

Core == 1
Main == 2

(* What ASTContext starts with; the first method is the unit's top level.  *)
Init ==
  /\ unit \in Units
  /\ pos = 1
  /\ stage = "names"
  /\ symbols = << Symbol("Type", "Int", INT, 0), Symbol("Type", "Nothing", NOTHING, 0),
                  Symbol("Function", "print", FunctionType(<<INT>>, NOTHING), 0),
                  Symbol("Module", "Core", NOTYPE, Core), Symbol("Module", "Main", NOTYPE, Main) >>
  /\ scopes = << [Scope("Module", 0) EXCEPT !.names = [x \in {symbols[s].name : s \in 1 .. 5} |->
                                                         CHOOSE s \in 1 .. 5 : symbols[s].name = x]],
                 Scope("Module", Core) >>
  /\ m_methods = << Method(0, 0, NOTYPE), Method(3, 0, FunctionType(<<INT>>, NOTHING)) >>
  /\ m_current_scope = Main
  /\ saved = << >>
  /\ m_node_symbls = << >>

-----------------------------------------------------------------------------
At(pass, n) == stage = pass /\ pos <= Len(unit) /\ unit[pos].n = n
Name == unit[pos].name

(* Scope::lookupLocal and lookup.                                          *)
LookupLocal(scope, x) == IF x \in DOMAIN scopes[scope].names THEN scopes[scope].names[x] ELSE 0

OutermostFirst(x) ==
  LET found[s \in 0 .. Len(scopes)] ==
        IF s = 0 THEN 0
        ELSE IF found[scopes[s].parent] # 0 THEN found[scopes[s].parent]
        ELSE LookupLocal(s, x)
  IN  found[m_current_scope]
Lookup(x) ==
  LET found[s \in 0 .. Len(scopes)] ==
        IF s = 0 THEN 0
        ELSE IF LookupLocal(s, x) # 0 THEN LookupLocal(s, x)
        ELSE found[scopes[s].parent]
  IN  found[m_current_scope]

NewSymbol == Len(symbols) + 1
NewScope == Len(scopes) + 1

(* Scope::declare of a name that is new in the current scope.              *)
With(f, x, v) == [y \in DOMAIN f \cup {x} |-> IF y \in DOMAIN f THEN f[y] ELSE v]
WithName(x) == [scopes EXCEPT ![m_current_scope].names = With(@, x, NewSymbol)]

(* The tables of nodes keep what is written first.                         *)
Bind(symbol) == m_node_symbls' = With(m_node_symbls, pos, symbol)
SymbolAt(p) == IF p \in DOMAIN m_node_symbls THEN m_node_symbls[p] ELSE 0

Forward == pos' = pos + 1 /\ UNCHANGED <<unit, stage>>
Unresolved == stage' = "unresolved" /\ UNCHANGED <<unit, pos, symbols, svars>>

(* Going down into a scope, and back to the last one.                      *)
Into(scope) == m_current_scope' = scope /\ saved' = Append(saved, m_current_scope)
StaysInside ==
  /\ m_current_scope' = m_current_scope
  /\ saved' = SubSeq(saved, 1, Len(saved) - 1)
Back ==
  /\ m_current_scope' = saved[Len(saved)]
  /\ saved' = SubSeq(saved, 1, Len(saved) - 1)

-----------------------------------------------------------------------------
(* visitVarDecl (lines 24-43): the name is declared before its type and    *)
(* its initializer are bound.                                              *)
HasSymbol == LookupLocal(m_current_scope, Name) # 0

VarDecl ==
  /\ At("names", "var")
  /\ ~HasSymbol
  /\ symbols' = Append(symbols, Symbol("Variable", Name, NOTYPE, 0))
  /\ scopes' = WithName(Name)
  /\ Bind(NewSymbol)
  /\ Forward
  /\ UNCHANGED <<m_methods, m_current_scope, saved>>

Identifier ==
  /\ At("names", "identifier")
  /\ Lookup(Name) # 0
  /\ Bind(Lookup(Name))
  /\ Forward
  /\ UNCHANGED <<symbols, scopes, m_methods, m_current_scope, saved>>

(* visitCallExpr (lines 66-76): a call has the symbol of its callee.       *)
Call ==
  /\ At("names", "call")
  /\ Bind(SymbolAt(pos - unit[pos].callee))
  /\ Forward
  /\ UNCHANGED <<symbols, scopes, m_methods, m_current_scope, saved>>

(* visitMemberExpr (lines 78-93): of a module, a name of its own scope; of *)
(* what has no symbol, none.                                               *)
Base == SymbolAt(pos - 1)
MemberOf(s) == LookupLocal(symbols[s].moduleScope, Name)

Member ==
  /\ At("names", "member")
  /\ IF Base = 0 THEN UNCHANGED m_node_symbls
     ELSE symbols[Base].kind = "Module" /\ MemberOf(Base) # 0 /\ Bind(MemberOf(Base))
  /\ Forward
  /\ UNCHANGED <<symbols, scopes, m_methods, m_current_scope, saved>>

(* visitModuleDecl (lines 95-111): a module sees its own names and Core's. *)
SeesWhatEncloses == m_current_scope
ModuleParent == Core

ModuleDecl ==
  /\ At("names", "module")
  /\ ~HasSymbol
  /\ symbols' = Append(symbols, Symbol("Module", Name, NOTYPE, NewScope))
  /\ scopes' = Append(WithName(Name), Scope("Module", ModuleParent))
  /\ Bind(NewSymbol)
  /\ Into(NewScope)
  /\ Forward
  /\ UNCHANGED m_methods

Block ==
  /\ At("names", "block")
  /\ scopes' = Append(scopes, Scope("Block", m_current_scope))
  /\ Into(NewScope)
  /\ Forward
  /\ UNCHANGED <<symbols, m_methods, m_node_symbls>>

Leave ==
  /\ \E n \in {"endblock", "endmodule", "endfunction"} : At("names", n)
  /\ Back
  /\ Forward
  /\ UNCHANGED <<symbols, scopes, m_methods, m_node_symbls>>

(* visitFctDecl (lines 144-160): a function of the same name in the same   *)
(* scope gets one more method.                                             *)
NewFunction ==
  /\ At("names", "function")
  /\ ~HasSymbol
  /\ symbols' = Append(symbols, Symbol("Function", Name, NOTYPE, 0))
  /\ scopes' = Append(WithName(Name), Scope("Function", m_current_scope))
  /\ m_methods' = Append(m_methods, Method(NewSymbol, pos, NOTYPE))
  /\ Bind(NewSymbol)
  /\ Into(NewScope)
  /\ Forward

Overload ==
  LET fcts == LookupLocal(m_current_scope, Name)
  IN  /\ At("names", "function")
      /\ HasSymbol /\ symbols[fcts].kind = "Function"
      /\ scopes' = Append(scopes, Scope("Function", m_current_scope))
      /\ m_methods' = Append(m_methods, Method(fcts, pos, NOTYPE))
      /\ Bind(fcts)
      /\ Into(NewScope)
      /\ Forward
      /\ UNCHANGED symbols

(* A parameter (lines 162-169).  The result of declare is not looked at:   *)
(* one whose name is taken has no symbol.                                  *)
Param ==
  /\ At("names", "param")
  /\ IF HasSymbol THEN Bind(0) /\ UNCHANGED <<symbols, scopes>>
     ELSE /\ symbols' = Append(symbols, Symbol("Parameter", Name, NOTYPE, 0))
          /\ scopes' = WithName(Name)
          /\ Bind(NewSymbol)
  /\ Forward
  /\ UNCHANGED <<m_methods, m_current_scope, saved>>

(* Nodes that only have their parts visited.                               *)
PassBy ==
  /\ \E n \in {"literal", "binary", "assign", "expr", "return", "if", "bareif", "while"} : At("names", n)
  /\ Forward
  /\ UNCHANGED <<symbols, svars>>

(* The exceptions: Redeclaration, UndeclaredIdentifier, NotAModule,        *)
(* UnknownMember, NotAFunction.                                            *)
Refuse ==
  /\ \/ (At("names", "var") \/ At("names", "module")) /\ HasSymbol
     \/ At("names", "identifier") /\ Lookup(Name) = 0
     \/ /\ At("names", "member") /\ Base # 0
        /\ symbols[Base].kind = "Module" => MemberOf(Base) = 0
     \/ /\ At("names", "function") /\ HasSymbol
        /\ symbols[LookupLocal(m_current_scope, Name)].kind # "Function"
  /\ Unresolved

Resolved ==
  /\ stage = "names"
  /\ pos > Len(unit)
  /\ stage' = "types"
  /\ pos' = 1
  /\ UNCHANGED <<unit, symbols, svars>>

ResolveNames ==
  \/ VarDecl \/ Identifier \/ Call \/ Member \/ ModuleDecl \/ Block \/ Leave
  \/ NewFunction \/ Overload \/ Param \/ PassBy \/ Refuse \/ Resolved

=============================================================================

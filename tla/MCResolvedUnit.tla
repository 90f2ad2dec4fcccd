--------------------------- MODULE MCResolvedUnit ----------------------------
(***************************************************************************)
(* Instances of ResolvedUnit.                                              *)
(***************************************************************************)
EXTENDS ResolvedUnit, SequencesExt

a == <<IDENTIFIER("a")>>
b == <<IDENTIFIER("b")>>
one == <<LITERAL>>

(* Expressions and statements.                                             *)
Calls(f, args) == f \o FlattenSeq(args) \o <<CALL(Len(args), Len(FlattenSeq(args)) + 1)>>
Of(base, x) == base \o <<MEMBER(x)>>
Sum(l, r) == l \o r \o <<BINARY>>
Sets(x, e) == x \o e \o <<ASSIGN, EXPRSTMT>>
Does(e) == e \o <<EXPRSTMT>>
Var(x, t) == <<VAR(x), IDENTIFIER(t), EXPRSTMT>>
VarInit(x, t, e) == <<VAR(x), IDENTIFIER(t)>> \o e \o <<EXPRSTMT>>
Returns(e) == e \o <<RETURN>>
InBlock_(s) == <<BLOCK>> \o s \o <<ENDBLOCK>>
If(c, s) == c \o InBlock_(s) \o <<IF_(FALSE)>>
IfElse(c, s, t) == c \o InBlock_(s) \o InBlock_(t) \o <<IF_(TRUE)>>
Bare(c) == c \o <<BAREIF>>
While(c, s) == c \o InBlock_(s) \o <<WHILE>>
Mod(m, s) == <<MODULE_(m)>> \o s \o <<ENDMODULE>>
Fct(f, params, ret, s) ==
  <<FUNCTION(f, Len(params), ret # "")>>
    \o FlattenSeq([k \in DOMAIN params |-> <<PARAM(params[k][1]), IDENTIFIER(params[k][2])>>])
    \o (IF ret = "" THEN << >> ELSE <<IDENTIFIER(ret)>>)
    \o InBlock_(s) \o <<ENDFUNCTION>>

(* What declares a, and what reads a, in and around one region of a kind.  *)
Declarations ==
  { << >>, Var("a", "Int"), VarInit("a", "Int", a), Mod("a", Var("b", "Int")), Fct("a", << >>, "", << >>) }
Uses ==
  { << >>, Does(a), Does(Of(a, "b")), Does(Calls(a, << >>)), Does(Calls(Of(<<IDENTIFIER("Core")>>, "print"), <<a>>)),
    Does(Of(<<IDENTIFIER("Main")>>, "a")), Does(Of(Of(one, "b"), "a")) }
Wrap(k, s) ==
  CASE k = "if" -> If(one, s)
    [] k = "while" -> While(one, s)
    [] k = "module" -> Mod("m", s)
    [] k = "function" -> Fct("f", << <<"b", "Int">> >>, "", s)
    [] k = "param" -> Fct("f", << <<"a", "Int">> >>, "", s)
Wraps == {"if", "while", "module", "function", "param"}

Scoped ==
  UNION {
    {d \o Wrap(k, e \o u) \o v : k \in Wraps, d, e \in Declarations, u, v \in Uses},
    {d \o e \o u : d, e \in Declarations, u \in Uses},
    {d \o Wrap(k, Wrap(l, e \o u) \o v)
       : k, l \in Wraps, d, e \in Declarations \ {<< >>}, u, v \in {Does(a), Does(Of(a, "b"))}} }

(* Functions that return in several places.                                *)
Values == { one, a, b, Calls(<<IDENTIFIER("print")>>, <<one>>), Calls(<<IDENTIFIER("f")>>, <<a>>) }
RetBodies ==
  UNION {
    {Returns(v) : v \in Values},
    {If(a, Returns(v)) \o Returns(w) : v, w \in Values},
    {IfElse(a, Returns(v), Returns(w)) : v, w \in Values},
    {While(a, If(a, Returns(v)) \o Returns(w)) \o Returns(u) : u, v, w \in Values \ {one}},
    {Fct("g", << >>, "", Returns(v)) \o Returns(w) : v, w \in Values},
    {Bare(a) \o Returns(w) : w \in Values},
    {While(a, Bare(b) \o Returns(v)) \o Returns(w) : v, w \in {one, b}},
    {IfElse(a, Bare(a), Returns(v)) \o Fct("g", << >>, ret, Bare(a) \o Returns(w)) \o Returns(w)
       : v, w \in {one, b}, ret \in {"", "Int"}},
    {Mod("g", Bare(one)) \o Bare(b), Bare(a)},
    {If(a, Mod("g", IfElse(one, Returns(one), Returns(one)) \o Returns(one))) \o Returns(w) : w \in Values},
    {Sets(a, Sum(a, v)) \o Returns(w) : v, w \in Values} }
Signature(bt, ret, s) == Fct("f", << <<"a", "Int">>, <<"b", bt>> >>, ret, s)

Typing ==
  UNION {
    {Signature(bt, ret, s)
       : bt \in {"Int", "Nothing", "print", "Main", "a"}, ret \in {"", "Int", "Nothing"}, s \in RetBodies},
    {Fct("f", << <<"a", t>>, <<"b", u>> >>, ret, s)
       : t \in {"Int", "Nothing", "a", "f"}, u \in {"a", "b", "Int"}, ret \in {"", "a", "b"},
         s \in {Returns(b), Bare(a), << >>}},
    {Fct("f", p, "", s) \o Fct("f", q, r, << >>)
       : p, q \in {<< >>, << <<"a", "Int">> >>, << <<"a", "Nothing">> >>, << <<"a", "Int">>, <<"b", "Int">> >>},
         r \in {"", "Int"}, s \in {Returns(one), << >>}},
    {Fct("f", p, "", Fct("f", q, "", << >>)) \o Fct("f", q, "", << >>)
       : p, q \in {<< >>, << <<"a", "Int">> >>}},
    {Var("a", t) \o Var("b", u) \o Sets(a, e)
       : t, u \in {"Int", "Nothing", "Main", "a"}, e \in {a, b, one, Sum(a, b), Sum(b, one)}} }

SmallUnits == Scoped \cup Typing

=============================================================================

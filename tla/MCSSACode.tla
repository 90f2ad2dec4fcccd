------------------------------ MODULE MCSSACode ------------------------------
(***************************************************************************)
(* Instances of SSACode: every nesting of two regions around assignments   *)
(* and calls that read and write two variables.                            *)
(***************************************************************************)
EXTENDS SSACode

x == VAR("x")
y == VAR("y")

Simple ==
  { AssignTo("x", BIN("+", x, NUM(1))), AssignTo("y", x), AssignTo("y", CALL("g", <<x, y>>)),
    Do(CALL("p", <<y>>)) }

Conditions == {BIN("<", x, y), y}

(* An if, an if with an else, a loop: around two bodies.                   *)
Region(shape, c, s, t) ==
  CASE shape = "if" -> <<If(c)>> \o s \o <<End>> \o t
    [] shape = "else" -> <<IfElse(c)>> \o s \o <<Else>> \o t \o <<End>>
    [] shape = "while" -> <<While(c)>> \o s \o <<End>> \o t

Shapes == {"if", "else", "while"}

One(s) == <<s>>
Bodies ==
  UNION {
    {Region(a, c, One(s), One(t)) : a \in Shapes, c \in Conditions, s, t \in Simple},
    {Region(a, BIN("<", x, y), Region(b, y, One(s), One(t)), One(u))
       : a, b \in Shapes, s, t, u \in Simple},
    {Region(a, x, One(s), One(t)) \o Region(b, BIN("<", x, y), One(t), One(s))
       : a, b \in Shapes, s, t \in Simple},
    {Region(a, x, Region(b, y, Region(c, x, One(s), One(t)), One(t)), One(s))
       : a, b, c \in Shapes, s, t \in Simple},
    {Region(a, BIN("<", x, y), One(s), Region(b, x, One(t), One(u)))
       : a, b \in Shapes, s, t, u \in {AssignTo("x", BIN("+", x, NUM(1))), AssignTo("y", x)}} }

(* Bodies that return before their end.                                    *)
Returning ==
  UNION {
    {Region(a, c, <<s, ReturnOf(e)>>, One(t))
       : a \in {"if", "while"}, c \in Conditions, s, t \in Simple, e \in {x, NUM(7)}},
    {Region("else", x, <<ReturnOf(y)>>, <<s, ReturnOf(x)>>) : s \in Simple},
    {Region("while", x, Region("if", y, <<s, ReturnOf(y)>>, One(t)), << >>) : s, t \in Simple} }

Begin == <<AssignTo("x", CALL("g", << >>)), AssignTo("y", NUM(0))>>
Finally == <<Do(CALL("p", <<BIN("*", x, y)>>))>>

InMain(b) == Begin \o b \o Finally
InFunction(b) ==
  <<Fn("f", <<"x", "y">>)>> \o b \o <<ReturnOf(BIN("+", x, y)), End>>
    \o <<Do(CALL("f", <<NUM(1), NUM(2)>>))>>

SmallPrograms ==
  {InMain(b) : b \in Bodies} \cup {InFunction(b) : b \in Returning}
  \cup {InFunction(Region("while", x, One(s), One(t))) : s, t \in Simple}

ReturnNothing == {"p"}

=============================================================================

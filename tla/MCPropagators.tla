---------------------------- MODULE MCPropagators ----------------------------
(***************************************************************************)
(* Small programs for Propagators.                                         *)
(***************************************************************************)
EXTENDS Propagators

Constraint(rel, c, terms) == [rel |-> rel, c |-> c, terms |-> terms]
T(a, x) == [a |-> a, x |-> x]
Same(D, xs) == [x \in xs |-> D]
Program(dom, posts) == [dom |-> dom, posts |-> posts]

XYZ == {"x", "y", "z"}
B4 == {"p", "q", "r", "s"}

\* Equations of three variables that share variables, with coefficients of both signs.
Sums == Program("w" :> 0 .. 2 @@ Same(-1 .. 1, XYZ),
  <<Constraint("eq", 0, <<T(1, "x"), T(1, "y"), T(-1, "z")>>),
    Constraint("eq", -1, <<T(2, "x"), T(-1, "w"), T(1, "z")>>)>>)

\* Binary equations in every form, in a cycle.
Cycle == Program(Same(0 .. 3, XYZ),
  <<Constraint("eq", 1, <<T(1, "x"), T(-1, "y")>>),
    Constraint("eq", -3, <<T(1, "y"), T(1, "z")>>),
    Constraint("eq", -4, <<T(1, "x"), T(2, "z")>>)>>)

\* Coefficients that leave holes; more values go out than the queue has room for.
Multiples == Program("x" :> 0 .. 2 @@ "y" :> 0 .. 10 @@ "z" :> 0 .. 10,
  <<Constraint("eq", 0, <<T(1, "y"), T(-1, "z")>>),
    Constraint("eq", 0, <<T(5, "x"), T(-1, "y")>>)>>)

\* Inequalities over an equation.
Order == Program(Same(0 .. 3, XYZ),
  <<Constraint("ge", 0, <<T(1, "y"), T(-1, "x")>>),
    Constraint("ge", -1, <<T(1, "z"), T(-2, "y")>>),
    Constraint("eq", 4, <<T(-1, "x"), T(-1, "y"), T(-1, "z")>>)>>)

\* Boolean sums.
Booleans == Program(Same({0, 1}, B4),
  <<Constraint("eq", 0, <<T(1, "p"), T(1, "q"), T(-1, "r")>>),
    Constraint("ge", 2, <<T(-1, "p"), T(-1, "q"), T(-1, "s")>>),
    Constraint("ge", 3, <<T(-2, "r"), T(-2, "s")>>),
    Constraint("ge", -1, <<T(1, "q"), T(1, "r"), T(1, "s")>>)>>)

\* An equation that makes holes, under one of three variables and an inequality.
Mixed == Program("y" :> 0 .. 4 @@ Same(0 .. 2, {"x", "z", "w"}),
  <<Constraint("eq", -3, <<T(1, "y"), T(1, "z"), T(-1, "w")>>),
    Constraint("ge", 0, <<T(1, "w"), T(1, "x"), T(-1, "y")>>),
    Constraint("eq", 0, <<T(2, "x"), T(-1, "y")>>)>>)

MCPrograms == {Mixed, Sums, Cycle, Multiples, Order, Booleans}
=============================================================================

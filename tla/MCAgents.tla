------------------------------ MODULE MCAgents ------------------------------
(***************************************************************************)
(* Programs for Agents: what two agents watch on two channels, and what is *)
(* posted.                                                                 *)
(***************************************************************************)
EXTENDS Agents

CONSTANTS f1, f2, x, y

Program(watch1, watch2, kinds, cuts, n) ==
  [watch |-> f1 :> watch1 @@ f2 :> watch2, kinds |-> kinds, cuts |-> cuts, posts |-> n]

\* Two propagators with a common variable.
Vars == Program({<<x, "ins">>, <<x, "minmax">>}, {<<x, "ins">>, <<y, "minmax">>},
                {"dvar_ins", "minmax"}, FALSE, 3)

\* A frame that the last queue named, and what only the bounds of y wake.
Named(ins) == Program({<<x, "ins">>}, {<<y, "minmax">>}, {ins, "minmax"}, FALSE, 4)

\* Two agents that take terms from one channel.
Terms == Program({<<x, "dom">>}, {<<x, "dom">>, <<y, "outer_dom">>}, TermKinds, FALSE, 3)

\* Every port and every kind of event, and cuts.
All == Program({<<x, "ins">>, <<x, "minmax">>, <<x, "dom">>}, {<<y, "outer_dom">>, <<y, "ins">>},
               AllKinds, TRUE, 3)

\* An agent that waits for a term or a variable, and one that waits for bounds, without cuts.
Mixed(kinds) == Program({<<x, "ins">>, <<x, "dom">>}, {<<x, "minmax">>}, kinds, FALSE, 3)

\* Values that go one by one: more of them than the arrays have words.
Holes == Program({<<x, "dom">>}, {}, {"dom"}, FALSE, 4)

PassPrograms == {Holes, Vars, Named("dvar_ins"), Terms, Mixed({"var_ins", "general"}), All}
CutPrograms == {[Vars EXCEPT !.cuts = TRUE]}
=============================================================================

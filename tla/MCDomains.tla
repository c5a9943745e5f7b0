------------------------------ MODULE MCDomains ------------------------------
(***************************************************************************)
(* Instances of Domains for TLC.                                           *)
(***************************************************************************)
EXTENDS Domains

NoOpValue == [name |-> "none"]
MCLo == -1
PortNames == {"ins", "minmax", "dom", "outer_dom"}

\* Agents that wait for a value and for bounds, for inner values too, and for all values.
Bounds == {"ins", "minmax"}
Inner == Bounds \cup {"dom"}
All == Inner \cup {"outer_dom"}
MCWatches == {[X |-> All, Y |-> All], [X |-> Inner, Y |-> Bounds], [X |-> Bounds, Y |-> Inner]}

Op(name, i, j, a, b, S) == [name |-> name, i |-> i, j |-> j, a |-> a, b |-> b, S |-> S]
On(name, n, a, b) == Op(name, n, n, a, b, {})

Values == Lo .. Hi

\* What is done to one variable alone; Y gets less of it than X.
OfX ==
  {On("create", "X", Lo, Hi), On("create_bv", "X", Lo, Hi), On("suspend", "X", 0, 0)}
  \cup {On("set_false", "X", e, e) : e \in {Lo, 1, Hi}} \cup {On("inst_set_false", "X", 2, 2)}
  \cup {On("region", "X", 0, 2), On("region", "X", 1, Hi), On("exclude", "X", 0, 1)}
  \cup {On("bind", "X", 1, 1), On("two", "X", Lo, 2), On("intersect2", "X", 0, Hi)}
  \cup {Op("in", "X", "X", 0, 0, {0, Hi}), Op("notin", "X", "X", 0, 0, {0, 2})}
OfY == {On("create", "Y", Lo, Hi), On("create_bv", "Y", 0, Hi), On("set_false", "Y", 1, 1)}
OfBoth == {Op(name, "X", "Y", 0, 0, {}) : name \in {"unify", "intersect", "subtract"}}

MCOperations == OfX \cup OfY \cup OfBoth
=============================================================================

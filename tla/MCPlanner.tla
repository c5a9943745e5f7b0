------------------------------ MODULE MCPlanner ------------------------------
(***************************************************************************)
(* Small planning problems for Planner: five states, two or fewer actions  *)
(* in each, with loops, detours and actions that cost nothing.             *)
(***************************************************************************)
EXTENDS Planner, FiniteSetsExt

CONSTANTS
  MaxCost       \* Unlimited

To(s, c) == [to |-> s, cost |-> c]

MCStates == {"a", "r", "s", "m", "g"}

\* The actions of a state in the order they are tried, one list of each set.
Pool ==
  [a |-> {<<To("r", 3), To("m", 1)>>, <<To("m", 0), To("r", 2)>>},
   r |-> {<<To("s", 1), To("g", 1)>>, <<To("s", 0)>>,
          <<To("g", 4), To("m", 1)>>},
   s |-> {<<To("m", 1), To("r", 1)>>, <<To("r", 0), To("m", 0)>>,
          <<To("m", 0), To("g", 5)>>},
   m |-> {<<To("s", 1), To("a", 0)>>, <<To("s", 0), To("g", 3)>>,
          <<To("r", 1), To("s", 1)>>},
   g |-> {<< >>}]

ActionsOf(pool) ==
  {f \in [DOMAIN pool -> UNION {pool[s] : s \in DOMAIN pool}] :
     \A s \in DOMAIN pool : f[s] \in pool[s]}

\* The cost of the cheapest plan of each state, by relaxation.
Relax(action, dist) ==
  [s \in MCStates |->
     Min({dist[s]} \cup {x.cost + dist[x.to] : x \in ToSet(action[s])})]
RECURSIVE CheapestFrom(_, _)
CheapestFrom(action, dist) ==
  LET next == Relax(action, dist)
  IN IF next = dist THEN dist ELSE CheapestFrom(action, next)

\* No heuristic, or an admissible one that is not consistent.
Heuristics(dist) ==
  {[s \in MCStates |-> 0],
   [s \in MCStates |->
      IF s \in {"r", "m"} /\ dist[s] <= MaxCost THEN dist[s] ELSE 0]}

MCProblems ==
  UNION {LET dist == CheapestFrom(f, [s \in MCStates |->
                     IF s = "g" THEN 0 ELSE MaxCost + 1])
         IN {[final |-> {"g"}, action |-> f, heuristic |-> h,
              cheapest |-> dist] :
               h \in Heuristics(dist)} :
         f \in ActionsOf(Pool)}

\* Any driver, with a limit that some plans exceed and one that none does.  The
\* start states are not final: best_plan_bb would go on with limit -1 for ever.
MCQueries ==
  [how : {"plan", "down", "bin"}, start : {"a", "m"},
   limit : {3, MaxCost}] \cup
  [how : {"bb"}, start : {"a", "m"}, limit : {MaxCost}]

\* One problem, where the entries that two thrown plans leave have roots that go
\* round: a and s are each other's.
WalkStates == {"a", "b", "m", "r", "s", "g"}
WalkActions ==
  [a |-> <<To("r", 1), To("g", 1)>>,
   b |-> <<To("a", 0)>>,
   m |-> <<To("b", 1)>>,
   r |-> <<To("m", 0), To("s", 1)>>,
   s |-> <<To("a", 1), To("b", 1), To("g", 1)>>,
   g |-> << >>]
WalkProblems ==
  {[final |-> {"g"}, action |-> WalkActions,
    heuristic |-> [s \in WalkStates |-> 0],
    cheapest |-> [a |-> 1, b |-> 1, m |-> 2, r |-> 2, s |-> 1, g |-> 0]]}
WalkQueries ==
  [how : {"plan"}, start : {"s", "a"}, limit : {3}] \cup
  [how : {"plan"}, start : {"r"}, limit : {1}]

BestQueries == [how : {"bin", "bb"}, start : {"a"}, limit : {MaxCost}]
=============================================================================

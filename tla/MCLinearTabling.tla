--------------------------- MODULE MCLinearTabling ---------------------------
(***************************************************************************)
(* Small programs for LinearTabling: a few subgoals, answers 0..MaxAnswer, *)
(* and clauses that add a constant to the sum of the answers they take, so *)
(* that a recursive program needs several rounds to reach its fixpoint.    *)
(***************************************************************************)
EXTENDS LinearTabling

CONSTANTS
  MaxAnswer     \* bound: the largest answer

MCAnswers == 0 .. MaxAnswer
MCNoAnswer == -1

Fact(n) == [body |-> << >>, neck |-> TRUE, add |-> n]
Rule1(n, s, mode) ==
  [body |-> <<[goal |-> s, mode |-> mode]>>, neck |-> FALSE, add |-> n]
Rule2(s, t, mode) ==
  [body |-> <<[goal |-> s, mode |-> mode],
              [goal |-> t, mode |-> "all"]>>, neck |-> FALSE, add |-> 0]

(***************************************************************************)
(* Two clauses for each subgoal: what the first and the second may be.     *)
(* One(n, s) takes the answers of s, Two(s, t) those of s and of t.        *)
(***************************************************************************)
\* Three subgoals that call each other in every way, inside cuts.
Cutting ==
  LET One(n, s) == Rule1(n, s, "once")
      Two(s, t) == Rule2(s, t, "commit")
  IN [p |-> <<{One(1, "p"), One(1, "q"), Two("q", "p"), Two("q", "r")},
              {One(1, "r"), One(0, "q"), Two("r", "q"), Fact(0)}>>,
      q |-> <<{One(0, "p"), One(1, "r"), Two("p", "r"), Fact(0)},
              {One(1, "p"), One(0, "r"), Two("r", "p"), Fact(1)}>>,
      r |-> <<{One(1, "q"), One(0, "p"), Two("q", "p"), Fact(1)},
              {One(0, "p"), Fact(0), Fact(1)}>>]

\* Three subgoals that take all answers of each other, alone or in pairs, and a fourth
\* that nothing calls.
Plain ==
  LET One(n, s) == Rule1(n, s, "all")
      Two(s, t) == Rule2(s, t, "all")
  IN [p |-> <<{One(1, "p"), One(1, "q"), Two("q", "r")},
              {One(1, "r"), Two("r", "q"), Fact(0)}>>,
      q |-> <<{One(0, "p"), One(1, "r"), Two("p", "r")},
              {One(1, "p"), Fact(1)}>>,
      r |-> <<{One(1, "q"), Two("q", "p")}, {One(0, "p"), Fact(1)}>>,
      s |-> <<{Fact(0)}, {Fact(0)}>>]

\* Fewer of them, for exceptions.
Narrow ==
  LET One(n, s) == Rule1(n, s, "all")
      Two(s, t) == Rule2(s, t, "all")
  IN [p |-> <<{One(1, "p"), One(1, "q"), Two("q", "r")},
              {One(1, "r"), Fact(0)}>>,
      q |-> <<{One(0, "p"), One(1, "r")}, {One(1, "p"), Fact(1)}>>,
      r |-> <<{One(1, "q"), Two("q", "p")}, {One(0, "p"), Fact(1)}>>]

\* A chain of four subgoals with a back edge from each, for SCCs in SCCs.
Chain ==
  LET One(n, s) == Rule1(n, s, "all")
  IN [p |-> <<{One(0, "q")}, {One(1, x) : x \in {"p", "r", "s"}}>>,
      q |-> <<{One(0, "r")}, {One(1, x) : x \in {"p", "q", "s"}}>>,
      r |-> <<{One(0, "s")}, {One(0, x) : x \in {"p", "q", "s"}}>>,
      s |-> <<{One(0, x) : x \in {"p", "q", "r"}}, {Fact(0)}>>]

RulesOf(pool) ==
  {rules \in [DOMAIN pool -> UNION {pool[s][1] \X pool[s][2] :
                                     s \in DOMAIN pool}] :
     \A s \in DOMAIN pool : rules[s] \in pool[s][1] \X pool[s][2]}

MCHeadOf(clause, v) ==
  LET sum == FoldLeft(+, clause.add, v)
  IN IF sum \in MCAnswers THEN sum ELSE MCNoAnswer

\* The least model, by iterating the consequences from empty tables.
RECURSIVE LeastFrom(_, _)
LeastFrom(rules, tables) ==
  LET next == [s \in Subgoals |-> Consequences(rules, tables, s)]
  IN IF next = tables THEN tables ELSE LeastFrom(rules, next)

ProgramsOf(pool) ==
  {[rules |-> rules, model |-> LeastFrom(rules, [s \in Subgoals |-> {}])] :
     rules \in RulesOf(pool)}

ClausesOf(pool) == UNION {pool[s][1] \cup pool[s][2] : s \in DOMAIN pool}

CutSubgoals == DOMAIN Cutting
CutClauses == ClausesOf(Cutting) \cup ClausesOf(Narrow)
CutPrograms == ProgramsOf(Cutting) \cup ProgramsOf(Narrow)
AllSubgoals == DOMAIN Chain
AllClauses == ClausesOf(Plain) \cup ClausesOf(Chain)
AllPrograms == ProgramsOf(Plain) \cup ProgramsOf(Chain)
=============================================================================

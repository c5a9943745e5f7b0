-------------------------- MODULE TabledEvaluation --------------------------
(***************************************************************************)
(* What tabled evaluation promises, without the machine that does it: an   *)
(* answer enters a table only as a consequence of answers already there, a *)
(* set of subgoals is declared complete only when nothing they may still   *)
(* take from the subgoals outside it could give them a new answer, and a   *)
(* complete table is never touched again, short of clearing all of them.   *)
(***************************************************************************)
EXTENDS TabledProgram

VARIABLES
  rules,        \* the clauses of the program
  table,        \* the answers of each subgoal
  complete      \* the subgoals whose tables are finished

vars == <<rules, table, complete>>

NoTables == [s \in Subgoals |-> {}]

(***************************************************************************)
(* The largest tables the incomplete subgoals could still end up with: a   *)
(* set of subgoals that is closed even under these never grows again.      *)
(***************************************************************************)
Potential(finished) ==
  [s \in Subgoals |-> IF s \in finished THEN table[s] ELSE Answers]

Closed(finished, s) ==
  Consequences(rules, Potential(finished), s) \subseteq table[s]

Init ==
  /\ \E p \in Programs : rules = p.rules
  /\ table = NoTables
  /\ complete = {}

Derive(s, a) ==
  /\ s \notin complete
  /\ a \in Consequences(rules, table, s)
  /\ table' = [table EXCEPT ![s] = @ \cup {a}]
  /\ UNCHANGED <<rules, complete>>

Complete(S) ==
  /\ \A s \in S : Closed(complete \cup S, s)
  /\ complete' = complete \cup S
  /\ UNCHANGED <<rules, table>>

Clear ==
  /\ table' = NoTables
  /\ complete' = {}
  /\ UNCHANGED rules

Next ==
  \/ \E s \in Subgoals, a \in Answers : Derive(s, a)
  \/ \E S \in SUBSET Subgoals : Complete(S)
  \/ Clear

Spec == Init /\ [][Next]_vars

\* Tables of answers for the clauses of one of the programs.
TypeOK ==
  /\ \E p \in Programs : rules = p.rules
  /\ table \in Tables
  /\ complete \subseteq Subgoals

\* Whatever the order of the steps, a table holds only answers that follow
\* from the program.
Sound ==
  \A p \in Programs :
    p.rules = rules => \A s \in Subgoals : table[s] \subseteq p.model[s]

\* A complete table has all of them, though completeness was only ever judged
\* against the tables of the moment.
CompleteIsLeast ==
  \A p \in Programs :
    p.rules = rules => \A s \in complete : table[s] = p.model[s]
=============================================================================

---------------------------- MODULE TabledProgram ----------------------------
(***************************************************************************)
(* What a tabled Picat program is, and what it means.                      *)
(*                                                                         *)
(* A program gives every tabled subgoal (a call up to renaming, one entry  *)
(* of the subgoal table of emu/table.c) a sequence of clauses.  A clause   *)
(* calls the subgoals of its body from left to right, takes one answer     *)
(* from each, and produces HeadOf of what it took.  The non-tabled         *)
(* work between two tabled calls is folded into HeadOf.                    *)
(*                                                                         *)
(* The meaning of a program is its least model: the smallest tables that   *)
(* no clause can add an answer to.                                         *)
(***************************************************************************)
EXTENDS Integers, Sequences

CONSTANTS
  Subgoals,     \* the variants that the program calls
  Answers,      \* the answers a subgoal may have
  NoAnswer,     \* what HeadOf gives when the rest of the body fails
  Clauses,      \* the clauses that the programs are made of
  HeadOf(_, _),   \* the answer a clause makes of the answers it has taken
  Programs      \* the programs, each with its least model

(***************************************************************************)
(* How a body goal is called: for all its answers, inside once/1, or as    *)
(* the last condition of a rule Head, Cond => Body that commits.           *)
(***************************************************************************)
Modes == {"all", "once", "commit"}
Goals == [goal : Subgoals, mode : Modes]

Tables == [Subgoals -> SUBSET Answers]

\* The ways of taking one answer for each goal of the clause.
Joins(clause, tables) ==
  {v \in [1 .. Len(clause.body) -> Answers] :
     \A i \in 1 .. Len(clause.body) : v[i] \in tables[clause.body[i].goal]}

\* What one application of the clauses of s to the tables gives.
Consequences(rules, tables, s) ==
  {a \in Answers :
     \E k \in 1 .. Len(rules[s]) :
       \E v \in Joins(rules[s][k], tables) : a = HeadOf(rules[s][k], v)}

IsModel(rules, tables) ==
  \A s \in Subgoals : Consequences(rules, tables, s) \subseteq tables[s]

Below(tables) == {m \in Tables : \A s \in Subgoals : m[s] \subseteq tables[s]}

\* No proper part of the tables is a model.
IsLeastModel(rules, tables) ==
  /\ IsModel(rules, tables)
  /\ \A m \in Below(tables) : IsModel(rules, m) => m = tables

ClauseAssumption ==
  \A c \in Clauses :
    /\ c.body \in Seq(Goals)
    /\ c.neck \in BOOLEAN
    /\ c.neck => c.body = << >>
    /\ \A v \in [1 .. Len(c.body) -> Answers] :
         HeadOf(c, v) \in Answers \cup {NoAnswer}

ProgramAssumption ==
  \A p \in Programs :
    /\ p.rules \in [Subgoals -> Seq(Clauses)]
    /\ p.model \in Tables
    /\ IsLeastModel(p.rules, p.model)

ASSUME TabledProgramAssumption ==
  /\ NoAnswer \notin Answers
  /\ ClauseAssumption
  /\ ProgramAssumption
=============================================================================

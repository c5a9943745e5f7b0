----------------------------- MODULE DomainSets -----------------------------
(***************************************************************************)
(* What the domains of two finite-domain variables promise: each is a set  *)
(* of integers, every operation takes values out of it, an operation that  *)
(* takes out the last one fails, and backtracking brings back the sets     *)
(* that were there when the choice point was made.                         *)
(***************************************************************************)
EXTENDS Integers, SequencesExt

CONSTANTS
  Lo, Hi,      \* the least and the greatest value
  Names,       \* the variables of the program
  Operations,  \* operations with their arguments: [name, i, j, a, b, S]
  NoOp,        \* not an operation
  MaxChoices   \* bound: how many choice points there are at once

VARIABLES
  dom,         \* the values that each variable may still take
  same,        \* have the variables been unified
  saved,       \* the choice points, oldest first: [dom, same]
  op,          \* the operation that was executed last, until its events are handled
  failed       \* has it failed

absvars == <<dom, same, saved, op, failed>>

\* What a variable without a domain may be.
Universe == Lo - 1 .. Hi + 1

\* The values that operation o leaves to its variable.
Allowed(o) ==
  CASE o.name \in {"create", "create_bv", "region"} -> o.a .. o.b
    [] o.name = "exclude"                           -> Universe \ (o.a .. o.b)
    [] o.name = "bind"                              -> {o.a}
    [] o.name \in {"set_false", "inst_set_false"}   -> Universe \ {o.a}
    [] o.name \in {"two", "intersect2"}             -> {o.a, o.b}
    [] o.name = "in"                                -> o.S
    [] o.name = "notin"                             -> Universe \ o.S
    [] o.name = "suspend"                           -> Universe
    [] o.name = "intersect"                         -> dom[o.j]
    [] o.name = "subtract"                          -> Universe \ dom[o.j]
    [] o.name = "unify"                             -> dom[o.j]

\* It narrows its own variable, and whatever was or becomes the same variable.
Narrowed(o) ==
  [n \in Names |-> IF n = o.i \/ same \/ o.name = "unify" THEN dom[o.i] \cap Allowed(o) ELSE dom[n]]

Init ==
  /\ dom = [n \in Names |-> Universe] /\ same = FALSE
  /\ saved = <<>> /\ op = NoOp /\ failed = FALSE

Execute(o) ==
  /\ op = NoOp
  /\ op' = o
  /\ failed' = (Narrowed(o)[o.i] = {})
  /\ dom' = IF failed' THEN [n \in Names |-> {}] ELSE Narrowed(o)
  /\ same' = (same \/ (o.name = "unify" /\ ~failed'))
  /\ UNCHANGED saved

Handle ==
  /\ op /= NoOp /\ ~failed
  /\ op' = NoOp
  /\ UNCHANGED <<dom, same, saved, failed>>

Choice ==
  /\ op = NoOp /\ Len(saved) < MaxChoices
  /\ saved' = Append(saved, [dom |-> dom, same |-> same])
  /\ UNCHANGED <<dom, same, op, failed>>

Cut ==
  /\ op = NoOp /\ saved /= <<>>
  /\ saved' = Front(saved)
  /\ UNCHANGED <<dom, same, op, failed>>

Fail ==
  /\ saved /= <<>>
  /\ dom' = Last(saved).dom /\ same' = Last(saved).same
  /\ op' = NoOp /\ failed' = FALSE
  /\ saved' = Front(saved)

Next == (\E o \in Operations : Execute(o)) \/ Handle \/ Choice \/ Cut \/ Fail

Spec == Init /\ [][Next]_absvars
=============================================================================

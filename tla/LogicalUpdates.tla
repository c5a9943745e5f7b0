--------------------------- MODULE LogicalUpdates ---------------------------
(***************************************************************************)
(* What a dynamic predicate promises: the logical update view.  A call of  *)
(* clause/2 or retract/1 answers with the clauses that were there when it  *)
(* was called, in their order, whatever is asserted or retracted while it  *)
(* is open.  The calls with answers left make a stack, since they are      *)
(* choice points.                                                          *)
(***************************************************************************)
EXTENDS Naturals, SequencesExt

CONSTANTS
  Keys,        \* first arguments that a clause or a call can be indexed by
  Var,         \* the key of a first argument that is not bound
  MaxAsserts,  \* how many clauses are ever asserted
  MaxOpen      \* how many calls are open at once

VARIABLES
  clauses,     \* the clauses, in their order: [id, key]
  open,        \* the calls with answers left, oldest first: [kind, key, rest]
  asserted     \* how many clauses were asserted so far

absvars == <<clauses, open, asserted>>

Kinds == {"clause", "retract"}
CallKeys == Keys \cup {Var}
Matches(key, c) == key = Var \/ c.key \in {key, Var}
New(key) == [id |-> asserted + 1, key |-> key]
Without(c) == SelectSeq(clauses, LAMBDA e : e /= c)

Init == clauses = <<>> /\ open = <<>> /\ asserted = 0

AddClause(key, front) ==
  /\ asserted < MaxAsserts
  /\ asserted' = asserted + 1
  /\ clauses' = IF front THEN <<New(key)>> \o clauses ELSE Append(clauses, New(key))
  /\ UNCHANGED open

\* A call answers with the first clause of the view and stays open while there are others.
Answer(below, kind, key, view) ==
  /\ view /= <<>>
  /\ clauses' = IF kind = "retract" THEN Without(Head(view)) ELSE clauses
  /\ open' = IF Len(view) = 1 THEN below
             ELSE Append(below, [kind |-> kind, key |-> key, rest |-> Tail(view)])
  /\ UNCHANGED asserted

Call(kind, key) ==
  /\ Len(open) < MaxOpen
  /\ Answer(open, kind, key, SelectSeq(clauses, LAMBDA c : Matches(key, c)))

Retry ==
  /\ open /= <<>>
  /\ Answer(Front(open), Last(open).kind, Last(open).key, Last(open).rest)

\* A cut, or an exception that is caught below the calls.
Cut(n) ==
  /\ n < Len(open)
  /\ open' = SubSeq(open, 1, n)
  /\ UNCHANGED <<clauses, asserted>>

Abolish ==
  /\ clauses' = <<>>
  /\ UNCHANGED <<open, asserted>>

Next ==
  \/ \E key \in CallKeys, front \in BOOLEAN : AddClause(key, front)
  \/ \E kind \in Kinds, key \in CallKeys : Call(kind, key)
  \/ Retry
  \/ \E n \in 0 .. MaxOpen : Cut(n)
  \/ Abolish

Spec == Init /\ [][Next]_absvars
=============================================================================

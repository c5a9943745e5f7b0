------------------------------ MODULE TickQueue ------------------------------
(***************************************************************************)
(* What the event pool promises: time-outs wait in the order in which they *)
(* were added, no more than Size of them; all that wait are taken at once, *)
(* and those whose timer is still registered are handed over, in order and *)
(* once each.                                                              *)
(***************************************************************************)
EXTENDS Sequences, Naturals, Subsequences

CONSTANTS
  Timers,     \* the timers
  Size        \* capacity of the pool

VARIABLES
  waiting,    \* the time-outs that wait
  handed,     \* those handed over and not handled yet
  known       \* the timers that are registered

Init == waiting = <<>> /\ handed = <<>> /\ known = {}

\* A timer adds a time-out.
Add(t) ==
  /\ Len(waiting) < Size
  /\ waiting' = Append(waiting, t)
  /\ UNCHANGED <<handed, known>>

\* All time-outs are taken.
Take ==
  /\ waiting' = <<>>
  /\ handed' = handed \o Kept(waiting, known)
  /\ UNCHANGED known

\* What was handed over is handled; the machine registers a timer, or undoes that.
Handle == handed' = <<>> /\ UNCHANGED <<waiting, known>>
Register == known' \subseteq Timers /\ UNCHANGED <<waiting, handed>>

Next == (\E t \in Timers : Add(t)) \/ Take \/ Handle \/ Register

Spec == Init /\ [][Next]_<<waiting, handed, known>>
=============================================================================

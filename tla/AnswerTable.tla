----------------------------- MODULE AnswerTable -----------------------------
(***************************************************************************)
(* The answers of one tabled subgoal (emu/table.c: addFirstTableAnswer to  *)
(* insertTabledAnswerMax; emu/emu_inst.h: table_produce, table_consume).   *)
(*                                                                         *)
(* A pioneer runs the clauses of the subgoal in rounds and adds what they  *)
(* give; followers, called by those clauses, walk the list of answers      *)
(* while it changes under them.  The table keeps all answers, or as many   *)
(* as the cardinality limit allows, or the best ones of the argument that  *)
(* is declared min or max, the best first.                                 *)
(*                                                                         *)
(* An answer record is a number: the records are used in the order they    *)
(* are allocated, and the one of a rejected answer is given back at once.  *)
(***************************************************************************)
EXTENDS Integers, Sequences, FiniteSets, SequencesExt, Subsequences

CONSTANTS
  Answers,       \* the answers that the clauses can give
  Value(_),      \* the argument to be optimized
  Hash(_),       \* hashval_of_tabled_answer
  InitSize,      \* InitAnswerTableBucketSize
  Declarations,  \* the table modes: what to optimize, and the limit
  MaxCalls       \* bound: the followers in a behaviour

NoLimit == 0

ASSUME AnswerTableAssumption ==
  /\ \A a \in Answers : Value(a) \in Int /\ Hash(a) \in Nat
  /\ InitSize \in Nat \ {0}
  /\ MaxCalls \in Nat
  /\ Declarations \subseteq [opt : {"none", "min", "max"}, card : Nat]
  /\ \A d \in Declarations : d.opt /= "none" => d.card /= NoLimit

VARIABLES
  decl,       \* the table mode of the predicate
  table,      \* GT_ANSWER_TABLE and the answer records
  revised,    \* SUBGOAL_ANS_REVISED of GT_STATE
  looping,    \* SUBGOAL_LOOPING of GT_STATE
  phase,      \* round (the clauses run), return (the pioneer consumes), done
  pioneer,    \* the pioneer's frame
  followers,  \* the followers' frames, the oldest first
  produced,   \* the answers that the clauses have given so far
  calls       \* the number of followers so far

vars == <<decl, table, revised, looping, phase, pioneer, followers, produced,
          calls>>

-----------------------------------------------------------------------------
(* The words of the table.  A table of one answer is only its record; size *)
(* is 0 until there is a hash table.                                       *)

NULL == 0

Empty == [args |-> << >>, next |-> << >>, first |-> NULL, last |-> NULL,
          count |-> 0, size |-> 0, chains |-> << >>]

Nodes(t) == 1 .. Len(t.args)

\* The nodes from n on, as they are linked; one more than there are nodes
\* when the links make a cycle.
ListFrom(t, n) ==
  LET at[i \in 1 .. Len(t.args) + 1] ==
        IF i = 1 THEN n ELSE IF at[i - 1] = NULL THEN NULL ELSE t.next[at[i - 1]]
  IN Kept(at, Nodes(t))

Listing(t) == ListFrom(t, t.first)

AnswersOf(t) == {t.args[n] : n \in Nodes(t)}

IsBetter(a, b) ==
  IF decl.opt = "min" THEN Value(a) < Value(b) ELSE Value(a) > Value(b)

Bucket(a, size) == Hash(a) % size

Chained(t, n) ==
  [t EXCEPT !.chains[Bucket(t.args[n], t.size)] = @ \cup {n}]

\* Found by the hash chain, like the code does.
HasVariant(t, a) ==
  \E n \in t.chains[Bucket(a, t.size)] : t.args[n] = a

\* The next odd number without a small divisor.
bp_hsize(n) ==
  LET low == IF n % 2 = 0 THEN n + 1 ELSE n + 2
      half == low \div 2 + 1
      odds == {2 * k + 1 : k \in 1 .. (IF half > 29 THEN 29 ELSE half) \div 2}
      good == {t \in low .. 2 * low + 1 :
                 t % 2 = 1 /\ \A i \in odds : i <= half => t % i /= 0}
  IN CHOOSE t \in good : \A u \in good : t <= u

-----------------------------------------------------------------------------
(* The functions of table.c.                                               *)

addFirstTableAnswer(a) ==
  [Empty EXCEPT !.args = <<a>>, !.next = <<NULL>>, !.first = 1, !.last = 1,
                !.count = 1]

allocateAnswerTable(t) ==
  Chained([t EXCEPT !.size = InitSize,
                    !.chains = [b \in 0 .. InitSize - 1 |-> {}]], 1)

expandAnswerTable(t) ==
  LET size == bp_hsize(3 * t.size)
  IN [t EXCEPT !.size = size,
               !.chains = [b \in 0 .. size - 1 |->
                             {n \in UNION {t.chains[c] : c \in 0 .. t.size - 1} :
                                Bucket(t.args[n], size) = b}]]

\* The hash table stays as it is when there is no memory for a larger one.
Expanded(t, crowded, memory) ==
  IF crowded /\ memory THEN expandAnswerTable(t) ELSE t

\* A new record, not yet on the list.
NewRecord(t, a) ==
  [t EXCEPT !.args = Append(@, a), !.next = Append(@, NULL),
            !.count = @ + 1]

addTableAnswer(t, a, memory) ==
  LET n == Len(t.args) + 1
      r == [Chained(NewRecord(t, a), n) EXCEPT !.next[t.last] = n, !.last = n]
  IN IF HasVariant(t, a) THEN t
     ELSE Expanded(r, 2 * r.count > r.size, memory)

\* Where n goes, which is not the front: before the first node after the
\* front that it is better than, at the latest before stop.
Place(t, n, stop) ==
  LET list == Listing(t)
  IN CHOOSE i \in 2 .. Len(list) + 1 :
       /\ \/ i = Len(list) + 1 /\ stop = NULL
          \/ i <= Len(list) /\ \/ list[i] = stop
                               \/ IsBetter(t.args[n], t.args[list[i]])
       /\ \A j \in 2 .. i - 1 :
            list[j] /= stop /\ ~IsBetter(t.args[n], t.args[list[j]])

InsertAtEnd(t, n) ==
  IF IsBetter(t.args[n], t.args[t.first])
    THEN [t EXCEPT !.first = n, !.next[n] = t.first]
    ELSE [t EXCEPT !.next[t.last] = n, !.last = n]
insertTabledAnswer(t, n) ==
  IF IsBetter(t.args[n], t.args[t.first])
    THEN [t EXCEPT !.first = n, !.next[n] = t.first]
    ELSE LET list == Listing(t)
             i == Place(t, n, NULL)
         IN IF i = Len(list) + 1
              THEN [t EXCEPT !.next[list[i - 1]] = n, !.next[n] = NULL,
                             !.last = n]
              ELSE [t EXCEPT !.next[list[i - 1]] = n, !.next[n] = list[i]]

\* The node before the one that was moved is the last one.
LeaveNextOfLast(t, list) == [t EXCEPT !.last = list[Len(list) - 1]]
resetLastTabledAnswer(t, list) ==
  [t EXCEPT !.next[list[Len(list) - 1]] = NULL, !.last = list[Len(list) - 1]]

repositionLastTabledAnswer(t) ==
  LET list == Listing(t)
      n == t.last
      i == Place(t, n, n)
  IN IF IsBetter(t.args[n], t.args[t.first])
       THEN resetLastTabledAnswer(
              [t EXCEPT !.first = n, !.next[n] = t.first], list)
     ELSE IF list[i] /= n
       THEN resetLastTabledAnswer(
              [t EXCEPT !.next[list[i - 1]] = n, !.next[n] = list[i]], list)
     ELSE t

removeAnswerFromAnswerTable(t, n) ==
  [t EXCEPT !.chains[Bucket(t.args[n], t.size)] = @ \ {n}]

copyTabledAnswerArgs(t, n, a) == [t EXCEPT !.args[n] = a]

\* The record of the worst answer is used for the better one.
CopyThenRemove(t, a) ==
  repositionLastTabledAnswer(
    Chained(removeAnswerFromAnswerTable(
      copyTabledAnswerArgs(t, t.last, a), t.last), t.last))
ReplaceLast(t, a) ==
  repositionLastTabledAnswer(
    Chained(copyTabledAnswerArgs(
      removeAnswerFromAnswerTable(t, t.last), t.last, a), t.last))

OnlyBetterThanFirst(t, a, memory) ==
  LET n == Len(t.args) + 1
      r == insertTabledAnswer(Chained(NewRecord(t, a), n), n)
  IN IF HasVariant(t, a) THEN t
     ELSE IF t.count = decl.card
       THEN IF IsBetter(a, t.args[t.first]) THEN ReplaceLast(t, a) ELSE t
     ELSE Expanded(r, r.count > r.size, memory)
addTableOptimalAnswer(t, a, memory) ==
  LET n == Len(t.args) + 1
      r == insertTabledAnswer(Chained(NewRecord(t, a), n), n)
  IN IF HasVariant(t, a) THEN t
     ELSE IF t.count = decl.card
       THEN IF IsBetter(a, t.args[t.last]) THEN ReplaceLast(t, a) ELSE t
     ELSE Expanded(r, r.count > r.size, memory)

-----------------------------------------------------------------------------
(* The instructions.                                                       *)

Frame(curr) == [curr |-> curr, got |-> << >>]

Init ==
  /\ decl \in Declarations
  /\ table = Empty
  /\ revised = FALSE
  /\ looping = FALSE
  /\ phase = "round"
  /\ pioneer = Frame(NULL)
  /\ followers = << >>
  /\ produced = {}
  /\ calls = 0

\* What the pioneer's answer does to the table.
ExtendedPastLimit(t, a, memory) ==
  IF t.count = 0 THEN addFirstTableAnswer(a)
  ELSE IF t.size = 0 /\ decl.card = 1
    THEN IF decl.opt /= "none" /\ IsBetter(a, t.args[1])
         THEN copyTabledAnswerArgs(t, 1, a) ELSE t
  ELSE LET u == IF t.size = 0 THEN allocateAnswerTable(t) ELSE t
       IN IF decl.opt /= "none" THEN addTableOptimalAnswer(u, a, memory)
          ELSE addTableAnswer(u, a, memory)
Extended(t, a, memory) ==
  IF t.count = 0 THEN addFirstTableAnswer(a)
  ELSE IF t.size = 0 /\ decl.card = 1
    THEN IF decl.opt /= "none" /\ IsBetter(a, t.args[1])
         THEN copyTabledAnswerArgs(t, 1, a) ELSE t
  ELSE LET u == IF t.size = 0 THEN allocateAnswerTable(t) ELSE t
       IN IF decl.opt /= "none" THEN addTableOptimalAnswer(u, a, memory)
          ELSE IF t.size /= 0 /\ t.count = decl.card THEN t
          ELSE addTableAnswer(u, a, memory)

\* The pioneer's frame is to consume from the front, which the new answer
\* may have become.
CursorOfFirst(t, u) == IF t.count = 0 THEN u.first ELSE pioneer.curr
CursorAfter(t, u) ==
  IF t.count = 0 \/ (decl.opt /= "none" /\ u.size > 0) THEN u.first
  ELSE pioneer.curr

RevisedWhenLonger(t, u) == revised \/ u.count > t.count
RevisedBy(t, u) == revised \/ u.count > t.count \/ u.args /= t.args

table_produce(a, memory) ==
  /\ phase = "round"
  /\ table' = Extended(table, a, memory)
  /\ revised' = RevisedBy(table, table')
  /\ pioneer' = [pioneer EXCEPT !.curr = CursorAfter(table, table')]
  /\ produced' = produced \cup {a}
  /\ UNCHANGED <<decl, looping, phase, followers, calls>>

\* A variant is called while the subgoal is under evaluation.
table_allocate ==
  /\ phase = "round"
  /\ calls < MaxCalls
  /\ calls' = calls + 1
  /\ looping' = TRUE
  /\ followers' = Append(followers, Frame(table.first))
  /\ UNCHANGED <<decl, table, revised, phase, pioneer, produced>>

Advance(frame) ==
  [curr |-> table.next[frame.curr],
   got |-> Append(frame.got, table.args[frame.curr])]

TopFollower == followers[Len(followers)]

\* A follower returns its next answer, or fails when there is none.
table_consume ==
  /\ followers /= << >>
  /\ followers' =
       IF TopFollower.curr = NULL THEN Front(followers)
       ELSE [followers EXCEPT ![Len(followers)] = Advance(@)]
  /\ UNCHANGED <<decl, table, revised, looping, phase, pioneer, produced, calls>>

\* The clauses are exhausted: another round when an answer may be missing.
RoundWithoutReset ==
  IF looping /\ revised THEN UNCHANGED <<phase, revised>>
  ELSE phase' = "return" /\ UNCHANGED revised
NextRound ==
  IF looping /\ revised THEN revised' = FALSE /\ UNCHANGED phase
  ELSE phase' = "return" /\ UNCHANGED revised

table_check_completion ==
  /\ phase = "round"
  /\ followers = << >>
  /\ NextRound
  /\ UNCHANGED <<decl, table, looping, pioneer, followers, produced, calls>>

\* The pioneer's frame returns the answers of the complete table.
PioneerConsumes ==
  /\ phase = "return"
  /\ IF pioneer.curr = NULL
     THEN phase' = "done" /\ UNCHANGED pioneer
     ELSE pioneer' = Advance(pioneer) /\ UNCHANGED phase
  /\ UNCHANGED <<decl, table, revised, looping, followers, produced, calls>>

Next ==
  \/ \E a \in Answers, memory \in BOOLEAN : table_produce(a, memory)
  \/ table_allocate
  \/ table_consume
  \/ table_check_completion
  \/ PioneerConsumes

Spec == Init /\ [][Next]_vars

\* The emulator runs on, and the clauses of a round come to their end.
FairSpec == Spec /\ WF_vars(table_consume)
                 /\ WF_vars(table_check_completion) /\ WF_vars(PioneerConsumes)

-----------------------------------------------------------------------------
(* What the table promises.                                                *)

\* Links and cursors are records of the table, which never has more answers
\* than the cardinality limit.
TypeOK ==
  /\ decl \in Declarations
  /\ table.args \in Seq(Answers)
  /\ table.next \in Seq(Nodes(table) \cup {NULL})
  /\ table.first \in Nodes(table) \cup {NULL}
  /\ table.last \in Nodes(table) \cup {NULL}
  /\ table.count \in Nat /\ table.size \in Nat
  /\ decl.card /= NoLimit => table.count <= decl.card
  /\ \A b \in DOMAIN table.chains : table.chains[b] \subseteq Nodes(table)
  /\ revised \in BOOLEAN /\ looping \in BOOLEAN
  /\ phase \in {"round", "return", "done"}
  /\ pioneer \in [curr : Nodes(table) \cup {NULL}, got : Seq(Answers)]
  /\ followers \in Seq([curr : Nodes(table) \cup {NULL}, got : Seq(Answers)])
  /\ produced \subseteq Answers
  /\ calls \in 0 .. MaxCalls

\* The list goes through every record once and ends at LAST; COUNT counts it.
ListIsWhole ==
  /\ Len(table.args) = table.count
  /\ Len(Listing(table)) = table.count
  /\ IsInjective(Listing(table))
  /\ table.count > 0 => Last(Listing(table)) = table.last

\* The hash table finds every answer of the list: each record is in the chain
\* of its hash value and in no other.
ChainsFindAll ==
  table.size > 0 =>
    \A n \in Nodes(table) : \A b \in 0 .. table.size - 1 :
      n \in table.chains[b] <=> b = Bucket(table.args[n], table.size)

\* No answer is kept twice, and the list is sorted from the best to the worst.
SortedSet ==
  LET list == Listing(table)
  IN \A i, j \in DOMAIN list :
       i < j => /\ table.args[list[i]] /= table.args[list[j]]
                /\ decl.opt /= "none" =>
                     ~IsBetter(table.args[list[j]], table.args[list[i]])

\* Inserting, replacing, moving and dropping leave a table in order, under any limit.
WellFormed == TypeOK /\ ListIsWhole /\ ChainsFindAll /\ SortedSet

\* The postconditions of addTableOptimalAnswer, over all that was ever added:
\* an answer is missing only when the limit is reached and no answer that is
\* kept is worse.
BestAreKept ==
  /\ AnswersOf(table) \subseteq produced
  /\ \A a \in produced \ AnswersOf(table) :
       /\ table.count = decl.card
       /\ decl.opt /= "none" =>
            \A b \in AnswersOf(table) : ~IsBetter(a, b)

\* Whatever is inserted and moved while a follower walks the list, an answer
\* that it does not get sets the bit for another round.
MissedMeansRevised ==
  \A f \in 1 .. Len(followers) :
    LET ahead == ToSet(ListFrom(table, followers[f].curr))
    IN revised \/ \A n \in Nodes(table) :
                    n \in ahead \/ table.args[n] \in ToSet(followers[f].got)

\* The pioneer returns the complete table, each answer once, the best first.
PioneerReturnsAll ==
  phase = "done" =>
    pioneer.got = [i \in 1 .. table.count |-> table.args[Listing(table)[i]]]

\* However the list moves under them, the followers end and so do the rounds.
Completes == <>(phase = "done")
=============================================================================

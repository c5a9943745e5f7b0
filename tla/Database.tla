------------------------------ MODULE Database ------------------------------
(***************************************************************************)
(* One dynamic predicate (assert.c): clause records with birth and death   *)
(* stamps, linked by doubly linked list cells into the buckets of a hash   *)
(* table over the first argument and into one chain of all clauses, with   *)
(* free lists for cells and records; and the calls of clause/2 and         *)
(* retract/1 that walk these chains while they change.                     *)
(***************************************************************************)
EXTENDS Integers, FiniteSets, SequencesExt

CONSTANTS
  Keys,             \* hash keys of bound first arguments
  Var,              \* the key of an unbound one, hash value 0
  Hash(_),          \* hash values of Keys, not 0
  InitSize,         \* dyn_hashtable_size
  Programs,         \* bound: sequences of [key, front], the clauses that are asserted in turn
  MaxAsserts,       \* bound: the length of the longest of them
  MaxOpen,          \* bound: how many calls are open at once
  GrowUnderKeyed,   \* may the hash table grow while a call walks a bucket
  AbolishUnderRetract  \* may the predicate be abolished while a retract/1 is open

ASSUME DatabaseAssumption ==
  /\ Var \notin Keys
  /\ \A k \in Keys : Hash(k) \in Nat \ {0}
  /\ \A p \in Programs : /\ p \in Seq([key : Keys \cup {Var}, front : BOOLEAN])
                          /\ Len(p) <= MaxAsserts
  /\ InitSize \in Nat \ {0} /\ MaxAsserts \in Nat /\ MaxOpen \in Nat
  /\ GrowUnderKeyed \in BOOLEAN /\ AbolishUnderRetract \in BOOLEAN

VARIABLES
  pred,      \* InterpretedPred and what it points to: hash table, cells, records, free lists
  etype,     \* GET_ETYPE of the symbol
  calls,     \* the choice points of clause/2 and retract/1, oldest first
  inputs,    \* the clauses that the program asserts
  asserted   \* how many of them it has asserted so far

vars == <<pred, etype, calls, inputs, asserted>>

NULL == 0
BP_MAXINT == MaxAsserts + MaxAsserts + 1   \* above every time stamp
CallKeys == Keys \cup {Var}
Kinds == {"clause", "retract"}

NewPred(size) ==
  [ref_count |-> 0, retr_count |-> 0, cl_count |-> 0, time_stamp |-> 0, size |-> size,
   list |-> [b \in 0 .. size |-> NULL], tail |-> [b \in 0 .. size |-> NULL],
   cells |-> <<>>, recs |-> <<>>, freeCells |-> <<>>, freeRecs |-> <<>>, wild |-> FALSE]

-----------------------------------------------------------------------------
(* Chains.                                                                 *)

\* The cells from c on; a cycle is cut off.
Path(p, c) ==
  LET at[i \in 1 .. Len(p.cells) + 1] ==
        IF i = 1 THEN c ELSE IF at[i - 1] = NULL THEN NULL ELSE p.cells[at[i - 1]].next
  IN SelectSeq(at, LAMBDA e : e /= NULL)

Rec(p, c) == p.recs[p.cells[c].rec]
LastChain(p) == Path(p, p.list[p.size])
IsAlive(r) == r.death = BP_MAXINT

hashval_in_assert(key) == IF key = Var THEN 0 ELSE Hash(key)

\* The buckets that a clause with this key is in, besides the last chain.
BucketsOf(p, key) ==
  IF hashval_in_assert(key) = 0 THEN 0 .. p.size - 1
  ELSE {hashval_in_assert(key) % p.size}

Ascending(buckets) == SetToSortSeq(buckets, <)

\* The chain that a call walks.
ChainOf(p, key) ==
  IF hashval_in_assert(key) = 0 THEN p.size ELSE hashval_in_assert(key) % p.size

-----------------------------------------------------------------------------
(* Free lists, last in first out.                                          *)

NewCell(p) == IF p.freeCells = <<>> THEN Len(p.cells) + 1 ELSE Last(p.freeCells)
NewRec(p) == IF p.freeRecs = <<>> THEN Len(p.recs) + 1 ELSE Last(p.freeRecs)

WriteCell(p, c, cell) ==
  IF p.freeCells = <<>> THEN [p EXCEPT !.cells = Append(@, cell)]
  ELSE [p EXCEPT !.cells[c] = cell, !.freeCells = Front(@)]

ReleaseCell(p, c) == [p EXCEPT !.freeCells = Append(@, c)]
ReleaseRec(p, r) == [p EXCEPT !.freeRecs = Append(@, r)]

create_clause_record(p, id, key) ==
  LET rec == [id |-> id, key |-> key, birth |-> p.time_stamp, death |-> BP_MAXINT,
              cl_ref |-> NULL]
  IN IF p.freeRecs = <<>> THEN [p EXCEPT !.recs = Append(@, rec)]
     ELSE [p EXCEPT !.recs[NewRec(p)] = rec, !.freeRecs = Front(@)]

-----------------------------------------------------------------------------
(* Adding a clause.                                                        *)

assertz_clause_record(p, b, r) ==
  LET c == NewCell(p)
      q == WriteCell(p, c, [rec |-> r, next |-> NULL, prev |-> p.tail[b]])
  IN IF p.list[b] = NULL
     THEN [q EXCEPT !.cells[c].prev = NULL, !.list[b] = c, !.tail[b] = c]
     ELSE [q EXCEPT !.cells[p.tail[b]].next = c, !.tail[b] = c]

asserta_clause_record(p, b, r) ==
  LET c == NewCell(p)
      q == WriteCell(p, c, [rec |-> r, next |-> p.list[b], prev |-> NULL])
  IN IF p.list[b] = NULL
     THEN [q EXCEPT !.list[b] = c, !.tail[b] = c]
     ELSE [q EXCEPT !.cells[p.list[b]].prev = c, !.list[b] = c]

Link(p, b, r, front) ==
  IF front THEN asserta_clause_record(p, b, r) ELSE assertz_clause_record(p, b, r)

LinkInBuckets(p, r, front) ==
  FoldLeft(LAMBDA q, b : Link(q, b, r, front), p, Ascending(BucketsOf(p, p.recs[r].key)))

\* asserta_interpreted_pred and assertz_interpreted_pred.
Added(p, id, key, front) ==
  LET r == NewRec(p)
      q == LinkInBuckets(create_clause_record([p EXCEPT !.cl_count = @ + 1], id, key), r, front)
  IN [Link(q, q.size, r, front) EXCEPT !.recs[r].cl_ref = NewCell(q)]

-----------------------------------------------------------------------------
(* The hash table grows: all cells but those of the last chain are freed,  *)
(* and the clauses of the last chain, dead ones too, are added again.      *)

\* The next odd number without a small divisor.
bp_hsize(n) ==
  LET low == IF n % 2 = 0 THEN n + 1 ELSE n + 2
      good == {t \in low .. 2 * low : t % 2 = 1 /\ \A i \in 3 .. 29 : i < t => t % i /= 0}
  IN CHOOSE t \in good : \A u \in good : t <= u

Released(p) ==
  FoldLeft(LAMBDA q, b : FoldLeft(ReleaseCell, q, Path(q, q.list[b])),
           p, Ascending(0 .. p.size - 1))

rehash_interpreted_pred(p) ==
  LET size == bp_hsize(2 * p.size)
      moved(f) == [b \in 0 .. size |-> IF b = size THEN f[p.size] ELSE NULL]
      empty == [Released(p) EXCEPT !.size = size, !.list = moved(p.list), !.tail = moved(p.tail)]
      readded == [i \in 1 .. Len(LastChain(p)) |-> p.cells[LastChain(p)[i]].rec]
  IN FoldLeft(LAMBDA q, r : LinkInBuckets(q, r, FALSE), empty, readded)

MustGrow(p) == p.cl_count > p.size

-----------------------------------------------------------------------------
(* Removing a clause.                                                      *)

\* Mutant: the tail of the chain is forgotten.
DisconnectKeepsTail(p, b, c) ==
  LET next == p.cells[c].next
      prev == p.cells[c].prev
  IN IF p.list[b] = c THEN [p EXCEPT !.list[b] = next]
     ELSE IF prev = NULL THEN p
     ELSE [p EXCEPT !.cells[prev].next = next]

disconnect_cell_of_removed_clause(p, b, c) ==
  LET next == p.cells[c].next
      prev == p.cells[c].prev
  IN CASE p.list[b] = c ->
            IF next = NULL THEN [p EXCEPT !.list[b] = NULL, !.tail[b] = NULL]
            ELSE [p EXCEPT !.list[b] = next, !.cells[next].prev = NULL]
       [] p.list[b] /= c /\ p.tail[b] = c ->
            IF prev = NULL THEN [p EXCEPT !.tail[b] = NULL, !.list[b] = NULL]
            ELSE [p EXCEPT !.cells[c].prev = NULL, !.tail[b] = prev, !.cells[prev].next = NULL]
       [] p.list[b] /= c /\ p.tail[b] /= c ->
            IF prev = NULL THEN p
            ELSE IF next = NULL   \* the word after next is written in the symbol nil
                 THEN [p EXCEPT !.cells[prev].next = NULL, !.cells[c].prev = NULL, !.wild = TRUE]
                 ELSE [p EXCEPT !.cells[prev].next = next, !.cells[next].prev = prev,
                                !.cells[c].prev = NULL]

\* Mutant: the calls of clause/2 are forgotten.
IsOnlyRetract(p) == p.retr_count <= 1

\* Nobody walks the chains but the retract/1 that removes the clause.
IsOnlyUser(p) == p.ref_count = 0 /\ p.retr_count <= 1

free_cell_of_removed_in_bucket(p, b, r) ==
  LET found == SelectSeq(Path(p, p.list[b]), LAMBDA c : p.cells[c].rec = r)
  IN IF found = <<>> THEN p
     ELSE ReleaseCell(disconnect_cell_of_removed_clause(p, b, found[1]), found[1])

locate_and_free_clause_record(p, r) ==
  LET c == p.recs[r].cl_ref
      q == FoldLeft(LAMBDA s, b : free_cell_of_removed_in_bucket(s, b, r),
                    disconnect_cell_of_removed_clause(p, p.size, c),
                    Ascending(BucketsOf(p, p.recs[r].key)))
  IN ReleaseCell(ReleaseRec(q, r), c)

\* Mutant: a clause that is already removed is removed again.
RemoveAgain(p, r) ==
  LET q == [p EXCEPT !.cl_count = @ - 1]
  IN IF IsOnlyUser(p) THEN locate_and_free_clause_record(q, r)
     ELSE [q EXCEPT !.time_stamp = @ + 1, !.recs[r].death = p.time_stamp + 1]

b_REMOVE_CLAUSE(p, r) ==
  LET q == [p EXCEPT !.cl_count = @ - 1]
  IN IF ~IsAlive(p.recs[r]) THEN p
     ELSE IF IsOnlyUser(p) THEN locate_and_free_clause_record(q, r)
     ELSE [q EXCEPT !.time_stamp = @ + 1, !.recs[r].death = p.time_stamp + 1]

\* Without calls the space of the clauses is freed.
abolish_pred(p) ==
  LET emptied == [p EXCEPT !.cl_count = 0, !.list = [b \in 0 .. p.size |-> NULL],
                           !.tail = [b \in 0 .. p.size |-> NULL]]
      chain == LastChain(p)
      freed == Released(FoldLeft(LAMBDA q, c : ReleaseCell(ReleaseRec(q, q.cells[c].rec), c),
                                 p, chain))
  IN IF p.ref_count = 0 /\ p.retr_count = 0
     THEN [emptied EXCEPT !.freeCells = freed.freeCells, !.freeRecs = freed.freeRecs]
     ELSE emptied

-----------------------------------------------------------------------------
(* Calls.  A call has copied the clause that it answers with and has       *)
(* already found the next one; that cell is what it goes on from.          *)

\* Mutant: a clause that was added after the call is in its view.
InViewLate(r, key, time) == time < r.death /\ (key = Var \/ r.key \in {key, Var})

InView(r, key, time) ==
  /\ r.birth <= time /\ time < r.death
  /\ key = Var \/ r.key \in {key, Var}

\* The first cell from c on in the logical view of a call, or NULL.
filter_clauses(p, c, key, time) ==
  LET seen == SelectSeq(Path(p, c), LAMBDA e : InView(Rec(p, e), key, time))
  IN IF seen = <<>> THEN NULL ELSE seen[1]

Count(kind) == IF kind = "clause" THEN "ref_count" ELSE "retr_count"
Entered(p, kind) == [p EXCEPT ![Count(kind)] = @ + 1]

\* Mutant: every call is counted out as a call of clause/2.
ExitedAsClause(p, kind) == [p EXCEPT !.ref_count = @ - 1]
Exited(p, kind) == [p EXCEPT ![Count(kind)] = @ - 1]

\* What the call would still answer with, as the chains are now.
Rest(p, call) ==
  LET path == Path(p, call.next)
      after == SelectSeq(Tail(path), LAMBDA c : InView(Rec(p, c), call.key, call.time))
  IN IF path = <<>> THEN <<>> ELSE <<call.next>> \o after

ClauseAt(p, c) == [id |-> Rec(p, c).id, key |-> Rec(p, c).key]
ClausesAt(p, cells) == [i \in DOMAIN cells |-> ClauseAt(p, cells[i])]

Keyed(call) == call.key /= Var
OpenCalls(kind) == {i \in DOMAIN calls : calls[i].kind = kind}

-----------------------------------------------------------------------------
(* Actions.                                                                *)

Init ==
  /\ pred = NewPred(InitSize)
  /\ etype = "DYNA"
  /\ calls = <<>>
  /\ inputs \in Programs
  /\ asserted = 0

\* b_ASSERTA_cc and b_ASSERTZ_cc.  Without memory for a larger hash table it stays.
AddClause ==
  /\ asserted < Len(inputs)
  /\ asserted' = asserted + 1
  /\ \E memory \in BOOLEAN :
       LET grown == MustGrow(pred) /\ memory
           p == IF grown THEN rehash_interpreted_pred(pred) ELSE pred
           stamped == IF p.ref_count /= 0 \/ p.retr_count /= 0
                      THEN [p EXCEPT !.time_stamp = @ + 1] ELSE p
       IN /\ memory \/ MustGrow(pred)
          /\ grown /\ ~GrowUnderKeyed => \A i \in DOMAIN calls : ~Keyed(calls[i])
          /\ pred' = Added(stamped, asserted + 1, inputs[asserted + 1].key, inputs[asserted + 1].front)
  /\ etype' = "DYNA"
  /\ UNCHANGED <<calls, inputs>>

\* The clause in cell c is the answer; with no other answer the call exits.
AnswerWith(p, below, call, c) ==
  LET next == filter_clauses(p, p.cells[c].next, call.key, call.time)
      q == IF call.kind = "retract" THEN b_REMOVE_CLAUSE(p, p.cells[c].rec) ELSE p
  IN /\ pred' = IF next = NULL THEN Exited(q, call.kind) ELSE q
     /\ calls' = IF next = NULL THEN below ELSE Append(below, [call EXCEPT !.next = next])

\* $clause_setup_cleanup and $retract_setup_cleanup.
Call(kind, key) ==
  LET call == [kind |-> kind, key |-> key, time |-> pred.time_stamp, next |-> NULL]
      first == filter_clauses(pred, pred.list[ChainOf(pred, key)], key, pred.time_stamp)
  IN /\ etype = "DYNA"
     /\ Len(calls) < MaxOpen
     /\ first /= NULL
     /\ AnswerWith(Entered(pred, kind), calls, call, first)
     /\ UNCHANGED <<etype, inputs, asserted>>

\* The program fails back to the youngest call.
Retry ==
  /\ calls /= <<>>
  /\ AnswerWith(pred, Front(calls), Last(calls), Last(calls).next)
  /\ UNCHANGED <<etype, inputs, asserted>>

\* Mutant: the choice points are dropped without their clean-up.
CutOnly(n) ==
  /\ n < Len(calls)
  /\ calls' = SubSeq(calls, 1, n)
  /\ UNCHANGED <<pred, etype, inputs, asserted>>

\* ROLL_CHOICE_POINTS, or an exception that each of the calls forwards.
Cut(n) ==
  /\ n < Len(calls)
  /\ pred' = FoldLeft(LAMBDA p, call : Exited(p, call.kind), pred,
                      SubSeq(calls, n + 1, Len(calls)))
  /\ calls' = SubSeq(calls, 1, n)
  /\ UNCHANGED <<etype, inputs, asserted>>

\* b_ABOLISH_cc
Abolish ==
  /\ etype = "DYNA"
  /\ ~AbolishUnderRetract => OpenCalls("retract") = {}
  /\ pred' = abolish_pred(pred)
  /\ etype' = "ORDI"
  /\ UNCHANGED <<calls, inputs, asserted>>

Next ==
  \/ AddClause
  \/ \E kind \in Kinds, key \in CallKeys : Call(kind, key)
  \/ Retry
  \/ \E n \in 0 .. MaxOpen : Cut(n)
  \/ Abolish

Spec == Init /\ [][Next]_vars

-----------------------------------------------------------------------------
(* Properties.                                                             *)

Cells == 1 .. Len(pred.cells)
Recs == 1 .. Len(pred.recs)

TypeOK ==
  /\ pred.ref_count \in 0 .. MaxOpen /\ pred.retr_count \in 0 .. MaxOpen
  /\ pred.time_stamp \in 0 .. BP_MAXINT - 1
  /\ pred.cl_count \in Int /\ pred.size \in Nat \ {0}
  /\ pred.list \in [0 .. pred.size -> Cells \cup {NULL}]
  /\ pred.tail \in [0 .. pred.size -> Cells \cup {NULL}]
  /\ \A c \in Cells : pred.cells[c] \in [rec : Recs, next : Cells \cup {NULL}, prev : Cells \cup {NULL}]
  /\ \A r \in Recs : pred.recs[r] \in [id : 1 .. asserted, key : CallKeys, birth : 0 .. BP_MAXINT - 1,
                                       death : 0 .. BP_MAXINT, cl_ref : Cells]
  /\ pred.freeCells \in Seq(Cells) /\ pred.freeRecs \in Seq(Recs)
  /\ etype \in {"ORDI", "DYNA"} /\ inputs \in Programs /\ asserted \in 0 .. Len(inputs)
  /\ calls \in Seq([kind : Kinds, key : CallKeys, time : 0 .. BP_MAXINT - 1, next : Cells])

\* The two indexes agree: the clauses of a bucket are those of the last chain that belong
\* there, in the same order, and every chain can be walked backwards from its tail.
ChainsAgree ==
  \A b \in 0 .. pred.size :
    LET chain == Path(pred, pred.list[b])
        recOf(cells) == [i \in DOMAIN cells |-> pred.cells[cells[i]].rec]
    IN /\ recOf(chain) = IF b = pred.size THEN recOf(chain)
                         ELSE SelectSeq(recOf(LastChain(pred)),
                                        LAMBDA r : b \in BucketsOf(pred, pred.recs[r].key))
       /\ pred.tail[b] = IF chain = <<>> THEN NULL ELSE Last(chain)
       /\ \A i \in DOMAIN chain :
            pred.cells[chain[i]].prev = IF i = 1 THEN NULL ELSE chain[i - 1]
       /\ b = pred.size => \A i \in DOMAIN chain : Rec(pred, chain[i]).cl_ref = chain[i]

\* What the predicate or an open call can still reach is not on a free list, and nothing is
\* on a free list twice.
FreedIsUnreachable ==
  LET roots == {pred.list[b] : b \in 0 .. pred.size} \cup {calls[i].next : i \in DOMAIN calls}
      reached == UNION {ToSet(Path(pred, c)) : c \in roots}
  IN /\ ToSet(pred.freeCells) \cap reached = {}
     /\ ToSet(pred.freeRecs) \cap {pred.cells[c].rec : c \in reached} = {}
     /\ IsInjective(pred.freeCells) /\ IsInjective(pred.freeRecs)

\* cl_count is the number of clauses that are not retracted.
CountIsClauses ==
  pred.cl_count = Len(SelectSeq(LastChain(pred), LAMBDA c : IsAlive(Rec(pred, c))))

\* The predicate's record stays right: its types, its count of clauses and its chains; nothing
\* is written through the end of a chain.
WellFormed == TypeOK /\ CountIsClauses /\ ChainsAgree /\ ~pred.wild

\* Whatever way a call ends (its last answer, a cut, an exception), it is counted out once;
\* else a clause would be freed under a call, or never again.
CountsAreOpenCalls ==
  /\ pred.ref_count = Cardinality(OpenCalls("clause"))
  /\ pred.retr_count = Cardinality(OpenCalls("retract"))

\* No other operation changes what an open call will answer.
LogicalView ==
  [][\A i \in 1 .. Len(calls) - 1 :
       i <= Len(calls') => ClausesAt(pred', Rest(pred', calls'[i])) = ClausesAt(pred, Rest(pred, calls[i]))]_vars

\* The machine does logical updates.
Abstract == INSTANCE LogicalUpdates WITH
  clauses <- ClausesAt(pred, SelectSeq(LastChain(pred), LAMBDA c : IsAlive(Rec(pred, c)))),
  open <- [i \in DOMAIN calls |-> [kind |-> calls[i].kind, key |-> calls[i].key,
                                   rest |-> ClausesAt(pred, Rest(pred, calls[i]))]]
Refines == Abstract!Spec
=============================================================================

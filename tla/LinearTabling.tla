---------------------------- MODULE LinearTabling ----------------------------
(***************************************************************************)
(* Linear tabling as the emulator does it (emu/emu_inst.h: table_allocate, *)
(* table_produce, table_consume, table_check_completion, table_cut; the    *)
(* SCC bookkeeping of emu/table.c and the macros of emu/toam.h).           *)
(*                                                                         *)
(* The machine runs one query at a time over the choice-point stack.  Only *)
(* tabled frames are kept, the oldest first, so that a smaller index is a  *)
(* higher address.  A subgoal whose frame runs clauses is a pioneer; a     *)
(* variant called meanwhile is a follower that consumes the answers there  *)
(* are and fails.  The oldest pioneer of a strongly connected component    *)
(* (SCC) is its root; it re-runs its clauses until no answer is new.       *)
(***************************************************************************)
EXTENDS TabledProgram, FiniteSets, SequencesExt

CONSTANTS
  QueryModes,   \* how a query may call its goal
  MaxQueries,   \* bound: queries in a behaviour
  MaxThrows,    \* bound: exceptions in a behaviour
  MaxFrames     \* bound: frames on the choice-point stack

ASSUME BoundsAssumption ==
  /\ QueryModes \subseteq {"all", "once"}
  /\ QueryModes /= {} /\ Subgoals /= {}
  /\ MaxQueries \in Nat
  /\ MaxThrows \in Nat
  /\ MaxFrames \in Nat

VARIABLES
  prog,         \* the program
  answers,      \* GT_ANSWER_TABLE: the answers in the order they were found
  top,          \* GT_TOP_AR: a frame, or one of the three values below
  bits,         \* GT_STATE
  root,         \* GT_SCC_ROOT
  elms,         \* GT_SCC_ELMS, the list head first
  stack,        \* the tabled frames of the choice-point chain B, AR_B(B), ..
  here,         \* the running clause, and the answers its goals have given
  pc,           \* idle, run (inside a clause) or back (resume the top frame)
  query,        \* the goal of the query
  got,          \* the answers returned to the query so far
  queries,      \* the number of queries so far
  throws        \* the number of exceptions so far

tableVars == <<answers, top, bits, root, elms>>
queryVars == <<prog, query, got, queries, throws>>
vars == <<prog, answers, top, bits, root, elms, stack, here, pc, query, got,
          queries, throws>>

-----------------------------------------------------------------------------
(* The words of a subgoal table entry, and of a frame.                     *)

NULL == 0
COMPLETE == -1
TEMP_COMPLETE == -2

Bits == {"looping", "evaluated", "iteration", "revised"}

\* Frame 0 stands for the query, whose body is the query's goal.
QueryFrame == 0

Places == [ar : Nat, clause : Nat, seen : Seq(Answers)]
Frames == [goal : Subgoals, from : Places, alt : Nat, curr : Nat]

\* x > y of the addresses: a frame is above both flags, an old one above new.
LowerFrame(x, y) ==
  IF x > 0 /\ y > 0 THEN x > y ELSE x > 0 \/ (y <= 0 /\ -x > -y)
Higher(x, y) ==
  IF x > 0 /\ y > 0 THEN x < y ELSE x > 0 \/ (y <= 0 /\ -x > -y)

NClauses(s) == Len(prog.rules[s])

Body(place) ==
  IF place.ar = QueryFrame THEN <<query>>
  ELSE prog.rules[stack[place.ar].goal][place.clause].body

NextGoal == Body(here)[Len(here.seen) + 1]

FreshTables ==
  /\ answers = [s \in Subgoals |-> << >>]
  /\ top = [s \in Subgoals |-> NULL]
  /\ bits = [s \in Subgoals |-> {}]
  /\ root = [s \in Subgoals |-> s]
  /\ elms = [s \in Subgoals |-> << >>]

-----------------------------------------------------------------------------
(* The walks over SCC_ROOT and SCC_ELMS.                                   *)

\* The entries that a walk from s marks when it turns back at marked ones.
WalkOneLevel(s, marked) == ({s} \cup ToSet(elms[s])) \ marked
Walk(s, marked) ==
  {t \in Subgoals :
     \A R \in SUBSET Subgoals :
       /\ s \in R
       /\ \A r \in R : r \notin marked => ToSet(elms[r]) \subseteq R
       => t \in R} \ marked

\* The roots met while a root that is itself temporarily complete is left
\* for its own root.
RootChain(s) ==
  {t \in Subgoals :
     \A R \in SUBSET Subgoals :
       /\ root[s] \in R
       /\ \A r \in R : top[r] = TEMP_COMPLETE => root[r] \in R
       => t \in R}

\* Where that walk stops: one entry, or none when it never stops.
LiveRoots(s) == {t \in RootChain(s) : top[t] /= TEMP_COMPLETE}

ForgetRevised(s, caller, r) ==
  IF caller = QueryFrame THEN UNCHANGED <<bits, root, elms>>
  ELSE LET s0 == stack[caller].goal
           joins == r /= root[s0] /\ Higher(top[r], top[root[s0]])
       IN /\ UNCHANGED bits
          /\ elms' = IF joins THEN [elms EXCEPT ![r] = <<s0>> \o @] ELSE elms
          /\ root' = IF joins THEN [root EXCEPT ![s0] = r] ELSE root

\* The caller of s learns of its new answers, and joins the SCC of the live
\* root r when r is older than the root the caller had.
propagate_scc_root(s, caller, r) ==
  IF caller = QueryFrame THEN UNCHANGED <<bits, root, elms>>
  ELSE LET s0 == stack[caller].goal
           joins == r /= root[s0] /\ Higher(top[r], top[root[s0]])
       IN /\ bits' = IF "revised" \in bits[s]
                       THEN [bits EXCEPT ![s0] = @ \cup {"revised"}]
                       ELSE bits
          /\ elms' = IF joins THEN [elms EXCEPT ![r] = <<s0>> \o @] ELSE elms
          /\ root' = IF joins THEN [root EXCEPT ![s0] = r] ELSE root

\* The frames n+1.. leave the choice-point chain by a cut: their subgoals,
\* unless complete, are as if never called.
RollComplete(n) ==
  [s \in Subgoals |->
     IF \E f \in n + 1 .. Len(stack) : stack[f].goal = s
     THEN NULL ELSE top[s]]
RollTop(n) ==
  [s \in Subgoals |->
     IF /\ top[s] /= COMPLETE
        /\ \E f \in n + 1 .. Len(stack) : stack[f].goal = s
     THEN NULL ELSE top[s]]

Keep(n) == SubSeq(stack, 1, n)

-----------------------------------------------------------------------------
Init ==
  /\ prog \in Programs
  /\ FreshTables
  /\ stack = << >>
  /\ pc = "idle"
  /\ here = [ar |-> QueryFrame, clause |-> 0, seen |-> << >>]
  /\ query = CHOOSE goal \in [goal : Subgoals, mode : QueryModes] : TRUE
  /\ got = << >>
  /\ queries = 0
  /\ throws = 0

Query(goal) ==
  /\ pc = "idle"
  /\ queries < MaxQueries
  /\ queries' = queries + 1
  /\ query' = goal
  /\ got' = << >>
  /\ here' = [ar |-> QueryFrame, clause |-> 0, seen |-> << >>]
  /\ pc' = "run"
  /\ UNCHANGED <<prog, throws, tableVars, stack>>

\* A goal of the running clause is called.  The frame starts with the first
\* clause when s is called for the first time, or for the first time in this
\* round; otherwise it consumes what there is.
Push(alt) ==
  stack' = Append(stack,
    [goal |-> NextGoal.goal, from |-> here, alt |-> alt,
     curr |-> IF answers[NextGoal.goal] = << >> THEN 0 ELSE 1])

BecomePioneer(s, start) ==
  /\ top' = [top EXCEPT ![s] = Len(stack) + 1]
  /\ bits' = [bits EXCEPT ![s] = start]
  /\ Push(1)

table_allocate ==
  /\ pc = "run"
  /\ Len(here.seen) < Len(Body(here))
  /\ Len(stack) < MaxFrames
  /\ LET s == NextGoal.goal
     IN \/ /\ top[s] = NULL
           /\ BecomePioneer(s, {})
        \/ /\ top[s] = TEMP_COMPLETE
           /\ "evaluated" \notin bits[s]
           /\ BecomePioneer(s, {"iteration", "looping"})
        \/ /\ \/ top[s] = COMPLETE
              \/ top[s] = TEMP_COMPLETE /\ "evaluated" \in bits[s]
           /\ Push(0)
           /\ UNCHANGED <<top, bits>>
        \/ /\ top[s] > 0
           /\ bits' = [bits EXCEPT ![s] = @ \cup {"looping"}]
           /\ Push(0)
           /\ UNCHANGED top
  /\ pc' = "back"
  /\ UNCHANGED <<answers, root, elms, here, queryVars>>

\* The body has succeeded: its answer goes to the end of the table, unless
\* it is there already, and the clause is made to fail for the next one.
IsNewTakingFailure(s, a) == a \notin ToSet(answers[s])
IsNew(s, a) == a \notin {NoAnswer} \cup ToSet(answers[s])

table_produce ==
  /\ pc = "run"
  /\ here.ar /= QueryFrame
  /\ Len(here.seen) = Len(Body(here))
  /\ pc' = "back"
  /\ LET s == stack[here.ar].goal
         a == HeadOf(prog.rules[s][here.clause], here.seen)
     IN \/ /\ ~IsNew(s, a)
           /\ UNCHANGED <<answers, bits, stack>>
        \/ /\ IsNew(s, a)
           /\ answers' = [answers EXCEPT ![s] = Append(@, a)]
           /\ bits' = [bits EXCEPT ![s] = @ \cup {"revised"}]
           /\ stack' = IF answers[s] = << >>
                         THEN [stack EXCEPT ![here.ar].curr = 1]
                         ELSE stack
  /\ UNCHANGED <<top, root, elms, here, queryVars>>

\* The query gets an answer and asks for the next one, or is done with one.
Deliver ==
  /\ pc = "run"
  /\ here.ar = QueryFrame
  /\ Len(here.seen) = 1
  /\ got' = Append(got, here.seen[1])
  /\ pc' = "back"
  /\ UNCHANGED <<tableVars, stack, here, prog, query, queries, throws>>

TopFrame == stack[Len(stack)]

Backtracks == pc = "back" /\ stack /= << >>

\* The next clause, unless it makes no tabled call and this is not the first
\* round (table_neck_no_reeval).
TryClause ==
  /\ Backtracks
  /\ TopFrame.alt \in 1 .. NClauses(TopFrame.goal)
  /\ stack' = [stack EXCEPT ![Len(stack)].alt = @ + 1]
  /\ IF /\ prog.rules[TopFrame.goal][TopFrame.alt].neck
        /\ "iteration" \in bits[TopFrame.goal]
     THEN UNCHANGED <<here, pc>>
     ELSE /\ here' = [ar |-> Len(stack), clause |-> TopFrame.alt,
                      seen |-> << >>]
          /\ pc' = "run"
  /\ UNCHANGED <<tableVars, queryVars>>

\* The clauses are exhausted.  The root of an SCC completes all of it or
\* starts another round; any other subgoal is complete for this round.
EachItsOwnRoot(s) == top[s] = Len(stack)
UnlessLooping(s) == "looping" \notin bits[s] /\ top[root[s]] = Len(stack)
IsSccRoot(s) == top[root[s]] = Len(stack)

CompleteOnlyRoot(s) ==
  /\ "looping" \notin bits[s] \/ "revised" \notin bits[s]
  /\ top' = [top EXCEPT ![s] = COMPLETE]
  /\ stack' = [stack EXCEPT ![Len(stack)].alt = 0]
  /\ UNCHANGED bits

CompleteScc(s) ==
  /\ "looping" \notin bits[s] \/ "revised" \notin bits[s]
  /\ top' = [t \in Subgoals |->
               IF t \in Walk(s, {u \in Subgoals : top[u] = COMPLETE})
               THEN COMPLETE ELSE top[t]]
  /\ stack' = [stack EXCEPT ![Len(stack)].alt = 0]
  /\ UNCHANGED bits

IterateStillRevised(s) ==
  /\ "looping" \in bits[s] /\ "revised" \in bits[s]
  /\ bits' = [bits EXCEPT ![s] = @ \cup {"iteration"}]
  /\ stack' = [stack EXCEPT ![Len(stack)].alt = 1]
  /\ UNCHANGED top

IterateScc(s) ==
  /\ "looping" \in bits[s] /\ "revised" \in bits[s]
  /\ bits' = [t \in Subgoals |->
                IF t = s THEN {"iteration", "looping"}
                ELSE IF t \in Walk(s, {u \in Subgoals : bits[u] = {}})
                THEN {} ELSE bits[t]]
  /\ stack' = [stack EXCEPT ![Len(stack)].alt = 1]
  /\ UNCHANGED top

LeaveToItself(s) ==
  /\ top' = [top EXCEPT ![s] = TEMP_COMPLETE]
  /\ bits' = [bits EXCEPT ![s] = @ \cup {"evaluated"}]
  /\ stack' = [stack EXCEPT ![Len(stack)].alt = 0]
LeaveToRoot(s) ==
  /\ top' = IF root[s] /= s THEN [top EXCEPT ![s] = TEMP_COMPLETE] ELSE top
  /\ bits' = [bits EXCEPT ![s] = @ \cup {"evaluated"}]
  /\ stack' = [stack EXCEPT ![Len(stack)].alt = 0]

table_check_completion ==
  /\ Backtracks
  /\ TopFrame.alt = NClauses(TopFrame.goal) + 1
  /\ LET s == TopFrame.goal
     IN \/ IsSccRoot(s) /\ (CompleteScc(s) \/ IterateScc(s))
        \/ ~IsSccRoot(s) /\ LeaveToRoot(s)
  /\ UNCHANGED <<answers, root, elms, here, pc, queryVars>>

\* The frame returns its next answer to the clause that called it, and stays
\* for the others unless it was the last one of a complete subgoal.  Called
\* inside once/1, it is cut; in the condition of a committing rule, so is
\* every frame above the caller's (table_cut).
NextAnswerButLast(s, i) == IF i < Len(answers[s]) - 1 THEN i + 1 ELSE 0
NextAnswer(s, i) == IF i < Len(answers[s]) THEN i + 1 ELSE 0

Resume(from, a) == [from EXCEPT !.seen = Append(@, a)]

table_consume ==
  /\ Backtracks
  /\ TopFrame.alt = 0
  /\ TopFrame.curr /= 0
  /\ LET s == TopFrame.goal
         from == TopFrame.from
         mode == Body(from)[Len(from.seen) + 1].mode
         next == NextAnswer(s, TopFrame.curr)
         last == Len(stack) - 1
     IN /\ here' = Resume(from, answers[s][TopFrame.curr])
        /\ \/ /\ mode = "all"
              /\ stack' = IF top[s] = COMPLETE /\ next = 0 THEN Keep(last)
                          ELSE [stack EXCEPT ![Len(stack)].curr = next]
              /\ UNCHANGED top
           \/ /\ mode = "once"
              /\ top' = RollTop(last)
              /\ stack' = Keep(last)
           \/ /\ mode = "commit"
              /\ top' = RollTop(from.ar)
              /\ stack' = [Keep(from.ar) EXCEPT ![from.ar].alt =
                             NClauses(stack[from.ar].goal) + 1]
  /\ pc' = "run"
  /\ UNCHANGED <<answers, bits, root, elms, queryVars>>

\* No answer is left: the caller joins the SCC, and the frame is dropped.
table_consume_fail ==
  /\ Backtracks
  /\ TopFrame.alt = 0
  /\ TopFrame.curr = 0
  /\ LET s == TopFrame.goal
     IN \/ /\ top[root[s]] = COMPLETE
           /\ UNCHANGED <<bits, root, elms>>
        \/ /\ top[root[s]] /= COMPLETE
           /\ \E r \in LiveRoots(s) :
                propagate_scc_root(s, TopFrame.from.ar, r)
  /\ stack' = Keep(Len(stack) - 1)
  /\ UNCHANGED <<answers, top, here, pc, queryVars>>

EndQuery ==
  /\ pc = "back"
  /\ stack = << >>
  /\ pc' = "idle"
  /\ UNCHANGED <<tableVars, stack, here, queryVars>>

\* The running clause throws, and the query catches.  Each frame on the way
\* resets its subgoal and the temporarily complete members of its own list.
Unwound ==
  {s \in Subgoals : /\ top[s] /= COMPLETE
                    /\ \E f \in 1 .. Len(stack) : stack[f].goal = s}

UnwindMembers ==
  [s \in Subgoals |->
     IF top[s] = TEMP_COMPLETE /\ (\E t \in Unwound : s \in ToSet(elms[t]))
     THEN NULL ELSE top[s]]

RESET_SUBGOAL_AR ==
  [s \in Subgoals |-> IF s \in Unwound THEN NULL ELSE UnwindMembers[s]]

Throw ==
  /\ pc = "run"
  /\ throws < MaxThrows
  /\ throws' = throws + 1
  /\ top' = RESET_SUBGOAL_AR
  /\ stack' = << >>
  /\ pc' = "idle"
  /\ UNCHANGED <<answers, bits, root, elms, here, prog, query, got, queries>>

\* initialize_table/0, between two queries.
c_INITIALIZE_TABLE ==
  /\ pc = "idle"
  /\ answers' = [s \in Subgoals |-> << >>]
  /\ top' = [s \in Subgoals |-> NULL]
  /\ bits' = [s \in Subgoals |-> {}]
  /\ root' = [s \in Subgoals |-> s]
  /\ elms' = [s \in Subgoals |-> << >>]
  /\ UNCHANGED <<stack, here, pc, queryVars>>

Evaluate ==
  \/ table_allocate \/ table_produce \/ Deliver \/ TryClause
  \/ table_check_completion \/ table_consume \/ table_consume_fail
  \/ EndQuery

Next ==
  \/ \E goal \in [goal : Subgoals, mode : QueryModes] : Query(goal)
  \/ Evaluate
  \/ Throw
  \/ c_INITIALIZE_TABLE

Spec == Init /\ [][Next]_vars

\* The emulator's loop always runs the next instruction of a query.
FairSpec == Spec /\ WF_vars(Evaluate)

-----------------------------------------------------------------------------
(* What the machine promises.                                              *)

\* The words of the table entries and the frames stay what frame.h says.
TypeOK ==
  /\ prog.model \in Tables
  /\ answers \in [Subgoals -> Seq(Answers)]
  /\ top \in [Subgoals -> Nat \cup {COMPLETE, TEMP_COMPLETE}]
  /\ bits \in [Subgoals -> SUBSET Bits]
  /\ root \in [Subgoals -> Subgoals]
  /\ elms \in [Subgoals -> Seq(Subgoals)]
  /\ stack \in Seq(Frames)
  /\ here \in Places
  /\ pc \in {"idle", "run", "back"}
  /\ query \in [goal : Subgoals, mode : QueryModes]
  /\ got \in Seq(Answers)
  /\ queries \in 0 .. MaxQueries
  /\ throws \in 0 .. MaxThrows

\* Nothing is in a table that does not follow from the program, whatever is
\* cut, thrown or queried again.
Sound == \A s \in Subgoals : ToSet(answers[s]) \subseteq prog.model[s]

\* A subgoal marked complete has all its answers: the rounds of its SCC went
\* on to the fixpoint, and no member was completed ahead of it.
FixpointReached ==
  \A s \in Subgoals :
    top[s] = COMPLETE => prog.model[s] \subseteq ToSet(answers[s])

\* Between two queries no evaluation is left half done: an entry is complete,
\* or as good as new for the query that calls it next.
NothingPending ==
  pc = "idle" =>
    \A s \in Subgoals :
      \/ top[s] = COMPLETE
      \/ top[s] = NULL /\ root[s] = s /\ elms[s] = << >>

\* Complete tables have reached their fixpoint, and a query that ran to its end
\* has returned the answers of its goal, each once, and left nothing pending; one
\* that wanted a single answer has it if there is one.
QueryAnswered ==
  /\ FixpointReached
  /\ NothingPending
  /\ pc = "idle" /\ queries > 0 /\ throws = 0 =>
       /\ IsInjective(got)
       /\ ToSet(got) \subseteq prog.model[query.goal]
       /\ query.mode = "all" => prog.model[query.goal] \subseteq ToSet(got)
       /\ query.mode = "once" =>
            Len(got) = IF prog.model[query.goal] = {} THEN 0 ELSE 1

\* GT_TOP_AR of a subgoal under evaluation is a frame of that subgoal that is
\* still on the stack: a dangling one would be compared, and completed, as if
\* it were alive.
MasterIsOnStack ==
  \A s \in Subgoals :
    top[s] > 0 => top[s] <= Len(stack) /\ stack[top[s]].goal = s

\* A temporarily complete subgoal has a root that is under evaluation and will
\* complete it or run it again; the walk to that root comes to an end.
TempHasLiveRoot ==
  \A s \in Subgoals :
    top[s] = TEMP_COMPLETE =>
      \E r \in LiveRoots(s) : LiveRoots(s) = {r} /\ top[r] > 0

\* The walk to the live root, a loop without a bound, comes to an end even
\* when cuts have taken frames away.
RootWalkEnds ==
  \A s \in Subgoals : top[s] = TEMP_COMPLETE => LiveRoots(s) /= {}

\* complete_scc_elms gives the list cells of an entry back and leaves the
\* pointer to them: no list that is still walked is of a complete entry.
FreedCellsUnread ==
  \A s \in Subgoals :
    top[s] /= COMPLETE => \A t \in ToSet(elms[s]) : top[t] /= COMPLETE

\* A subgoal that was set aside is neither forgotten nor taken for another: its
\* root is alive, and the lists that lead to it are its SCC's own.
SetAsideIsFollowed == TempHasLiveRoot /\ FreedCellsUnread

\* A query takes answers only from a complete table (local strategy), and a
\* complete table is never touched again, except by initialize_table/0.
CompleteIsFinal ==
  [][/\ Deliver => top[query.goal] = COMPLETE
     /\ \A s \in Subgoals :
          top[s] = COMPLETE /\ ~c_INITIALIZE_TABLE =>
            top'[s] = COMPLETE /\ answers'[s] = answers[s]]_vars

Abstract == INSTANCE TabledEvaluation WITH
  rules <- prog.rules,
  table <- [s \in Subgoals |-> ToSet(answers[s])],
  complete <- {s \in Subgoals : top[s] = COMPLETE}

\* The machine does tabled evaluation: what it adds is a consequence of what
\* it has, and what it completes is closed.
Refines == Abstract!Spec

\* Every query comes to its end, however its subgoals call each other.
Terminates == pc /= "idle" ~> pc = "idle"
=============================================================================

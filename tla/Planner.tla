------------------------------- MODULE Planner -------------------------------
(***************************************************************************)
(* The planner (lib/planner.pi) on top of linear tabling.                  *)
(*                                                                         *)
(* The search is a tabled predicate '_$plan'(S, Iplan): byte code, from    *)
(* word 113342 of bc_insts on (emu/picat_bc.h).  Iplan is not tabled; it   *)
(* holds the resources that are left.  The table entry of a state keeps    *)
(* the most it was ever called with, and a call with no more than that     *)
(* fails at once.  No answer is ever tabled: a plan leaves the search as   *)
(* an exception.  So the frames on the stack are nested calls, each made   *)
(* by the one below, and no subgoal is revised: GT_STATE plays no part.    *)
(*                                                                         *)
(* The drivers best_plan, best_plan_bin and best_plan_bb call the search   *)
(* again and again with other limits, over the same table.                 *)
(***************************************************************************)
EXTENDS Integers, SequencesExt

CONSTANTS
  States,       \* the states of the planning problems
  Problems,     \* the problems, as Problem below
  Queries,      \* the queries: a driver, a start state and a limit
  Unlimited,    \* 268435455: no limit given, or no depth explored
  MaxQueries    \* bound: queries over one table

Actions == Seq([to : States, cost : Nat])

Problem ==
  [final : SUBSET States, action : [States -> Actions],
   heuristic : [States -> Nat], cheapest : [States -> Nat]]

\* cheapest is what it says: no step of a plan saves more than it costs, from no set of states
\* can cheapest plans go round for ever, and where it is more than Unlimited there may be no
\* plan.  The heuristic is admissible.
IsCheapest(p) ==
  /\ \A s \in p.final : p.cheapest[s] = 0
  /\ \A s \in States : \A k \in DOMAIN p.action[s] :
       p.cheapest[s] <= p.action[s][k].cost + p.cheapest[p.action[s][k].to]
  /\ \A B \in SUBSET States : B /= {} /\ (\A s \in B : p.cheapest[s] <= Unlimited) =>
       \E s \in B :
         \/ s \in p.final
         \/ \E k \in DOMAIN p.action[s] :
              /\ p.action[s][k].to \notin B
              /\ p.cheapest[s] = p.action[s][k].cost + p.cheapest[p.action[s][k].to]
  /\ \A s \in States : p.heuristic[s] <= p.cheapest[s]

ASSUME BoundsAssumption ==
  /\ Problems \subseteq Problem
  /\ \A p \in Problems : IsCheapest(p)
  /\ Unlimited \in Nat
  /\ MaxQueries \in Nat
  /\ Queries \subseteq [how : {"plan", "down", "bin", "bb"}, start : States,
                        limit : 0 .. Unlimited]

VARIABLES
  problem,      \* the program's final/1, action/4 and heuristic/1, and the
                \* cost of the cheapest plan of each state, for comparison
  top,          \* GT_TOP_AR of each state: a frame, or one of the three below
  kept,         \* the last argument of the entry: the largest limit so far
  root,         \* GT_SCC_ROOT
  elms,         \* GT_SCC_ELMS
  stack,        \* the frames of '_$plan', the oldest first
  call,         \* the call of '_$plan' that comes next
  pc,           \* idle, call, run (a frame goes on) or back (in the driver)
  explored,     \* _$planner_explored_depth
  query,        \* the query of the program
  bounds,       \* the arguments of the driver's loop
  found,        \* the cost of the plan that the search ended with
  best,         \* current_best_plan_cost(S) in the table map _$planner
  lower,        \* current_lower_bound(S) in the same map
  answer,       \* the cost of the plan that the query returned
  queries,      \* the queries over this table
  solved        \* whether a plan was ever found over this table

tableVars == <<top, kept, root, elms>>
driverVars == <<problem, query, bounds, best, lower, answer, queries>>
vars == <<top, kept, root, elms, stack, call, pc, explored, problem, query,
          bounds, found, best, lower, answer, queries, solved>>

-----------------------------------------------------------------------------
NULL == 0
COMPLETE == -1
TEMP_COMPLETE == -2

NoPlan == -1

Frames == [state : States, limit : Int, cost : Nat, alt : Nat]

Higher(x, y) ==
  IF x > 0 /\ y > 0 THEN x < y ELSE x > 0 \/ (y <= 0 /\ -x > -y)

FreshTables ==
  /\ top = [s \in States |-> NULL]
  /\ kept = [s \in States |-> 0]
  /\ root = [s \in States |-> s]
  /\ elms = [s \in States |-> << >>]
  /\ best = [s \in States |-> NoPlan]
  /\ lower = [s \in States |-> 0]

-----------------------------------------------------------------------------
(* The bookkeeping of SCCs, as in LinearTabling.                           *)

Closure(first, Follow) ==
  {t \in States : \A R \in SUBSET States :
     /\ first \in R
     /\ \A r \in R : Follow[r] \subseteq R
     => t \in R}

Members(s) ==
  Closure(s, [r \in States |-> IF top[r] = COMPLETE THEN {}
                               ELSE ToSet(elms[r])])

LiveRoots(s, tops) ==
  LET Above == [r \in States |->
                  IF tops[r] = TEMP_COMPLETE THEN {root[r]} ELSE {}]
  IN {t \in Closure(root[s], Above) : tops[t] /= TEMP_COMPLETE}

\* A call of s has failed: its caller, the frame at index caller, joins the
\* SCC of the live root of s when that is older than the root it had.
PropagateRoot(s, caller, tops) ==
  \/ /\ caller = 0 \/ tops[root[s]] = COMPLETE
     /\ UNCHANGED <<root, elms>>
  \/ /\ caller /= 0 /\ tops[root[s]] /= COMPLETE
     /\ \E r \in LiveRoots(s, tops) :
          LET s0 == stack[caller].state
              joins == r /= root[s0] /\ Higher(tops[r], tops[root[s0]])
          IN /\ elms' = IF joins THEN [elms EXCEPT ![r] = <<s0>> \o @]
                        ELSE elms
             /\ root' = IF joins THEN [root EXCEPT ![s0] = r] ELSE root

-----------------------------------------------------------------------------
(* The search: the clauses of '_$plan'.                                    *)

TopFrame == stack[Len(stack)]
NextAlternative == [stack EXCEPT ![Len(stack)].alt = @ + 1]

\* After a failed call the frame below goes on, or the driver.
GoOn(frames) == pc' = IF frames = << >> THEN "back" ELSE "run"

Push ==
  /\ top' = [top EXCEPT ![call.state] = Len(stack) + 1]
  /\ kept' = [kept EXCEPT ![call.state] = call.limit]
  /\ stack' = Append(stack, [state |-> call.state, limit |-> call.limit,
                             cost |-> call.cost, alt |-> 0])
  /\ pc' = "run"

FirstCall ==
  /\ pc = "call"
  /\ top[call.state] = NULL
  /\ Push
  /\ UNCHANGED <<root, elms>>

\* check_plan_resource_limit: an entry that has failed is opened again when
\* there are more resources than ever before.
MoreResources == call.limit > kept[call.state]

\* MUTANT: the reopened entry stays in the SCC it had.
ReopenInItsScc ==
  /\ pc = "call"
  /\ top[call.state] \in {COMPLETE, TEMP_COMPLETE}
  /\ MoreResources
  /\ Push
  /\ UNCHANGED <<root, elms>>

Reopen ==
  /\ pc = "call"
  /\ top[call.state] \in {COMPLETE, TEMP_COMPLETE}
  /\ MoreResources
  /\ Push
  /\ root' = [root EXCEPT ![call.state] = call.state]
  /\ elms' = [elms EXCEPT ![call.state] = << >>]

\* There are no answers to consume, whether the subgoal is under evaluation
\* or has failed with as many resources.
FailAgain ==
  /\ pc = "call"
  /\ \/ top[call.state] > 0
     \/ top[call.state] \in {COMPLETE, TEMP_COMPLETE} /\ ~MoreResources
  /\ PropagateRoot(call.state, Len(stack), top)
  /\ GoOn(stack)
  /\ UNCHANGED <<top, kept, stack>>

table_allocate ==
  /\ FirstCall \/ Reopen \/ FailAgain
  /\ UNCHANGED <<call, explored, found, solved, driverVars>>

\* The state is final: the plan is thrown to the driver, and the frames on
\* the way give up their entries, unless these are complete, and those of
\* their own lists.
Unwound ==
  {stack[i].state : i \in DOMAIN stack} \ {s \in States : top[s] = COMPLETE}

ResetMembers ==
  [s \in States |->
     IF top[s] = TEMP_COMPLETE /\ \E t \in Unwound : s \in ToSet(elms[t])
     THEN NULL ELSE top[s]]

RESET_SUBGOAL_AR ==
  [s \in States |-> IF s \in Unwound THEN NULL ELSE ResetMembers[s]]

ThrowPlan ==
  /\ pc = "run"
  /\ TopFrame.alt = 0
  /\ TopFrame.state \in problem.final
  /\ found' = TopFrame.cost
  /\ solved' = TRUE
  /\ top' = RESET_SUBGOAL_AR
  /\ stack' = << >>
  /\ pc' = "back"
  /\ UNCHANGED <<kept, root, elms, call, explored, driverVars>>

\* The least cost at which the search was cut short.
UpdateExploredDepth(depth) ==
  explored' = IF depth < explored THEN depth ELSE explored

NActions == Len(problem.action[TopFrame.state])

\* MUTANT: too far also when the heuristic needs just what is left.
TooFarOrJust == TopFrame.limit <= problem.heuristic[TopFrame.state]
\* The state is not final, and the heuristic sees no way within the limit.
TooFar == TopFrame.limit < problem.heuristic[TopFrame.state]

CheckHeuristic ==
  /\ TopFrame.alt = 0
  /\ TopFrame.state \notin problem.final
  /\ \/ /\ TooFar
        /\ UpdateExploredDepth(TopFrame.cost +
                                 problem.heuristic[TopFrame.state])
        /\ stack' = [stack EXCEPT ![Len(stack)].alt = NActions + 1]
     \/ /\ ~TooFar
        /\ stack' = NextAlternative
        /\ UNCHANGED explored
  /\ UNCHANGED <<call, pc>>

\* The next action is taken when there are resources for it.
TryAction ==
  /\ TopFrame.alt \in 1 .. NActions
  /\ LET act == problem.action[TopFrame.state][TopFrame.alt]
         left == TopFrame.limit - act.cost
         cost == TopFrame.cost + act.cost
     IN \/ /\ left < 0
           /\ UpdateExploredDepth(cost)
           /\ UNCHANGED <<call, pc>>
        \/ /\ left >= 0
           /\ call' = [state |-> act.to, limit |-> left, cost |-> cost]
           /\ pc' = "call"
           /\ UNCHANGED explored
  /\ stack' = NextAlternative

RunClause ==
  /\ pc = "run"
  /\ CheckHeuristic \/ TryAction
  /\ UNCHANGED <<found, solved, tableVars, driverVars>>

\* The actions are exhausted.  Without answers the root of an SCC always
\* completes it; another subgoal is set aside.  Either way the call fails.
Completed(s) ==
  IF top[root[s]] = Len(stack)
  THEN [t \in States |-> IF t \in Members(s) THEN COMPLETE ELSE top[t]]
  ELSE IF root[s] /= s THEN [top EXCEPT ![s] = TEMP_COMPLETE] ELSE top

table_check_completion ==
  /\ pc = "run"
  /\ TopFrame.alt = NActions + 1
  /\ LET s == TopFrame.state
     IN /\ top' = Completed(s)
        /\ PropagateRoot(s, Len(stack) - 1, Completed(s))
  /\ stack' = Front(stack)
  /\ GoOn(Front(stack))
  /\ UNCHANGED <<kept, call, explored, found, solved, driverVars>>

-----------------------------------------------------------------------------
(* The drivers.                                                            *)

\* picat_plan: a search from the start state with a limit.
picat_plan(s, limit) ==
  /\ call' = [state |-> s, limit |-> limit, cost |-> 0]
  /\ found' = NoPlan
  /\ pc' = "call"

call_picat_plan(s, limit) ==
  /\ picat_plan(s, limit)
  /\ explored' = Unlimited

FirstLimit(q) == IF q.how \in {"down", "bin"} THEN 0 ELSE q.limit

Query(q) ==
  /\ pc = "idle"
  /\ queries < MaxQueries
  /\ queries' = queries + 1
  /\ query' = q
  /\ bounds' = [level |-> FirstLimit(q), low |-> 0, high |-> NoPlan]
  /\ IF q.how = "plan"
     THEN picat_plan(q.start, q.limit) /\ UNCHANGED explored
     ELSE call_picat_plan(q.start, FirstLimit(q))
  /\ UNCHANGED <<tableVars, stack, problem, best, lower, answer, solved>>

Return(cost) ==
  /\ answer' = cost
  /\ pc' = "idle"
  /\ UNCHANGED <<bounds, call, explored, found>>

\* call_picat_plan_aux puts the plan into the map when there is one.
NotedBest ==
  IF found = NoPlan THEN best ELSE [best EXCEPT ![query.start] = found]

SearchAgain(limit) ==
  /\ call_picat_plan(query.start, limit)
  /\ UNCHANGED answer

plan ==
  /\ query.how = "plan"
  /\ Return(found)
  /\ UNCHANGED <<best, lower>>

\* MUTANT: one bound is skipped.
NextButOne == IF explored = Unlimited THEN bounds.level + 2 ELSE explored + 1
\* MUTANT: without a depth to go by, the bound stays.
SameBound == IF explored = Unlimited THEN bounds.level ELSE explored
\* The next bound is the depth the search saw beyond the present one.
NextBound == IF explored = Unlimited THEN bounds.level + 1 ELSE explored

best_plan_downward ==
  /\ query.how = "down"
  /\ best' = NotedBest
  /\ \/ /\ best'[query.start] /= NoPlan
        /\ Return(best'[query.start])
     \/ /\ best'[query.start] = NoPlan
        /\ NextBound > query.limit
        /\ Return(NoPlan)
     \/ /\ best'[query.start] = NoPlan
        /\ NextBound <= query.limit
        /\ bounds' = [bounds EXCEPT !.level = NextBound]
        /\ SearchAgain(NextBound)
  /\ UNCHANGED lower

loop_best_plan_bb ==
  /\ query.how = "bb"
  /\ best' = NotedBest
  /\ \/ /\ found /= NoPlan
        /\ SearchAgain(found - 1)
        /\ UNCHANGED bounds
     \/ /\ found = NoPlan
        /\ Return(best[query.start])
  /\ UNCHANGED lower

\* best_plan_bin doubles the bound until there is a plan ..
loop_best_plan_bin(low, high) ==
  \/ /\ low <= high
     /\ LET middle == low + (high - low) \div 2
        IN /\ bounds' = [level |-> middle, low |-> low, high |-> high]
           /\ SearchAgain(middle)
  \/ /\ low > high
     /\ Return(best'[query.start])

loop_best_plan_downward_bin ==
  /\ query.how = "bin"
  /\ bounds.high = NoPlan
  /\ best' = NotedBest
  /\ \/ /\ best'[query.start] /= NoPlan
        /\ loop_best_plan_bin(lower[query.start], best'[query.start] - 1)
        /\ UNCHANGED lower
     \/ /\ best'[query.start] = NoPlan
        /\ lower' = [lower EXCEPT ![query.start] = NextBound]
        /\ \/ /\ NextBound >= query.limit
              /\ Return(NoPlan)
           \/ /\ NextBound < query.limit
              /\ LET next == IF 2 * NextBound > query.limit THEN query.limit
                             ELSE 2 * NextBound
                 IN /\ bounds' = [bounds EXCEPT !.level = next]
                    /\ SearchAgain(next)

\* .. and then halves the interval.
halve_best_plan_bin ==
  /\ query.how = "bin"
  /\ bounds.high /= NoPlan
  /\ best' = NotedBest
  /\ \/ found /= NoPlan /\ loop_best_plan_bin(bounds.low, found - 1)
     \/ found = NoPlan /\ loop_best_plan_bin(bounds.level + 1, bounds.high)
  /\ UNCHANGED lower

Driver ==
  /\ pc = "back"
  /\ \/ plan \/ best_plan_downward \/ loop_best_plan_bb
     \/ loop_best_plan_downward_bin \/ halve_best_plan_bin
  /\ UNCHANGED <<tableVars, stack, problem, query, queries, solved>>

\* initialize_table/0 between two queries clears the table and its map.
c_INITIALIZE_TABLE ==
  /\ pc = "idle"
  /\ top' = [s \in States |-> NULL]
  /\ kept' = [s \in States |-> 0]
  /\ root' = [s \in States |-> s]
  /\ elms' = [s \in States |-> << >>]
  /\ best' = [s \in States |-> NoPlan]
  /\ lower' = [s \in States |-> 0]
  /\ queries' = 0
  /\ solved' = FALSE
  /\ UNCHANGED <<stack, call, pc, explored, problem, query, bounds, found,
                 answer>>

-----------------------------------------------------------------------------
Init ==
  /\ problem \in Problems
  /\ FreshTables
  /\ stack = << >>
  /\ query \in Queries
  /\ call = [state |-> query.start, limit |-> 0, cost |-> 0]
  /\ bounds = [level |-> 0, low |-> 0, high |-> NoPlan]
  /\ pc = "idle"
  /\ explored = Unlimited
  /\ found = NoPlan
  /\ answer = NoPlan
  /\ queries = 0
  /\ solved = FALSE

Search == table_allocate \/ ThrowPlan \/ RunClause \/ table_check_completion

Next ==
  \/ \E q \in Queries : Query(q)
  \/ Search
  \/ Driver
  \/ c_INITIALIZE_TABLE

Spec == Init /\ [][Next]_vars

\* The emulator's loop always runs the next instruction of a query.
FairSpec == Spec /\ WF_vars(Search \/ Driver)

-----------------------------------------------------------------------------
(* What the planner promises.                                              *)

\* GT_TOP_AR of a state under evaluation is a frame of that state that is on
\* the stack: neither a thrown plan nor an entry that was reopened leaves a
\* dangling one.
FramesAreLive ==
  \A s \in States :
    top[s] > 0 => top[s] \in DOMAIN stack /\ stack[top[s]].state = s

\* Before a plan is thrown every frame is the one its entry points to.
FramesAreKnown ==
  ~solved => \A i \in DOMAIN stack : top[stack[i].state] = i

\* Before a plan is thrown the walk from a failed entry to its live root, a loop
\* without a bound, ends, whatever was reopened.
RootWalkEnds ==
  ~solved => \A s \in States : top[s] < 0 => LiveRoots(s, top) /= {}

\* Entries, frames and drivers keep to their types; entries and frames point
\* to each other, and entries to a root.  A limit is -1 where best_plan_bb asks
\* for less than a plan that costs nothing.
WellFormed ==
  /\ top \in [States -> Nat \cup {COMPLETE, TEMP_COMPLETE}]
  /\ kept \in [States -> -1 .. Unlimited]
  /\ root \in [States -> States]
  /\ elms \in [States -> Seq(States)]
  /\ stack \in Seq(Frames)
  /\ call \in [state : States, limit : -1 .. Unlimited, cost : Nat]
  /\ pc \in {"idle", "call", "run", "back"}
  /\ query \in Queries
  /\ best \in [States -> NoPlan .. Unlimited]
  /\ {found, answer} \subseteq NoPlan .. Unlimited
  /\ FramesAreLive /\ FramesAreKnown /\ RootWalkEnds

Cheapest(s) == problem.cheapest[s]

\* An entry that has failed will fail every later call with as many
\* resources: between two queries, as long as no plan was thrown through this
\* table, there is then no plan of that cost, though the search was cut short at
\* every subgoal under evaluation and later queries reopened some entries only.
FailureIsTrue ==
  ~solved /\ pc = "idle" =>
    \A s \in States : top[s] < 0 => Cheapest(s) > kept[s]

\* In the middle of a search only the complete entries are known to have failed
\* for good: what their failure rests on was complete, or belonged to their SCC,
\* though entries are reopened in the middle of it.
CompletionIsTrue ==
  ~solved => \A s \in States : top[s] = COMPLETE => Cheapest(s) > kept[s]

\* The first query over a table returns a plan within the limit exactly when
\* there is one, whatever loops the search was cut short at, and best_plan/4
\* returns the cheapest.  Only a plan that costs all of the limit may escape
\* best_plan_bin/4.
FirstAnswerIsRight ==
  pc = "idle" /\ queries = 1 =>
    LET least == Cheapest(query.start)
    IN \/ answer = NoPlan /\ least > query.limit
       \/ answer = NoPlan /\ least = query.limit /\ query.how = "bin"
       \/ answer \in least .. query.limit /\ query.how /= "down"
       \/ answer = least /\ least <= query.limit

\* Every query ends.
SearchEnds == pc /= "idle" ~> pc = "idle"

\* What best_plan/4, best_plan_bin/4 and best_plan_bb/4 return is an optimal
\* plan, and within the limit.
BestPlanIsOptimal ==
  pc = "idle" /\ queries > 0 /\ query.how /= "plan" /\ answer /= NoPlan =>
    answer = Cheapest(query.start) /\ answer <= query.limit
=============================================================================

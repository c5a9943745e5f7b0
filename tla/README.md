# Picat in TLA+

A verification development for the Picat system: the B-Prolog abstract machine (TOAM) in C under
`src/emu`, the library modules in Picat under `src/lib`. It models the parts of the machine where
several computations share mutable state, checks them with TLC on small instances, and proves what
matters most with TLAPS.

1. [The system](#1-the-system)
2. [The modules](#2-the-modules)
3. [Linear tabling](#3-linear-tabling)
4. [Answer tables](#4-answer-tables)
5. [The planner](#5-the-planner)
6. [Agents](#6-agents)
7. [The dynamic database](#7-the-dynamic-database)
8. [Domains](#8-domains)
9. [Propagators](#9-propagators)
10. [Timers and the collector](#10-timers-and-the-collector)
11. [The runs](#11-the-runs)
12. [The proofs](#12-the-proofs)
13. [What the runs found](#13-what-the-runs-found)
14. [Not modelled](#14-not-modelled)
15. [Plan](#15-plan)

## 1. The system

Picat compiles programs to byte code for one abstract machine, which runs in one thread over four
data areas: the stack of frames (growing downwards, also the chain of choice points), the heap, the
trail, and the table area. Everything else hangs off that loop.

| Part | Source | State | Operations |
|---|---|---|---|
| Abstract machine | `emu_inst.h`, `toam.c`, `toam.h`, `bapi.h` | registers AR, B, H, T, SF; frames; `toam_signal_vec` | calls, backtracking, cuts (`ROLL_CHOICE_POINTS`), exceptions (`throw_ball`, `interrupt_handler`) |
| Linear tabling | `table.c`, `emu_inst.h` 8508-8870 | subgoal table: for each variant its answers, state bits, top frame, SCC root and elements | `table_allocate`, `table_produce`, `table_consume`, `table_check_completion`, `table_neck_no_reeval`, `initialize_table/0` |
| Answer tables | `table.c` 1105-1520 | answer list with first, last and count; hash chains | add, add the best, replace the worst, rehash |
| Planner | `lib/planner.pi`, `table.c`, `emu_inst.h` 8601-8620 | resource limits in tabled subgoals, explored depth, the best plan so far | deepening, binary search, branch and bound; reopening complete subgoals; throwing the plan |
| Events and timers | `event.c`, `event.h` | event pool, `toam_signal_vec`, `in_critical_region`, `gc_is_working` | timer threads post; the machine drains the pool at the next call |
| Agents | `delay.c`, `toam.c` 308-530, `term.h`, `toam.h` 552-696 | suspension frames and their status, trigger queue, chain of woken frames | suspend, post, wake, sleep, re-enter, exit |
| Garbage collection | `gcstack.c`, `gcheap.c`, `gcqueue.c`, `expand_bp.c` | mark bits, queue, water marks | mark, copy, relocate, grow the stack |
| Domains | `domain.c`, `clpfd.h`, `unify.c` | intervals, bit vectors, sizes | exclude, restrict, instantiate, unify, with events to agents |
| Propagators | `clpfd.c`, `clpfd_libs.c`, `emu_inst.h` | the agents of posted constraints | narrow domains to what a constraint allows |
| Dynamic database, findall | `assert.c`, `global.c`, `findall.c` | clause lists, hash tables, result areas | assert, retract, growth, nested findall |
| Terms, arithmetic, text | `unify.c`, `numbervars.c`, `arith.c`, `bigint.c`, `token.c`, `file.c` | none of their own | sequential algorithms |
| Solver interfaces | `sat_bp.c`, `kissat_picat.c`, `glpk_bp.c`, .. | a solver's instance | calls out |

How they meet: the tabling instructions are part of the machine and live with its cuts and
exceptions, which remove tabled frames without asking; timers are the only other threads, and they
write the signal vector and the event pool that the machine reads at every call; agents run at calls
too, woken through the trigger queue that domain updates fill, and backtracking undoes what was
trailed of both; the garbage collector moves the heap while timer threads must not touch it.

What is hard in it: evaluation that is *re-entrant* (a tabled subgoal calls itself while its table
grows), state that is half restored by backtracking, cuts and exceptions, and a check-then-act
handshake between timers and the collector. A test sees one program and one order; `PROJECT.json`
lists the hazards line by line with the properties that cover them.

## 2. The modules

| Module | What it is |
|---|---|
| `TabledProgram` | programs of tabled subgoals and their least models |
| `TabledEvaluation` | abstract specification: what tabled evaluation promises |
| `TabledEvaluation_proofs` | soundness and completeness of the abstract specification, proved |
| `LinearTabling` | the machine: choice-point stack, subgoal table, SCCs |
| `LinearTabling_proofs` | type correctness, soundness and the masters' frames, proved |
| `MCLinearTabling` | pools of small programs for TLC |
| `AnswerTable` | one subgoal's answers in every table mode |
| `AnswerTable_proofs` | all four safety properties of answer tables, proved |
| `MCAnswerTable` | answers, values and hash values for TLC |
| `Planner` | the tabled search for a plan and its drivers, over one table |
| `Planner_proofs` | well-formed frames and entries, the first answer, true failures, walks to a root, proved |
| `MCPlanner` | small planning problems for TLC |
| `Agents` | suspension frames, event queue, trigger handler, under backtracking and cuts |
| `Subsequences` | the elements of a sequence that are in a set, as a recursive function |
| `Subsequences_proofs` | what they are, by induction over the naturals and over sequences, proved |
| `Agents_proofs` | the active chain, the order of events, status words and wake-ups, proved |
| `MCAgents` | what the agents of an instance watch |
| `LogicalUpdates` | abstract specification: the logical update view of a dynamic predicate |
| `Database` | one dynamic predicate: records, chains, hash table, free lists, open calls |
| `MCDatabase` | the clauses that an instance asserts |
| `DomainSets` | abstract specification: domains as sets of integers, under backtracking |
| `Domains` | two domain variables in the heap: intervals, bit vectors, trail, events |
| `MCDomains` | the operations of an instance and who watches what |
| `Propagators` | linear constraints as agents that narrow domains and wake each other |
| `Propagators_proofs` | exactness of propagation and the watching of constraints, proved |
| `MCPropagators` | six small constraint programs |
| `TickQueue` | abstract specification: the pool of time-outs as a queue |
| `Timers` | timer threads, the pool, the signal word, the collector's flags |
| `Timers_proofs` | mutual exclusion, the signal word and the queue, proved |

Four detailed modules implement an abstract one, each checked as the property `Refines` (in
`Domains`, `RefinesSets`): `LinearTabling` implements `TabledEvaluation`, `Database` implements
`LogicalUpdates`, `Domains` implements `DomainSets`, `Timers` implements `TickQueue`. The modules
open up each other's abstractions: `LinearTabling` keeps the answers of a subgoal as a sequence
without a mode, and `AnswerTable` has its records, chains and cursors; `Propagators` composes what
`Agents` says of events and wake-ups with what `Domains` says of operations on sets, now with the
bodies that the code runs and without the representation or backtracking.

## 3. Linear tabling

A tabled subgoal is called once as a *pioneer*, which runs its clauses, and as often as it is called
meanwhile as a *follower*, which consumes the answers that exist and fails. Subgoals that call each
other in a circle form an SCC; its oldest pioneer is the root and repeats the clauses of the SCC
until no answer is new. No suspension, no copying: but who is root is only found out while the
clauses run, is stored in four words per entry, and is compared by frame address.

**Data.** A program (`TabledProgram`) is given by clauses with bodies of tabled goals and an
operator `HeadOf` that makes an answer of the answers taken; untabled code between tabled calls is
inside `HeadOf`, which may also fail (`NoAnswer`). A clause without a tabled call has `neck` set:
the compiler starts it with `table_neck_no_reeval`. The byte code is external to the model, and the
program is a constant of the proofs.

**State.**

| Variable | Code |
|---|---|
| `answers[s]` | the list of `GT_ANSWER_TABLE`, in the order of `ANSWER_NEXT_IN_TABLE` |
| `top[s]` | `GT_TOP_AR`: `NULL`, `COMPLETE`, `TEMP_COMPLETE` or a frame, numbered from the oldest |
| `bits[s]` | `GT_STATE` |
| `root[s]`, `elms[s]` | `GT_SCC_ROOT`, `GT_SCC_ELMS` |
| `stack` | the tabled frames of the chain B, AR_B(B), ..: the goal, the clause that called it and what that clause had so far (`from`), the alternative clause in `AR_CPF` (`alt`), `AR_CURR_ANSWER` (`curr`) |
| `here`, `pc` | the running clause; whether the machine runs forward or backtracks |

A frame's index grows where the address falls, so `x > y` of the code is `Higher(x, y)`; `NULL` and
the two flags are small numbers and below every frame in both.

**Actions.** One per instruction, with all it calls: `table_allocate` (four branches of
`GT_TOP_AR`), `table_produce`, `table_consume` with the three ways its caller may cut
(`RETURN_NONDET` or, on the last answer of a complete table, `CUT`; `once/1` through `putbreg_y`;
`table_cut` of a committing rule), `table_consume_fail` with `CALL_PROPAGATE_SCC_ROOT`,
`table_check_completion`, `TryClause` (backtracking into the next clause, with
`table_neck_no_reeval`), `Throw` (`throw_ball` or `interrupt_handler` up to the query's catcher,
with `RESET_SUBGOAL_AR` for each frame), `c_INITIALIZE_TABLE` between queries, and the query itself.
The loops of `table.c` that walk SCC lists recursively are the sets they mark (`Walk`), and the loop
of `CALL_PROPAGATE_SCC_ROOT` over roots that are themselves temporarily complete is `RootChain`: a
cycle of those leaves `LiveRoots` empty, and the machine stuck, as the code would be.

**Properties.** `Sound` and `QueryAnswered` compare with the program's least model, which the
instance computes independently; `QueryAnswered` includes `FixpointReached`, that complete tables
are whole, and `NothingPending`, that a query leaves no entry half done for the next.
`SetAsideIsFollowed` (which is `TempHasLiveRoot` and `FreedCellsUnread`), `RootWalkEnds` and
`MasterIsOnStack` are what the words of the entries must satisfy for the pointer comparisons and
walks to mean anything. `CompleteIsFinal`: answers are taken from complete tables only, and these
never change. `Refines` says the machine does abstract tabled evaluation: it derives only
consequences, and it completes a set of subgoals only when, with the tables of the others as they
could still become, nothing can be added.

## 4. Answer tables

`AnswerTable` follows one subgoal through its rounds with the full data structure: an only answer is
a bare record; the second one makes the hash table; the list is sorted when an argument is declared
`min` or `max`; a table at its cardinality limit overwrites the record of its worst answer, after it
has left its hash chain, and moves it forward. Followers hold a pointer (`curr`) to the record they
return next. `memory` is FALSE when `malloc` has no memory for a larger hash table, which then stays
as it is.

`MissedMeansRevised` is why mode-directed tabling is still complete for its followers: whenever an
answer in the table is neither ahead of a follower nor behind it, the revised bit is set and another
round will call the clause again. `BestAreKept` is the function's own postcondition (the comment
before `addTableOptimalAnswer`), over the whole history of answers (`produced` is a history
variable). `WellFormed` takes in `ListIsWhole` and `ChainsFindAll`, the two indexes over the
records, and `SortedSet`.

Values and hash values are parameters. The code computes the hash value of an answer in two places
(while it is copied, and from the record when it is removed or rehashed); the model has one `Hash`.

## 5. The planner

The planner searches with a tabled predicate of its own, `'_$plan'(S, Iplan)`, which is byte code
(words 113342 to 113571 of `bc_insts` in `emu/picat_bc.h`; the modules of section 3 see only byte
code of programs, this piece is fixed and is modelled). S is tabled, Iplan is not: it holds the
resources that are left, and the entry of S keeps the most it was ever called with. A call with no
more than that fails at once, a call with more runs the clauses again (`check_plan_resource_limit`).
No answer is ever added: a plan leaves the search as an exception. The drivers of `lib/planner.pi`
call the search again and again with other limits: `best_plan` deepens by the least depth at which
the last search was cut short, `best_plan_bin` doubles and then halves, `best_plan_bb` starts with
the largest limit and asks for less than the last plan cost.

| Variable | Code |
|---|---|
| `top[s]`, `root[s]`, `elms[s]` | as in section 3, one entry for each state; `GT_STATE` plays no part, since nothing is ever revised |
| `kept[s]` | the last argument of the entry, where `table_allocate` stores the limit |
| `stack` | the frames of `'_$plan'`, nested calls: state, resources left, cost so far, and which clause or action comes next |
| `call`, `pc` | the next call; whether a call, a frame or the driver is to go on |
| `explored` | `_$planner_explored_depth` |
| `query`, `bounds`, `found` | the program's query, the arguments of the driver's loop, what the last search ended with |
| `best`, `lower` | `current_best_plan_cost` and `current_lower_bound` in the table map `_$planner` |
| `problem` | the program: final states, actions in their order, heuristic; and the cost of the cheapest plan of each state, computed by the instance |
| `queries`, `solved` | history of this table: how many queries, and whether a plan was thrown |

`table_allocate` has three branches (`FirstCall`, `Reopen`, `FailAgain`), `RunClause` the clauses of
`'_$plan'` (`CheckHeuristic`, `TryAction`), `ThrowPlan` the final state with the unwinding,
`table_check_completion` the end of the clauses. Each driver is one action for each turn of its
loop. Plans are represented by their costs.

A state under evaluation is closed to the search below it, an entry may be reopened in the middle of
the SCC it was set aside in, and a bound that jumps may jump too far. `CompletionIsTrue` says that
the table still tells the truth in the middle of a search: a complete entry has no plan within the
limit it keeps. `FailureIsTrue` says it between queries, of all entries, also those that are only
set aside, on which later searches over the same table rest. Both hold until a plan is thrown.
`FirstAnswerIsRight` is what a query over a fresh table returns: a plan exactly when there is one
within the limit, for `best_plan` the cheapest. `SearchEnds` is that every query ends. `WellFormed`
includes what the C code relies on when it compares frames and walks to roots: `FramesAreLive`,
`FramesAreKnown`, and `RootWalkEnds`, which is true until a plan is thrown; after that a walk can go
round for ever (section 13). `BestPlanIsOptimal`, for all drivers and every query, is what the guide
promises, and fails (section 13).

## 6. Agents

An agent is a call whose suspension frame stays on the stack after its return. It is attached to
ports of variables, and an event on a port wakes it: its frame goes on top of the *active chain*
(`AR_AR`), its rules are tried from the re-entry point, and it either sleeps again (`return_delay`)
or has taken a normal rule and is dead (`end_delay`). All that is encoded in one status word, whose
upper bits are a stamp: the choice point for which its old value was last trailed.

**State.**

| Variable | Code |
|---|---|
| `at[f]` | the address of f's frame; the stack grows with the number here |
| `status[f]` | `AR_STATUS`: tag and stamp |
| `list[c, p]` | `DV_ins_cs`, `DV_minmax_cs`, `DV_dom_cs`, `DV_outer_dom_cs` |
| `trail`, `choices` | the trail, without the variables of the program; the choice points, with the chain they go back to |
| `chain` | AR, AR_AR(AR), ..: the activations, and for each whether it is at its head, in an action rule's body or in a normal rule's body |
| `queue`, `triggering` | `triggeredCs`, `event_flag`, `event_object` up to `trigger_no`; `triggering_frame`, which is not cleared |
| `cursor` | the loop variables of `trigger_on_handler` |
| `owed`, `gone` | history: wake-ups that events still owe to agents, agents a normal rule was applied to; both go back with a choice point |

**Actions.** Posting is one action per `INSERT_TRIGGER` macro: `PostVarIns` leaves the entry of
`triggering_frame[]` as an earlier queue left it, `PostDvarIns` clears it, `PostMinmax` clears it or
names the running frame. `Call`, `ReturnDelay` and
`ReturnCommit` are the places of `CATCH_WAKE_EVENT`; the handler then takes one frame per step
(`Connect`, with the three `CONNECT_WOKEN_FRAME` macros), so that every mix of kinds in one queue
occurs. `Choice`, `Cut` and `Fail` are the machine's, `Fail` with the trail. Where inline code runs,
the program may take any step: which rule applies, what is posted and when a choice point is made
are free. A C propagator's `KILL_SUSP_FRAME` is `Kill`.

A program (`Programs`, in an instance of `MCAgents`) says what the agents watch, which kinds of
event are posted and whether choice points are cut. `WellFormed` (with `OnChainOnce`) and
`InPostingOrder` hold for all of them. What action rules promise holds for the programs they were
made for: `NothingLost` is `NoLostIns` where nothing is cut, `NoLostBoundOfDvars` for propagators
whose variables are bound and not unified (`BoundsOnly`), and `NoLostTermOfChannels` for agents that
take terms (`TermsOnly`): a wake-up that is owed is on its way whenever the handler has finished.
`Uncloned` programs cut nothing and post no terms, so that no frame is ever cloned. `StatusIsTrue`,
which the status word must satisfy for the machine to be right at all, is of this kind too: a frame
marked as running is on the chain, where nothing is cut (`UncutRunnersOnChain`), and an agent that
is gone is dead, where no frame is cloned (`VanishedIsDead`). In mixed company they fail; section 13
has the shortest ways. `NoLostBound` leaves out bound events posted while the agent is in its own
body: the macro drops those (`toam.h` 647), though the guide promises an activation for every change
(`doc/ar.tex` 47).

## 7. The dynamic database

A predicate that is asserted to keeps its clauses as records with a birth and a death stamp. Each
record is in one chain of all clauses and in the bucket of its first argument, or in every bucket
when that argument is a variable. `clause/2` and `retract/1` are nondeterministic: an open call
holds the *next* list cell it will answer with, found when the last answer was given. While calls
are open, retracting stamps the record; when the retracting call is the only one, it unlinks and
frees it at once.

| Variable | Code (`assert.c`) |
|---|---|
| `pred` | `InterpretedPred` and all it points to: `ref_count`, `retr_count`, `cl_count`, `time_stamp`, the heads and tails of the buckets and of the last chain (index `size`), list cells, records, and the two free lists |
| `etype` | `GET_ETYPE` of the symbol: abolished or dynamic |
| `calls` | the choice points of the calls that have answers left, oldest first |
| `inputs`, `asserted` | the clauses that the program adds, in turn, and at which end |

`AddClause` is `b_ASSERTA_cc`/`b_ASSERTZ_cc` with the growth of the table; `Call` and `Retry` find
the answer and the next one (`filter_clauses`), and `Retry` of a retract removes (`b_REMOVE_CLAUSE`,
with `locate_and_free_clause_record` and the three cases of `disconnect_cell_of_removed_clause`);
`Cut` counts the calls out that a cut or an exception takes away; `Abolish` is `b_ABOLISH_cc`.
`wild` would record a write through the symbol `nil`, which the third case of disconnecting makes
when it takes out a cell without a successor that is not the tail.

`Refines` says what programs rely on: each call answers with the clauses of the moment of the call.
It is about order as well, also after cells and records were used again. `WellFormed` has the
agreement of the chains with each other and with `cl_count`; `FreedIsUnreachable` is that nothing
freed can be walked to, by the predicate or by an open call; `CountsAreOpenCalls` is the condition
under which freeing is safe. Two constants keep out what breaks them, each a fact of the code:
`GrowUnderKeyed` (section 13) and `AbolishUnderRetract`: an abolished predicate loses its last
chain, and the retract that is still open removes a clause that no chain holds.

## 8. Domains

`Domains` is the representation and its operations on two variables. A domain variable is a heap
object with `first`, `last`, `size`, a `type`, a value or a reference, and lists of agents per port.
The type is an interval or the address of a bit vector, which it gets with its first hole. Taking
out values at the ends only moves `first` or `last`: the bits outside stay behind, so every reader
must look between the bounds. A word of the heap is trailed when it is older than the latest choice
point, a word of a bit vector one by one.

| Variable | Code |
|---|---|
| `store.heap` | variables (`DV_var`, `DV_type`, `DV_first`, `DV_last`, `DV_size` and which ports have agents) and bit vectors (`BV_low`, `BV_up`, and the values whose bit is 1) |
| `store.trail`, `store.hb` | the trail and HB |
| `store.cell` | the program's variables |
| `store.events` | what `INSERT_TRIGGER_*` has put in the queue since the operation began |
| `choices` | choice points, with the sets to compare with when backtracking returns to them |
| `op`, `before`, `count` | the operation whose events are not handled yet, and the state before it |

An operation runs to its end without a step of another: `Execute` is one built-in, `Perform` chooses
it, and every function of `domain.c` below it is an operator of the same name. `MayCall` is
external: what the byte code and the library make sure of before they call. `Choice`, `Cut` and
`Fail` are the machine's.

`RefinesSets`: whatever path led to the representation (interval or bits, aliased, unified,
trailed), it stands for the set that the operations say, and failing brings back the old set.
`WellFormed` is why the other functions can trust `first`, `last` and `size`; its part
`QueriesAgree` compares counting, neighbours, disjointness and inclusion with the sets, for mixed
representations as well. `AgentsTold` is about the events: a value that went is told once to those
who watch (`ToldOnce`), bounds that moved are told (`BoundsTold`), and so is a binding (`InsTold`).
`HolesByUnify` keeps out one case of section 13.

## 9. Propagators

`Propagators` runs the bodies. `PostConstraint` posts the next constraint of a program; the code
chooses its propagator by the number of unbound variables and the coefficients (`CONSTR_COES_TYPE`):
an n-ary equation or inequality, three kinds for booleans, and for two variables four agents and a
support step (`BinaryEquation`). A domain is a set with a flag for the bit vector: `Domains` is
about the representation, and the operations that the bodies use are there as operations on sets
with the events they post (`Region`, `Exclude`, `ASSIGN_DVAR`). `Connect` is the handler of `Agents`
without backtracking: it takes a whole queue in one step, for with no other computation between, the
steps of `Agents` cannot be told apart.

`ExactlySolutions` compares with brute force: no agent takes a value out that a solution needs,
failing means that there was none, and an assignment that is complete and at rest is one. That is
not local to a body: agents hold bounds read before other agents moved them, drop their own events,
kill themselves when they think they are entailed, and a full queue ignores dom events. An event
that is written past the arrays where that matters ends the run (`Post`, state "overrun"), and
`TypeOK` says where the other events are; that this never happens is `EventsFit`, which fails
(section 13).
The other direction is that nothing is left undone: at rest no constraint that may still fail is
without an agent asleep on each of its free variables (`Watched`), and no live agent could still
narrow anything (`Fixpoint`), although events may be passed over because of a stale
`triggering_frame`. The exception in `Fixpoint` is the n-ary equation, which does not hear of its
own changes and is not idempotent. `Settles` is that waking each other ends.

A constraint names a variable once, as the compiled ones do: `nary_interval_consistent_eq` and
`call_binary_constr_eq` count terms, not variables.

## 10. Timers and the collector

A timer (`time_out/3`, `doc/sys.tex` 146; the timer module that the guide has commented out,
`doc/ar.tex` 167) is a thread that sleeps, takes the mutex, waits until the collector rests,
declares a critical region, looks its timer up in a list on the *heap*, and adds a time-out to the
pool. The machine looks at `toam_signal_vec` when it makes a call, and takes the pool then.

| Variable | Code |
|---|---|
| `event_pool`, `event_count` | the pool (`event.c`) |
| `mutex` | `csCriticalSection`, and who holds it |
| `toam_signal_vec`, `in_critical_region`, `gc_is_working` | words that machine and threads write |
| `trail` | the list of sources and the timers' status as backtracking sees them: what was registered and killed, in order |
| `triggers` | the machine's own event queue: timers, or `AGENT` |
| `machine`, `thread` | where each is, and the value that it has read and not yet written back |
| `handling` | an exception closes the region |

The mutex covers the pool and registering; the three words are changed without it, by machine and
threads, so that reading and writing back are separate steps (`Reads`/`TriggerOn`/`Clear`,
`Count`/`Signal`), and so are the collector's test and its flag. `WellFormed` includes mutual
exclusion, which the slot that is filled before it is counted relies on. `EventsSignalled`: between
two calls the word is not zero while an event waits. `TicksServed`: a lost bit is repaired by the
next time-out, unless the pool is full. `MachineGetsMutex`: the machine is not locked out by a
thread that waits for the collector. `Refines`: time-outs are taken in their order, once, and never
for a timer that is no longer registered.

## 11. The runs

Bounds are constants named in the modules: `MaxQueries`, `MaxThrows`, `MaxFrames`, `MaxAnswer`,
`MaxCalls`, `MaxAddr`, `MaxPosts`, `MaxAsserts`, `MaxOpen`, `Lo`, `Hi`, `MaxChoices`, `MaxOps`,
`MaxExcludes`, `MaxTimers`. `Unlimited` stands for 268435455. `MaxTriggers` is the code's
`MAXTRIGGERS`, `PoolSize` its `EVENT_POOL_SIZE`. `triggeredCs` and the other arrays of events have
`MaxTriggers` words each, numbered from 0, and word 0 is not used, so that `MaxTriggers - 1` events
fit; the code takes one more and writes it one past the arrays. What lies there is the build's
choice: `Spare` names the kinds of event (in `Propagators` the ports) that hit nothing there. In the
instances these are kinds that leave `triggering_frame` alone.

| Run | Instance | Shows |
|---|---|---|
| `tabling_programs` | all programs of three subgoals, two clauses each, from a pool of up to three each; four subgoals in a chain, with a back edge from each; answers 0..2; two queries, for all answers or one, with `initialize_table/0` between; fairness | `TypeOK`, `QueryAnswered`, `SetAsideIsFollowed`, `Terminates`, `CompleteIsFinal`, `Refines` |
| `tabling_cuts` | every body goal inside `once/1` or a condition; one exception anywhere; a second query | `Sound`, `MasterIsOnStack`, `RootWalkEnds` |
| `answer_tables` | five answers, two of them equally good, three hash classes, all ten modes with limits up to 3, a hash table of 2 that grows at the second or third answer, two followers; fairness | `WellFormed`, `BestAreKept`, `MissedMeansRevised`, `PioneerReturnsAll`, `Completes` |
| `planner` | five states, 54 programs of up to two actions in each with loops, detours and free actions, with and without a heuristic that is admissible but not consistent; two queries of `plan`, `best_plan`, `best_plan_bin` (limit 3 or 9) or `best_plan_bb` (limit 9) from two states, with `initialize_table/0` between; fairness | `WellFormed`, `FailureIsTrue`, `CompletionIsTrue`, `FirstAnswerIsRight`, `SearchEnds` |
| `planner_best` | one query of `best_plan_bin` or `best_plan_bb` | `BestPlanIsOptimal` fails, see section 13 |
| `agents` | two agents, two channels, three addresses, arrays of 3 for the events, three posts, or four; six programs: values that go one by one until the queue is full, propagators with a common variable, one that an earlier queue has named, agents that take terms, agents for both, all kinds of event with cuts | `WellFormed`, `StatusIsTrue`, `NothingLost`, `InPostingOrder` |
| `database` | every three clauses over two keys and the variable, added at either end, and one program of four; a hash table of 1 that grows, or has no memory to; two calls open | `WellFormed`, `FreedIsUnreachable`, `CountsAreOpenCalls`, `Refines` |
| `database_grow` | three clauses, growth while a bucket is walked | `LogicalView` fails, see section 13 |
| `domains` | values -1..3, words of two bits, 21 operations, four in a row, two choice points, three ways in which agents watch the two variables | `WellFormed`, `AgentsTold`, `RefinesSets` |
| `propagators` | six programs of two to four constraints over three or four variables, any labelling, two values taken out by the program, arrays of 6 for the events; fairness | `TypeOK`, `ExactlySolutions`, `Watched`, `Fixpoint`, `Settles` |
| `timers` | two timers, a pool of 2; fairness | `WellFormed`, `EventsSignalled`, `TicksServed`, `MachineGetsMutex`, `Refines` |
| `timers_region` | the same | `CollectorAlone` fails, see section 13 |

**Why the bounds are enough.** Three subgoals make every shape of two overlapping SCCs, and four a
chain of nested SCCs whose roots are merged twice; sums capped at `MaxAnswer` force at least three
rounds. `MaxFrames` is never reached without cuts (a stuck state would be a deadlock, and those runs
check for it). With cuts a subgoal forgets its frame and recursion can go on for ever, as it does in
the machine; there, and in `AnswerTable`, which ends in `done`, deadlock is not checked. Five states
give a start, a goal and a loop of three with ways out at different costs, so that a state fails
below another, is reopened inside its SCC and reached by two ways; two queries meet the table that
the first one left. Two agents and three addresses allow an agent below and above a choice point and
a second choice point where one was cut; three posts fill a queue of two (or of three, when the last
is of a kind in `Spare`) and leave one for the body of a woken agent, and two events of one queue
meet one agent in every state; the fourth is needed for an agent to be named by one queue and to be
passed over by the next. In the database three clauses of one bucket give each case of disconnecting
a cell (first, last, inner, only one), the fourth uses freed cells again, and two open calls are a
clause and a retract in either order. Five values in words of two bits make a domain span three
words with a negative low end; four operations create both variables and leave two more, one of them
across a choice point. In `propagators`, `Multiples` takes more values out than the queue holds, so
that dom events are ignored, and the state "overrun" is reached. Two threads and the machine are
three parties of one mutex; a pool of two is filled by two time-outs. A program of agents, a
database, a domain store and a constraint program end where their bounds end or where there is
nothing to backtrack to, so deadlock is not checked there. In `timers` it is.

**Fairness.** `FairSpec` of `LinearTabling` is weak fairness of `Evaluate`: the emulator's loop
always runs the next instruction, and there is only one. Queries, exceptions and
`initialize_table/0` are the program's choice and are not fair. `FairSpec` of `AnswerTable` is fair
to consuming and to the end of a round: it assumes that the clauses of a round end, which
`LinearTabling` shows for programs of tabled calls, and not that a clause ever gives an answer.
`FairSpec` of `Planner` is again the emulator's loop, `Search \/ Driver`.
`FairSpec` of `Propagators` is weak fairness of `Propagate` (the machine runs on while something is
pending), written out as its definition because TLC's ENABLED would evaluate the bodies over and
over. `FairSpec` of `Timers`: the machine finishes what it has begun (weak fairness of `Continue`);
a call comes again and again, and is not for ever in the moment between a read and a write of the
word (strong fairness of `CatchWakeEvent`, with `EnterPool` and `Register`, which need the mutex); a
thread that wants the mutex when it is free again and again gets it, since the others sleep for an
interval between two uses (strong fairness of each `timerThread`). Exceptions, collections, failing,
creating and killing timers are not fair.

Every property of a passing run has a mutant in `PROJECT.json`, a plausible slip in the code that
breaks it; `LeaveToItself`, for instance, is the code before "bug fixed on Sep. 16, 2015"
(`emu_inst.h` 8834). The mutated operators stand next to the originals in the modules and nothing
else uses them.

## 12. The proofs

All are for every value of the constants that satisfies the module's assumption: for tabling,
`TabledProgramAssumption` (the model of each program is its least model) and `BoundsAssumption`; for
answer tables, `AnswerTableAssumption` (values are integers, hash values naturals, a hash table has
a bucket, and a predicate with an argument to optimize has a limit); for the planner,
`BoundsAssumption` (problems and queries are problems and queries; `IsCheapest`: the cheapest costs
that a problem carries are what they say, and its heuristic is admissible, as `doc/planner.tex` 28
asks for); for agents, `AgentsAssumption` (programs are programs, bounds are bounds, and no frame
has the name of the lists' cell on the trail); for propagators, `PropagatorsAssumption` (domains are
finite and not yet bound, coefficients are not 0, and no constraint has a variable twice); for
timers, `TimersAssumption` (sizes are sizes, and machine and nobody are not timers).

For agents and propagators the arrays of events have any size, and `Spare` is any set, the empty one
included, with which no event past the arrays is harmless.

| Module | Theorem | What for every value of the constants |
|---|---|---|
| `TabledEvaluation_proofs` | `Soundness`, `Completeness` | what the abstract specification promises |
| `LinearTabling_proofs` | `TypeCorrect`, `Soundness`, `MastersStay` | `TypeOK`, `Sound`, `MasterIsOnStack` |
| `AnswerTable_proofs` | `TablesAreWellFormed`, `TheBestAreKept`, `MissedAnswersAreTriedAgain`, `ThePioneerReturnsAll` | `WellFormed`, `BestAreKept`, `MissedMeansRevised`, `PioneerReturnsAll` |
| `Planner_proofs` | `PlannerIsWellFormed`, `FirstAnswersAreRight`, `FailuresAreTrue`, `MastersStay`, `FramesStayKnown`, `RootWalksEnd` | `WellFormed`, `FirstAnswerIsRight`, `FailureIsTrue`, `FramesAreLive`, `FramesAreKnown`, `RootWalkEnds` |
| `Agents_proofs` | `AgentsAreWellFormed`, `EventsInPostingOrder`, `StatusWordsAreTrue`, `NothingIsLost` | `WellFormed`, `InPostingOrder`, `StatusIsTrue`, `NothingLost` |
| `Propagators_proofs` | `TypeCorrect`, `DomainsAreExact`, `ConstraintsAreWatched` | `TypeOK`, `ExactlySolutions`, `Watched` |
| `Timers_proofs` | `MutualExclusion`, `NoSilentEvent`, `ThePoolIsAQueue` | `WellFormed`, `EventsSignalled`, `Refines` |

**`TabledEvaluation_proofs`.** `Completeness`, `Spec => []CompleteIsLeast`: completing a set S is
judged only against the tables of the moment, closed under what the incomplete subgoals outside S
could become at most. The invariant says that the union of the complete tables with anything above
is closed; with the least model below them they can only be equal to it.

**`LinearTabling_proofs`.** The inductive invariant is

    IInv == TypeInv /\ PlaceInv /\ CursorInv /\ Sound /\ MasterInv

`Sound` is not inductive alone: an answer is produced from the answers that the running clause has
taken, so `PlaceInv` says that what every suspended clause on the stack and the running one have
taken are answers of the goals they called, by a clause of a frame below them. `CursorInv` keeps the
cursors of frames within the tables, also when `initialize_table/0` empties them. `MasterInv`
strengthens `MasterIsOnStack` by: a frame that only consumes is nobody's top frame, so that dropping
it leaves no pointer behind. Each action has its lemma; `SoundAfterProduce` is the only place where
the program's model is used.

**`Timers_proofs`.** `MutualExclusion`, `Spec => []WellFormed`, and `NoSilentEvent`, `Spec =>
[]EventsSignalled`, for any number of timers and any pool. The inductive invariant is

    IInv == PlaceInv /\ FreshInv /\ FlagInv /\ MutexInv /\ PoolInv /\ SignalInv

Both properties need it. That slots below `event_count` are whole is lost if a thread counts a slot
that another has filled, or fills one past the end: `PoolInv` says that a thread about to count has
exactly one filled slot beyond the count and room for it, which another thread cannot disturb by
`MutexInv`. `FreshInv` keeps creating a timer from overwriting a thread that runs. `EventsSignalled`
is threatened by words that were read earlier: `SignalInv` says that the machine only clears
TRIGGER_ON when the queue is empty, and that a thread can only write back a word with a bit in it,
whatever else was written meanwhile.

`ThePoolIsAQueue`, `Spec => Refines`, goes step by step. What waits is the pool up to `event_count`,
what was handed over is `triggers` without the machine's own events, and who is known is read off
the trail. Then `Count` is the queue's `Add` (`QueueAdds`: by `PoolInv` the slot beyond the count
holds the time-out and nothing else changes in front of it; filling that slot is a stutter),
`post_event_pool` is `Take`, `Handle` is `Handle`, and every other step leaves the pool and what was
handed over, and at most changes who is registered. The machine may fail and clear its event queue:
that loses no time-out because of `TriggersInv`, time-outs are in `triggers` only while the machine
is about to handle them. `QueueTakes` needs the laws of `Kept` for two sequences in a row and for a
sequence that is all in the set or all outside (`KeptConcat`, `KeptAll`, `KeptNone`).

**`Planner_proofs`.** `MastersStay`, `Spec => []FramesAreLive`: `GT_TOP_AR` of a state under
evaluation is a frame of that state on the stack, for all problems, queries and limits, however
plans were thrown and entries reopened. With the types it is inductive. The interesting steps are
`ThrowKeeps` (every entry that still points to a frame belongs to a frame that is unwound, so none
is left) and `CompletionKeeps` (the frame that leaves is either the root's, and `Members` has its
state, or its entry is set aside: the check of `emu_inst.h` 8834 that was a bug fix in 2015 is what
could have kept it).

`FirstAnswersAreRight`, `Spec => []FirstAnswerIsRight`, is for any set of states, loops, actions
that cost nothing, a heuristic that is admissible and need not be consistent, each driver and every
limit. The inductive invariant is `FirstInv`. Its parts speak of the cheapest way to a state, which
costs no less than `Gap(s)`, what the cheapest plan saves by starting from s.

* `Wired`: until a plan is thrown frames and entries point to each other, a live root is not above
  its state, and the members that a frame leads to have no frame below it (so completing them takes
  no entry from a frame).
* `Paths`, `Outcomes`: no frame, call or plan is cheaper than possible, what a frame has and what
  was spent on the way are within the limit, and how the driver learns of a plan.
* `Tracks`, what a search that fails leaves behind: limits fall along the stack (`Falling`), and
  what a frame has tried, and what an entry that failed has tried altogether, was called with what
  was left for it or was too dear (`AllTried`, `AllFailed`).
* `Failing`, which adds to `Tracks` what only the first query knows: limit and cost of a frame add
  up to the driver's level (`Limits`); no entry was called with more than its gap leaves, and before
  a search begins all were called with less (`Spent`, `Started`); what was too dear was noted in
  `explored` (`AllExplored`).

That an entry has failed does *not* mean by itself that it has no plan: it may have failed because a
state under evaluation was closed to it. So the argument is about all entries at once, when the
search is over and none is under evaluation. `FailedIsTooDear`: suppose that the limit that some
entry keeps suffices for a plan, and let B be all entries of which that is true. Each has called the
next state of each plan it could pay for with what was left, so that a cheapest plan never leaves B,
which `IsCheapest` excludes because it would go round for ever. `NoCheapPlan` says so of the start.
`NoBoundSkipped`: let B be the entries that were called with all that the cheapest way to them
leaves. Following the cheapest plan from the start must leave B, and where it does an action was too
dear or the heuristic said so; the depth noted there is no more than the cheapest plan costs, so the
next bound skips nothing and is higher than the last. The lemmas of the drivers (`PlanAnswers`,
`DownwardAnswers`, `BranchAnswers`, `DoublingAnswers`, `HalveAnswers`) use nothing else.

`FailuresAreTrue`, `Spec => []FailureIsTrue`, is for every number of queries over one table, with
any drivers: `TruthInv` keeps `Tracks` from one query to the next until a plan is thrown, whatever
an interrupted driver left in `explored`, and between queries no entry is under evaluation, so that
`FailedIsTooDear` applies to all of them.

`FramesStayKnown` and `RootWalksEnd` follow from `Wired` and from `NoCircle`: no set of
entries that are set aside has all its roots within itself. A call that fails changes only the
root of its caller, which is under evaluation, and a reopened entry is no longer set aside. The
premise of `RootWalkEnds`, that no plan was thrown, came out of an attempt to prove it without: the
states that thrown plans leave with each other as roots make a walk without end (section 13).

`PlannerIsWellFormed`, `Spec => []WellFormed`, also after thrown plans, adds the types. They are not
inductive alone: a limit is a sum and a difference of what queries, frames and the map of best plans
hold. `Ranges` has them together; its part `Affordable` says that the limit and the cost of a frame
add up to no more than `Unlimited`, and that a limit is -1 only where nothing was spent. It cannot
say the limit of the query, because a driver may halve from a best plan that an earlier query with a
larger limit stored. The theorem shows that the limit -1 of `best_plan_bb` (section 13) does no harm
to the tables.

**`Subsequences_proofs`.** The library's induction theorems take an operator as a parameter, which
the provers cannot instantiate. Three lemmas say the same with sets: `LeastNatural` (a set of
naturals has a least element), `NaturalsFrom` and `SequencesFrom` (a set that has 0 and with n also
n + 1 has all naturals; one that has the empty sequence and is closed under `Append` has all
sequences). With them a recursive function is shown to exist and to be what its equation says
(`KeptFcnRec`), and `KeptFacts` states what the other modules use: the elements of `Kept(s, K)` are
those of s in K, in their order.

**`AnswerTable_proofs`.** All safety properties of answer tables, for any set of answers with any
order and hash function, any limit and any number of followers. The list of a table t is the
sequence M of all its records with `Whole(t, M)`: the links lead from `first` through M to `last`
and to NULL, and M is sorted without an answer twice. `Indexed` says that the chains have each
record where its answer belongs, `Limited` that there are no more records than allowed, and

    Ordered(t) == (\E M : Whole(t, M)) /\ Indexed(t) /\ Limited(t)

is the inductive invariant but for types (`Core`). `ExtendedIs` is the lemma about `table.c`: an
answer that comes to an ordered table leaves an ordered table, and it `Rejects` (nothing visible
changes; the answer is there, or the limit is reached and nothing kept is worse), `Grows` (a record
more) or `Improves` (the answer takes the record of one that no other is worse than). Below it each
function has a lemma. Insertion and reposition are one argument: a list F that lacks the record n
(`Ready`), the links set as for place i (`LinkedAt`), and n better than the i-th and no better than
those before (`FitsAt`), give a whole list (`PlacedWhole`); for the first place, a middle one, the
last one and the tail that stays, the C code's assignments are shown to be `LinkedAt`.
`ReplacedIndexed` is where the order of `removeAnswerFromAnswerTable` and `copyTabledAnswerArgs`
matters. `ListFound` shows that a walk along the links of a whole list is M, by induction over the
steps of the walk. Growing needs `bp_hsize` to return: `SizePasses` shows that there is always a
number to be found below the end of its search, by a list of them up to 3 * 10^11 and beyond that by
the product of the divisors it tries. The four theorems then look only at the three outcomes:
`BestAreKept` is inductive with `Core`; for `MissedMeansRevised`, a step of the table that leaves
the bit clear rejects, and then no list changes; `PioneerStands` says which answer the pioneer has
come to, which in the round is the front, because `table_produce` resets its pointer.

**`Agents_proofs`.** The inductive invariant for all programs, cuts or not, is

    Core == Types /\ OnChainOnce /\ Placed /\ EventsFirst /\ ListsNow /\ Saved

`OnChainOnce` speaks of the present, but `Fail` restores words and chain separately, the words only
where they were trailed. `Saved` says for each choice point what `Fail` would find: that its chain
is the lower part of the present one (`ChainsKept`), that a frame on it is older and has no word on
the trail above it, which would undo it (`TrailIsOld`, `Stacked`), and that the lists it would
restore name frames that are still there (`ListsSaved`). `BackOther`, `BackSame` and `BackUndo` are
the trail's laws. `EventsFirst` and `ListsNow` keep the handler from taking one frame twice from one
list. For `InPostingOrder`, `InOrder` adds where the handler stands: what it has connected from the
present queue has an event no later than the one it is at.

Where nothing is cut, the second half of the module has

    Uncut == Cloneless /\ (~program.cuts => Trailed /\ Truth)

`Trailed` is why stamps are enough: a frame that went onto the chain since a choice point has a word
on the trail above it, because a stamp equal to the choice point's says that it was trailed already,
and no stamp is higher than the latest choice point. A cut breaks exactly this part. `Truth` says of
the present words, and of the words that each choice point would restore, that they tell the truth
about their chain. `Care` is the invariant for `NothingLost`: every debt that counts is `Served`, by
the queue (`Visits`: the handler has yet to walk a list that has the agent, and no triggering frame
excludes it) or by an activation (`Answers`: at its head, marked for re-entry, or a clone with that
very event), now and for each choice point (`WasServed`).

**`Propagators_proofs`.** For all programs of linear constraints over any finite domains, any queue
and any number of values taken out. Of the queue `TypeCorrect` says that, until a run ends in
"overrun", each event is in a slot of the arrays or in a spare word behind them. Bodies are pure
functions of a store, so each has a lemma of its own: `Follows(V, s, t)` says that t comes after s
(domains have shrunk and are not empty, events were added, no variable that somebody listens to was
bound in silence), `Sound` that no assignment that satisfies the constraint went, and `BodyOf` that
a body which kills its frame, or whose variables are all bound, leaves a constraint that the domains
entail. The arithmetic is in `ReduceEqFacts` and `ReduceGeFacts`: what `REDUCE_DOMAIN` keeps in its
accumulator encloses the sum of the first i terms of every solution, although the bounds were
computed before the loop began; in `BooleanBounds`, that counting free variables gives the bounds;
and in `Quotients`. For equations of two variables `StandsFor` relates each of the agents to the
constraint that was posted: within the domains of that moment, and so of every later one, they
agree. The inductive invariant is

    IInv == MachineOk /\ Remembers /\ Finds /\ AllCovered

with the bounds of the counters. `MachineOk` ties words, chain, listeners and queue together; an
element event names a value that is out. `Remembers` and `Finds` say that `solutions` are exactly
the assignments within the domains that satisfy what was posted. `AllCovered` is what
`LabelledIsSolution` and `Watched` need: a posted constraint is entailed, or it is heard (each free
variable has a live agent of the constraint on its list, or the call that will attach one is on the
chain: `Heeded`) and will be looked at (a variable is free, or an agent of it is on the chain, or
the binding that wakes it is in the queue, or it is about to be posted: `Moving`). Without the calls
on the chain it is not inductive: a binary equation is five calls, and agents that the first wakes
run before the second attaches anything. `Entailed` speaks of all assignments to integers, so TLC
checks the parts that it can evaluate, as `ExactlySolutions` and `Watched`.

**Only model-checked.** Liveness (`Terminates`, `Completes`, `SearchEnds`, `Settles`, `TicksServed`,
`MachineGetsMutex`) is out of the prover's reach, and so is ENABLED. The other safety properties are
not proved so far. `QueryAnswered`, `SetAsideIsFollowed` and `Refines` of `LinearTabling` need the
completeness of SCC evaluation: an invariant over all frames of a component about which answers a
round has already consumed. So does `CompletionIsTrue` of `Planner`, which speaks of entries that
are complete in the middle of a search: that a component's members had no plan when its root failed
needs the way from each reopened member back to the root; the theorems above get by with the end of
the search. `RootWalkEnds` of `LinearTabling` has to follow roots that cuts left stale. `SearchEnds`
of `Planner` holds for the queries of its run only (section 13). `Fixpoint` of `Propagators` needs
of each body that running it twice is running it once, and that the events which a propagator passes
over are its own. The refinements of `Database` and `Domains` are checked only, as are their
invariants: both build chains and trails with `FoldLeft`, which takes the step as an operator: a
lemma about it for every step would have an operator parameter, which no prover here can
instantiate, and each use would have to be written as a recursive function first, as it was done for
`Propagators` (`DoAll`, `Total`, `Told`) and with `Kept`.

## 13. What the runs found

Runs that expect a violation:

* **Plans that are not optimal** (`planner_best`). The states that a thrown plan unwinds forget the
  members of their own lists; members of members stay temporarily complete with the large limit of
  that search, though they failed only because the states above were closed to them. The next search
  asks for less and fails there at once. From start with the actions start to r for 10, start to m
  for 1, r to s for 1, r to goal for 1, s to m for 1, s to r for 1 and m to s for 1, tried in this
  order, `best_plan_bb` returns a plan of 11 where 4 is optimal. The guide: "binds *Plan* to an
  optimal plan" (`doc/planner.tex` 69, 79).
* **Growth under a call** (`database_grow`): `rehash_interpreted_pred` frees the cells of the
  buckets and builds new chains from them, also while a call with a bound first argument stands on
  one of them. It loses answers, or goes on with the clauses of another key. The comment there: "The
  list structures are kept the same" (`assert.c` 579).
* **Collector and timer** (`timers_region`): each tests the other's flag before it sets its own, and
  both pass. The thread then walks the list of timers while the collector moves it. The comment:
  "must be synchronized with the garbage collector" (`event.c` 555).

Seen with other constants or from definitions that no run checks:

* **Tabling after a caught exception**: the entries that were unwound keep their `GT_SCC_ROOT` and
  `GT_SCC_ELMS` (`table.c` 1092, `toam.h` 815). A later query can complete a subgoal of the old SCC
  before its fixpoint: `FixpointReached` fails with the programs `Narrow` of `MCLinearTabling`,
  `MaxThrows = 1` and two queries. The guide: "a generator is iterated until the fixed point is
  reached" (`doc/tabling.tex` 151).
* **Stale stamps**: an agent wakes under a choice point, which stamps its status; the choice point
  is cut, the agent sleeps again, and the next choice point gets the same address (`toam.h` 632).
  The next wake-up finds its stamp already there and does not trail the status. Backtracking leaves
  the frame marked as running, and no event will wake it again: `RunnersOnChain` fails with
  `CutPrograms` of `MCAgents`. The guide: "an actor never disappears as long as action rules are
  applied to it" (`doc/ar.tex` 71).
* **A walk without end**: a thrown plan sets `GT_TOP_AR` of the states it unwinds to NULL and leaves
  their `GT_SCC_ROOT` (`toam.h` 815). A call that finds NULL does not set it either
  (`emu_inst.h` 8573); only one that reopens an entry that failed does (8613). Two calls of `plan`,
  from s and from a, find plans and leave the two states with each other as roots. The third, from
  r, sets first a and then s aside, and `while (TEMP_COMPLETE)` (`toam.h` 807) goes from s to a and
  from a to s. The guide: "tabling can prevent infinite loops" (`doc/tabling.tex` 29). Entries and
  frames are well formed all the time (`PlannerIsWellFormed`): only the roots are not. `SearchEnds`
  fails with `WalkStates`, `WalkProblems` and `WalkQueries` of `MCPlanner` and `MaxQueries = 3`.
* **A second query of `best_plan`** over the same table: an entry that fails at once notes no
  explored depth (`emu_inst.h` 8618), so that after a query with a smaller limit the next bound of
  `best_plan_downward` can be too high (`planner.pi` 146), and the plan is not optimal:
  `BestPlanIsOptimal` fails with `how = "down"` and two queries.
* **A stored plan and a smaller limit**: `best_plan` and `best_plan_bin` look into the map after
  their first search, and return the plan that an earlier query put there although it costs more
  than the limit (`planner.pi` 137, 183; the guide says of the latter "cannot exceed *Limit*",
  `doc/planner.tex` 79).
* **A plan that costs all of the limit**: `best_plan_bin` fails if the cheapest plan costs exactly
  the limit and the bounds did not come to it before (`Lower < Limit`, `planner.pi` 194);
  `FirstAnswerIsRight` names the case.
* **`best_plan_bb` from a final state** goes on for ever, with the limit -1; the instance starts
  from states that are not final.
* **The guide on `best_plan/4`** promises doubling and binary search (`doc/planner.tex` 52); the
  code of `best_plan_downward` deepens, and `best_plan_bin` is what the guide describes.
* **A recursive call inside `once/1`**: the cut resets the entry of the follower, which is the entry
  of the generator still running; the next call starts a second generator, and `CompleteIsFinal`
  fails with the programs of `tabling_cuts`. The guide: "a top-most looping generator does not
  return any answer until it is complete" (`doc/tabling.tex` 153).
* **A normal rule taken by a clone** does not kill the agent: with two terms in the queue, a rule
  that should end the agent is applied twice, or the agent lives on (`doc/ar.tex` 41).
* **A stale triggering frame** (`NoLostBound`): the handler compares the frames of a bound event
  with `triggering_frame[trigger_no]`, the entry of the queue's last event, where its own would be
  `[i]`; a dom event does not set its entry, nor does a unification (`INSERT_TRIGGER_var_ins`). An
  agent that is named there from an earlier queue is not woken (`doc/ar.tex` 47): `NoLostBound`
  fails with the program `Named("var_ins")` of `MCAgents`. It came up as a step of a proof that
  could not be made; `NoLostBoundOfDvars` says where the property holds, and is proved. The linear
  propagators survive it, as `Watched` and `Fixpoint` show.
* **An event past the arrays** (`EventsFit`): `triggeredCs`, `event_flag`, `event_object` and
  `triggering_frame` have `MAXTRIGGERS` words (`basic.h` 359-362). The macros test
  `trigger_no >= MAXTRIGGERS` and then write at `++trigger_no` (`term.h` 375-450), so that the last
  event which passes the test is written one past the arrays, over whatever the build has put
  there: another array's first words, which may be slot 1 of `event_flag`, the kind of the first
  event, or `trigger_no` itself. `EventsFit` fails in the instance of `propagators`. The comment:
  "maximum number of events that can be raised at one time" (`basic.h` 52); one less can.
* **A term after an ins event** (`NoLostTerm`): a frame marked for re-entry gets no clone, and the
  term of a later event in the handler's order is dropped (`doc/ar.tex` 45).
* **Holes by unification** (`HolesByUnify = TRUE`): when an interval is unified with a bit vector,
  its agents hear of inner values that went only if there are agents on outer_dom too (`unify.c`
  386-392, `doc/ar.tex` 48).
* **Abolishing under a retract** (`AbolishUnderRetract = TRUE`): the retract that is still open
  removes a clause from chains that are gone, and writes to the word after the symbol nil.
* **A full pool that nobody tells of**: when the machine writes an old word over EVENT_POOL_NONEMPTY
  and the pool is full, `add_to_event_pool` returns before it sets the bit again, and no time-out is
  ever served; it is the exception in `TicksServed`.
* **A thread that restores a bit**: a thread can write back TRIGGER_ON after the machine has cleared
  it. No event is lost, but the word stays non-zero until the next event, and the collector does not
  run.
* **A collection while an exception is handled**: a thread's `Leave` clears `in_critical_region`,
  which the exception had set to keep the collector out ("disable GC", `toam.c` 290).
* **A collector that fails** (`CollectorFails = TRUE`) leaves `gc_is_working` set when it returns
  `BP_ERROR` (`gcstack.c` 61): the next thread waits for it with the mutex in its hand, and the
  machine waits for the mutex: `MachineGetsMutex` fails.

## 14. Not modelled

Generated code (`picat_bc.h`, `load_inst*.h`, `jmp_table.c`), which is most of the lines, vendored
solvers (kissat, espresso, fann, maple), examples, documentation tools, and sequential code without
state of its own (parsing, printing, arithmetic built-ins).

* Tabling: hashing and the table area, running out of memory, the `nt` mode, and untabled frames,
  which are folded into the clauses.
* Planner: the plans themselves, `best_plan_nondet`, the unbounded searches, `final/3`,
  `sequence/2`, what a program sees of the search (`current_plan`, `current_resource`,
  `is_tabled_state`), and the memory that large tables take.
* Agents and propagators: what a run does after an event has overwritten something behind the
  arrays of events. `Agents` has no such step, `Propagators` ends in "overrun".
* Agents: the priority of time-out events, the clones of C propagators, exceptions across agents,
  `freeze/2`.
* Database: running out of memory but for the hash table, global variables and maps, findall.
* Domains: more than two variables in one unification, domains over non-integers, the garbage
  collector, and the search for a bit word by word: the new bounds of a unification are the least
  and the greatest value of a set, so that a read behind a vector (`term.h` 535, `unify.c` 339)
  would not be seen.
* Propagators: integers that overflow (`SOUND_*` clamps sums at the limits of a small integer,
  `clpfd.h` 12, and the bounds of one type test are `int`), equations of booleans with other
  coefficients of one sign, and agents for products, `abs`, `mod`, reification and all_different,
  whose watch conditions are only in byte code.
* Timers: interrupts that clear the whole word (`toam.c` 270), events of windows, the unchecked
  `++trigger_no` of POST_EVENT, stack expansion, which tests and sets like the collector (`toam.h`
  706).

`PROJECT.json` gives the status of every part.

## 15. Plan

1. *Done*: linear tabling with its abstract specification, answer tables, the planner, agents,
   dynamic database, domains, linear propagators, timers; proofs about tabling, planner and timers;
   every safety property of answer tables and agents proved, of the propagators all but `Fixpoint`,
   of the planner all but `CompletionIsTrue`, and that the pool of timers is a queue.
2. Findall areas; global maps; the queue of the copying collector; `best_plan_nondet`.
3. Proofs, in this order: `CountsAreOpenCalls` and `WellFormed` of `Database`; `Fixpoint` of
   `Propagators`; `RootWalkEnds` and `CompleteIsFinal` of `LinearTabling` without cuts, and the
   derive half of its `Refines`; `CompletionIsTrue` of `Planner`.

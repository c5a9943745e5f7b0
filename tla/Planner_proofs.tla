--------------------------- MODULE Planner_proofs ---------------------------
(***************************************************************************)
(* What holds of the planner for all problems, queries and limits: the     *)
(* GT_TOP_AR of its entries never dangles; the first query over a table    *)
(* gets the right answer from each of the four drivers; until a plan is    *)
(* thrown the table's entries and frames point to each other and every     *)
(* walk to a root ends, and between two queries no entry that has failed   *)
(* has a plan; and whatever was asked and thrown before, entries, frames   *)
(* and drivers are well formed.                                            *)
(***************************************************************************)
EXTENDS Planner, SequenceTheorems, TLAPS

Types ==
  /\ problem \in Problem
  /\ top \in [States -> Int]
  /\ root \in [States -> States]
  /\ stack \in Seq(Frames)
  /\ call \in [state : States, limit : Int, cost : Nat]
  /\ explored \in Int
  /\ query \in Queries
  /\ bounds \in [level : Int, low : Int, high : Int]
  /\ found \in Int
  /\ best \in [States -> Int]
  /\ lower \in [States -> Int]
  /\ answer \in Int
  /\ pc = "run" => stack /= << >>

IInv == Types /\ FramesAreLive

\* What is reached by Follow from a set's first element contains the first.
LEMMA ClosureHasFirst ==
  ASSUME NEW s \in States, NEW Follow
  PROVE s \in Closure(s, Follow) /\ Closure(s, Follow) \subseteq States
BY DEF Closure

\* Whatever a failed call does to the lists, roots stay states.
LEMMA RootsStayStates ==
  ASSUME root \in [States -> States], stack \in Seq(Frames),
         NEW s \in States, NEW caller \in 0 .. Len(stack), NEW tops,
         PropagateRoot(s, caller, tops)
  PROVE root' \in [States -> States]
<1>1. CASE UNCHANGED <<root, elms>>
  BY <1>1
<1>2. CASE /\ caller /= 0
           /\ \E r \in LiveRoots(s, tops) :
                LET s0 == stack[caller].state
                    joins == r /= root[s0] /\ Higher(tops[r], tops[root[s0]])
                IN root' = IF joins THEN [root EXCEPT ![s0] = r] ELSE root
  <2>1. PICK r \in LiveRoots(s, tops) :
          \/ root' = [root EXCEPT ![stack[caller].state] = r]
          \/ root' = root
    BY <1>2
  <2>2. r \in States
    BY <2>1 DEF LiveRoots, Closure
  <2>3. stack[caller].state \in States
    <3>1. stack[caller] \in Frames
      BY <1>2
    <3>2. QED
      BY <3>1 DEF Frames
  <2>4. QED
    BY <2>1, <2>2, <2>3
<1>3. QED
  BY <1>1, <1>2 DEF PropagateRoot

\* The frames that are left when those above n are popped.
LEMMA PrefixFacts ==
  ASSUME stack \in Seq(Frames), NEW n \in 0 .. Len(stack)
  PROVE  /\ SubSeq(stack, 1, n) \in Seq(Frames)
         /\ Len(SubSeq(stack, 1, n)) = n
         /\ \A i \in 1 .. n : SubSeq(stack, 1, n)[i] = stack[i]
<1>1. \A i \in 1 .. n : stack[i] \in Frames
  OBVIOUS
<1>2. QED
  BY <1>1, SubSeqProperties

LEMMA InitEstablishes == Init => IInv
BY BoundsAssumption
DEF Init, FreshTables, IInv, Types, FramesAreLive, NULL, NoPlan, Problem,
    Frames

\* A new frame on top is that of the state called, and no other frame moves.
LEMMA PushKeeps ==
  ASSUME IInv, pc = "call", Push, root' \in [States -> States],
         UNCHANGED <<call, explored, found, solved, driverVars>>
  PROVE IInv'
<1> DEFINE f == [state |-> call.state, limit |-> call.limit,
                 cost |-> call.cost, alt |-> 0]
<1>1. f \in Frames /\ call.state \in States
  BY DEF IInv, Types, Frames
<1>2. /\ stack' = Append(stack, f)
      /\ top' = [top EXCEPT ![call.state] = Len(stack) + 1]
  BY DEF Push
<1>3. /\ stack' \in Seq(Frames)
      /\ Len(stack') = Len(stack) + 1
      /\ stack'[Len(stack) + 1] = f
      /\ \A i \in 1 .. Len(stack) : stack'[i] = stack[i]
      /\ DOMAIN stack = 1 .. Len(stack) /\ DOMAIN stack' = 1 .. Len(stack) + 1
  BY <1>1, <1>2 DEF IInv, Types
<1>4. Types'
  <2>1. stack' /= << >> /\ top' \in [States -> Int]
    BY <1>1, <1>2, <1>3 DEF IInv, Types
  <2>2. QED
    BY <1>3, <2>1 DEF IInv, Types, driverVars
<1>5. FramesAreLive'
  <2> SUFFICES ASSUME NEW s \in States, top'[s] > 0
               PROVE top'[s] \in DOMAIN stack' /\ stack'[top'[s]].state = s
    BY DEF FramesAreLive
  <2>1. CASE s = call.state
    BY <2>1, <1>2, <1>3 DEF IInv, Types
  <2>2. CASE s /= call.state
    <3>1. top'[s] = top[s]
      BY <2>2, <1>2 DEF IInv, Types
    <3>2. top[s] \in DOMAIN stack /\ stack[top[s]].state = s
      BY <3>1 DEF IInv, FramesAreLive
    <3>3. QED
      BY <3>1, <3>2, <1>3
  <2>3. QED
    BY <2>1, <2>2
<1>6. QED
  BY <1>4, <1>5 DEF IInv

LEMMA AllocateKeeps == IInv /\ table_allocate => IInv'
<1> SUFFICES ASSUME IInv, table_allocate
             PROVE IInv'
  OBVIOUS
<1> USE DEF table_allocate
<1>1. CASE FirstCall
  <2>1. root' \in [States -> States] /\ pc = "call" /\ Push
    BY <1>1 DEF FirstCall, IInv, Types
  <2>2. QED
    BY <2>1, PushKeeps
<1>2. CASE Reopen
  <2>1. root' \in [States -> States] /\ pc = "call" /\ Push
    BY <1>2 DEF Reopen, IInv, Types
  <2>2. QED
    BY <2>1, PushKeeps
<1>3. CASE FailAgain
  <2>1. root' \in [States -> States]
    <3>1. PropagateRoot(call.state, Len(stack), top)
      BY <1>3 DEF FailAgain
    <3>2. call.state \in States /\ Len(stack) \in 0 .. Len(stack)
      BY DEF IInv, Types
    <3>3. root \in [States -> States] /\ stack \in Seq(Frames)
      BY DEF IInv, Types
    <3>4. QED
      BY <3>1, <3>2, <3>3, RootsStayStates
  <2>2. pc' = "run" => stack' /= << >>
    BY <1>3 DEF FailAgain, GoOn
  <2>3. QED
    BY <1>3, <2>1, <2>2
    DEF FailAgain, IInv, Types, FramesAreLive, driverVars
<1>4. QED
  BY <1>1, <1>2, <1>3

\* A thrown plan leaves no frame, and no entry that points to one.
LEMMA ThrowKeeps == IInv /\ ThrowPlan => IInv'
<1> SUFFICES ASSUME IInv, ThrowPlan
             PROVE IInv'
  OBVIOUS
<1>1. TopFrame \in Frames
  BY DEF ThrowPlan, IInv, Types, TopFrame
<1>2. \A s \in States : top'[s] \in Int /\ ~(top'[s] > 0)
  <2> SUFFICES ASSUME NEW s \in States
               PROVE top'[s] \in Int /\ ~(top'[s] > 0)
    OBVIOUS
  <2>1. CASE s \in Unwound
    BY <2>1 DEF ThrowPlan, RESET_SUBGOAL_AR, NULL
  <2>2. CASE s \notin Unwound
    <3>1. ~(top[s] > 0)
      BY <2>2 DEF Unwound, IInv, FramesAreLive, COMPLETE
    <3>2. top'[s] \in {NULL, top[s]}
      BY <2>2 DEF ThrowPlan, RESET_SUBGOAL_AR, ResetMembers
    <3>3. QED
      BY <3>1, <3>2 DEF IInv, Types, NULL
  <2>3. QED
    BY <2>1, <2>2
<1>3. top' \in [States -> Int]
  BY <1>2 DEF ThrowPlan, RESET_SUBGOAL_AR
<1>4. Types'
  <2>1. TopFrame.cost \in Int
    BY <1>1 DEF Frames
  <2>2. stack' \in Seq(Frames) /\ pc' /= "run" /\ found' \in Int
    BY <2>1 DEF ThrowPlan
  <2>3. QED
    BY <1>3, <2>2 DEF ThrowPlan, IInv, Types, driverVars
<1>5. FramesAreLive'
  BY <1>2 DEF FramesAreLive
<1>6. QED
  BY <1>4, <1>5 DEF IInv

\* A frame that goes on with its next clause stays the frame of its state.
LEMMA RunKeeps == IInv /\ RunClause => IInv'
<1> SUFFICES ASSUME IInv, RunClause
             PROVE IInv'
  OBVIOUS
<1>1. /\ stack \in Seq(Frames) /\ stack /= << >>
      /\ TopFrame \in Frames /\ problem \in Problem
  BY DEF RunClause, IInv, Types, TopFrame
<1>2. NActions \in Nat
  BY <1>1 DEF NActions, Problem, Actions, Frames
<1>3. PICK n \in Nat : stack' = [stack EXCEPT ![Len(stack)].alt = n]
  <2>1. TopFrame.alt + 1 \in Nat /\ NActions + 1 \in Nat
    BY <1>1, <1>2 DEF Frames
  <2>2. \/ stack' = NextAlternative
        \/ stack' = [stack EXCEPT ![Len(stack)].alt = NActions + 1]
    BY DEF RunClause, CheckHeuristic, TryAction
  <2>3. NextAlternative = [stack EXCEPT ![Len(stack)].alt = TopFrame.alt + 1]
    BY DEF NextAlternative, TopFrame
  <2>4. QED
    BY <2>1, <2>2, <2>3
<1>4. /\ stack' \in Seq(Frames) /\ stack' /= << >>
      /\ DOMAIN stack' = DOMAIN stack
      /\ \A i \in DOMAIN stack : stack'[i].state = stack[i].state
  <2> DEFINE f == [TopFrame EXCEPT !.alt = n]
  <2>1. f \in Frames /\ f.state = TopFrame.state
    BY <1>1, <1>3 DEF Frames
  <2>2. /\ stack' = [stack EXCEPT ![Len(stack)] = f]
        /\ TopFrame = stack[Len(stack)]
    BY <1>3 DEF TopFrame
  <2> HIDE DEF f
  <2>3. stack' \in Seq(Frames) /\ Len(stack') = Len(stack)
    BY <1>1, <2>1, <2>2
  <2>4. QED
    BY <1>1, <2>1, <2>2, <2>3
<1>5. call' \in [state : States, limit : Int, cost : Nat] /\ explored' \in Int
  <2>1. CASE CheckHeuristic
    <3> DEFINE h == problem.heuristic[TopFrame.state]
    <3>1. TopFrame.cost + h \in Int
      <4>1. TopFrame.cost \in Nat /\ TopFrame.state \in States
        BY <1>1 DEF Frames
      <4>2. problem.heuristic \in [States -> Nat]
        BY <1>1 DEF Problem
      <4>3. QED
        BY <4>1, <4>2
    <3>2. /\ UNCHANGED call
          /\ UpdateExploredDepth(TopFrame.cost + h) \/ UNCHANGED explored
      BY <2>1 DEF CheckHeuristic
    <3> HIDE DEF h
    <3>3. QED
      BY <3>1, <3>2 DEF UpdateExploredDepth, IInv, Types
  <2>2. CASE TryAction
    <3> DEFINE act == problem.action[TopFrame.state][TopFrame.alt]
    <3>1. act \in [to : States, cost : Nat]
      <4>1. problem.action \in [States -> Actions] /\ TopFrame.state \in States
        BY <1>1 DEF Problem, Frames
      <4>2. problem.action[TopFrame.state] \in Seq([to : States, cost : Nat])
        BY <4>1 DEF Actions
      <4>3. TopFrame.alt \in 1 .. Len(problem.action[TopFrame.state])
        BY <2>2 DEF TryAction, NActions
      <4> DEFINE acts == problem.action[TopFrame.state]
                 k == TopFrame.alt
                 Act == [to : States, cost : Nat]
      <4>4. acts \in Seq(Act) /\ k \in 1 .. Len(acts)
        BY <4>2, <4>3
      <4> HIDE DEF acts, k, Act
      <4>5. acts[k] \in Act
        BY <4>4
      <4>6. QED
        BY <4>5 DEF acts, k, Act
    <3> DEFINE left == TopFrame.limit - act.cost
               cost == TopFrame.cost + act.cost
    <3>2. act.to \in States /\ left \in Int /\ cost \in Nat
      <4>1. TopFrame.limit \in Int /\ TopFrame.cost \in Nat
        BY <1>1 DEF Frames
      <4>2. act.to \in States /\ act.cost \in Nat
        BY <3>1
      <4> HIDE DEF act
      <4>3. QED
        BY <4>1, <4>2
    <3>3. \/ UpdateExploredDepth(cost) /\ UNCHANGED call
          \/ call' = [state |-> act.to, limit |-> left, cost |-> cost]
             /\ UNCHANGED explored
      BY <2>2 DEF TryAction
    <3> HIDE DEF act, left, cost
    <3>4. QED
      BY <3>2, <3>3 DEF UpdateExploredDepth, IInv, Types
  <2>3. QED
    BY <2>1, <2>2 DEF RunClause
<1>6. Types'
  BY <1>4, <1>5 DEF RunClause, IInv, Types, tableVars, driverVars
<1>7. FramesAreLive'
  BY <1>4 DEF RunClause, IInv, Types, FramesAreLive, tableVars
<1>8. QED
  BY <1>6, <1>7 DEF IInv

\* The frame that leaves is no entry's: its own entry is complete or set
\* aside, and no other points to it.
LEMMA CompletionKeeps == IInv /\ table_check_completion => IInv'
<1> SUFFICES ASSUME IInv, table_check_completion
             PROVE IInv'
  OBVIOUS
<1> DEFINE s == TopFrame.state
           n == Len(stack)
<1>1. /\ stack \in Seq(Frames) /\ n \in Nat \ {0}
      /\ stack[n] \in Frames /\ s \in States /\ s = stack[n].state
  <2>1. stack \in Seq(Frames) /\ stack /= << >>
    BY DEF table_check_completion, IInv, Types
  <2>2. n \in Nat \ {0} /\ stack[n] \in Frames
    BY <2>1
  <2>3. QED
    BY <2>1, <2>2 DEF TopFrame, Frames
<1>2. /\ Front(stack) \in Seq(Frames)
      /\ Len(Front(stack)) = n - 1
      /\ DOMAIN Front(stack) = 1 .. n - 1
      /\ \A i \in 1 .. n - 1 : Front(stack)[i] = stack[i]
  <2>1. n - 1 \in 0 .. n
    BY <1>1
  <2>2. Front(stack) = SubSeq(stack, 1, n - 1)
    BY DEF Front
  <2>3. /\ SubSeq(stack, 1, n - 1) \in Seq(Frames)
        /\ Len(SubSeq(stack, 1, n - 1)) = n - 1
        /\ \A i \in 1 .. n - 1 : SubSeq(stack, 1, n - 1)[i] = stack[i]
    BY <1>1, <2>1, PrefixFacts
  <2>4. QED
    BY <2>2, <2>3
<1>3. top' = Completed(s) /\ stack' = Front(stack)
  BY DEF table_check_completion
<1>4. \A t \in States :
        top'[t] = top[t] \/ top'[t] \in {COMPLETE, TEMP_COMPLETE}
  BY <1>3, <1>1 DEF Completed, IInv, Types
<1>5. top' \in [States -> Int]
  BY <1>3, <1>1 DEF Completed, IInv, Types, COMPLETE, TEMP_COMPLETE
<1>6. top'[s] /= n
  <2>1. CASE top[root[s]] = n
    <3>1. s \in Members(s)
      BY <1>1, ClosureHasFirst DEF Members
    <3>2. QED
      BY <2>1, <3>1, <1>1, <1>3 DEF Completed, COMPLETE
  <2>2. CASE top[root[s]] /= n
    BY <2>2, <1>1, <1>3 DEF Completed, TEMP_COMPLETE, IInv, Types
  <2>3. QED
    BY <2>1, <2>2
<1>7. FramesAreLive'
  <2> SUFFICES ASSUME NEW t \in States, top'[t] > 0
               PROVE top'[t] \in DOMAIN stack' /\ stack'[top'[t]].state = t
    BY DEF FramesAreLive
  <2>1. top'[t] = top[t]
    BY <1>4 DEF COMPLETE, TEMP_COMPLETE
  <2>2. top[t] \in 1 .. n /\ stack[top[t]].state = t
    BY <2>1, <1>1 DEF IInv, FramesAreLive
  <2>3. top[t] /= n
    BY <1>1, <1>6, <2>1, <2>2
  <2>4. QED
    BY <1>1, <1>2, <1>3, <2>1, <2>2, <2>3
<1>8. root' \in [States -> States]
  <2>1. PropagateRoot(s, n - 1, Completed(s)) /\ n - 1 \in 0 .. Len(stack)
    BY <1>1 DEF table_check_completion
  <2>2. QED
    BY <2>1, <1>1, RootsStayStates DEF IInv, Types
<1>9. pc' = "run" => stack' /= << >>
  BY <1>3 DEF table_check_completion, GoOn
<1>10. Types'
  BY <1>2, <1>3, <1>5, <1>8, <1>9
  DEF table_check_completion, IInv, Types, driverVars
<1>11. QED
  BY <1>7, <1>10 DEF IInv

\* The drivers work on their own variables, and call the search again.
LEMMA SearchAgainTyped ==
  ASSUME IInv, NEW limit \in Int, SearchAgain(limit)
  PROVE /\ call' \in [state : States, limit : Int, cost : Nat]
        /\ explored' \in Int /\ found' \in Int /\ answer' \in Int
        /\ pc' = "call"
BY BoundsAssumption
DEF SearchAgain, call_picat_plan, picat_plan, IInv, Types, NoPlan

LEMMA ReturnTyped ==
  ASSUME IInv, NEW cost \in Int, Return(cost)
  PROVE /\ call' \in [state : States, limit : Int, cost : Nat]
        /\ explored' \in Int /\ found' \in Int /\ answer' \in Int
        /\ bounds' \in [level : Int, low : Int, high : Int]
        /\ pc' = "idle"
BY DEF Return, IInv, Types

DriverTypes ==
  /\ call \in [state : States, limit : Int, cost : Nat]
  /\ explored \in Int /\ found \in Int /\ answer \in Int
  /\ bounds \in [level : Int, low : Int, high : Int]
  /\ best \in [States -> Int] /\ lower \in [States -> Int]
  /\ pc /= "run"

LEMMA BinTyped ==
  ASSUME IInv, NEW low \in Int, NEW high \in Int,
         best' \in [States -> Int], lower' \in [States -> Int],
         loop_best_plan_bin(low, high)
  PROVE DriverTypes'
<1>1. query.start \in States
  BY BoundsAssumption DEF IInv, Types
<1>2. CASE low <= high
  <2> DEFINE middle == low + (high - low) \div 2
  <2>1. middle \in Int
    OBVIOUS
  <2>2. SearchAgain(middle)
        /\ bounds' = [level |-> middle, low |-> low, high |-> high]
    BY <1>2 DEF loop_best_plan_bin
  <2> HIDE DEF middle
  <2>3. QED
    BY <2>1, <2>2, SearchAgainTyped DEF DriverTypes
<1>3. CASE low > high
  <2>1. Return(best'[query.start]) /\ best'[query.start] \in Int
    BY <1>1, <1>3 DEF loop_best_plan_bin
  <2>2. QED
    BY <2>1, ReturnTyped DEF DriverTypes
<1>4. QED
  BY <1>2, <1>3

LEMMA DriverTyped ==
  ASSUME IInv, Driver
  PROVE DriverTypes'
<1>1. query.start \in States /\ query.limit \in Int
  BY BoundsAssumption DEF IInv, Types
<1>2. NotedBest \in [States -> Int] /\ NextBound \in Int
  BY <1>1 DEF NotedBest, NextBound, IInv, Types
<1>3. CASE plan
  BY <1>3, ReturnTyped DEF plan, DriverTypes, IInv, Types
<1>4. CASE best_plan_downward
  <2>1. best' \in [States -> Int] /\ lower' \in [States -> Int]
    BY <1>2, <1>4 DEF best_plan_downward, IInv, Types
  <2>2. best'[query.start] \in Int /\ NoPlan \in Int
    BY <1>1, <2>1 DEF NoPlan
  <2>3. CASE Return(best'[query.start]) \/ Return(NoPlan)
    BY <2>1, <2>2, <2>3, ReturnTyped DEF DriverTypes
  <2>4. CASE /\ bounds' = [bounds EXCEPT !.level = NextBound]
             /\ SearchAgain(NextBound)
    BY <2>1, <2>4, <1>2, SearchAgainTyped DEF DriverTypes, IInv, Types
  <2>5. QED
    BY <1>4, <2>3, <2>4 DEF best_plan_downward
<1>5. CASE loop_best_plan_bb
  <2>1. best' \in [States -> Int] /\ lower' \in [States -> Int]
    BY <1>2, <1>5 DEF loop_best_plan_bb, IInv, Types
  <2>2. found - 1 \in Int /\ best[query.start] \in Int
    BY <1>1 DEF IInv, Types
  <2>3. CASE SearchAgain(found - 1) /\ UNCHANGED bounds
    BY <2>1, <2>2, <2>3, SearchAgainTyped DEF DriverTypes, IInv, Types
  <2>4. CASE Return(best[query.start])
    BY <2>1, <2>2, <2>4, ReturnTyped DEF DriverTypes
  <2>5. QED
    BY <1>5, <2>3, <2>4 DEF loop_best_plan_bb
<1>6. CASE loop_best_plan_downward_bin
  <2>1. best' \in [States -> Int] /\ lower' \in [States -> Int]
    <3>1. lower' = lower \/ lower' = [lower EXCEPT ![query.start] = NextBound]
      BY <1>6 DEF loop_best_plan_downward_bin
    <3>2. QED
      <4>1. best' = NotedBest /\ lower \in [States -> Int]
        BY <1>6 DEF loop_best_plan_downward_bin, IInv, Types
      <4>2. QED
        BY <1>2, <3>1, <4>1
  <2>2. /\ lower[query.start] \in Int /\ best'[query.start] - 1 \in Int
        /\ NoPlan \in Int
    BY <1>1, <2>1, SMTT(60) DEF NoPlan, IInv, Types
  <2>3. CASE loop_best_plan_bin(lower[query.start], best'[query.start] - 1)
    BY <2>1, <2>2, <2>3, BinTyped
  <2>4. CASE Return(NoPlan)
    BY <2>1, <2>2, <2>4, ReturnTyped DEF DriverTypes
  <2>5. ASSUME NEW next \in Int, SearchAgain(next),
               bounds' = [bounds EXCEPT !.level = next]
        PROVE DriverTypes'
    BY <2>1, <2>5, SearchAgainTyped DEF DriverTypes, IInv, Types
  <2>6. query.limit \in Int /\ 2 * NextBound \in Int
    BY <1>1, <1>2
  <2>7. QED
    BY <1>6, <2>3, <2>4, <2>5, <2>6 DEF loop_best_plan_downward_bin
<1>7. CASE halve_best_plan_bin
  <2>1. best' \in [States -> Int] /\ lower' \in [States -> Int]
    BY <1>2, <1>7 DEF halve_best_plan_bin, IInv, Types
  <2>2. /\ bounds.low \in Int /\ found - 1 \in Int
        /\ bounds.level + 1 \in Int /\ bounds.high \in Int
    BY DEF IInv, Types
  <2>3. QED
    BY <1>7, <2>1, <2>2, BinTyped DEF halve_best_plan_bin
<1>8. QED
  BY <1>3, <1>4, <1>5, <1>6, <1>7 DEF Driver

LEMMA DriverKeeps == IInv /\ Driver => IInv'
<1> SUFFICES ASSUME IInv, Driver
             PROVE IInv'
  OBVIOUS
<1>1. DriverTypes'
  BY DriverTyped
<1>2. UNCHANGED <<top, kept, root, elms, stack, problem, query>>
  BY DEF Driver, tableVars
<1>3. QED
  BY <1>1, <1>2 DEF DriverTypes, IInv, Types, FramesAreLive

LEMMA QueryKeeps ==
  ASSUME IInv, NEW q \in Queries, Query(q)
  PROVE IInv'
<1>1. q.start \in States /\ q.limit \in Int /\ FirstLimit(q) \in Int
  BY BoundsAssumption DEF FirstLimit
<1>2. /\ call' \in [state : States, limit : Int, cost : Nat]
      /\ explored' \in Int /\ found' \in Int /\ pc' = "call"
      /\ bounds' \in [level : Int, low : Int, high : Int]
  <2>1. PICK l \in Int : picat_plan(q.start, l)
    BY <1>1 DEF Query, call_picat_plan
  <2>2. explored' \in {explored, Unlimited}
    BY DEF Query, call_picat_plan
  <2>3. bounds' = [level |-> FirstLimit(q), low |-> 0, high |-> -1]
    BY DEF Query, NoPlan
  <2>4. QED
    BY <1>1, <2>1, <2>2, <2>3, BoundsAssumption
    DEF picat_plan, NoPlan, IInv, Types
<1>3. query' \in Queries
      /\ UNCHANGED <<top, kept, root, elms, stack, problem, best, lower,
                     answer>>
  BY DEF Query, tableVars
<1>4. QED
  BY <1>2, <1>3 DEF IInv, Types, FramesAreLive

LEMMA InitializeKeeps == IInv /\ c_INITIALIZE_TABLE => IInv'
BY DEF c_INITIALIZE_TABLE, IInv, Types, FramesAreLive, NULL, NoPlan

LEMMA StutterKeeps == IInv /\ UNCHANGED vars => IInv'
BY DEF vars, IInv, Types, FramesAreLive

LEMMA NextKeeps == IInv /\ [Next]_vars => IInv'
BY AllocateKeeps, ThrowKeeps, RunKeeps, CompletionKeeps, DriverKeeps,
   QueryKeeps, InitializeKeeps, StutterKeeps
DEF Next, Search

\* Whatever is searched, reopened, thrown or asked again, GT_TOP_AR of a state
\* under evaluation is a frame of that state on the stack.
THEOREM MastersStay == Spec => []FramesAreLive
<1>1. IInv => FramesAreLive
  BY DEF IInv
<1>2. QED
  BY <1>1, InitEstablishes, NextKeeps, PTL DEF Spec

-----------------------------------------------------------------------------
(* The first answer over a table.  Any problem whose cheapest costs are     *)
(* what they say, any driver, any limit.                                    *)

\* Where the query starts.
Begin == query.start
\* What its cheapest plan costs.
Least == Cheapest(Begin)

\* What the cheapest plan saves when it comes from s instead of the start: no way to s costs less.
Gap(s) == Least - Cheapest(s)

\* The first query is under way.
Searching == queries = 1 /\ pc /= "idle"

\* The driver has called, and the search has not begun.
Begins == pc = "call" /\ stack = << >>

\* The k-th action of s.
ActionOf(s, k) == problem.action[s][k]

\* The types that Types leaves out, and when the stack is empty.
Shapes ==
  /\ problem \in Problems
  /\ kept \in [States -> Int]
  /\ elms \in [States -> Seq(States)]
  /\ pc \in {"idle", "call", "run", "back"}
  /\ queries \in Nat /\ solved \in BOOLEAN
  /\ explored <= Unlimited
  /\ pc \in {"idle", "back"} => stack = << >>

\* The entries that the lists of members lead to from s, as in Members.
MembersOf(s, tops, lists) ==
  Closure(s, [r \in States |-> IF tops[r] = COMPLETE THEN {} ELSE ToSet(lists[r])])

\* Before a plan is thrown frames and entries point to each other, a live root is below its
\* state, an entry without a frame has no list, and the list of a frame leads to no frame below.
Wired(frames, tops, roots, lists) ==
  /\ frames \in Seq(Frames) /\ tops \in [States -> Int]
  /\ roots \in [States -> States] /\ lists \in [States -> Seq(States)]
  /\ \A i \in DOMAIN frames : tops[frames[i].state] = i
  /\ \A s \in States : tops[s] > 0 =>
       /\ tops[s] \in DOMAIN frames /\ frames[tops[s]].state = s
       /\ tops[roots[s]] \in 1 .. tops[s]
  /\ \A s \in States : tops[s] = NULL => roots[s] = s /\ lists[s] = << >>
  /\ \A s \in States : \A t \in ToSet(lists[s]) : tops[t] /= NULL
  /\ \A i, j \in DOMAIN frames :
       j < i => frames[j].state \notin MembersOf(frames[i].state, tops, lists)

\* A table that no query has used.
Unused ==
  /\ pc = "idle" /\ ~solved
  /\ \A s \in States : top[s] = NULL /\ root[s] = s /\ elms[s] = << >> /\ best[s] = NoPlan

\* No frame has come to its state more cheaply than possible, or with more than was given.
OnTheWay(f) ==
  /\ Gap(f.state) <= f.cost
  /\ f.limit + f.cost <= query.limit
  /\ f.limit >= 0 \/ f.cost = 0

\* A plan that is known costs no less than the cheapest and no more than was allowed.
Within(cost) == cost = NoPlan \/ (Least <= cost /\ cost <= query.limit)

\* The stack, the call and the plans that are known agree with the cheapest costs.
Paths ==
  /\ \A i \in DOMAIN stack : OnTheWay(stack[i])
  /\ pc = "call" => OnTheWay(call)
  /\ Within(found) /\ Within(best[Begin])
  /\ bounds.high <= query.limit

\* How the driver learns of a plan.  best_plan asks for no more than the cheapest plan costs.
Outcomes ==
  /\ found /= NoPlan \/ best[Begin] /= NoPlan => solved
  /\ query.how = "bin" /\ bounds.high /= NoPlan => best[Begin] /= NoPlan
  /\ solved => \/ pc = "back" /\ found /= NoPlan
               \/ query.how \in {"bb", "bin"} /\ best[Begin] /= NoPlan
  /\ query.how = "down" => bounds.level <= Least /\ found <= bounds.level

\* Limits fall from frame to frame, and an entry under evaluation keeps that of its frame.
Falling ==
  /\ \A i \in DOMAIN stack : stack[i].limit = kept[stack[i].state]
  /\ \A i, j \in DOMAIN stack : i <= j => stack[j].limit <= stack[i].limit
  /\ pc = "call" => \A i \in DOMAIN stack : call.limit <= stack[i].limit

\* Limits and costs add up to what the driver gave, and what is noted as explored is more.
Limits ==
  /\ \A i \in DOMAIN stack : stack[i].limit + stack[i].cost = bounds.level
  /\ pc = "call" => call.limit + call.cost = bounds.level
  /\ query.how \in {"plan", "bb"} => bounds.level = query.limit
  /\ 0 <= bounds.level /\ bounds.level <= query.limit
  /\ bounds.high = NoPlan
  /\ query.how \in {"down", "bin"} => explored = Unlimited \/ bounds.level < explored

\* No entry was called with more than the cheapest way leaves, and before a search begins all
\* were called with less than it will leave now.
Spent ==
  \A s \in States : top[s] /= NULL =>
    /\ kept[s] <= query.limit
    /\ kept[s] <= bounds.level - Gap(s)
    /\ Begins => kept[s] < bounds.level - Gap(s)

\* The search has called the start, or is about to, with what the driver gave.
Started ==
  IF Begins THEN call.state = Begin /\ call.limit = bounds.level
  ELSE top[Begin] /= NULL /\ kept[Begin] >= bounds.level

\* The k-th action of s, taken with this limit, has led to an entry that was called with as much.
Answered(p, tops, keeps, s, limit, k) ==
  limit >= p.action[s][k].cost =>
    /\ tops[p.action[s][k].to] /= NULL
    /\ keeps[p.action[s][k].to] >= limit - p.action[s][k].cost

\* An action that was too dear is known to the driver, by the depth.
Noted(p, depth, s, limit, cost, k) ==
  limit < p.action[s][k].cost => depth <= cost + p.action[s][k].cost

\* The call c is that of the action which the frame f has just taken.
Pending(p, f, c, k) ==
  /\ k = f.alt - 1
  /\ c.state = p.action[f.state][k].to
  /\ c.limit = f.limit - p.action[f.state][k].cost

\* The actions that a frame has tried.
Tried(p, f, tops, keeps, depth, calling, c) ==
  f.alt > 0 =>
    /\ f.state \notin p.final
    /\ f.alt <= Len(p.action[f.state]) + 1
    /\ f.limit < p.heuristic[f.state] => depth <= f.cost + p.heuristic[f.state]
    /\ f.limit >= p.heuristic[f.state] =>
         \A k \in 1 .. f.alt - 1 :
           /\ \/ Answered(p, tops, keeps, f.state, f.limit, k)
              \/ calling /\ Pending(p, f, c, k)
           /\ Noted(p, depth, f.state, f.limit, f.cost, k)

\* An entry that has failed has tried all of them, or seen that the goal is too far.
Failed(p, s, tops, keeps) ==
  /\ s \notin p.final
  /\ keeps[s] >= p.heuristic[s] =>
       \A k \in DOMAIN p.action[s] : Answered(p, tops, keeps, s, keeps[s], k)

\* What has left it no way is known to the driver.
Explored(p, s, limit, cost, depth) ==
  /\ limit < p.heuristic[s] => depth <= cost + p.heuristic[s]
  /\ limit >= p.heuristic[s] =>
       \A k \in DOMAIN p.action[s] : Noted(p, depth, s, limit, cost, k)

\* Every frame has tried the actions before its alternative; the top one may be calling.
AllTried ==
  \A i \in DOMAIN stack :
    Tried(problem, stack[i], top, kept, explored, pc = "call" /\ i = Len(stack), call)

\* Every entry without a frame has failed, with what it was called with.
AllFailed == \A s \in States : top[s] < 0 => Failed(problem, s, top, kept)

\* Where the cheapest way would have passed.
AllExplored ==
  \A s \in States : top[s] < 0 /\ kept[s] = bounds.level - Gap(s) =>
    Explored(problem, s, kept[s], Gap(s), explored)

\* What the failure of every entry rests on, whatever the query.
Tracks == Falling /\ AllTried /\ AllFailed

\* What the failure of the first query's search, without a plan, rests on.
Failing == Tracks /\ Limits /\ Spent /\ Started /\ AllExplored

\* The inductive invariant: a new table is unused, and the first query keeps what its answer
\* rests on, the failures of the table until a plan is thrown.
FirstInv ==
  /\ IInv /\ Shapes
  /\ queries = 0 => Unused
  /\ ~solved => Wired(stack, top, root, elms)
  /\ Searching => Paths /\ Outcomes
  /\ Searching /\ ~solved => Failing
  /\ FirstAnswerIsRight

\* A new table has the shapes.
LEMMA ShapesInit == Init => Shapes
<1> SUFFICES ASSUME Init
             PROVE  Shapes
  OBVIOUS
<1>1. << >> \in Seq(States)
  OBVIOUS
<1>2. elms \in [States -> Seq(States)]
  BY <1>1 DEF Init, FreshTables
<1>3. kept \in [States -> Int]
  BY DEF Init, FreshTables
<1>4. explored <= Unlimited
  BY BoundsAssumption DEF Init
<1>5. problem \in Problems /\ pc = "idle" /\ stack = << >> /\ queries = 0 /\ solved = FALSE
  BY DEF Init
<1> QED
  BY <1>2, <1>3, <1>4, <1>5 DEF Shapes

\* Propagating a root leaves the lists of members lists of states.
LEMMA ElmsStay ==
  ASSUME IInv, Shapes, NEW s \in States, NEW caller \in 0 .. Len(stack), NEW tops,
         PropagateRoot(s, caller, tops)
  PROVE  elms' \in [States -> Seq(States)]
<1>1. CASE UNCHANGED <<root, elms>>
  BY <1>1 DEF Shapes
<1>2. CASE /\ caller /= 0
           /\ \E r \in LiveRoots(s, tops) :
                LET s0 == stack[caller].state
                    joins == r /= root[s0] /\ Higher(tops[r], tops[root[s0]])
                IN elms' = IF joins THEN [elms EXCEPT ![r] = <<s0>> \o @] ELSE elms
  <2>1. PICK r \in LiveRoots(s, tops) :
          elms' = [elms EXCEPT ![r] = <<stack[caller].state>> \o @] \/ elms' = elms
    BY <1>2
  <2>2. r \in States
    BY <2>1 DEF LiveRoots, Closure
  <2>3. stack[caller] \in Frames
    BY <1>2 DEF IInv, Types
  <2>4. stack[caller].state \in States /\ elms \in [States -> Seq(States)]
    BY <2>3 DEF Frames, Shapes
  <2>5. <<stack[caller].state>> \o elms[r] \in Seq(States)
    BY <2>2, <2>4
  <2> QED
    BY <2>1, <2>2, <2>4, <2>5
<1> QED
  BY <1>1, <1>2 DEF PropagateRoot

\* A step of the top frame only lowers the depth that is noted as explored.
LEMMA ExploredFalls ==
  ASSUME IInv, RunClause
  PROVE  explored' \in Int /\ explored' <= explored
<1>1. explored \in Int
  BY DEF IInv, Types
<1>2. IInv'
  BY RunKeeps
<1>3. explored' \in Int
  BY <1>2 DEF IInv, Types
<1>4. explored' = explored \/ explored' < explored
  <2>1. CASE CheckHeuristic
    BY <2>1 DEF CheckHeuristic, UpdateExploredDepth
  <2>2. CASE TryAction
    BY <2>2 DEF TryAction, UpdateExploredDepth
  <2> QED
    BY <2>1, <2>2 DEF RunClause
<1> QED
  BY <1>1, <1>3, <1>4

\* Every step keeps the shapes.
LEMMA ShapesKept == IInv /\ Shapes /\ [Next]_vars => Shapes'
<1> SUFFICES ASSUME IInv, Shapes, [Next]_vars
             PROVE  Shapes'
  OBVIOUS
<1>1. CASE table_allocate
  <2>1. call.state \in States /\ call.limit \in Int /\ stack \in Seq(Frames)
    BY DEF IInv, Types
  <2>2. CASE FirstCall \/ Reopen
    <3>1. kept' \in [States -> Int] /\ pc' = "run"
      BY <2>1, <2>2 DEF FirstCall, Reopen, Push, Shapes
    <3>2. elms' \in [States -> Seq(States)]
      <4>1. << >> \in Seq(States)
        OBVIOUS
      <4>2. elms' = elms \/ elms' = [elms EXCEPT ![call.state] = << >>]
        BY <2>2 DEF FirstCall, Reopen
      <4> QED
        BY <2>1, <4>1, <4>2 DEF Shapes
    <3> QED
      BY <1>1, <3>1, <3>2 DEF table_allocate, driverVars, Shapes
  <2>3. CASE FailAgain
    <3>1. PropagateRoot(call.state, Len(stack), top)
      BY <2>3 DEF FailAgain
    <3>2. elms' \in [States -> Seq(States)]
      BY <2>1, <3>1, ElmsStay
    <3>3. pc' \in {"run", "back"} /\ (pc' = "back" => stack' = << >>) /\ UNCHANGED <<kept, stack>>
      BY <2>3 DEF FailAgain, GoOn
    <3> QED
      BY <1>1, <3>2, <3>3 DEF table_allocate, driverVars, Shapes
  <2> QED
    BY <1>1, <2>2, <2>3 DEF table_allocate
<1>2. CASE ThrowPlan
  BY <1>2 DEF ThrowPlan, driverVars, Shapes
<1>3. CASE RunClause
  <2>1. explored' <= explored /\ explored' \in Int /\ explored \in Int
    BY <1>3, ExploredFalls DEF IInv, Types
  <2>2. pc' \in {"run", "call"}
    BY <1>3 DEF RunClause, CheckHeuristic, TryAction
  <2> QED
    BY <1>3, <2>1, <2>2, BoundsAssumption DEF RunClause, tableVars, driverVars, Shapes
<1>4. CASE table_check_completion
  <2>1. TopFrame.state \in States /\ Len(stack) - 1 \in 0 .. Len(stack)
    <3>1. stack \in Seq(Frames) /\ stack /= << >>
      BY <1>4 DEF table_check_completion, IInv, Types
    <3>2. Len(stack) \in Nat \ {0} /\ stack[Len(stack)] \in Frames
      BY <3>1
    <3> QED
      BY <3>2 DEF TopFrame, Frames
  <2>2. elms' \in [States -> Seq(States)]
    BY <1>4, <2>1, ElmsStay DEF table_check_completion
  <2>3. pc' \in {"run", "back"} /\ (pc' = "back" => stack' = << >>)
    BY <1>4 DEF table_check_completion, GoOn
  <2> QED
    BY <1>4, <2>2, <2>3 DEF table_check_completion, driverVars, Shapes
<1>5. CASE Driver
  <2>1. pc' \in {"idle", "call"} /\ explored' \in {explored, Unlimited}
    BY <1>5 DEF Driver, plan, best_plan_downward, loop_best_plan_bb, loop_best_plan_downward_bin,
       halve_best_plan_bin, loop_best_plan_bin, Return, SearchAgain, call_picat_plan, picat_plan
  <2>2. stack = << >> /\ stack' = stack
    BY <1>5 DEF Driver, Shapes
  <2> QED
    BY <1>5, <2>1, <2>2, BoundsAssumption DEF Driver, tableVars, Shapes
<1>6. ASSUME NEW q \in Queries, Query(q) PROVE Shapes'
  <2>1. pc' = "call" /\ explored' \in {explored, Unlimited} /\ queries' = queries + 1
    BY <1>6 DEF Query, picat_plan, call_picat_plan
  <2> QED
    BY <1>6, <2>1, BoundsAssumption DEF Query, tableVars, Shapes
<1>7. CASE c_INITIALIZE_TABLE
  <2>1. << >> \in Seq(States)
    OBVIOUS
  <2>2. kept' \in [States -> Int]
    BY <1>7 DEF c_INITIALIZE_TABLE
  <2>3. elms' \in [States -> Seq(States)]
    BY <1>7, <2>1 DEF c_INITIALIZE_TABLE
  <2> QED
    BY <1>7, <2>2, <2>3 DEF c_INITIALIZE_TABLE, Shapes
<1>8. CASE UNCHANGED vars
  BY <1>8 DEF vars, Shapes
<1> QED
  BY <1>1, <1>2, <1>3, <1>4, <1>5, <1>6, <1>7, <1>8 DEF Next, Search

-----------------------------------------------------------------------------
\* What is closed under Follow and has the first element has the closure.
LEMMA ClosureLeast ==
  ASSUME NEW s \in States, NEW Follow, NEW R \in SUBSET States, s \in R,
         \A r \in R : Follow[r] \subseteq R
  PROVE  Closure(s, Follow) \subseteq R
BY DEF Closure

\* What is reached by Follow is followed by nothing else.
LEMMA ClosureClosed ==
  ASSUME NEW s \in States, NEW Follow, NEW t \in Closure(s, Follow), Follow[t] \subseteq States
  PROVE  Follow[t] \subseteq Closure(s, Follow)
BY DEF Closure

\* Shorter lists reach no more.
LEMMA ClosureShrinks ==
  ASSUME NEW s \in States, NEW F, NEW G,
         \A r \in States : F[r] \subseteq States /\ G[r] \subseteq F[r]
  PROVE  Closure(s, G) \subseteq Closure(s, F)
<1>1. s \in Closure(s, F) /\ Closure(s, F) \in SUBSET States
  BY ClosureHasFirst
<1>2. \A r \in Closure(s, F) : G[r] \subseteq Closure(s, F)
  BY <1>1, ClosureClosed
<1> QED
  BY <1>1, <1>2, ClosureLeast

\* One more link, from r to t, adds no more than what t reaches, and nothing where r is not
\* reached.
Links(F, G, r, t) ==
  \A x \in States : F[x] \subseteq States /\ G[x] \subseteq F[x] \cup (IF x = r THEN {t} ELSE {})

LEMMA ClosureOfLink ==
  ASSUME NEW s \in States, NEW r \in States, NEW t \in States, NEW F, NEW G, Links(F, G, r, t)
  PROVE  /\ Closure(s, G) \subseteq Closure(s, F) \cup Closure(t, F)
         /\ r \notin Closure(s, F) => Closure(s, G) \subseteq Closure(s, F)
<1> DEFINE R == Closure(s, F) \cup Closure(t, F)
<1>1. /\ s \in Closure(s, F) /\ Closure(s, F) \in SUBSET States
      /\ t \in Closure(t, F) /\ Closure(t, F) \in SUBSET States
  BY ClosureHasFirst
<1>2. \A x \in Closure(s, F) : F[x] \subseteq Closure(s, F)
  BY <1>1, ClosureClosed DEF Links
<1>3. \A x \in Closure(t, F) : F[x] \subseteq Closure(t, F)
  BY <1>1, ClosureClosed DEF Links
<1>4. R \in SUBSET States /\ s \in R /\ \A x \in R : G[x] \subseteq R
  BY <1>1, <1>2, <1>3 DEF Links
<1>5. Closure(s, G) \subseteq R
  <2> HIDE DEF R
  <2> QED
    BY <1>4, ClosureLeast
<1>6. ASSUME r \notin Closure(s, F)
      PROVE  Closure(s, G) \subseteq Closure(s, F)
  <2>1. \A x \in Closure(s, F) : G[x] \subseteq Closure(s, F)
    BY <1>1, <1>2, <1>6 DEF Links
  <2> QED
    BY <1>1, <2>1, ClosureLeast
<1> QED
  BY <1>5, <1>6

\* What a state's list may hold.
LEMMA ListsAreStates ==
  ASSUME NEW lists \in [States -> Seq(States)], NEW s \in States
  PROVE  ToSet(lists[s]) \subseteq States
<1>1. lists[s] \in Seq(States)
  OBVIOUS
<1>2. \A i \in DOMAIN lists[s] : lists[s][i] \in States
  BY <1>1
<1> QED
  BY <1>2 DEF ToSet

\* Completing entries and emptying lists adds no members.
LEMMA MembersShrink ==
  ASSUME NEW tops, NEW lists \in [States -> Seq(States)],
         NEW tops2, NEW lists2, NEW s \in States,
         \A r \in States : (tops[r] = COMPLETE => tops2[r] = COMPLETE \/ lists2[r] = << >>)
                           /\ (lists2[r] = lists[r] \/ lists2[r] = << >>)
  PROVE  MembersOf(s, tops2, lists2) \subseteq MembersOf(s, tops, lists)
<1> DEFINE F == [r \in States |-> IF tops[r] = COMPLETE THEN {} ELSE ToSet(lists[r])]
           G == [r \in States |-> IF tops2[r] = COMPLETE THEN {} ELSE ToSet(lists2[r])]
<1>0. ToSet(<< >>) = {}
  BY DEF ToSet
<1>1. \A r \in States : F[r] \subseteq States /\ G[r] \subseteq F[r]
  BY <1>0, ListsAreStates
<1>2. MembersOf(s, tops, lists) = Closure(s, F) /\ MembersOf(s, tops2, lists2) = Closure(s, G)
  BY DEF MembersOf
<1>3. Closure(s, G) \subseteq Closure(s, F)
  <2> HIDE DEF F, G
  <2> QED
    BY <1>1, ClosureShrinks
<1> QED
  BY <1>2, <1>3

\* The members of a frame's SCC were all called.
LEMMA MembersAreCalled ==
  ASSUME NEW tops, NEW lists \in [States -> Seq(States)],
         \A r \in States : \A t \in ToSet(lists[r]) : tops[t] /= NULL,
         NEW s \in States, tops[s] /= NULL
  PROVE  \A t \in MembersOf(s, tops, lists) : t \in States /\ tops[t] /= NULL
<1> DEFINE F == [r \in States |-> IF tops[r] = COMPLETE THEN {} ELSE ToSet(lists[r])]
           R == {t \in States : tops[t] /= NULL}
<1>1. \A r \in R : F[r] \subseteq R
  BY ListsAreStates
<1>2. s \in R /\ R \in SUBSET States /\ MembersOf(s, tops, lists) = Closure(s, F)
  BY DEF MembersOf
<1> HIDE DEF F
<1>3. Closure(s, F) \subseteq R
  BY <1>1, <1>2, ClosureLeast
<1> QED
  BY <1>2, <1>3

\* In front of a list.
LEMMA PutFirst ==
  ASSUME NEW s0 \in States, NEW l \in Seq(States)
  PROVE  /\ <<s0>> \o l \in Seq(States)
         /\ ToSet(<<s0>> \o l) = {s0} \cup ToSet(l)
<1> DEFINE m == <<s0>> \o l
<1>1. m \in Seq(States) /\ Len(m) = Len(l) + 1 /\ m[1] = s0
      /\ \A i \in 1 .. Len(l) : m[i + 1] = l[i]
  OBVIOUS
<1>2. ToSet(m) \subseteq {s0} \cup ToSet(l)
  <2> SUFFICES ASSUME NEW i \in 1 .. Len(l) + 1
               PROVE  m[i] \in {s0} \cup ToSet(l)
    BY <1>1 DEF ToSet
  <2>1. CASE i = 1
    BY <1>1, <2>1
  <2>2. CASE i /= 1
    <3>1. i - 1 \in 1 .. Len(l) /\ m[(i - 1) + 1] = l[i - 1]
      BY <1>1, <2>2
    <3> QED
      BY <3>1 DEF ToSet
  <2> QED
    BY <2>1, <2>2
<1>3. {s0} \cup ToSet(l) \subseteq ToSet(m)
  <2>1. s0 \in ToSet(m)
    BY <1>1 DEF ToSet
  <2>2. ASSUME NEW i \in 1 .. Len(l) PROVE l[i] \in ToSet(m)
    <3>1. i + 1 \in 1 .. Len(m) /\ m[i + 1] = l[i]
      BY <1>1
    <3> HIDE DEF m
    <3> QED
      BY <1>1, <3>1 DEF ToSet
  <2>3. ToSet(l) = {l[i] : i \in 1 .. Len(l)}
    BY DEF ToSet
  <2> HIDE DEF m
  <2> QED
    BY <2>1, <2>2, <2>3
<1> QED
  BY <1>1, <1>2, <1>3

-----------------------------------------------------------------------------
\* Each frame is that of its state.
LEMMA FrameFacts ==
  ASSUME NEW frames, NEW tops, NEW roots, NEW lists, Wired(frames, tops, roots, lists),
         NEW i \in 1 .. Len(frames)
  PROVE  /\ frames[i] \in Frames /\ tops[frames[i].state] = i
         /\ frames[i].state \in States /\ frames[i].limit \in Int
         /\ frames[i].cost \in Nat /\ frames[i].alt \in Nat
<1>1. frames \in Seq(Frames)
  BY DEF Wired
<1>2. frames[i] \in Frames /\ i \in DOMAIN frames
  BY <1>1
<1>3. tops[frames[i].state] = i
  BY <1>2 DEF Wired
<1> QED
  BY <1>2, <1>3 DEF Frames

\* A new frame: the state was not under evaluation, and begins an SCC of its own.
OfItsOwn(t, roots, lists, roots2, lists2) ==
  /\ roots2 \in [States -> States] /\ lists2 \in [States -> Seq(States)]
  /\ roots2[t] = t /\ lists2[t] = << >>
  /\ \A x \in States : x /= t => roots2[x] = roots[x] /\ lists2[x] = lists[x]

LEMMA PushWired ==
  ASSUME NEW frames, NEW tops, NEW roots, NEW lists, Wired(frames, tops, roots, lists),
         NEW n \in Nat, n = Len(frames),
         NEW f \in Frames, NEW t \in States, t = f.state, ~(tops[t] > 0),
         NEW roots2, NEW lists2, OfItsOwn(t, roots, lists, roots2, lists2)
  PROVE  Wired(Append(frames, f), [tops EXCEPT ![t] = n + 1], roots2, lists2)
<1> DEFINE frames2 == Append(frames, f)
           tops2 == [tops EXCEPT ![t] = n + 1]
<1>0. /\ roots2 \in [States -> States] /\ lists2 \in [States -> Seq(States)]
      /\ roots2[t] = t /\ lists2[t] = << >>
      /\ \A x \in States : x /= t => roots2[x] = roots[x] /\ lists2[x] = lists[x]
  BY DEF OfItsOwn
<1>1. /\ frames \in Seq(Frames) /\ tops \in [States -> Int]
      /\ roots \in [States -> States] /\ lists \in [States -> Seq(States)]
      /\ DOMAIN frames = 1 .. n
  BY DEF Wired
<1>2. /\ frames2 \in Seq(Frames) /\ DOMAIN frames2 = 1 .. n + 1
      /\ frames2[n + 1] = f /\ \A i \in 1 .. n : frames2[i] = frames[i]
  BY <1>0, <1>1
<1>3. /\ tops2 \in [States -> Int] /\ tops2[t] = n + 1
      /\ \A x \in States : x /= t => tops2[x] = tops[x]
  BY <1>0, <1>1
<1>4. \A i \in 1 .. n : frames[i].state \in States /\ frames[i].state /= t /\ tops[frames[i].state] = i
  <2> SUFFICES ASSUME NEW i \in 1 .. n
               PROVE  frames[i].state \in States /\ frames[i].state /= t /\ tops[frames[i].state] = i
    OBVIOUS
  <2>1. i \in 1 .. Len(frames)
    OBVIOUS
  <2> QED
    BY <1>0, <2>1, FrameFacts
<1> HIDE DEF frames2, tops2
<1>5. \A i \in DOMAIN frames2 : tops2[frames2[i].state] = i
  <2> SUFFICES ASSUME NEW i \in 1 .. n + 1
               PROVE  tops2[frames2[i].state] = i
    BY <1>0, <1>2
  <2>1. CASE i = n + 1
    BY <1>0, <1>2, <1>3, <2>1
  <2>2. CASE i \in 1 .. n
    <3>1. frames2[i] = frames[i]
      BY <1>0, <1>2, <2>2
    <3>2. frames[i].state \in States /\ frames[i].state /= t /\ tops[frames[i].state] = i
      BY <1>0, <1>4, <2>2
    <3> QED
      BY <1>0, <1>3, <3>1, <3>2
  <2> QED
    BY <1>0, <2>1, <2>2
<1>6. \A s \in States : tops2[s] > 0 =>
         /\ tops2[s] \in DOMAIN frames2 /\ frames2[tops2[s]].state = s
         /\ tops2[roots2[s]] \in 1 .. tops2[s]
  <2> SUFFICES ASSUME NEW s \in States, tops2[s] > 0
               PROVE  /\ tops2[s] \in DOMAIN frames2 /\ frames2[tops2[s]].state = s
                      /\ tops2[roots2[s]] \in 1 .. tops2[s]
    OBVIOUS
  <2>1. CASE s = t
    BY <1>0, <1>1, <1>2, <1>3, <2>1
  <2>2. CASE s /= t
    <3>1. /\ tops[s] > 0 /\ tops[s] \in 1 .. n /\ frames[tops[s]].state = s
          /\ tops[roots[s]] \in 1 .. tops[s]
      BY <1>0, <1>1, <1>3, <2>2 DEF Wired
    <3>2. roots[s] \in States /\ roots[s] /= t
      BY <1>0, <1>1, <3>1
    <3> QED
      BY <1>0, <1>1, <1>2, <1>3, <2>2, <3>1, <3>2
  <2> QED
    BY <1>0, <2>1, <2>2
<1>7. \A s \in States : tops2[s] = NULL => roots2[s] = s /\ lists2[s] = << >>
  <2> SUFFICES ASSUME NEW s \in States, tops2[s] = NULL, s /= t
               PROVE  roots2[s] = s /\ lists2[s] = << >>
    BY <1>0
  <2>1. roots[s] = s /\ lists[s] = << >>
    BY <1>0, <1>3 DEF Wired
  <2> QED
    BY <1>0, <2>1
<1>8. \A s \in States : \A x \in ToSet(lists2[s]) : tops2[x] /= NULL
  <2> SUFFICES ASSUME NEW s \in States, NEW x \in ToSet(lists2[s])
               PROVE  tops2[x] /= NULL
    OBVIOUS
  <2>1. x \in States
    BY <1>0, ListsAreStates
  <2>2. CASE s = t
    BY <1>0, <2>2 DEF ToSet
  <2>3. CASE s /= t
    <3>1. tops[x] /= NULL
      BY <1>0, <2>3 DEF Wired
    <3> QED
      BY <1>0, <1>1, <1>3, <2>1, <3>1 DEF NULL
  <2> QED
    BY <1>0, <2>2, <2>3
<1>9. \A i, j \in DOMAIN frames2 :
         j < i => frames2[j].state \notin MembersOf(frames2[i].state, tops2, lists2)
  <2> SUFFICES ASSUME NEW i \in 1 .. n + 1, NEW j \in 1 .. n + 1, j < i
               PROVE  frames2[j].state \notin MembersOf(frames2[i].state, tops2, lists2)
    BY <1>0, <1>2
  <2>0. j \in 1 .. n
    OBVIOUS
  <2>1. CASE i = n + 1
    <3> DEFINE G == [r \in States |-> IF tops2[r] = COMPLETE THEN {} ELSE ToSet(lists2[r])]
    <3>1. G[t] = {}
      BY <1>0 DEF ToSet
    <3>2. MembersOf(t, tops2, lists2) = Closure(t, G)
      BY DEF MembersOf
    <3> HIDE DEF G
    <3>3. {t} \in SUBSET States /\ t \in {t} /\ \A r \in {t} : G[r] \subseteq {t}
      BY <3>1
    <3>4. Closure(t, G) \subseteq {t}
      BY <3>3, ClosureLeast
    <3> QED
      BY <1>0, <1>2, <1>4, <2>0, <2>1, <3>2, <3>4
  <2>2. CASE i /= n + 1
    <3>0. i \in 1 .. n
      BY <2>2
    <3>1. frames2[i] = frames[i] /\ frames2[j] = frames[j] /\ frames[i].state \in States
      BY <1>0, <1>2, <1>4, <2>0, <3>0
    <3>2. frames[j].state \notin MembersOf(frames[i].state, tops, lists)
      BY <1>0, <1>1, <2>0, <3>0 DEF Wired
    <3>3. \A r \in States : (tops[r] = COMPLETE => tops2[r] = COMPLETE \/ lists2[r] = << >>)
                            /\ (lists2[r] = lists[r] \/ lists2[r] = << >>)
      BY <1>0, <1>3
    <3>4. MembersOf(frames[i].state, tops2, lists2) \subseteq MembersOf(frames[i].state, tops, lists)
      BY <1>0, <1>1, <3>1, <3>3, MembersShrink
    <3> QED
      BY <3>1, <3>2, <3>4
  <2> QED
    BY <1>0, <2>1, <2>2
<1>10. Wired(frames2, tops2, roots2, lists2)
  BY <1>0, <1>2, <1>3, <1>5, <1>6, <1>7, <1>8, <1>9 DEF Wired
<1> QED
  BY <1>0, <1>10 DEF frames2, tops2

\* The top frame goes, and the entries that fail with it had failed before.
LEMMA PopWired ==
  ASSUME NEW frames, NEW tops, NEW roots, NEW lists, Wired(frames, tops, roots, lists),
         NEW n \in Nat \ {0}, n = Len(frames), NEW s, s = frames[n].state,
         NEW tops2 \in [States -> Int], tops2[s] < 0,
         \A t \in States :
           t /= s => tops2[t] = tops[t] \/ (tops[t] < 0 /\ tops2[t] = COMPLETE)
  PROVE  Wired(Front(frames), tops2, roots, lists)
<1> DEFINE frames2 == Front(frames)
<1>1. /\ frames \in Seq(Frames) /\ tops \in [States -> Int]
      /\ roots \in [States -> States] /\ lists \in [States -> Seq(States)]
      /\ DOMAIN frames = 1 .. n
  BY DEF Wired
<1>2. /\ frames2 \in Seq(Frames) /\ DOMAIN frames2 = 1 .. n - 1
      /\ \A i \in 1 .. n - 1 : frames2[i] = frames[i]
  <2>1. frames2 = SubSeq(frames, 1, n - 1)
    BY DEF Front
  <2>2. \A i \in 1 .. n - 1 : frames[i] \in Frames
    BY <1>1
  <2> QED
    BY <1>1, <2>1, <2>2, SubSeqProperties
<1>3. \A i \in 1 .. n : frames[i].state \in States /\ tops[frames[i].state] = i
  <2> SUFFICES ASSUME NEW i \in 1 .. n
               PROVE  frames[i].state \in States /\ tops[frames[i].state] = i
    OBVIOUS
  <2>1. i \in 1 .. Len(frames)
    OBVIOUS
  <2> QED
    BY <2>1, FrameFacts
<1>4. s \in States /\ tops[s] = n
  BY <1>3
<1> HIDE DEF frames2
<1>5. \A i \in DOMAIN frames2 : tops2[frames2[i].state] = i
  <2> SUFFICES ASSUME NEW i \in 1 .. n - 1
               PROVE  tops2[frames2[i].state] = i
    BY <1>2
  <2>1. i \in 1 .. n /\ i /= n
    OBVIOUS
  <2>2. frames[i].state \in States /\ tops[frames[i].state] = i
    BY <1>3, <2>1
  <2>3. tops2[frames[i].state] = tops[frames[i].state]
    BY <1>4, <2>1, <2>2
  <2> QED
    BY <1>2, <2>2, <2>3
<1>6. \A x \in States : tops2[x] > 0 =>
         /\ tops2[x] \in DOMAIN frames2 /\ frames2[tops2[x]].state = x
         /\ tops2[roots[x]] \in 1 .. tops2[x]
  <2> SUFFICES ASSUME NEW x \in States, tops2[x] > 0
               PROVE  /\ tops2[x] \in DOMAIN frames2 /\ frames2[tops2[x]].state = x
                      /\ tops2[roots[x]] \in 1 .. tops2[x]
    OBVIOUS
  <2>1. x /= s /\ tops2[x] = tops[x]
    BY DEF COMPLETE
  <2>2. tops[x] \in 1 .. n /\ frames[tops[x]].state = x /\ tops[roots[x]] \in 1 .. tops[x]
    BY <1>1, <2>1 DEF Wired
  <2>3. tops[x] \in 1 .. n - 1
    BY <2>1, <2>2
  <2>4. roots[x] \in States /\ roots[x] /= s
    BY <1>1, <1>4, <2>2, <2>3
  <2>5. tops2[roots[x]] = tops[roots[x]]
    BY <2>2, <2>4
  <2> QED
    BY <1>2, <2>1, <2>2, <2>3, <2>5
<1>7. \A x \in States : tops2[x] = NULL => roots[x] = x /\ lists[x] = << >>
  <2> SUFFICES ASSUME NEW x \in States, tops2[x] = NULL
               PROVE  roots[x] = x /\ lists[x] = << >>
    OBVIOUS
  <2>1. tops[x] = NULL
    BY DEF NULL, COMPLETE
  <2> QED
    BY <2>1 DEF Wired
<1>8. \A x \in States : \A t \in ToSet(lists[x]) : tops2[t] /= NULL
  <2> SUFFICES ASSUME NEW x \in States, NEW t \in ToSet(lists[x])
               PROVE  tops2[t] /= NULL
    OBVIOUS
  <2>1. t \in States /\ tops[t] /= NULL
    BY <1>1, ListsAreStates DEF Wired
  <2> QED
    BY <2>1 DEF NULL, COMPLETE
<1>9. \A i, j \in DOMAIN frames2 :
         j < i => frames2[j].state \notin MembersOf(frames2[i].state, tops2, lists)
  <2> SUFFICES ASSUME NEW i \in 1 .. n - 1, NEW j \in 1 .. n - 1, j < i
               PROVE  frames2[j].state \notin MembersOf(frames2[i].state, tops2, lists)
    BY <1>2
  <2>1. i \in 1 .. n /\ j \in 1 .. n /\ frames2[i] = frames[i] /\ frames2[j] = frames[j]
        /\ frames[i].state \in States
    BY <1>2, <1>3
  <2>2. frames[j].state \notin MembersOf(frames[i].state, tops, lists)
    BY <1>1, <2>1 DEF Wired
  <2>3. \A r \in States : (tops[r] = COMPLETE => tops2[r] = COMPLETE \/ lists[r] = << >>)
                          /\ (lists[r] = lists[r] \/ lists[r] = << >>)
    <3> SUFFICES ASSUME NEW r \in States, tops[r] = COMPLETE PROVE tops2[r] = COMPLETE
      OBVIOUS
    <3>1. r /= s
      BY <1>4 DEF COMPLETE
    <3> QED
      BY <3>1
  <2>4. MembersOf(frames[i].state, tops2, lists) \subseteq MembersOf(frames[i].state, tops, lists)
    BY <1>1, <2>1, <2>3, MembersShrink
  <2> QED
    BY <2>1, <2>2, <2>4
<1>10. Wired(frames2, tops2, roots, lists)
  BY <1>1, <1>2, <1>5, <1>6, <1>7, <1>8, <1>9 DEF Wired
<1> QED
  BY <1>10 DEF frames2

\* The caller joins the SCC of an older frame.
LEMMA JoinWired ==
  ASSUME NEW frames, NEW tops, NEW roots, NEW lists, Wired(frames, tops, roots, lists),
         NEW c \in Nat \ {0}, c = Len(frames), NEW s0, s0 = frames[c].state,
         NEW r \in States, tops[r] \in 1 .. c - 1
  PROVE  Wired(frames, tops, [roots EXCEPT ![s0] = r], [lists EXCEPT ![r] = <<s0>> \o @])
<1> DEFINE roots2 == [roots EXCEPT ![s0] = r]
           lists2 == [lists EXCEPT ![r] = <<s0>> \o @]
<1>1. /\ frames \in Seq(Frames) /\ tops \in [States -> Int]
      /\ roots \in [States -> States] /\ lists \in [States -> Seq(States)]
      /\ DOMAIN frames = 1 .. c
  BY DEF Wired
<1>2. \A i \in 1 .. c : frames[i].state \in States /\ tops[frames[i].state] = i
  <2> SUFFICES ASSUME NEW i \in 1 .. c
               PROVE  frames[i].state \in States /\ tops[frames[i].state] = i
    OBVIOUS
  <2>1. i \in 1 .. Len(frames)
    OBVIOUS
  <2> QED
    BY <2>1, FrameFacts
<1>3. s0 \in States /\ tops[s0] = c
  BY <1>2
<1>4. /\ roots2 \in [States -> States] /\ roots2[s0] = r
      /\ \A x \in States : x /= s0 => roots2[x] = roots[x]
  BY <1>1, <1>3
<1>5. lists[r] \in Seq(States)
  BY <1>1
<1>6. <<s0>> \o lists[r] \in Seq(States) /\ ToSet(<<s0>> \o lists[r]) = {s0} \cup ToSet(lists[r])
  BY <1>3, <1>5, PutFirst
<1>7. /\ lists2 \in [States -> Seq(States)] /\ lists2[r] = <<s0>> \o lists[r]
      /\ \A x \in States : x /= r => lists2[x] = lists[x]
  BY <1>1, <1>6
<1> HIDE DEF roots2, lists2
<1>8. \A s \in States : tops[s] > 0 =>
         /\ tops[s] \in DOMAIN frames /\ frames[tops[s]].state = s
         /\ tops[roots2[s]] \in 1 .. tops[s]
  <2> SUFFICES ASSUME NEW s \in States, tops[s] > 0
               PROVE  /\ tops[s] \in DOMAIN frames /\ frames[tops[s]].state = s
                      /\ tops[roots2[s]] \in 1 .. tops[s]
    OBVIOUS
  <2>1. /\ tops[s] \in DOMAIN frames /\ frames[tops[s]].state = s
        /\ tops[roots[s]] \in 1 .. tops[s]
    BY DEF Wired
  <2>2. tops[roots2[s]] \in 1 .. tops[s]
    BY <1>3, <1>4, <2>1
  <2> QED
    BY <2>1, <2>2
<1>9. \A s \in States : tops[s] = NULL => roots2[s] = s /\ lists2[s] = << >>
  <2> SUFFICES ASSUME NEW s \in States, tops[s] = NULL
               PROVE  roots2[s] = s /\ lists2[s] = << >>
    OBVIOUS
  <2>1. roots[s] = s /\ lists[s] = << >>
    BY DEF Wired
  <2>2. s /= s0 /\ s /= r
    BY <1>3 DEF NULL
  <2> QED
    BY <1>4, <1>7, <2>1, <2>2
<1>10. \A s \in States : \A t \in ToSet(lists2[s]) : tops[t] /= NULL
  <2> SUFFICES ASSUME NEW s \in States, NEW t \in ToSet(lists2[s])
               PROVE  tops[t] /= NULL
    OBVIOUS
  <2>1. t = s0 \/ t \in ToSet(lists[s])
    BY <1>6, <1>7
  <2>2. t \in ToSet(lists[s]) => tops[t] /= NULL
    BY DEF Wired
  <2> QED
    BY <1>3, <2>1, <2>2 DEF NULL
<1>11. \A i, j \in DOMAIN frames :
         j < i => frames[j].state \notin MembersOf(frames[i].state, tops, lists2)
  <2> SUFFICES ASSUME NEW i \in 1 .. c, NEW j \in 1 .. c, j < i
               PROVE  frames[j].state \notin MembersOf(frames[i].state, tops, lists2)
    BY <1>1
  <2> DEFINE F == [x \in States |-> IF tops[x] = COMPLETE THEN {} ELSE ToSet(lists[x])]
             G == [x \in States |-> IF tops[x] = COMPLETE THEN {} ELSE ToSet(lists2[x])]
             si == frames[i].state
             sj == frames[j].state
  <2>1. Links(F, G, r, s0)
    BY <1>1, <1>6, <1>7, ListsAreStates DEF Links
  <2>2. \A x : /\ MembersOf(x, tops, lists) = Closure(x, F)
               /\ MembersOf(x, tops, lists2) = Closure(x, G)
    BY DEF MembersOf
  <2>3. si \in States /\ sj \in States
    BY <1>2
  <2>4. \A a, b \in 1 .. c : b < a => frames[b].state \notin MembersOf(frames[a].state, tops, lists)
    BY <1>1 DEF Wired
  <2>9. \A b \in 1 .. c : b < i => frames[b].state \notin MembersOf(si, tops, lists)
    BY <2>4
  <2>10. \A a \in 1 .. c : j < a => sj \notin MembersOf(frames[a].state, tops, lists)
    BY <2>4
  <2> HIDE DEF F, G, si, sj
  <2>5. /\ Closure(si, G) \subseteq Closure(si, F) \cup Closure(s0, F)
        /\ r \notin Closure(si, F) => Closure(si, G) \subseteq Closure(si, F)
    BY <1>3, <2>1, <2>3, ClosureOfLink
  <2>6. sj \notin Closure(si, F)
    BY <2>2, <2>10 DEF si
  <2>7. CASE r \in Closure(si, F)
    <3>1. tops[r] \in 1 .. c /\ frames[tops[r]].state = r
      BY <1>1 DEF Wired
    <3>2. ~(tops[r] < i)
      BY <2>2, <2>7, <2>9, <3>1
    <3>3. j < c
      BY <3>1, <3>2
    <3>4. sj \notin Closure(s0, F)
      BY <2>2, <2>10, <3>3
    <3> QED
      BY <2>2, <2>5, <2>6, <3>4 DEF si, sj
  <2>8. CASE r \notin Closure(si, F)
    BY <2>2, <2>5, <2>6, <2>8 DEF si, sj
  <2> QED
    BY <2>7, <2>8
<1>12. Wired(frames, tops, roots2, lists2)
  <2>1. \A i \in DOMAIN frames : tops[frames[i].state] = i
    BY <1>1, <1>2
  <2> QED
    BY <1>1, <1>4, <1>7, <1>8, <1>9, <1>10, <1>11, <2>1 DEF Wired
<1> QED
  BY <1>12 DEF roots2, lists2

\* A failed call: its caller, the top frame, may join the SCC of a root that is older than its own.
LEMMA PropagateWired ==
  ASSUME NEW frames, NEW tops, Wired(frames, tops, root, elms),
         NEW n \in Nat, n = Len(frames), n = 0 \/ frames[n] = stack[n],
         NEW s \in States, PropagateRoot(s, n, tops)
  PROVE  Wired(frames, tops, root', elms')
<1>1. CASE UNCHANGED <<root, elms>>
  BY <1>1
<1>2. CASE /\ n /= 0
           /\ \E r \in LiveRoots(s, tops) :
                LET s0 == stack[n].state
                    joins == r /= root[s0] /\ Higher(tops[r], tops[root[s0]])
                IN /\ elms' = IF joins THEN [elms EXCEPT ![r] = <<s0>> \o @] ELSE elms
                   /\ root' = IF joins THEN [root EXCEPT ![s0] = r] ELSE root
  <2> DEFINE s0 == frames[n].state
  <2>1. n \in 1 .. Len(frames) /\ n \in Nat \ {0} /\ stack[n].state = s0
    BY <1>2
  <2>2. s0 \in States /\ tops[s0] = n
    BY <2>1, FrameFacts
  <2>3. tops[root[s0]] \in 1 .. n
    BY <1>2, <2>2 DEF Wired
  <2>4. PICK r \in LiveRoots(s, tops) :
          \/ UNCHANGED <<root, elms>>
          \/ /\ Higher(tops[r], tops[root[s0]])
             /\ elms' = [elms EXCEPT ![r] = <<s0>> \o @]
             /\ root' = [root EXCEPT ![s0] = r]
    BY <1>2, <2>1
  <2>5. r \in States /\ tops[r] \in Int
    BY <2>4 DEF LiveRoots, Closure, Wired
  <2>6. CASE /\ Higher(tops[r], tops[root[s0]])
             /\ elms' = [elms EXCEPT ![r] = <<s0>> \o @]
             /\ root' = [root EXCEPT ![s0] = r]
    <3>1. tops[r] \in 1 .. n - 1
      BY <2>3, <2>5, <2>6 DEF Higher
    <3> HIDE DEF s0
    <3>2. Wired(frames, tops, [root EXCEPT ![s0] = r], [elms EXCEPT ![r] = <<s0>> \o @])
      BY <2>1, <2>5, <3>1, JoinWired DEF s0
    <3> QED
      BY <2>6, <3>2
  <2> QED
    BY <2>4, <2>6
<1> QED
  BY <1>1, <1>2 DEF PropagateRoot

\* What table_check_completion does to the entries before a plan is thrown: the top state
\* fails, and of the others only what had failed is touched.
LEMMA CompletedIs ==
  ASSUME Wired(stack, top, root, elms), NEW n \in Nat \ {0}, n = Len(stack),
         NEW s, s = stack[n].state
  PROVE  /\ Completed(s) \in [States -> Int] /\ Completed(s)[s] < 0
         /\ \A t \in States : t /= s =>
              Completed(s)[t] = top[t] \/ (top[t] < 0 /\ Completed(s)[t] = COMPLETE)
<1>1. stack \in Seq(Frames) /\ top \in [States -> Int] /\ root \in [States -> States]
      /\ elms \in [States -> Seq(States)]
  BY DEF Wired
<1>2. s \in States /\ top[s] = n
  <2>1. n \in 1 .. Len(stack)
    OBVIOUS
  <2> QED
    BY <2>1, FrameFacts
<1>3. CASE top[root[s]] = n
  <2>1. Completed(s) = [t \in States |-> IF t \in Members(s) THEN COMPLETE ELSE top[t]]
    BY <1>3 DEF Completed
  <2>2. Members(s) = MembersOf(s, top, elms)
    BY DEF Members, MembersOf
  <2>3. s \in Members(s)
    BY <1>2, ClosureHasFirst DEF Members
  <2>4. \A r \in States : \A t \in ToSet(elms[r]) : top[t] /= NULL
    BY DEF Wired
  <2>5. \A t \in Members(s) : t \in States /\ top[t] /= NULL
    <3>1. top[s] /= NULL
      BY <1>2 DEF NULL
    <3>2. \A t \in MembersOf(s, top, elms) : t \in States /\ top[t] /= NULL
      BY ONLY <1>1, <1>2, <2>4, <3>1, MembersAreCalled
    <3> QED
      BY <2>2, <3>2
  <2>6. \A t \in Members(s) : t /= s => top[t] < 0
    <3> SUFFICES ASSUME NEW t \in Members(s), t /= s, top[t] > 0
                 PROVE  FALSE
      BY <1>1, <2>5 DEF NULL
    <3>1. t \in States
      BY <2>5
    <3>2. top[t] \in DOMAIN stack /\ stack[top[t]].state = t
      BY <3>1 DEF Wired
    <3>3. top[t] \in 1 .. n /\ n \in DOMAIN stack
      BY <1>1, <3>2
    <3>4. top[t] < n
      BY <3>2, <3>3
    <3>5. stack[top[t]].state \notin MembersOf(stack[n].state, top, elms)
      BY <3>2, <3>3, <3>4 DEF Wired
    <3> QED
      BY <2>2, <3>2, <3>5
  <2> QED
    BY <1>1, <1>2, <2>1, <2>3, <2>6 DEF COMPLETE
<1>4. CASE top[root[s]] /= n
  <2>1. root[s] /= s
    BY <1>2, <1>4
  <2>2. Completed(s) = [top EXCEPT ![s] = TEMP_COMPLETE]
    BY <1>4, <2>1 DEF Completed
  <2> QED
    BY <1>1, <1>2, <2>2 DEF TEMP_COMPLETE
<1> QED
  BY <1>3, <1>4

\* A new table is wired.
LEMMA FreshWired ==
  ASSUME NEW tops, NEW roots, NEW lists,
         tops = [s \in States |-> NULL], roots = [s \in States |-> s], lists = [s \in States |-> << >>]
  PROVE  Wired(<< >>, tops, roots, lists)
<1>1. << >> \in Seq(States) /\ << >> \in Seq(Frames) /\ DOMAIN << >> = {}
  OBVIOUS
<1>2. tops \in [States -> Int] /\ roots \in [States -> States] /\ lists \in [States -> Seq(States)]
  BY <1>1 DEF NULL
<1>3. \A s \in States : tops[s] = NULL /\ roots[s] = s /\ lists[s] = << >>
  OBVIOUS
<1>4. ToSet(<< >>) = {}
  BY DEF ToSet
<1> QED
  BY <1>1, <1>2, <1>3, <1>4 DEF Wired, NULL

\* A call that gets a frame.
Opens ==
  /\ pc = "call" /\ Push
  /\ top[call.state] = NULL \/ (top[call.state] < 0 /\ call.limit > kept[call.state])

\* First calls and reopened entries are the calls that get a frame.
LEMMA OpensFacts ==
  ASSUME IInv, Shapes, FirstCall \/ Reopen
  PROVE  Opens
BY DEF FirstCall, Reopen, MoreResources, Opens, COMPLETE, TEMP_COMPLETE

\* They leave the table wired.
LEMMA OpensWired ==
  ASSUME IInv, Shapes, FirstCall \/ Reopen, Wired(stack, top, root, elms)
  PROVE  Wired(stack', top', root', elms')
<1> DEFINE t == call.state
           f == [state |-> call.state, limit |-> call.limit, cost |-> call.cost, alt |-> 0]
           n == Len(stack)
<1>1. t \in States /\ f \in Frames /\ f.state = t /\ n \in Nat
  BY DEF IInv, Types, Frames
<1>2. root \in [States -> States] /\ elms \in [States -> Seq(States)]
  BY DEF Wired
<1>3. stack' = Append(stack, f) /\ top' = [top EXCEPT ![t] = n + 1] /\ ~(top[t] > 0)
  BY DEF FirstCall, Reopen, Push, COMPLETE, TEMP_COMPLETE, NULL
<1>4. << >> \in Seq(States)
  OBVIOUS
<1>5. CASE FirstCall
  <2>1. root[t] = t /\ elms[t] = << >> /\ root' = root /\ elms' = elms
    BY <1>1, <1>5 DEF FirstCall, Wired
  <2>2. OfItsOwn(t, root, elms, root', elms')
    BY <1>2, <2>1 DEF OfItsOwn
  <2> HIDE DEF f, t, n
  <2>3. Wired(Append(stack, f), [top EXCEPT ![t] = n + 1], root', elms')
    BY <1>1, <1>3, <2>2, PushWired DEF n
  <2> QED
    BY <1>3, <2>3
<1>6. CASE Reopen
  <2>1. root' = [root EXCEPT ![t] = t] /\ elms' = [elms EXCEPT ![t] = << >>]
    BY <1>6 DEF Reopen
  <2>2. OfItsOwn(t, root, elms, root', elms')
    BY <1>1, <1>2, <1>4, <2>1 DEF OfItsOwn
  <2>3. n = Len(stack) /\ t = f.state
    BY <1>1
  <2> HIDE DEF f, t, n
  <2>4. Wired(Append(stack, f), [top EXCEPT ![t] = n + 1], root', elms')
    BY <1>1, <1>3, <2>2, <2>3, PushWired DEF n
  <2> QED
    BY <1>3, <2>4
<1> QED
  BY <1>5, <1>6

\* Every step leaves the table wired until a plan is thrown.
LEMMA WiredKept ==
  ASSUME IInv, Shapes, ~solved => Wired(stack, top, root, elms), [Next]_vars, ~solved'
  PROVE  Wired(stack', top', root', elms')
<1>1. ASSUME ~solved, table_allocate PROVE Wired(stack', top', root', elms')
  <2>1. CASE FirstCall \/ Reopen
    BY <1>1, <2>1, OpensWired
  <2>2. CASE FailAgain
    <3>1. call.state \in States /\ Len(stack) \in Nat
      BY DEF IInv, Types
    <3>2. PropagateRoot(call.state, Len(stack), top) /\ UNCHANGED <<top, stack>>
      BY <2>2 DEF FailAgain
    <3>3. Wired(stack, top, root', elms')
      BY <1>1, <3>1, <3>2, PropagateWired
    <3> QED
      BY <3>2, <3>3
  <2> QED
    BY <1>1, <2>1, <2>2 DEF table_allocate
<1>2. ASSUME ~solved, RunClause PROVE Wired(stack', top', root', elms')
  <2>1. Wired(stack, top, root, elms) /\ UNCHANGED <<top, root, elms>>
    BY <1>2 DEF RunClause, tableVars
  <2>2. IInv'
    BY <1>2, RunKeeps
  <2>3. stack' \in Seq(Frames)
    BY <2>2 DEF IInv, Types
  <2>4. /\ DOMAIN stack' = DOMAIN stack
        /\ \A i \in DOMAIN stack : stack'[i].state = stack[i].state
    <3>1. stack \in Seq(Frames) /\ stack /= << >>
      BY <1>2 DEF RunClause, IInv, Types
    <3>2. Len(stack) \in DOMAIN stack /\ stack[Len(stack)] \in Frames
      BY <3>1
    <3>3. \E a : stack' = [stack EXCEPT ![Len(stack)].alt = a]
      <4>1. \/ stack' = NextAlternative
            \/ stack' = [stack EXCEPT ![Len(stack)].alt = NActions + 1]
        BY <1>2 DEF RunClause, CheckHeuristic, TryAction
      <4>2. NextAlternative = [stack EXCEPT ![Len(stack)].alt = TopFrame.alt + 1]
        BY DEF NextAlternative, TopFrame
      <4> QED
        BY <4>1, <4>2
    <3> QED
      BY <3>1, <3>2, <3>3 DEF Frames
  <2> QED
    BY <2>1, <2>3, <2>4 DEF Wired
<1>3. ASSUME ~solved, table_check_completion PROVE Wired(stack', top', root', elms')
  <2> DEFINE n == Len(stack)
             s == stack[n].state
  <2>1. Wired(stack, top, root, elms) /\ stack \in Seq(Frames) /\ stack /= << >>
    BY <1>3 DEF table_check_completion, IInv, Types
  <2>2. n \in Nat \ {0} /\ n \in 1 .. Len(stack)
    BY <2>1
  <2>3. s \in States
    BY <2>1, <2>2, FrameFacts
  <2>4. /\ stack' = Front(stack) /\ top' = Completed(s)
        /\ PropagateRoot(s, n - 1, Completed(s))
    BY <1>3 DEF table_check_completion, TopFrame
  <2>5. /\ top' \in [States -> Int] /\ top'[s] < 0
        /\ \A t \in States : t /= s => top'[t] = top[t] \/ (top[t] < 0 /\ top'[t] = COMPLETE)
    BY <2>1, <2>2, <2>4, CompletedIs
  <2>6. Wired(Front(stack), top', root, elms)
    BY <2>1, <2>2, <2>5, PopWired
  <2>7. n - 1 \in Nat /\ n - 1 = Len(Front(stack)) /\ (n - 1 = 0 \/ Front(stack)[n - 1] = stack[n - 1])
    <3>1. Front(stack) = SubSeq(stack, 1, n - 1) /\ n - 1 \in 0 .. Len(stack)
      BY <2>2 DEF Front
    <3>2. Len(SubSeq(stack, 1, n - 1)) = n - 1
          /\ \A i \in 1 .. n - 1 : SubSeq(stack, 1, n - 1)[i] = stack[i]
      BY <2>1, <3>1, PrefixFacts
    <3> QED
      BY <2>2, <3>1, <3>2
  <2> HIDE DEF n, s
  <2>8. Wired(Front(stack), top', root', elms')
    BY <2>3, <2>4, <2>6, <2>7, PropagateWired
  <2> QED
    BY <2>4, <2>8
<1>4. CASE Driver
  BY <1>4 DEF Driver, tableVars
<1>5. ASSUME NEW q \in Queries, Query(q) PROVE Wired(stack', top', root', elms')
  BY <1>5 DEF Query, tableVars
<1>6. CASE c_INITIALIZE_TABLE
  <2>1. stack' = << >>
    BY <1>6 DEF c_INITIALIZE_TABLE, Shapes
  <2> QED
    BY <1>6, <2>1, FreshWired DEF c_INITIALIZE_TABLE
<1>7. CASE UNCHANGED vars
  BY <1>7 DEF vars
<1>8. ~ThrowPlan
  BY DEF ThrowPlan
<1>9. table_allocate \/ RunClause \/ table_check_completion => ~solved
  BY DEF table_allocate, RunClause, table_check_completion
<1> QED
  BY <1>1, <1>2, <1>3, <1>4, <1>5, <1>6, <1>7, <1>8, <1>9 DEF Next, Search

-----------------------------------------------------------------------------
\* What problems and queries are.
LEMMA ProblemFacts ==
  ASSUME IInv, Shapes
  PROVE  /\ Begin \in States /\ Least \in Nat
         /\ query.limit \in Int /\ 0 <= query.limit /\ query.limit <= Unlimited /\ Unlimited \in Nat
         /\ query.how \in {"plan", "down", "bin", "bb"}
         /\ \A s \in States : Cheapest(s) \in Nat /\ problem.heuristic[s] \in Nat
                             /\ problem.heuristic[s] <= Cheapest(s)
         /\ \A s \in States : Len(problem.action[s]) \in Nat
                             /\ DOMAIN problem.action[s] = 1 .. Len(problem.action[s])
         /\ \A s \in States : \A k \in DOMAIN problem.action[s] :
              /\ ActionOf(s, k).to \in States /\ ActionOf(s, k).cost \in Nat
              /\ Cheapest(s) <= ActionOf(s, k).cost + Cheapest(ActionOf(s, k).to)
         /\ \A s \in problem.final : s \in States /\ Cheapest(s) = 0
<1>1. problem \in Problem /\ IsCheapest(problem) /\ query \in Queries
  BY BoundsAssumption DEF IInv, Types, Shapes
<1>2. /\ Begin \in States /\ query.limit \in 0 .. Unlimited /\ Unlimited \in Nat
      /\ query.how \in {"plan", "down", "bin", "bb"}
  BY <1>1, BoundsAssumption DEF Begin
<1>3. /\ problem.cheapest \in [States -> Nat] /\ problem.heuristic \in [States -> Nat]
      /\ problem.final \subseteq States /\ problem.action \in [States -> Actions]
  BY <1>1 DEF Problem
<1>4. \A s \in States : Cheapest(s) \in Nat /\ problem.heuristic[s] \in Nat
                       /\ problem.heuristic[s] <= Cheapest(s)
  BY <1>1, <1>3 DEF Cheapest, IsCheapest
<1>5. \A s \in States : problem.action[s] \in Seq([to : States, cost : Nat])
  BY <1>3 DEF Actions
<1>6. \A s \in States : Len(problem.action[s]) \in Nat
                       /\ DOMAIN problem.action[s] = 1 .. Len(problem.action[s])
  BY <1>5
<1>7. ASSUME NEW s \in States, NEW k \in DOMAIN problem.action[s]
      PROVE  /\ ActionOf(s, k).to \in States /\ ActionOf(s, k).cost \in Nat
             /\ Cheapest(s) <= ActionOf(s, k).cost + Cheapest(ActionOf(s, k).to)
  <2> DEFINE acts == problem.action[s]
             Act == [to : States, cost : Nat]
  <2>1. acts \in Seq(Act) /\ k \in 1 .. Len(acts)
    BY <1>5, <1>6, <1>7
  <2> HIDE DEF acts, Act
  <2>2. acts[k] \in Act
    BY <2>1
  <2>3. ActionOf(s, k) \in [to : States, cost : Nat]
    BY <2>2 DEF acts, Act, ActionOf
  <2> QED
    BY <1>1, <1>7, <2>3 DEF IsCheapest, Cheapest, ActionOf
<1>8. \A s \in problem.final : s \in States /\ Cheapest(s) = 0
  BY <1>1, <1>3 DEF IsCheapest, Cheapest
<1>9. Least \in Nat
  BY <1>2, <1>4 DEF Least
<1> QED
  BY <1>2, <1>4, <1>6, <1>7, <1>8, <1>9

\* The types of a frame.
LEMMA StackFacts ==
  ASSUME IInv, NEW i \in 1 .. Len(stack)
  PROVE  /\ stack[i] \in Frames
         /\ stack[i].state \in States /\ stack[i].limit \in Int
         /\ stack[i].cost \in Nat /\ stack[i].alt \in Nat
<1>1. stack \in Seq(Frames)
  BY DEF IInv, Types
<1>2. stack[i] \in Frames
  BY <1>1
<1> QED
  BY <1>2 DEF Frames

\* The stack counts from 1.
LEMMA LenFacts ==
  ASSUME IInv
  PROVE  /\ Len(stack) \in Nat /\ DOMAIN stack = 1 .. Len(stack)
         /\ stack = << >> <=> Len(stack) = 0
BY DEF IInv, Types

\* The top frame goes on with another alternative.
RunsOn(a) ==
  /\ Len(stack') = Len(stack) /\ DOMAIN stack' = DOMAIN stack
  /\ \A i \in DOMAIN stack : i /= Len(stack) => stack'[i] = stack[i]
  /\ stack'[Len(stack)] = [state |-> TopFrame.state, limit |-> TopFrame.limit,
                           cost |-> TopFrame.cost, alt |-> a]

\* Replacing the top frame's alternative does what RunsOn says.
LEMMA RunsOnIs ==
  ASSUME IInv, stack /= << >>, NEW a \in Nat,
         stack' = [stack EXCEPT ![Len(stack)].alt = a]
  PROVE  RunsOn(a)
<1>1. stack \in Seq(Frames) /\ Len(stack) \in DOMAIN stack
  BY DEF IInv, Types
<1>2. stack[Len(stack)] \in Frames
  BY <1>1
<1> DEFINE f == [stack[Len(stack)] EXCEPT !.alt = a]
<1>3. stack' = [stack EXCEPT ![Len(stack)] = f]
  OBVIOUS
<1>4. f = [state |-> TopFrame.state, limit |-> TopFrame.limit, cost |-> TopFrame.cost, alt |-> a]
  BY <1>2 DEF Frames, TopFrame
<1>5. f \in Frames
  BY <1>2 DEF Frames
<1> HIDE DEF f
<1>6. stack' \in Seq(Frames) /\ Len(stack') = Len(stack)
  BY <1>1, <1>3, <1>5
<1> QED
  BY <1>1, <1>3, <1>4, <1>6 DEF RunsOn

\* The four things that the top frame may do.
SeesTooFar ==
  /\ TopFrame.alt = 0 /\ TopFrame.state \notin problem.final
  /\ TopFrame.limit < problem.heuristic[TopFrame.state]
  /\ UpdateExploredDepth(TopFrame.cost + problem.heuristic[TopFrame.state])
  /\ RunsOn(NActions + 1) /\ pc' = "run" /\ UNCHANGED call

\* The heuristic allows it to begin with the first action.
StartsActions ==
  /\ TopFrame.alt = 0 /\ TopFrame.state \notin problem.final
  /\ TopFrame.limit >= problem.heuristic[TopFrame.state]
  /\ RunsOn(1) /\ pc' = "run" /\ UNCHANGED <<call, explored>>

\* An action that is too dear is noted and skipped.
SkipsAction(k) ==
  /\ k = TopFrame.alt /\ k \in 1 .. NActions
  /\ TopFrame.limit < ActionOf(TopFrame.state, k).cost
  /\ UpdateExploredDepth(TopFrame.cost + ActionOf(TopFrame.state, k).cost)
  /\ RunsOn(k + 1) /\ pc' = "run" /\ UNCHANGED call

\* An action that is not leads to a call.
TakesAction(k) ==
  /\ k = TopFrame.alt /\ k \in 1 .. NActions
  /\ TopFrame.limit >= ActionOf(TopFrame.state, k).cost
  /\ call' = [state |-> ActionOf(TopFrame.state, k).to,
              limit |-> TopFrame.limit - ActionOf(TopFrame.state, k).cost,
              cost |-> TopFrame.cost + ActionOf(TopFrame.state, k).cost]
  /\ RunsOn(k + 1) /\ pc' = "call" /\ UNCHANGED explored

\* The top frame does one of these four.
LEMMA RunIs ==
  ASSUME IInv, Shapes, RunClause
  PROVE  /\ pc = "run" /\ stack /= << >> /\ UNCHANGED <<found, solved, tableVars, driverVars>>
         /\ \/ SeesTooFar \/ StartsActions
            \/ \E k \in Nat : SkipsAction(k) \/ TakesAction(k)
<1>1. pc = "run" /\ stack /= << >> /\ UNCHANGED <<found, solved, tableVars, driverVars>>
  BY DEF RunClause, IInv, Types
<1>2. Len(stack) \in 1 .. Len(stack)
  BY <1>1, LenFacts
<1>3. /\ TopFrame.state \in States /\ TopFrame.limit \in Int
      /\ TopFrame.cost \in Nat /\ TopFrame.alt \in Nat
  BY <1>2, StackFacts DEF TopFrame
<1>4. /\ NActions \in Nat /\ problem.heuristic[TopFrame.state] \in Nat
      /\ \A k \in 1 .. NActions : ActionOf(TopFrame.state, k).cost \in Nat
  BY <1>3, ProblemFacts DEF NActions
<1>5. NextAlternative = [stack EXCEPT ![Len(stack)].alt = TopFrame.alt + 1]
  BY DEF NextAlternative, TopFrame
<1>6. \A a \in Nat : stack' = [stack EXCEPT ![Len(stack)].alt = a] => RunsOn(a)
  BY <1>1, RunsOnIs
<1>7. CASE CheckHeuristic
  <2>1. CASE TooFar
    <3>1. stack' = [stack EXCEPT ![Len(stack)].alt = NActions + 1]
      BY <1>7, <2>1 DEF CheckHeuristic
    <3>2. RunsOn(NActions + 1)
      <4>1. NActions + 1 \in Nat
        BY <1>4
      <4> QED
        BY <1>1, <3>1, <4>1, RunsOnIs
    <3>3. SeesTooFar
      BY <1>1, <1>7, <2>1, <3>2 DEF CheckHeuristic, SeesTooFar, TooFar
    <3> QED
      BY <1>1, <3>3
  <2>2. CASE ~TooFar
    <3>1. TopFrame.alt = 0 /\ stack' = [stack EXCEPT ![Len(stack)].alt = 1]
      BY <1>5, <1>7, <2>2 DEF CheckHeuristic
    <3>2. RunsOn(1)
      BY <1>6, <3>1
    <3>3. TopFrame.limit >= problem.heuristic[TopFrame.state]
      BY <1>3, <1>4, <2>2 DEF TooFar
    <3>4. StartsActions
      BY <1>1, <1>7, <2>2, <3>2, <3>3 DEF CheckHeuristic, StartsActions
    <3> QED
      BY <1>1, <3>4
  <2> QED
    BY <2>1, <2>2
<1>8. CASE TryAction
  <2> DEFINE k == TopFrame.alt
  <2>1. k \in 1 .. NActions /\ k + 1 \in Nat /\ stack' = [stack EXCEPT ![Len(stack)].alt = k + 1]
    BY <1>3, <1>5, <1>8 DEF TryAction
  <2>2. RunsOn(k + 1)
    BY <1>6, <2>1
  <2>3. ActionOf(TopFrame.state, k).cost \in Nat
    BY <1>4, <2>1
  <2>4. CASE TopFrame.limit < ActionOf(TopFrame.state, k).cost
    <3>1. TopFrame.limit - ActionOf(TopFrame.state, k).cost < 0
      BY <1>3, <2>3, <2>4
    <3>2. /\ UpdateExploredDepth(TopFrame.cost + ActionOf(TopFrame.state, k).cost)
          /\ UNCHANGED <<call, pc>>
      BY <1>3, <1>8, <2>3, <3>1 DEF TryAction, ActionOf
    <3>3. SkipsAction(k)
      BY <1>1, <2>1, <2>2, <2>4, <3>2 DEF SkipsAction
    <3> QED
      BY <1>1, <1>3, <3>3
  <2>5. CASE TopFrame.limit >= ActionOf(TopFrame.state, k).cost
    <3>1. TopFrame.limit - ActionOf(TopFrame.state, k).cost >= 0
      BY <1>3, <2>3, <2>5
    <3>2. /\ call' = [state |-> ActionOf(TopFrame.state, k).to,
                      limit |-> TopFrame.limit - ActionOf(TopFrame.state, k).cost,
                      cost |-> TopFrame.cost + ActionOf(TopFrame.state, k).cost]
          /\ pc' = "call" /\ UNCHANGED explored
      BY <1>3, <1>8, <2>3, <3>1 DEF TryAction, ActionOf
    <3>3. TakesAction(k)
      BY <1>1, <2>1, <2>2, <2>5, <3>2 DEF TakesAction
    <3> QED
      BY <1>1, <1>3, <3>3
  <2> QED
    BY <1>3, <2>3, <2>4, <2>5
<1> QED
  BY <1>7, <1>8 DEF RunClause

-----------------------------------------------------------------------------
\* A query's first search is under way, and so far all is right.
Under ==
  /\ IInv /\ Shapes /\ Searching
  /\ ~solved => Wired(stack, top, root, elms)
  /\ Paths /\ Outcomes
  /\ ~solved => Failing

\* A step of the search leaves the driver's state alone.
LEMMA SearchOnly ==
  ASSUME Under, Search
  PROVE  /\ UNCHANGED driverVars /\ Searching'
         /\ pc \in {"call", "run"} /\ pc' \in {"call", "run", "back"}
<1>1. pc \in {"call", "run"} /\ UNCHANGED driverVars /\ pc' \in {"call", "run", "back"}
  BY DEF Search, table_allocate, FirstCall, Reopen, FailAgain, Push, GoOn, ThrowPlan, RunClause,
     CheckHeuristic, TryAction, table_check_completion
<1> QED
  BY <1>1 DEF driverVars, Under, Searching

\* Every step of the search keeps the frames on their way.
LEMMA SearchPaths ==
  ASSUME Under, Search
  PROVE  Paths'
<1>1. UNCHANGED driverVars /\ IInv /\ Shapes /\ Paths
  BY SearchOnly DEF Under
<1>2. UNCHANGED <<problem, query, bounds, best>>
  BY <1>1 DEF driverVars
<1>3. /\ Within(best[Begin])' /\ (bounds.high <= query.limit)'
      /\ found' = found => Within(found)'
  BY <1>1, <1>2 DEF Paths, Within, Begin, Least, Cheapest
<1>4. \A f : OnTheWay(f) => OnTheWay(f)'
  BY <1>2 DEF OnTheWay, Gap, Begin, Least, Cheapest
<1>5. Len(stack) \in Nat /\ DOMAIN stack = 1 .. Len(stack)
  BY <1>1, LenFacts
<1>6. CASE Search /\ Opens /\ found' = found
  <2> DEFINE f == [state |-> call.state, limit |-> call.limit, cost |-> call.cost, alt |-> 0]
  <2>1. stack' = Append(stack, f) /\ pc = "call" /\ pc' = "run"
    BY <1>6 DEF Opens, Push
  <2>2. OnTheWay(call)
    BY <1>1, <2>1 DEF Paths
  <2>3. OnTheWay(f)
    BY <2>2 DEF OnTheWay
  <2>4. stack \in Seq(Frames) /\ f \in Frames
    BY <1>1 DEF IInv, Types, Frames
  <2> HIDE DEF f
  <2>5. \A i \in DOMAIN stack' : stack'[i] = f \/ (i \in DOMAIN stack /\ stack'[i] = stack[i])
    BY <2>1, <2>4
  <2>6. \A i \in DOMAIN stack' : OnTheWay(stack'[i])
    BY <1>1, <2>3, <2>5 DEF Paths
  <2>7. \A i \in DOMAIN stack' : OnTheWay(stack[i])'
    BY <1>2, <2>6 DEF OnTheWay, Gap, Begin, Least, Cheapest
  <2> QED
    BY <1>3, <1>6, <2>1, <2>7 DEF Paths
<1>7. CASE FailAgain /\ found' = found
  <2>1. stack' = stack /\ pc' /= "call"
    BY <1>7 DEF FailAgain, GoOn
  <2>2. \A i \in DOMAIN stack' : OnTheWay(stack[i])'
    BY <1>1, <1>2, <2>1 DEF Paths, OnTheWay, Gap, Begin, Least, Cheapest
  <2> QED
    BY <1>3, <1>7, <2>1, <2>2 DEF Paths
<1>8. CASE ThrowPlan
  <2>1. stack /= << >> /\ pc' = "back" /\ stack' = << >> /\ found' = TopFrame.cost
        /\ TopFrame.state \in problem.final
    BY <1>1, <1>8 DEF ThrowPlan, IInv, Types
  <2>2. Len(stack) \in 1 .. Len(stack) /\ Len(stack) \in DOMAIN stack
    BY <1>1, <2>1, LenFacts
  <2>3. OnTheWay(TopFrame) /\ TopFrame.cost \in Nat /\ TopFrame.limit \in Int
    BY <1>1, <2>2, StackFacts DEF Paths, TopFrame
  <2>4. Cheapest(TopFrame.state) = 0 /\ Least \in Nat /\ query.limit \in Int /\ 0 <= query.limit
    BY <1>1, <2>1, ProblemFacts
  <2>5. Least <= TopFrame.cost /\ TopFrame.cost <= query.limit
    BY <2>3, <2>4 DEF OnTheWay, Gap
  <2>6. Within(found)'
    BY <1>2, <2>1, <2>5 DEF Within, Least, Begin, Cheapest
  <2>7. DOMAIN stack' = {}
    BY <2>1
  <2> QED
    BY <1>3, <2>1, <2>6, <2>7 DEF Paths
<1>9. CASE RunClause
  <2> DEFINE n == Len(stack)
             s == TopFrame.state
  <2>1. /\ stack /= << >> /\ found' = found
        /\ \/ SeesTooFar \/ StartsActions
           \/ \E k \in Nat : SkipsAction(k) \/ TakesAction(k)
    BY <1>1, <1>9, RunIs
  <2>2. n \in 1 .. n /\ n \in DOMAIN stack
    BY <1>1, <2>1, LenFacts
  <2>3. /\ OnTheWay(TopFrame) /\ TopFrame.cost \in Nat /\ TopFrame.limit \in Int /\ s \in States
    BY <1>1, <2>2, StackFacts DEF Paths, TopFrame
  <2>4. \A a : RunsOn(a) => \A i \in DOMAIN stack' : OnTheWay(stack'[i])
    <3> SUFFICES ASSUME NEW a, RunsOn(a), NEW i \in DOMAIN stack'
                 PROVE  OnTheWay(stack'[i])
      OBVIOUS
    <3>1. CASE i = n
      BY <2>3, <3>1 DEF RunsOn, OnTheWay
    <3>2. CASE i /= n
      <4>1. i \in DOMAIN stack /\ stack'[i] = stack[i]
        BY <3>2 DEF RunsOn
      <4> QED
        BY <1>1, <4>1 DEF Paths
    <3> QED
      BY <3>1, <3>2
  <2>5. \A i \in DOMAIN stack' : OnTheWay(stack'[i])
    BY <2>1, <2>4 DEF SeesTooFar, StartsActions, SkipsAction, TakesAction
  <2>6. \A i \in DOMAIN stack' : OnTheWay(stack[i])'
    BY <1>2, <2>5 DEF OnTheWay, Gap, Begin, Least, Cheapest
  <2>7. ASSUME pc' = "call" PROVE OnTheWay(call)'
    <3>1. PICK k \in Nat : TakesAction(k)
      BY <2>1, <2>7 DEF SeesTooFar, StartsActions, SkipsAction
    <3>2. k \in DOMAIN problem.action[s]
      BY <1>1, <2>3, <3>1, ProblemFacts DEF TakesAction, NActions
    <3> DEFINE t == ActionOf(s, k).to
               c == ActionOf(s, k).cost
    <3>3. /\ t \in States /\ c \in Nat /\ Cheapest(s) <= c + Cheapest(t)
          /\ Cheapest(s) \in Nat /\ Cheapest(t) \in Nat /\ Least \in Nat
          /\ query.limit \in Int
      BY <1>1, <2>3, <3>2, ProblemFacts
    <3>4. call' = [state |-> t, limit |-> TopFrame.limit - c, cost |-> TopFrame.cost + c]
          /\ TopFrame.limit >= c
      BY <3>1 DEF TakesAction
    <3> HIDE DEF t, c, s
    <3>5. Gap(t) <= TopFrame.cost + c
      <4>1. Gap(s) <= TopFrame.cost
        BY <2>3 DEF OnTheWay, s
      <4> QED
        BY <2>3, <3>3, <4>1 DEF Gap
    <3>6. TopFrame.limit + TopFrame.cost <= query.limit
      BY <2>3 DEF OnTheWay
    <3>7. OnTheWay(call')
      BY <2>3, <3>3, <3>4, <3>5, <3>6 DEF OnTheWay
    <3> QED
      BY <1>2, <3>7 DEF OnTheWay, Gap, Begin, Least, Cheapest
  <2> QED
    BY <1>3, <2>1, <2>6, <2>7 DEF Paths
<1>10. CASE table_check_completion
  <2>1. stack' = Front(stack) /\ pc' /= "call" /\ found' = found /\ stack /= << >>
    BY <1>1, <1>10 DEF table_check_completion, GoOn, IInv, Types
  <2>2. \A i \in DOMAIN stack' : i \in DOMAIN stack /\ stack'[i] = stack[i]
    <3>1. Front(stack) = SubSeq(stack, 1, Len(stack) - 1) /\ Len(stack) - 1 \in 0 .. Len(stack)
      BY <1>1, <2>1, LenFacts DEF Front
    <3>2. stack \in Seq(Frames)
      BY <1>1 DEF IInv, Types
    <3> QED
      BY <1>5, <2>1, <3>1, <3>2, PrefixFacts
  <2>3. \A i \in DOMAIN stack' : OnTheWay(stack'[i])
    BY <1>1, <2>2 DEF Paths
  <2>4. \A i \in DOMAIN stack' : OnTheWay(stack[i])'
    BY <1>2, <2>3 DEF OnTheWay, Gap, Begin, Least, Cheapest
  <2> QED
    BY <1>3, <2>1, <2>4 DEF Paths
<1>11. table_allocate => found' = found /\ (Opens \/ FailAgain)
  BY <1>1, OpensFacts DEF table_allocate
<1> QED
  BY <1>6, <1>7, <1>8, <1>9, <1>10, <1>11 DEF Search

\* What the driver will learn.
LEMMA SearchOutcomes ==
  ASSUME Under, Search
  PROVE  Outcomes'
<1>1. UNCHANGED driverVars /\ IInv /\ Shapes /\ Paths /\ Outcomes
      /\ pc \in {"call", "run"}
  BY SearchOnly DEF Under
<1>2. UNCHANGED <<problem, query, bounds, best>>
  BY <1>1 DEF driverVars
<1>3. CASE UNCHANGED <<found, solved>>
  BY <1>1, <1>2, <1>3 DEF Outcomes, Least, Begin, Cheapest
<1>4. CASE ThrowPlan
  <2>1. stack /= << >> /\ pc' = "back" /\ found' = TopFrame.cost /\ solved' = TRUE
    BY <1>1, <1>4 DEF ThrowPlan, IInv, Types
  <2>2. Len(stack) \in 1 .. Len(stack) /\ Len(stack) \in DOMAIN stack
    BY <1>1, <2>1, LenFacts
  <2>3. OnTheWay(TopFrame) /\ TopFrame.cost \in Nat /\ TopFrame.limit \in Int
    BY <1>1, <2>2, StackFacts DEF Paths, TopFrame
  <2>4. ASSUME query.how = "down" PROVE bounds.level <= Least /\ found' <= bounds.level
    <3>1. ~solved
      BY <1>1, <2>4 DEF Outcomes
    <3>2. TopFrame.limit + TopFrame.cost = bounds.level
      BY <2>2, <3>1 DEF Under, Failing, Limits, TopFrame
    <3>3. bounds.level \in Int /\ 0 <= bounds.level
      BY <1>1, <3>1 DEF IInv, Types, Under, Failing, Limits
    <3> QED
      BY <1>1, <2>1, <2>3, <2>4, <3>2, <3>3 DEF OnTheWay, Outcomes
  <2>5. found' /= NoPlan
    BY <2>1, <2>3 DEF NoPlan
  <2> QED
    BY <1>1, <1>2, <2>1, <2>4, <2>5 DEF Outcomes, Least, Begin, Cheapest
<1>5. table_allocate \/ RunClause \/ table_check_completion => UNCHANGED <<found, solved>>
  BY DEF table_allocate, RunClause, table_check_completion
<1> QED
  BY <1>3, <1>4, <1>5 DEF Search

-----------------------------------------------------------------------------
(* What stays true of tried actions when entries are called with more, and  *)
(* when more is noted as explored.                                          *)

\* The types of a problem, as the lemmas below need them.
ActionsOk(p) ==
  \A s \in States :
    /\ Len(p.action[s]) \in Nat /\ DOMAIN p.action[s] = 1 .. Len(p.action[s])
    /\ p.heuristic[s] \in Nat
    /\ \A k \in DOMAIN p.action[s] :
         p.action[s][k].to \in States /\ p.action[s][k].cost \in Nat

\* No entry is forgotten, and none is called with less.
Grows(tops, keeps, tops2, keeps2) ==
  \A x \in States :
    /\ keeps[x] \in Int /\ keeps2[x] \in Int
    /\ tops[x] /= NULL => tops2[x] /= NULL /\ keeps2[x] >= keeps[x]

\* The problem under way has them.
LEMMA ActionsFacts ==
  ASSUME IInv, Shapes
  PROVE  ActionsOk(problem)
BY ProblemFacts DEF ActionsOk, ActionOf

\* An action that has been answered stays answered.
LEMMA AnsweredStays ==
  ASSUME NEW p, ActionsOk(p),
         NEW tops, NEW keeps, NEW tops2, NEW keeps2, Grows(tops, keeps, tops2, keeps2),
         NEW s \in States, NEW limit \in Int, NEW k \in 1 .. Len(p.action[s]),
         Answered(p, tops, keeps, s, limit, k)
  PROVE  Answered(p, tops2, keeps2, s, limit, k)
<1> DEFINE t == p.action[s][k].to
           c == p.action[s][k].cost
<1>1. t \in States /\ c \in Nat
  BY DEF ActionsOk
<1>2. limit >= c => tops[t] /= NULL /\ keeps[t] >= limit - c
  BY DEF Answered
<1>3. Answered(p, tops2, keeps2, s, limit, k) <=>
        (limit >= c => tops2[t] /= NULL /\ keeps2[t] >= limit - c)
  BY DEF Answered
<1> HIDE DEF t, c
<1>4. keeps[t] \in Int /\ keeps2[t] \in Int
      /\ (tops[t] /= NULL => tops2[t] /= NULL /\ keeps2[t] >= keeps[t])
  BY <1>1 DEF Grows
<1> QED
  BY <1>1, <1>2, <1>3, <1>4

\* An action that was noted as too dear stays noted.
LEMMA NotedStays ==
  ASSUME NEW p, ActionsOk(p), NEW s \in States, NEW limit \in Int, NEW cost \in Int,
         NEW k \in 1 .. Len(p.action[s]),
         NEW depth \in Int, NEW depth2 \in Int, depth2 <= depth,
         Noted(p, depth, s, limit, cost, k)
  PROVE  Noted(p, depth2, s, limit, cost, k)
<1> DEFINE c == p.action[s][k].cost
<1>1. c \in Nat
  BY DEF ActionsOk
<1>2. limit < c => depth <= cost + c
  BY DEF Noted
<1> HIDE DEF c
<1>3. limit < c => depth2 <= cost + c
  BY <1>1, <1>2
<1> QED
  BY <1>3 DEF Noted, c

\* A frame has tried what it had, once its pending call is answered.
Settles(p, f, tops, keeps, calling, c, calling2, c2) ==
  \A k \in 1 .. f.alt - 1 :
    calling /\ Pending(p, f, c, k) =>
      Answered(p, tops, keeps, f.state, f.limit, k) \/ (calling2 /\ Pending(p, f, c2, k))

\* What a frame has tried stays tried, once its pending call is settled.
LEMMA TriedStays ==
  ASSUME NEW p, ActionsOk(p),
         NEW tops, NEW keeps, NEW tops2, NEW keeps2, Grows(tops, keeps, tops2, keeps2),
         NEW f \in Frames, NEW depth \in Int, NEW depth2 \in Int, depth2 <= depth,
         NEW calling, NEW c, NEW calling2, NEW c2,
         Settles(p, f, tops2, keeps2, calling, c, calling2, c2),
         Tried(p, f, tops, keeps, depth, calling, c)
  PROVE  Tried(p, f, tops2, keeps2, depth2, calling2, c2)
<1>1. f.state \in States /\ f.limit \in Int /\ f.cost \in Nat /\ f.alt \in Nat
  BY DEF Frames
<1>2. Len(p.action[f.state]) \in Nat /\ p.heuristic[f.state] \in Nat
  BY <1>1 DEF ActionsOk
<1> SUFFICES ASSUME f.alt > 0
             PROVE  Tried(p, f, tops2, keeps2, depth2, calling2, c2)
  BY DEF Tried
<1>3. /\ f.state \notin p.final /\ f.alt <= Len(p.action[f.state]) + 1
      /\ f.limit < p.heuristic[f.state] => depth2 <= f.cost + p.heuristic[f.state]
  BY <1>1, <1>2 DEF Tried
<1>4. ASSUME f.limit >= p.heuristic[f.state], NEW k \in 1 .. f.alt - 1
      PROVE  /\ \/ Answered(p, tops2, keeps2, f.state, f.limit, k)
                \/ calling2 /\ Pending(p, f, c2, k)
             /\ Noted(p, depth2, f.state, f.limit, f.cost, k)
  <2>1. /\ \/ Answered(p, tops, keeps, f.state, f.limit, k)
           \/ calling /\ Pending(p, f, c, k)
        /\ Noted(p, depth, f.state, f.limit, f.cost, k)
    BY <1>4 DEF Tried
  <2>2. k \in 1 .. Len(p.action[f.state]) /\ f.cost \in Int
    BY <1>1, <1>2, <1>3
  <2>3. Noted(p, depth2, f.state, f.limit, f.cost, k)
    BY <1>1, <2>1, <2>2, NotedStays
  <2>4. Answered(p, tops, keeps, f.state, f.limit, k) =>
          Answered(p, tops2, keeps2, f.state, f.limit, k)
    BY <1>1, <2>2, AnsweredStays
  <2>5. calling /\ Pending(p, f, c, k) =>
          \/ Answered(p, tops2, keeps2, f.state, f.limit, k)
          \/ calling2 /\ Pending(p, f, c2, k)
    BY DEF Settles
  <2> QED
    BY <2>1, <2>3, <2>4, <2>5
<1> QED
  BY <1>3, <1>4 DEF Tried

\* An entry that is not called again stays failed.
LEMMA FailedStays ==
  ASSUME NEW p, ActionsOk(p),
         NEW tops, NEW keeps, NEW tops2, NEW keeps2, Grows(tops, keeps, tops2, keeps2),
         NEW s \in States, keeps2[s] = keeps[s], Failed(p, s, tops, keeps)
  PROVE  Failed(p, s, tops2, keeps2)
<1>1. keeps[s] \in Int
  BY DEF Grows
<1>2. DOMAIN p.action[s] = 1 .. Len(p.action[s])
  BY DEF ActionsOk
<1>3. s \notin p.final
  BY DEF Failed
<1>4. ASSUME keeps2[s] >= p.heuristic[s], NEW k \in 1 .. Len(p.action[s])
      PROVE  Answered(p, tops2, keeps2, s, keeps2[s], k)
  <2>1. Answered(p, tops, keeps, s, keeps[s], k)
    BY <1>2, <1>4 DEF Failed
  <2>2. Answered(p, tops2, keeps2, s, keeps[s], k)
    BY <1>1, <2>1, AnsweredStays
  <2> QED
    BY <2>2
<1> QED
  BY <1>2, <1>3, <1>4 DEF Failed

\* What an entry has noted stays noted.
LEMMA ExploredStays ==
  ASSUME NEW p, ActionsOk(p), NEW s \in States, NEW limit \in Int, NEW cost \in Int,
         NEW depth \in Int, NEW depth2 \in Int, depth2 <= depth,
         Explored(p, s, limit, cost, depth)
  PROVE  Explored(p, s, limit, cost, depth2)
<1>1. DOMAIN p.action[s] = 1 .. Len(p.action[s]) /\ p.heuristic[s] \in Nat
  BY DEF ActionsOk
<1>2. limit < p.heuristic[s] => depth2 <= cost + p.heuristic[s]
  BY <1>1 DEF Explored
<1>3. ASSUME limit >= p.heuristic[s], NEW k \in 1 .. Len(p.action[s])
      PROVE  Noted(p, depth2, s, limit, cost, k)
  <2>1. Noted(p, depth, s, limit, cost, k)
    BY <1>1, <1>3 DEF Explored
  <2> QED
    BY <2>1, NotedStays
<1> QED
  BY <1>1, <1>2, <1>3 DEF Explored

-----------------------------------------------------------------------------
(* Until a plan is thrown, whatever was asked: each step keeps what the     *)
(* failure of an entry rests on.                                            *)

\* No plan was thrown through the table.
Tracking == IInv /\ Shapes /\ ~solved /\ Wired(stack, top, root, elms) /\ Tracks

\* What is known then, with its types.
LEMMA TrackingFacts ==
  ASSUME Tracking
  PROVE  /\ IInv /\ Shapes /\ Wired(stack, top, root, elms)
         /\ Falling /\ AllTried /\ AllFailed /\ ActionsOk(problem) /\ explored \in Int
         /\ top \in [States -> Int] /\ kept \in [States -> Int]
         /\ Len(stack) \in Nat /\ DOMAIN stack = 1 .. Len(stack) /\ stack \in Seq(Frames)
<1>1. IInv /\ Shapes /\ Wired(stack, top, root, elms) /\ Falling /\ AllTried /\ AllFailed
  BY DEF Tracking, Tracks
<1>2. ActionsOk(problem)
  BY <1>1, ActionsFacts
<1>3. /\ explored \in Int /\ top \in [States -> Int] /\ kept \in [States -> Int]
      /\ stack \in Seq(Frames)
  BY <1>1 DEF IInv, Types, Shapes
<1>4. Len(stack) \in Nat /\ DOMAIN stack = 1 .. Len(stack)
  BY <1>1, LenFacts
<1> QED
  BY <1>1, <1>2, <1>3, <1>4

\* A call that gets a frame: the entry leaves those that have failed, and its frame has tried
\* nothing.
LEMMA OpensTracks ==
  ASSUME Tracking, table_allocate, FirstCall \/ Reopen
  PROVE  Tracks'
<1> DEFINE n == Len(stack)
           t == call.state
           f == [state |-> call.state, limit |-> call.limit, cost |-> call.cost, alt |-> 0]
<1>1. /\ IInv /\ Shapes /\ Wired(stack, top, root, elms)
      /\ Falling /\ AllTried /\ AllFailed /\ ActionsOk(problem) /\ explored \in Int
      /\ top \in [States -> Int] /\ kept \in [States -> Int]
      /\ n \in Nat /\ DOMAIN stack = 1 .. n /\ stack \in Seq(Frames)
  BY TrackingFacts
<1>2. UNCHANGED <<problem, call, explored>>
  BY DEF table_allocate, driverVars
<1>3. /\ pc = "call" /\ pc' = "run"
      /\ top[t] = NULL \/ (top[t] < 0 /\ call.limit > kept[t])
      /\ stack' = Append(stack, f)
      /\ top' = [top EXCEPT ![t] = n + 1] /\ kept' = [kept EXCEPT ![t] = call.limit]
  BY <1>1, OpensFacts DEF Opens, Push
<1>4. t \in States /\ call.limit \in Int /\ call.cost \in Nat /\ f \in Frames
  BY <1>1 DEF IInv, Types, Frames
<1>5. /\ f.state = t /\ f.limit = call.limit /\ f.cost = call.cost /\ f.alt = 0
  OBVIOUS
<1> HIDE DEF f
<1>6. /\ stack' \in Seq(Frames) /\ Len(stack') = n + 1 /\ DOMAIN stack' = 1 .. n + 1
      /\ stack'[n + 1] = f /\ \A i \in 1 .. n : stack'[i] = stack[i]
  BY <1>1, <1>3, <1>4
<1>7. /\ top'[t] = n + 1 /\ kept'[t] = call.limit
      /\ \A s \in States : s /= t => top'[s] = top[s] /\ kept'[s] = kept[s]
  BY <1>1, <1>3, <1>4
<1>8. \A i \in 1 .. n : /\ stack[i] \in Frames /\ stack[i].state \in States
                        /\ top[stack[i].state] = i /\ stack[i].state /= t
  <2> SUFFICES ASSUME NEW i \in 1 .. n
               PROVE  /\ stack[i] \in Frames /\ stack[i].state \in States
                      /\ top[stack[i].state] = i /\ stack[i].state /= t
    OBVIOUS
  <2>1. i \in 1 .. Len(stack)
    OBVIOUS
  <2>2. stack[i] \in Frames /\ stack[i].state \in States /\ top[stack[i].state] = i
    BY <1>1, <2>1, FrameFacts
  <2> QED
    BY <1>3, <2>2 DEF NULL
<1>10. Grows(top, kept, top', kept')
  <2> SUFFICES ASSUME NEW x \in States
               PROVE  /\ kept[x] \in Int /\ kept'[x] \in Int
                      /\ top[x] /= NULL => top'[x] /= NULL /\ kept'[x] >= kept[x]
    BY DEF Grows
  <2>1. CASE x = t
    BY <1>1, <1>3, <1>4, <1>7, <2>1 DEF NULL
  <2>2. CASE x /= t
    BY <1>1, <1>7, <2>2
  <2> QED
    BY <2>1, <2>2
<1>11. Falling'
  <2>0. \A i \in 1 .. n : call.limit <= stack[i].limit /\ stack[i].limit = kept[stack[i].state]
    BY <1>1, <1>3 DEF Falling
  <2>1. \A i \in DOMAIN stack' : stack'[i].limit = kept'[stack'[i].state]
    <3> SUFFICES ASSUME NEW i \in 1 .. n + 1
                 PROVE  stack'[i].limit = kept'[stack'[i].state]
      BY <1>6
    <3>1. CASE i = n + 1
      BY <1>5, <1>6, <1>7, <3>1
    <3>2. CASE i \in 1 .. n
      BY <1>6, <1>7, <1>8, <2>0, <3>2
    <3> QED
      BY <1>1, <3>1, <3>2
  <2>2. \A i, j \in DOMAIN stack' : i <= j => stack'[j].limit <= stack'[i].limit
    <3> SUFFICES ASSUME NEW i \in 1 .. n + 1, NEW j \in 1 .. n + 1, i <= j
                 PROVE  stack'[j].limit <= stack'[i].limit
      BY <1>6
    <3>1. CASE j = n + 1 /\ i = n + 1
      BY <1>4, <1>5, <1>6, <3>1
    <3>2. CASE j = n + 1 /\ i \in 1 .. n
      BY <1>5, <1>6, <2>0, <3>2
    <3>3. CASE j \in 1 .. n
      <4>1. i \in 1 .. n
        BY <1>1, <3>3
      <4> QED
        BY <1>1, <1>6, <3>3, <4>1 DEF Falling
    <3> QED
      BY <1>1, <3>1, <3>2, <3>3
  <2> QED
    BY <1>3, <2>1, <2>2 DEF Falling
<1>14. AllTried'
  <2> SUFFICES ASSUME NEW i \in 1 .. n + 1
               PROVE  Tried(problem, stack'[i], top', kept', explored, FALSE, call)
    BY <1>2, <1>3, <1>6 DEF AllTried
  <2>1. CASE i = n + 1
    BY <1>5, <1>6, <2>1 DEF Tried
  <2>2. CASE i \in 1 .. n
    <3> DEFINE g == stack[i]
               calling == pc = "call" /\ i = Len(stack)
    <3>1. g \in Frames /\ Tried(problem, g, top, kept, explored, calling, call)
      BY <1>1, <1>8, <2>2 DEF AllTried
    <3>2. Settles(problem, g, top', kept', calling, call, FALSE, call)
      <4> SUFFICES ASSUME NEW k \in 1 .. g.alt - 1, Pending(problem, g, call, k)
                   PROVE  Answered(problem, top', kept', g.state, g.limit, k)
        BY DEF Settles
      <4>1. problem.action[g.state][k].to = t
            /\ call.limit = g.limit - problem.action[g.state][k].cost
        BY DEF Pending
      <4>2. top'[t] /= NULL /\ kept'[t] >= call.limit
        BY <1>1, <1>4, <1>7 DEF NULL
      <4> QED
        BY <4>1, <4>2 DEF Answered
    <3> HIDE DEF g, calling
    <3>3. explored \in Int /\ explored <= explored /\ ActionsOk(problem)
      BY <1>1
    <3>4. Tried(problem, g, top', kept', explored, FALSE, call)
      BY ONLY <1>10, <3>1, <3>2, <3>3, TriedStays, Zenon
    <3> QED
      BY <1>6, <2>2, <3>4 DEF g
  <2>3. i = n + 1 \/ i \in 1 .. n
    BY <1>1
  <2> QED
    BY ONLY <2>1, <2>2, <2>3, Zenon
<1>15. AllFailed'
  <2> SUFFICES ASSUME NEW s \in States, top'[s] < 0
               PROVE  Failed(problem, s, top', kept')
    BY <1>2 DEF AllFailed
  <2>1. s /= t
    BY <1>1, <1>7
  <2>2. Failed(problem, s, top, kept) /\ kept'[s] = kept[s]
    BY <1>1, <1>7, <2>1 DEF AllFailed
  <2> QED
    BY <1>1, <1>10, <2>2, FailedStays
<1> QED
  BY <1>11, <1>14, <1>15 DEF Tracks

\* A call of an entry that has failed with as much answers the action that was pending.
LEMMA FailAgainTracks ==
  ASSUME Tracking, table_allocate, FailAgain
  PROVE  Tracks'
<1> DEFINE n == Len(stack)
           t == call.state
<1>1. /\ IInv /\ Shapes /\ Wired(stack, top, root, elms)
      /\ Falling /\ AllTried /\ AllFailed /\ ActionsOk(problem) /\ explored \in Int
      /\ top \in [States -> Int] /\ kept \in [States -> Int]
      /\ n \in Nat /\ DOMAIN stack = 1 .. n /\ stack \in Seq(Frames)
  BY TrackingFacts
<1>2. UNCHANGED <<problem, call, explored>>
  BY DEF table_allocate, driverVars
<1>3. /\ pc = "call" /\ pc' /= "call" /\ UNCHANGED <<top, kept, stack>>
      /\ top[t] > 0 \/ (top[t] \in {COMPLETE, TEMP_COMPLETE} /\ ~(call.limit > kept[t]))
  BY DEF FailAgain, GoOn, MoreResources
<1>4. t \in States /\ call.limit \in Int
  BY <1>1 DEF IInv, Types
<1>5. top[t] /= NULL /\ kept[t] >= call.limit
  <2>1. CASE top[t] > 0
    <3>1. top[t] \in DOMAIN stack /\ stack[top[t]].state = t
      BY <1>1, <1>4, <2>1 DEF Wired
    <3>2. stack[top[t]].limit = kept[t] /\ call.limit <= stack[top[t]].limit
      BY <1>1, <1>3, <3>1 DEF Falling
    <3> QED
      BY <1>1, <1>4, <2>1, <3>2 DEF NULL
  <2>2. CASE ~(top[t] > 0)
    BY <1>1, <1>3, <1>4, <2>2 DEF NULL, COMPLETE, TEMP_COMPLETE
  <2> QED
    BY <2>1, <2>2
<1>7. Falling'
  BY <1>1, <1>2, <1>3 DEF Falling
<1>10. Grows(top, kept, top, kept)
  BY <1>1 DEF Grows
<1>11. AllTried'
  <2> SUFFICES ASSUME NEW i \in 1 .. n
               PROVE  Tried(problem, stack[i], top, kept, explored, FALSE, call)
    BY <1>1, <1>2, <1>3 DEF AllTried
  <2> DEFINE g == stack[i]
             calling == pc = "call" /\ i = Len(stack)
  <2>0. explored \in Int /\ explored <= explored /\ ActionsOk(problem)
    BY <1>1
  <2>1. g \in Frames /\ Tried(problem, g, top, kept, explored, calling, call)
    <3>1. g \in Frames
      BY <1>1
    <3>2. i \in DOMAIN stack /\ AllTried
      BY <1>1
    <3> QED
      BY ONLY <3>1, <3>2, Zenon DEF AllTried, g, calling
  <2>2. Settles(problem, g, top, kept, calling, call, FALSE, call)
    <3> SUFFICES ASSUME NEW k \in 1 .. g.alt - 1, Pending(problem, g, call, k)
                 PROVE  Answered(problem, top, kept, g.state, g.limit, k)
      BY DEF Settles
    <3>1. problem.action[g.state][k].to = t
          /\ call.limit = g.limit - problem.action[g.state][k].cost
      BY DEF Pending
    <3> QED
      BY <1>5, <3>1 DEF Answered
  <2> HIDE DEF g, calling
  <2>3. Tried(problem, g, top, kept, explored, FALSE, call)
    BY ONLY <1>10, <2>1, <2>2, <2>0, TriedStays, Zenon
  <2> QED
    BY <2>3 DEF g
<1>12. AllFailed'
  BY <1>1, <1>2, <1>3 DEF AllFailed
<1> QED
  BY <1>7, <1>11, <1>12 DEF Tracks

\* What the top frame has tried when it goes on: d is what it has noted.
LEMMA TopGoesOn ==
  ASSUME NEW p, ActionsOk(p), NEW tops, NEW keeps,
         NEW f \in Frames, NEW depth \in Int, NEW depth2 \in Int, depth2 <= depth,
         NEW c, NEW c2, NEW calling2, NEW k \in 1 .. Len(p.action[f.state]), f.alt = k,
         Tried(p, f, tops, keeps, depth, FALSE, c),
         NEW g \in Frames, g.state = f.state, g.limit = f.limit, g.cost = f.cost, g.alt = k + 1,
         \/ Answered(p, tops, keeps, f.state, f.limit, k)
         \/ calling2 /\ Pending(p, g, c2, k),
         Noted(p, depth2, f.state, f.limit, f.cost, k)
  PROVE  Tried(p, g, tops, keeps, depth2, calling2, c2)
<1>1. f.state \in States /\ f.limit \in Int /\ f.cost \in Int /\ f.alt \in Nat
  BY DEF Frames
<1>2. Len(p.action[f.state]) \in Nat /\ p.heuristic[f.state] \in Nat
  BY <1>1 DEF ActionsOk
<1>3. /\ f.state \notin p.final
      /\ f.limit < p.heuristic[f.state] => depth2 <= f.cost + p.heuristic[f.state]
  BY <1>1, <1>2 DEF Tried
<1>4. ASSUME f.limit >= p.heuristic[f.state], NEW j \in 1 .. k
      PROVE  /\ \/ Answered(p, tops, keeps, f.state, f.limit, j)
                \/ calling2 /\ Pending(p, g, c2, j)
             /\ Noted(p, depth2, f.state, f.limit, f.cost, j)
  <2>1. CASE j = k
    BY <2>1
  <2>2. CASE j /= k
    <3>1. j \in 1 .. f.alt - 1 /\ j \in 1 .. Len(p.action[f.state]) /\ f.alt > 0
      BY <1>2, <2>2
    <3>2. /\ Answered(p, tops, keeps, f.state, f.limit, j)
          /\ Noted(p, depth, f.state, f.limit, f.cost, j)
      BY <1>4, <3>1 DEF Tried
    <3>3. Noted(p, depth2, f.state, f.limit, f.cost, j)
      BY <1>1, <3>1, <3>2, NotedStays
    <3> QED
      BY <3>2, <3>3
  <2> QED
    BY <2>1, <2>2
<1>5. g.alt - 1 = k /\ g.alt <= Len(p.action[g.state]) + 1
  BY <1>2
<1> QED
  BY <1>3, <1>4, <1>5 DEF Tried

\* What the top frame has tried, after its step.
TopTried ==
  Tried(problem, stack'[Len(stack)], top, kept, explored', pc' = "call", call')

\* How a step of the top frame leaves the others.
LEMMA RunTracks ==
  ASSUME Tracking, RunClause, TopTried, stack /= << >>,
         RunsOn(stack'[Len(stack)].alt),
         pc' = "call" => call'.limit \in Int /\ call'.limit <= TopFrame.limit
  PROVE  Tracks'
<1> DEFINE n == Len(stack)
<1>1. /\ IInv /\ Shapes /\ Wired(stack, top, root, elms)
      /\ Falling /\ AllTried /\ AllFailed /\ ActionsOk(problem) /\ explored \in Int
      /\ top \in [States -> Int] /\ kept \in [States -> Int]
      /\ n \in Nat /\ DOMAIN stack = 1 .. n /\ stack \in Seq(Frames)
  BY TrackingFacts
<1>2. UNCHANGED <<problem, top, kept>> /\ pc = "run"
  BY DEF RunClause, tableVars, driverVars
<1>3. explored' \in Int /\ explored' <= explored
  BY <1>1, ExploredFalls
<1>0. n = Len(stack) /\ (stack /= << >> => n /= 0)
  BY <1>1, LenFacts
<1> HIDE DEF n
<1>4. /\ n \in 1 .. n /\ DOMAIN stack' = 1 .. n /\ Len(stack') = n
      /\ \A i \in 1 .. n : /\ stack'[i].state = stack[i].state
                           /\ stack'[i].limit = stack[i].limit
                           /\ stack'[i].cost = stack[i].cost
      /\ \A i \in 1 .. n : i /= n => stack'[i] = stack[i]
  <2> DEFINE a == stack'[n].alt
  <2>1. n \in 1 .. n /\ RunsOn(a)
    BY <1>0, <1>1
  <2> HIDE DEF a
  <2>2. /\ DOMAIN stack' = 1 .. n /\ Len(stack') = n
        /\ \A i \in 1 .. n : i /= n => stack'[i] = stack[i]
        /\ stack'[n] = [state |-> stack[n].state, limit |-> stack[n].limit,
                        cost |-> stack[n].cost, alt |-> a]
    BY <1>0, <1>1, <2>1 DEF RunsOn, TopFrame
  <2>3. /\ stack'[n].state = stack[n].state /\ stack'[n].limit = stack[n].limit
        /\ stack'[n].cost = stack[n].cost
    BY <2>2
  <2> QED
    BY <2>1, <2>2, <2>3
<1>5. \A i \in 1 .. n : /\ stack[i] \in Frames /\ stack[i].limit \in Int
  BY <1>1, StackFacts
<1>6. Falling'
  <2>1. \A i \in DOMAIN stack' : stack'[i].limit = kept[stack'[i].state]
    BY <1>1, <1>4 DEF Falling
  <2>2. \A i, j \in DOMAIN stack' : i <= j => stack'[j].limit <= stack'[i].limit
    BY <1>1, <1>4 DEF Falling
  <2>3. pc' = "call" => \A i \in DOMAIN stack' : call'.limit <= stack'[i].limit
    <3> SUFFICES ASSUME pc' = "call", NEW i \in 1 .. n
                 PROVE  call'.limit <= stack'[i].limit
      BY <1>4
    <3>1. stack[n].limit <= stack[i].limit
      <4>1. \A a, b \in 1 .. n : a <= b => stack[b].limit <= stack[a].limit
        BY <1>1 DEF Falling
      <4>2. i \in 1 .. n /\ n \in 1 .. n /\ i <= n
        BY <1>1, <1>4
      <4> QED
        BY <4>1, <4>2
    <3> QED
      BY <1>0, <1>4, <1>5, <3>1 DEF TopFrame
  <2> QED
    BY <1>2, <2>1, <2>2, <2>3 DEF Falling
<1>9. Grows(top, kept, top, kept)
  BY <1>1 DEF Grows
<1>10. AllTried'
  <2> SUFFICES ASSUME NEW i \in 1 .. n
               PROVE  Tried(problem, stack'[i], top, kept, explored', pc' = "call" /\ i = n, call')
    BY <1>0, <1>2, <1>4 DEF AllTried
  <2>1. CASE i = n
    BY <1>0, <2>1 DEF TopTried, Tried
  <2>2. CASE i /= n
    <3> DEFINE g == stack[i]
               calling == pc = "call" /\ i = Len(stack)
               calling2 == pc' = "call" /\ i = n
    <3>0. explored \in Int /\ explored' \in Int /\ explored' <= explored /\ ActionsOk(problem)
      BY <1>1, <1>3
    <3>1. g \in Frames /\ Tried(problem, g, top, kept, explored, calling, call)
      <4>1. g \in Frames
        BY <1>5
      <4>2. i \in DOMAIN stack /\ AllTried
        BY <1>1
      <4> QED
        BY ONLY <4>1, <4>2, Zenon DEF AllTried
    <3>2. Settles(problem, g, top, kept, calling, call, calling2, call')
      BY <1>2 DEF Settles
    <3> HIDE DEF g, calling, calling2
    <3>3. Tried(problem, g, top, kept, explored', calling2, call')
      BY ONLY <1>9, <3>0, <3>1, <3>2, TriedStays, Zenon
    <3>4. stack'[i] = g
      BY <1>4, <2>2 DEF g
    <3> QED
      BY ONLY <3>3, <3>4, Zenon DEF calling2
  <2> QED
    BY ONLY <2>1, <2>2, Zenon
<1>11. AllFailed'
  BY <1>1, <1>2 DEF AllFailed
<1> QED
  BY <1>6, <1>10, <1>11 DEF Tracks

\* Each of the four steps of the top frame keeps what failures rest on.
LEMMA RunClauseTracks ==
  ASSUME Tracking, RunClause
  PROVE  Tracks'
<1> DEFINE n == Len(stack)
           f == TopFrame
           s == TopFrame.state
           g == stack'[n]
           h == problem.heuristic[s]
<1>1. /\ IInv /\ Shapes /\ AllTried /\ ActionsOk(problem) /\ explored \in Int
      /\ n \in Nat /\ DOMAIN stack = 1 .. n
  BY TrackingFacts
<1>2. /\ pc = "run" /\ stack /= << >>
      /\ \/ SeesTooFar \/ StartsActions
         \/ \E k \in Nat : SkipsAction(k) \/ TakesAction(k)
  BY <1>1, RunIs
<1>3. explored' \in Int /\ explored' <= explored
  BY <1>1, ExploredFalls
<1>4. n \in 1 .. n /\ n \in DOMAIN stack
  BY <1>1, <1>2, LenFacts
<1>5. /\ f \in Frames /\ s \in States /\ f.limit \in Int /\ f.cost \in Nat /\ f.alt \in Nat
  BY <1>1, <1>4, StackFacts DEF TopFrame
<1>6. NActions \in Nat /\ h \in Nat /\ NActions = Len(problem.action[s])
  BY <1>1, <1>5 DEF ActionsOk, NActions
<1>7. Tried(problem, f, top, kept, explored, FALSE, call)
  <2>1. Tried(problem, stack[n], top, kept, explored, pc = "call" /\ n = Len(stack), call)
    BY ONLY <1>1, <1>4, Zenon DEF AllTried
  <2> QED
    BY <1>2, <2>1 DEF TopFrame, Tried
<1>8. \A a : RunsOn(a) => /\ g = [state |-> s, limit |-> f.limit, cost |-> f.cost, alt |-> a]
                          /\ g.state = s /\ g.limit = f.limit /\ g.cost = f.cost /\ g.alt = a
                          /\ RunsOn(g.alt)
                          /\ a \in Nat => g \in Frames
  <2> SUFFICES ASSUME NEW a, RunsOn(a)
               PROVE  /\ g = [state |-> s, limit |-> f.limit, cost |-> f.cost, alt |-> a]
                      /\ g.state = s /\ g.limit = f.limit /\ g.cost = f.cost /\ g.alt = a
                      /\ RunsOn(g.alt)
                      /\ a \in Nat => g \in Frames
    OBVIOUS
  <2>1. g = [state |-> s, limit |-> f.limit, cost |-> f.cost, alt |-> a]
    BY DEF RunsOn
  <2>2. g.state = s /\ g.limit = f.limit /\ g.cost = f.cost /\ g.alt = a
    BY <2>1
  <2>3. RunsOn(g.alt)
    BY <2>2
  <2>4. a \in Nat => g \in Frames
    BY <1>5, <2>1 DEF Frames
  <2> QED
    BY <2>1, <2>2, <2>3, <2>4
<1>9. CASE SeesTooFar
  <2>1. /\ RunsOn(NActions + 1) /\ NActions + 1 \in Nat /\ pc' = "run"
        /\ s \notin problem.final /\ f.limit < h
        /\ explored' = IF f.cost + h < explored THEN f.cost + h ELSE explored
    BY <1>6, <1>9 DEF SeesTooFar, UpdateExploredDepth
  <2>2. /\ g.state = s /\ g.limit = f.limit /\ g.cost = f.cost /\ g.alt = NActions + 1
        /\ RunsOn(g.alt)
    BY <1>8, <2>1
  <2>3. explored' <= f.cost + h
    BY <1>1, <1>5, <1>6, <2>1
  <2>5. TopTried
    <3>1. ~(g.limit >= h) /\ g.alt <= Len(problem.action[s]) + 1
      BY <1>5, <1>6, <2>1, <2>2
    <3> HIDE DEF g, h
    <3> QED
      BY <2>1, <2>2, <2>3, <3>1 DEF TopTried, Tried, g, h
  <2> HIDE DEF g
  <2> QED
    BY <1>2, <2>1, <2>2, <2>5, RunTracks DEF g
<1>10. CASE StartsActions
  <2>1. /\ RunsOn(1) /\ pc' = "run" /\ explored' = explored
        /\ s \notin problem.final /\ f.limit >= h
    BY <1>10 DEF StartsActions
  <2>2. /\ g.state = s /\ g.limit = f.limit /\ g.cost = f.cost /\ g.alt = 1
        /\ RunsOn(g.alt)
    BY <1>8, <2>1
  <2>3. TopTried
    <3>1. ~(g.limit < h) /\ g.alt <= Len(problem.action[s]) + 1 /\ 1 .. g.alt - 1 = {}
      BY <1>5, <1>6, <2>1, <2>2
    <3> HIDE DEF g, h
    <3> QED
      BY <2>1, <2>2, <3>1 DEF TopTried, Tried, g, h
  <2> HIDE DEF g
  <2> QED
    BY <1>2, <2>1, <2>2, <2>3, RunTracks DEF g
<1>11. ASSUME NEW k \in Nat, SkipsAction(k) PROVE Tracks'
  <2> DEFINE c == problem.action[s][k].cost
  <2>1. k = f.alt /\ k \in 1 .. Len(problem.action[s]) /\ k + 1 \in Nat
    BY <1>6, <1>11 DEF SkipsAction
  <2>2. c \in Nat
    BY <1>1, <1>5, <2>1 DEF ActionsOk
  <2>3. /\ RunsOn(k + 1) /\ pc' = "run" /\ f.limit < c
        /\ explored' = IF f.cost + c < explored THEN f.cost + c ELSE explored
    BY <1>11 DEF SkipsAction, ActionOf, UpdateExploredDepth
  <2>4. /\ g.state = s /\ g.limit = f.limit /\ g.cost = f.cost /\ g.alt = k + 1
        /\ RunsOn(g.alt) /\ g \in Frames
    BY <1>8, <2>1, <2>3
  <2>5. Answered(problem, top, kept, s, f.limit, k)
    <3>1. ~(f.limit >= c)
      BY <1>5, <2>2, <2>3
    <3> QED
      BY <3>1 DEF Answered
  <2>6. Noted(problem, explored', s, f.limit, f.cost, k)
    <3>1. explored' <= f.cost + c
      BY <1>1, <1>5, <2>2, <2>3
    <3> QED
      BY <3>1 DEF Noted
  <2> DEFINE calling2 == pc' = "call"
  <2>8. TopTried
    <3>1. explored \in Int /\ explored' \in Int /\ explored' <= explored /\ ActionsOk(problem)
          /\ f \in Frames
      BY <1>1, <1>3, <1>5
    <3> HIDE DEF g, f, calling2
    <3>2. Tried(problem, g, top, kept, explored', calling2, call')
      BY ONLY <1>7, <2>1, <2>4, <2>5, <2>6, <3>1, TopGoesOn, Zenon DEF f
    <3> QED
      BY ONLY <3>2, Zenon DEF TopTried, g, calling2
  <2> HIDE DEF g
  <2> QED
    BY <1>2, <2>3, <2>4, <2>8, RunTracks DEF g
<1>12. ASSUME NEW k \in Nat, TakesAction(k) PROVE Tracks'
  <2> DEFINE c == problem.action[s][k].cost
  <2>1. k = f.alt /\ k \in 1 .. Len(problem.action[s]) /\ k + 1 \in Nat
    BY <1>6, <1>12 DEF TakesAction
  <2>2. c \in Nat
    BY <1>1, <1>5, <2>1 DEF ActionsOk
  <2>3. /\ RunsOn(k + 1) /\ pc' = "call" /\ f.limit >= c /\ explored' = explored
        /\ call' = [state |-> problem.action[s][k].to, limit |-> f.limit - c, cost |-> f.cost + c]
    BY <1>12 DEF TakesAction, ActionOf
  <2>4. /\ g.state = s /\ g.limit = f.limit /\ g.cost = f.cost /\ g.alt = k + 1
        /\ RunsOn(g.alt) /\ g \in Frames
    BY <1>8, <2>1, <2>3
  <2>5. Pending(problem, g, call', k)
    <3>1. g.alt - 1 = k /\ call'.state = problem.action[s][k].to /\ call'.limit = g.limit - c
      BY <2>3, <2>4
    <3> QED
      BY <2>4, <3>1 DEF Pending
  <2>6. Noted(problem, explored', s, f.limit, f.cost, k)
    <3>1. ~(f.limit < c)
      BY <1>5, <2>2, <2>3
    <3> QED
      BY <3>1 DEF Noted
  <2> DEFINE calling2 == pc' = "call"
  <2>7. calling2
    BY <2>3
  <2>8. TopTried
    <3>1. explored \in Int /\ explored' \in Int /\ explored' <= explored /\ ActionsOk(problem)
          /\ f \in Frames
      BY <1>1, <1>3, <1>5
    <3> HIDE DEF g, f, calling2
    <3>2. Tried(problem, g, top, kept, explored', calling2, call')
      BY ONLY <1>7, <2>1, <2>4, <2>5, <2>6, <2>7, <3>1, TopGoesOn, Zenon DEF f
    <3> QED
      BY ONLY <3>2, Zenon DEF TopTried, g, calling2
  <2>9. call'.limit \in Int /\ call'.limit <= f.limit
    <3>1. call'.limit = f.limit - c
      BY <2>3
    <3> QED
      BY <1>1, <1>5, <2>2, <3>1
  <2> HIDE DEF g
  <2> QED
    BY <1>2, <2>3, <2>4, <2>8, <2>9, RunTracks DEF g
<1> QED
  BY <1>2, <1>9, <1>10, <1>11, <1>12

\* A frame whose alternatives are used up leaves an entry that has failed.
LEMMA CompletionTracks ==
  ASSUME Tracking, table_check_completion
  PROVE  Tracks'
<1> DEFINE n == Len(stack)
           f == stack[n]
           s == f.state
           tops == Completed(s)
<1>1. /\ IInv /\ Shapes /\ Wired(stack, top, root, elms)
      /\ Falling /\ AllTried /\ AllFailed /\ ActionsOk(problem) /\ explored \in Int
      /\ top \in [States -> Int] /\ kept \in [States -> Int]
      /\ n \in Nat /\ DOMAIN stack = 1 .. n /\ stack \in Seq(Frames)
  BY TrackingFacts
<1>2. UNCHANGED <<problem, kept, call, explored>> /\ pc = "run" /\ pc' /= "call"
  BY DEF table_check_completion, driverVars, GoOn
<1>3. stack /= << >> /\ n \in Nat \ {0} /\ n \in 1 .. n /\ n - 1 \in 0 .. n
  BY <1>1, <1>2, LenFacts DEF IInv, Types
<1>4. /\ f \in Frames /\ s \in States /\ f.limit \in Int /\ f.cost \in Nat /\ top[s] = n
      /\ f.limit = kept[s]
  <2>1. top[s] = n /\ f.limit = kept[s]
    BY <1>1, <1>3 DEF Wired, Falling
  <2> QED
    BY <1>1, <1>3, <2>1, StackFacts
<1>5. /\ top' = tops /\ stack' = Front(stack) /\ f.alt = Len(problem.action[s]) + 1
  BY DEF table_check_completion, TopFrame, NActions
<1>6. /\ tops \in [States -> Int] /\ tops[s] < 0
      /\ \A t \in States : t /= s => tops[t] = top[t] \/ (top[t] < 0 /\ tops[t] = COMPLETE)
  BY <1>1, <1>3, CompletedIs
<1>7. /\ DOMAIN stack' = 1 .. n - 1 /\ \A i \in 1 .. n - 1 : stack'[i] = stack[i] /\ i \in 1 .. n
  <2>1. Front(stack) = SubSeq(stack, 1, n - 1)
    BY DEF Front
  <2> QED
    BY <1>1, <1>3, <1>5, <2>1, PrefixFacts
<1> HIDE DEF tops, f
<1>8. \A x \in States : /\ (top[x] /= NULL => tops[x] /= NULL)
                        /\ (tops[x] /= NULL => top[x] /= NULL)
                        /\ (x /= s /\ tops[x] < 0 => top[x] < 0)
  <2> SUFFICES ASSUME NEW x \in States
               PROVE  /\ (top[x] /= NULL => tops[x] /= NULL)
                      /\ (tops[x] /= NULL => top[x] /= NULL)
                      /\ (x /= s /\ tops[x] < 0 => top[x] < 0)
    OBVIOUS
  <2>1. CASE x = s
    BY <1>3, <1>4, <1>6, <2>1 DEF NULL
  <2>2. CASE x /= s
    BY <1>1, <1>6, <2>2 DEF NULL, COMPLETE
  <2> QED
    BY <2>1, <2>2
<1>9. Grows(top, kept, tops, kept)
  BY <1>1, <1>8 DEF Grows
<1>10. Falling'
  <2>1. \A i \in DOMAIN stack' : stack'[i].limit = kept[stack'[i].state]
    BY <1>1, <1>7 DEF Falling
  <2>2. \A i, j \in DOMAIN stack' : i <= j => stack'[j].limit <= stack'[i].limit
    <3>1. \A i, j \in 1 .. n : i <= j => stack[j].limit <= stack[i].limit
      BY <1>1 DEF Falling
    <3> QED
      BY <1>7, <3>1
  <2> QED
    BY <1>2, <2>1, <2>2 DEF Falling
<1>14. AllTried'
  <2> SUFFICES ASSUME NEW i \in 1 .. n - 1
               PROVE  Tried(problem, stack[i], tops, kept, explored, FALSE, call)
    BY <1>2, <1>5, <1>7 DEF AllTried
  <2> DEFINE g == stack[i]
             calling == pc = "call" /\ i = Len(stack)
  <2>0. explored \in Int /\ explored <= explored /\ ActionsOk(problem)
    BY <1>1
  <2>1. g \in Frames /\ Tried(problem, g, top, kept, explored, calling, call)
    <3>1. g \in Frames
      BY <1>1, <1>7
    <3>2. i \in DOMAIN stack /\ AllTried
      BY <1>1, <1>7
    <3> QED
      BY ONLY <3>1, <3>2, Zenon DEF AllTried
  <2>2. Settles(problem, g, tops, kept, calling, call, FALSE, call)
    BY <1>2 DEF Settles
  <2> HIDE DEF g, calling
  <2>3. Tried(problem, g, tops, kept, explored, FALSE, call)
    BY ONLY <1>9, <2>0, <2>1, <2>2, TriedStays, Zenon
  <2> QED
    BY ONLY <2>3, Zenon DEF g
<1>15. Tried(problem, f, top, kept, explored, FALSE, call)
  <2>1. Tried(problem, stack[n], top, kept, explored, pc = "call" /\ n = Len(stack), call)
    <3>1. AllTried /\ n \in DOMAIN stack
      BY <1>1, <1>3
    <3> QED
      BY ONLY <3>1, Zenon DEF AllTried
  <2> QED
    BY <1>2, <2>1 DEF f, Tried
<1>16. /\ Len(problem.action[s]) \in Nat /\ DOMAIN problem.action[s] = 1 .. Len(problem.action[s])
       /\ problem.heuristic[s] \in Nat
  BY <1>1, <1>4 DEF ActionsOk
<1>17. f.alt > 0 /\ 1 .. f.alt - 1 = 1 .. Len(problem.action[s])
  BY <1>5, <1>16
<1>18. AllFailed'
  <2> SUFFICES ASSUME NEW x \in States, tops[x] < 0
               PROVE  Failed(problem, x, tops, kept)
    BY <1>2, <1>5 DEF AllFailed
  <2>1. CASE x /= s
    <3>1. Failed(problem, x, top, kept)
      BY <1>1, <1>8, <2>1 DEF AllFailed
    <3> QED
      BY <1>1, <1>9, <3>1, FailedStays
  <2>2. CASE x = s
    <3>1. s \notin problem.final
      BY <1>15, <1>17 DEF Tried
    <3>2. ASSUME kept[s] >= problem.heuristic[s], NEW k \in 1 .. Len(problem.action[s])
          PROVE  Answered(problem, tops, kept, s, kept[s], k)
      <4>1. Answered(problem, top, kept, s, kept[s], k)
        BY <1>4, <1>15, <1>17, <3>2 DEF Tried
      <4>2. kept[s] \in Int
        BY <1>1, <1>4
      <4> QED
        BY <1>1, <1>4, <1>9, <4>1, <4>2, AnsweredStays
    <3> QED
      BY <1>16, <2>2, <3>1, <3>2 DEF Failed
  <2> QED
    BY <2>1, <2>2
<1> QED
  BY <1>10, <1>14, <1>18 DEF Tracks

\* Every step of the search that throws no plan.
LEMMA SearchTracks ==
  ASSUME Tracking, Search, ~solved'
  PROVE  Tracks'
<1>1. ~ThrowPlan
  BY DEF ThrowPlan
<1> QED
  BY <1>1, OpensTracks, FailAgainTracks, RunClauseTracks, CompletionTracks
  DEF Search, table_allocate

\* Between two searches no entry is under evaluation, and what the cheapest plan costs is more
\* than a failed entry was called with: of the entries that were called with enough one has a
\* cheapest way out, which it has tried.
LEMMA FailedIsTooDear ==
  ASSUME IInv, Shapes, Wired(stack, top, root, elms), AllFailed, stack = << >>,
         \A x \in States : top[x] /= NULL => kept[x] <= Unlimited
  PROVE  \A x \in States : top[x] < 0 => Cheapest(x) > kept[x]
<1> DEFINE B == {x \in States : top[x] < 0 /\ Cheapest(x) <= kept[x]}
           p == problem
<1>1. /\ AllFailed /\ ActionsOk(p)
      /\ top \in [States -> Int] /\ kept \in [States -> Int]
  BY ActionsFacts DEF IInv, Types, Shapes
<1>2. \A x \in States : top[x] /= NULL => top[x] < 0
  <2> SUFFICES ASSUME NEW x \in States, top[x] /= NULL
               PROVE  top[x] < 0
    OBVIOUS
  <2>1. ~(top[x] > 0)
    BY DEF Wired
  <2> QED
    BY <1>1, <2>1 DEF NULL
<1>3. /\ Unlimited \in Nat
      /\ \A x \in States : /\ Cheapest(x) \in Nat /\ p.heuristic[x] \in Nat
                           /\ p.heuristic[x] <= Cheapest(x)
                           /\ p.cheapest[x] = Cheapest(x)
  BY ProblemFacts DEF Cheapest
<1>4. IsCheapest(p)
  BY BoundsAssumption DEF Shapes
<1> SUFFICES ASSUME NEW y \in States, top[y] < 0, ~(Cheapest(y) > kept[y])
             PROVE  FALSE
  OBVIOUS
<1>5. y \in B /\ B \in SUBSET States
  BY <1>1, <1>3
<1>6. \A x \in B : p.cheapest[x] <= Unlimited
  <2> SUFFICES ASSUME NEW x \in B
               PROVE  p.cheapest[x] <= Unlimited
    OBVIOUS
  <2>1. kept[x] <= Unlimited
    BY DEF NULL
  <2> QED
    BY <1>1, <1>3, <2>1
<1>7. PICK s \in B :
        \/ s \in p.final
        \/ \E k \in DOMAIN p.action[s] :
             /\ p.action[s][k].to \notin B
             /\ p.cheapest[s] = p.action[s][k].cost + p.cheapest[p.action[s][k].to]
  <2> HIDE DEF B
  <2> QED
    BY <1>4, <1>5, <1>6 DEF IsCheapest
<1>8. s \in States /\ top[s] < 0 /\ Cheapest(s) <= kept[s] /\ Failed(p, s, top, kept)
  BY <1>1, <1>7 DEF AllFailed
<1>9. s \notin p.final
  BY <1>8 DEF Failed
<1>10. PICK k \in DOMAIN p.action[s] :
         /\ p.action[s][k].to \notin B
         /\ p.cheapest[s] = p.action[s][k].cost + p.cheapest[p.action[s][k].to]
  BY <1>7, <1>9
<1> DEFINE t == p.action[s][k].to
           c == p.action[s][k].cost
<1>11. t \in States /\ c \in Nat
  BY <1>1, <1>8 DEF ActionsOk
<1>12. kept[s] >= p.heuristic[s]
  BY <1>1, <1>3, <1>8
<1>13. Answered(p, top, kept, s, kept[s], k)
  BY <1>8, <1>12 DEF Failed
<1>14. kept[s] >= c => top[t] /= NULL /\ kept[t] >= kept[s] - c
  BY <1>13 DEF Answered
<1>15. t \notin B /\ p.cheapest[s] = c + p.cheapest[t]
  BY <1>10
<1> HIDE DEF t, c
<1>16. Cheapest(s) = c + Cheapest(t) /\ Cheapest(t) \in Nat /\ Cheapest(s) \in Nat
  BY <1>3, <1>8, <1>11, <1>15
<1>17. top[t] /= NULL /\ kept[t] >= Cheapest(t)
  BY <1>1, <1>8, <1>11, <1>14, <1>16
<1> QED
  BY <1>2, <1>11, <1>15, <1>17

-----------------------------------------------------------------------------
(* The first query, before a plan is thrown: each step keeps what the       *)
(* failure of its search rests on.                                          *)

\* The first search before a plan is thrown.
Failingly == Under /\ ~solved

\* What is known there, with its types.
LEMMA FailingFacts ==
  ASSUME Failingly
  PROVE  /\ IInv /\ Shapes /\ Wired(stack, top, root, elms) /\ Paths /\ Outcomes
         /\ Tracking /\ Falling /\ AllTried /\ AllFailed
         /\ Limits /\ Spent /\ Started /\ AllExplored /\ ActionsOk(problem)
         /\ bounds.level \in Int /\ explored \in Int
         /\ top \in [States -> Int] /\ kept \in [States -> Int]
         /\ Len(stack) \in Nat /\ DOMAIN stack = 1 .. Len(stack) /\ stack \in Seq(Frames)
         /\ \A s \in States : Gap(s) \in Int
         /\ Begin \in States /\ Gap(Begin) = 0 /\ query.limit \in Int
<1>1. IInv /\ Shapes /\ Wired(stack, top, root, elms) /\ Paths /\ Outcomes /\ Failing /\ Tracking
  BY DEF Failingly, Under, Failing, Tracking
<1>2. ActionsOk(problem)
  BY <1>1, ActionsFacts
<1>3. /\ bounds.level \in Int /\ explored \in Int
      /\ top \in [States -> Int] /\ kept \in [States -> Int] /\ stack \in Seq(Frames)
  BY <1>1 DEF IInv, Types, Shapes
<1>4. Len(stack) \in Nat /\ DOMAIN stack = 1 .. Len(stack)
  BY <1>1, LenFacts
<1>5. /\ \A s \in States : Cheapest(s) \in Nat
      /\ Begin \in States /\ Least \in Nat /\ query.limit \in Int
  BY <1>1, ProblemFacts
<1>6. (\A s \in States : Gap(s) \in Int) /\ Gap(Begin) = 0
  BY <1>5 DEF Gap, Least
<1> QED
  BY <1>1, <1>2, <1>3, <1>4, <1>5, <1>6 DEF Failing, Tracks

\* What the driver alone may change.
LEMMA SameQuery ==
  ASSUME UNCHANGED driverVars
  PROVE  /\ UNCHANGED <<problem, query, bounds, best, queries>>
         /\ Begin' = Begin /\ Least' = Least
         /\ \A s : Gap(s)' = Gap(s) /\ Cheapest(s)' = Cheapest(s)
BY DEF driverVars, Begin, Least, Gap, Cheapest

\* A call that gets a frame keeps what failures rest on: the entry leaves those that have failed,
\* and its frame has tried nothing.
LEMMA OpensFailing ==
  ASSUME Failingly, table_allocate, FirstCall \/ Reopen
  PROVE  Failing'
<1> DEFINE n == Len(stack)
           t == call.state
           f == [state |-> call.state, limit |-> call.limit, cost |-> call.cost, alt |-> 0]
<1>1. /\ IInv /\ Shapes /\ Wired(stack, top, root, elms) /\ Paths
      /\ Tracking /\ Falling /\ Limits /\ Spent /\ Started /\ AllExplored /\ ActionsOk(problem)
      /\ bounds.level \in Int /\ explored \in Int
      /\ top \in [States -> Int] /\ kept \in [States -> Int]
      /\ n \in Nat /\ DOMAIN stack = 1 .. n /\ stack \in Seq(Frames)
      /\ \A s \in States : Gap(s) \in Int
      /\ Begin \in States /\ Gap(Begin) = 0 /\ query.limit \in Int
  BY FailingFacts
<1>2. /\ UNCHANGED <<problem, query, bounds, best, queries>> /\ UNCHANGED <<call, explored>>
      /\ Begin' = Begin /\ Least' = Least
      /\ \A s : Gap(s)' = Gap(s) /\ Cheapest(s)' = Cheapest(s)
  BY SameQuery DEF table_allocate
<1>3. /\ pc = "call" /\ pc' = "run"
      /\ top[t] = NULL \/ (top[t] < 0 /\ call.limit > kept[t])
      /\ stack' = Append(stack, f)
      /\ top' = [top EXCEPT ![t] = n + 1] /\ kept' = [kept EXCEPT ![t] = call.limit]
  BY <1>1, OpensFacts DEF Opens, Push
<1>4. t \in States /\ call.limit \in Int /\ call.cost \in Nat /\ f \in Frames
  BY <1>1 DEF IInv, Types, Frames
<1>5. /\ f.state = t /\ f.limit = call.limit /\ f.cost = call.cost /\ f.alt = 0
  OBVIOUS
<1> HIDE DEF f
<1>6. /\ stack' \in Seq(Frames) /\ Len(stack') = n + 1 /\ DOMAIN stack' = 1 .. n + 1
      /\ stack'[n + 1] = f /\ \A i \in 1 .. n : stack'[i] = stack[i]
  BY <1>1, <1>3, <1>4
<1>7. /\ top'[t] = n + 1 /\ kept'[t] = call.limit
      /\ \A s \in States : s /= t => top'[s] = top[s] /\ kept'[s] = kept[s]
  BY <1>1, <1>3, <1>4
<1>9. OnTheWay(call) /\ call.limit + call.cost = bounds.level
  BY <1>1, <1>3 DEF Paths, Limits
<1>10. Grows(top, kept, top', kept')
  <2> SUFFICES ASSUME NEW x \in States
               PROVE  /\ kept[x] \in Int /\ kept'[x] \in Int
                      /\ top[x] /= NULL => top'[x] /= NULL /\ kept'[x] >= kept[x]
    BY DEF Grows
  <2>1. CASE x = t
    BY <1>1, <1>3, <1>4, <1>7, <2>1 DEF NULL
  <2>2. CASE x /= t
    BY <1>1, <1>7, <2>2
  <2> QED
    BY <2>1, <2>2
<1>11. Limits'
  <2>1. \A i \in DOMAIN stack' : stack'[i].limit + stack'[i].cost = bounds.level
    <3> SUFFICES ASSUME NEW i \in 1 .. n + 1
                 PROVE  stack'[i].limit + stack'[i].cost = bounds.level
      BY <1>6
    <3>1. CASE i = n + 1
      BY <1>5, <1>6, <1>9, <3>1
    <3>2. CASE i \in 1 .. n
      BY <1>1, <1>6, <3>2 DEF Limits
    <3> QED
      BY <1>1, <3>1, <3>2
  <2> QED
    BY <1>1, <1>2, <1>3, <2>1 DEF Limits
<1>12. Spent'
  <2> SUFFICES ASSUME NEW s \in States, top'[s] /= NULL
               PROVE  kept'[s] <= query.limit /\ kept'[s] <= bounds.level - Gap(s)
    BY <1>2, <1>3 DEF Spent, Begins
  <2>1. CASE s = t
    <3>1. Gap(t) <= call.cost /\ call.limit + call.cost <= query.limit
      BY <1>9 DEF OnTheWay
    <3> QED
      BY <1>1, <1>4, <1>7, <1>9, <2>1, <3>1
  <2>2. CASE s /= t
    BY <1>1, <1>7, <2>2 DEF Spent
  <2> QED
    BY <2>1, <2>2
<1>13. Started'
  <2>1. top'[Begin] /= NULL /\ kept'[Begin] >= bounds.level
    <3>1. CASE Begins
      BY <1>1, <1>4, <1>7, <3>1 DEF Started, NULL
    <3>2. CASE ~Begins
      BY <1>1, <1>10, <3>2 DEF Started, Grows
    <3> QED
      BY <3>1, <3>2
  <2> QED
    BY <1>2, <1>3, <2>1 DEF Started, Begins
<1>14. Tracks'
  BY <1>1, OpensTracks
<1>16. AllExplored'
  <2> SUFFICES ASSUME NEW s \in States, top'[s] < 0, kept'[s] = bounds.level - Gap(s)
               PROVE  Explored(problem, s, kept'[s], Gap(s), explored)
    BY <1>2 DEF AllExplored
  <2>1. s /= t
    BY <1>1, <1>7
  <2> QED
    BY <1>1, <1>7, <2>1 DEF AllExplored
<1> QED
  BY <1>11, <1>12, <1>13, <1>14, <1>16 DEF Failing

\* A call of an entry that has failed with as much answers the action that was pending.
LEMMA FailAgainFailing ==
  ASSUME Failingly, table_allocate, FailAgain
  PROVE  Failing'
<1> DEFINE n == Len(stack)
           t == call.state
<1>1. /\ IInv /\ Shapes /\ Wired(stack, top, root, elms) /\ Paths
      /\ Tracking /\ Falling /\ Limits /\ Spent /\ Started /\ AllExplored /\ ActionsOk(problem)
      /\ bounds.level \in Int /\ explored \in Int
      /\ top \in [States -> Int] /\ kept \in [States -> Int]
      /\ n \in Nat /\ DOMAIN stack = 1 .. n /\ stack \in Seq(Frames)
      /\ \A s \in States : Gap(s) \in Int
      /\ Begin \in States /\ Gap(Begin) = 0 /\ query.limit \in Int
  BY FailingFacts
<1>2. /\ UNCHANGED <<problem, query, bounds, best, queries>> /\ UNCHANGED <<call, explored>>
      /\ Begin' = Begin /\ Least' = Least
      /\ \A s : Gap(s)' = Gap(s) /\ Cheapest(s)' = Cheapest(s)
  BY SameQuery DEF table_allocate
<1>3. /\ pc = "call" /\ pc' /= "call" /\ UNCHANGED <<top, kept, stack>>
      /\ top[t] > 0 \/ (top[t] \in {COMPLETE, TEMP_COMPLETE} /\ ~(call.limit > kept[t]))
  BY DEF FailAgain, GoOn, MoreResources
<1>4. t \in States /\ call.limit \in Int
  BY <1>1 DEF IInv, Types
<1>5. top[t] /= NULL /\ kept[t] >= call.limit
  <2>1. CASE top[t] > 0
    <3>1. top[t] \in DOMAIN stack /\ stack[top[t]].state = t
      BY <1>1, <1>4, <2>1 DEF Wired
    <3>2. stack[top[t]].limit = kept[t] /\ call.limit <= stack[top[t]].limit
      BY <1>1, <1>3, <3>1 DEF Falling
    <3> QED
      BY <1>1, <1>4, <2>1, <3>2 DEF NULL
  <2>2. CASE ~(top[t] > 0)
    BY <1>1, <1>3, <1>4, <2>2 DEF NULL, COMPLETE, TEMP_COMPLETE
  <2> QED
    BY <2>1, <2>2
<1>6. ~Begins
  <2> SUFFICES ASSUME Begins
               PROVE  FALSE
    OBVIOUS
  <2>1. t = Begin /\ call.limit = bounds.level
    BY <1>1 DEF Started
  <2>2. kept[t] < bounds.level - Gap(t)
    BY <1>1, <1>4, <1>5 DEF Spent
  <2> QED
    BY <1>1, <1>4, <1>5, <2>1, <2>2
<1>7. Limits'
  BY <1>1, <1>2, <1>3 DEF Limits
<1>8. Spent'
  BY <1>1, <1>2, <1>3 DEF Spent, Begins
<1>9. Started'
  BY <1>1, <1>2, <1>3, <1>6 DEF Started, Begins
<1>12. Tracks'
  BY <1>1, FailAgainTracks
<1>13. AllExplored'
  BY <1>1, <1>2, <1>3 DEF AllExplored
<1> QED
  BY <1>7, <1>8, <1>9, <1>12, <1>13 DEF Failing

\* How a step of the top frame leaves the others.
LEMMA RunFailing ==
  ASSUME Failingly, RunClause, stack /= << >>, RunsOn(stack'[Len(stack)].alt),
         pc' = "call" => call'.limit + call'.cost = bounds.level,
         explored' = explored \/ bounds.level < explored'
  PROVE  Failing'
<1> DEFINE n == Len(stack)
<1>1. /\ IInv /\ Shapes /\ Wired(stack, top, root, elms) /\ Paths
      /\ Tracking /\ Falling /\ Limits /\ Spent /\ Started /\ AllExplored /\ ActionsOk(problem)
      /\ bounds.level \in Int /\ explored \in Int
      /\ top \in [States -> Int] /\ kept \in [States -> Int]
      /\ n \in Nat /\ DOMAIN stack = 1 .. n /\ stack \in Seq(Frames)
      /\ \A s \in States : Gap(s) \in Int
      /\ Begin \in States /\ Gap(Begin) = 0 /\ query.limit \in Int
  BY FailingFacts
<1>2. /\ UNCHANGED <<problem, query, bounds, best, queries>> /\ UNCHANGED <<top, kept>>
      /\ Begin' = Begin /\ Least' = Least
      /\ \A s : Gap(s)' = Gap(s) /\ Cheapest(s)' = Cheapest(s)
      /\ pc = "run"
  BY SameQuery DEF RunClause, tableVars
<1>3. explored' \in Int /\ explored' <= explored
  BY <1>1, ExploredFalls
<1>0. n = Len(stack) /\ (stack /= << >> => n /= 0)
  BY <1>1, LenFacts
<1> HIDE DEF n
<1>4. /\ n \in 1 .. n /\ DOMAIN stack' = 1 .. n /\ Len(stack') = n
      /\ \A i \in 1 .. n : /\ stack'[i].state = stack[i].state
                           /\ stack'[i].limit = stack[i].limit
                           /\ stack'[i].cost = stack[i].cost
      /\ \A i \in 1 .. n : i /= n => stack'[i] = stack[i]
  <2> DEFINE a == stack'[n].alt
  <2>1. n \in 1 .. n /\ RunsOn(a)
    BY <1>0, <1>1
  <2> HIDE DEF a
  <2>2. /\ DOMAIN stack' = 1 .. n /\ Len(stack') = n
        /\ \A i \in 1 .. n : i /= n => stack'[i] = stack[i]
        /\ stack'[n] = [state |-> stack[n].state, limit |-> stack[n].limit,
                        cost |-> stack[n].cost, alt |-> a]
    BY <1>0, <1>1, <2>1 DEF RunsOn, TopFrame
  <2>3. /\ stack'[n].state = stack[n].state /\ stack'[n].limit = stack[n].limit
        /\ stack'[n].cost = stack[n].cost
    BY <2>2
  <2> QED
    BY <2>1, <2>2, <2>3
<1>6. Limits'
  <2>1. \A i \in DOMAIN stack' : stack'[i].limit + stack'[i].cost = bounds.level
    BY <1>1, <1>4 DEF Limits
  <2>2. query.how \in {"down", "bin"} => explored' = Unlimited \/ bounds.level < explored'
    BY <1>1 DEF Limits
  <2> QED
    BY <1>1, <1>2, <2>1, <2>2 DEF Limits
<1>7. ~Begins /\ ~Begins'
  <2>1. stack' /= << >>
    <3>1. Len(stack') = n /\ n /= 0
      BY <1>0, <1>4
    <3> QED
      BY <3>1
  <2> QED
    BY <1>2, <2>1 DEF Begins
<1>8. Spent' /\ Started'
  BY <1>1, <1>2, <1>7 DEF Spent, Started
<1>10. Tracks'
  BY <1>1, RunClauseTracks
<1>12. AllExplored'
  <2> SUFFICES ASSUME NEW s \in States, top[s] < 0, kept[s] = bounds.level - Gap(s)
               PROVE  Explored(problem, s, kept[s], Gap(s), explored')
    BY <1>2 DEF AllExplored
  <2>1. Explored(problem, s, kept[s], Gap(s), explored)
    BY <1>1 DEF AllExplored
  <2>2. kept[s] \in Int /\ Gap(s) \in Int
    BY <1>1
  <2> QED
    BY <1>1, <1>3, <2>1, <2>2, ExploredStays
<1> QED
  BY <1>6, <1>8, <1>10, <1>12 DEF Failing

\* So does each of the four steps of the top frame.
LEMMA RunClauseFailing ==
  ASSUME Failingly, RunClause
  PROVE  Failing'
<1> DEFINE n == Len(stack)
           f == TopFrame
           s == TopFrame.state
           a == stack'[n].alt
<1>1. /\ IInv /\ Shapes /\ Limits /\ ActionsOk(problem)
      /\ bounds.level \in Int /\ explored \in Int
      /\ n \in Nat /\ DOMAIN stack = 1 .. n
  BY FailingFacts
<1>2. /\ pc = "run" /\ stack /= << >>
      /\ \/ SeesTooFar \/ StartsActions
         \/ \E k \in Nat : SkipsAction(k) \/ TakesAction(k)
  BY <1>1, RunIs
<1>3. n \in 1 .. n /\ n \in DOMAIN stack
  BY <1>1, <1>2, LenFacts
<1>4. /\ f \in Frames /\ s \in States /\ f.limit \in Int /\ f.cost \in Nat
      /\ f.limit + f.cost = bounds.level
  BY <1>1, <1>3, StackFacts DEF TopFrame, Limits
<1>5. /\ problem.heuristic[s] \in Nat
      /\ \A k \in 1 .. NActions : ActionOf(s, k).cost \in Nat
  BY <1>1, <1>4 DEF ActionsOk, NActions, ActionOf
<1>6. RunsOn(a)
  <2>1. \A b : RunsOn(b) => RunsOn(a)
    BY DEF RunsOn
  <2> QED
    BY <1>2, <2>1 DEF SeesTooFar, StartsActions, SkipsAction, TakesAction
<1>7. pc' = "call" => call'.limit + call'.cost = bounds.level
  <2> SUFFICES ASSUME NEW k \in Nat, TakesAction(k)
               PROVE  call'.limit + call'.cost = bounds.level
    BY <1>2 DEF SeesTooFar, StartsActions, SkipsAction
  <2> DEFINE c == ActionOf(s, k).cost
  <2>1. c \in Nat /\ call'.limit = f.limit - c /\ call'.cost = f.cost + c
    BY <1>5 DEF TakesAction
  <2> HIDE DEF c
  <2> QED
    BY <1>1, <1>4, <2>1
<1>8. \A d \in Nat : UpdateExploredDepth(f.cost + d) /\ f.limit < d =>
        explored' = explored \/ bounds.level < explored'
  BY <1>1, <1>4 DEF UpdateExploredDepth
<1>9. explored' = explored \/ bounds.level < explored'
  <2>1. ASSUME NEW k \in Nat, SkipsAction(k)
        PROVE  explored' = explored \/ bounds.level < explored'
    <3> DEFINE c == ActionOf(s, k).cost
    <3>1. c \in Nat /\ f.limit < c /\ UpdateExploredDepth(f.cost + c)
      BY <1>5, <2>1 DEF SkipsAction
    <3> QED
      BY <1>8, <3>1
  <2>2. CASE SeesTooFar
    BY <1>5, <1>8, <2>2 DEF SeesTooFar
  <2> QED
    BY <1>2, <2>1, <2>2 DEF StartsActions, TakesAction
<1> HIDE DEF n
<1> QED
  BY <1>2, <1>6, <1>7, <1>9, RunFailing DEF n
\* A frame whose alternatives are used up leaves an entry that has failed, and its cost and limit
\* leave what it has noted.
LEMMA CompletionFailing ==
  ASSUME Failingly, table_check_completion
  PROVE  Failing'
<1> DEFINE n == Len(stack)
           f == stack[n]
           s == f.state
           tops == Completed(s)
<1>1. /\ IInv /\ Shapes /\ Wired(stack, top, root, elms) /\ Paths
      /\ Tracking /\ Falling /\ Limits /\ Spent /\ Started /\ AllExplored /\ ActionsOk(problem)
      /\ bounds.level \in Int /\ explored \in Int
      /\ top \in [States -> Int] /\ kept \in [States -> Int]
      /\ n \in Nat /\ DOMAIN stack = 1 .. n /\ stack \in Seq(Frames)
      /\ \A x \in States : Gap(x) \in Int
      /\ Begin \in States /\ Gap(Begin) = 0 /\ query.limit \in Int
  BY FailingFacts
<1>2. /\ UNCHANGED <<problem, query, bounds, best, queries>>
      /\ UNCHANGED <<kept, call, explored>>
      /\ Begin' = Begin /\ Least' = Least
      /\ \A x : Gap(x)' = Gap(x) /\ Cheapest(x)' = Cheapest(x)
      /\ pc = "run" /\ pc' /= "call"
  BY SameQuery DEF table_check_completion, GoOn
<1>3. stack /= << >> /\ n \in Nat \ {0} /\ n \in 1 .. n /\ n - 1 \in 0 .. n
  BY <1>1, <1>2, LenFacts DEF IInv, Types
<1>4. /\ f \in Frames /\ s \in States /\ f.limit \in Int /\ f.cost \in Nat /\ top[s] = n
      /\ f.limit = kept[s] /\ f.limit + f.cost = bounds.level
  <2>1. top[s] = n /\ f.limit = kept[s] /\ f.limit + f.cost = bounds.level
    BY <1>1, <1>3 DEF Wired, Falling, Limits
  <2> QED
    BY <1>1, <1>3, <2>1, StackFacts
<1>5. /\ top' = tops /\ stack' = Front(stack) /\ f.alt = Len(problem.action[s]) + 1
  BY DEF table_check_completion, TopFrame, NActions
<1>6. /\ tops \in [States -> Int] /\ tops[s] < 0
      /\ \A t \in States : t /= s => tops[t] = top[t] \/ (top[t] < 0 /\ tops[t] = COMPLETE)
  BY <1>1, <1>3, CompletedIs
<1>7. /\ DOMAIN stack' = 1 .. n - 1 /\ \A i \in 1 .. n - 1 : stack'[i] = stack[i] /\ i \in 1 .. n
  <2>1. Front(stack) = SubSeq(stack, 1, n - 1)
    BY DEF Front
  <2> QED
    BY <1>1, <1>3, <1>5, <2>1, PrefixFacts
<1> HIDE DEF tops, f
<1>8. \A x \in States : /\ (top[x] /= NULL => tops[x] /= NULL)
                        /\ (tops[x] /= NULL => top[x] /= NULL)
                        /\ (x /= s /\ tops[x] < 0 => top[x] < 0)
  <2> SUFFICES ASSUME NEW x \in States
               PROVE  /\ (top[x] /= NULL => tops[x] /= NULL)
                      /\ (tops[x] /= NULL => top[x] /= NULL)
                      /\ (x /= s /\ tops[x] < 0 => top[x] < 0)
    OBVIOUS
  <2>1. CASE x = s
    BY <1>3, <1>4, <1>6, <2>1 DEF NULL
  <2>2. CASE x /= s
    BY <1>1, <1>6, <2>2 DEF NULL, COMPLETE
  <2> QED
    BY <2>1, <2>2
<1>10. Limits'
  <2>1. \A i \in DOMAIN stack' : stack'[i].limit + stack'[i].cost = bounds.level
    BY <1>1, <1>7 DEF Limits
  <2> QED
    BY <1>1, <1>2, <2>1 DEF Limits
<1>11. ~Begins /\ ~Begins'
  BY <1>2 DEF Begins
<1>12. Spent'
  BY <1>1, <1>2, <1>5, <1>8, <1>11 DEF Spent
<1>13. Started'
  BY <1>1, <1>2, <1>5, <1>8, <1>11 DEF Started
<1>14. Tracks'
  BY <1>1, CompletionTracks
<1>15. Tried(problem, f, top, kept, explored, FALSE, call)
  <2>1. Tried(problem, stack[n], top, kept, explored, pc = "call" /\ n = Len(stack), call)
    <3>1. AllTried /\ n \in DOMAIN stack
      BY <1>1, <1>3, FailingFacts
    <3> QED
      BY ONLY <3>1, Zenon DEF AllTried
  <2> QED
    BY <1>2, <2>1 DEF f, Tried
<1>16. /\ Len(problem.action[s]) \in Nat /\ DOMAIN problem.action[s] = 1 .. Len(problem.action[s])
       /\ problem.heuristic[s] \in Nat
  BY <1>1, <1>4 DEF ActionsOk
<1>17. f.alt > 0 /\ 1 .. f.alt - 1 = 1 .. Len(problem.action[s])
  BY <1>5, <1>16
<1>19. AllExplored'
  <2> SUFFICES ASSUME NEW x \in States, tops[x] < 0, kept[x] = bounds.level - Gap(x)
               PROVE  Explored(problem, x, kept[x], Gap(x), explored)
    BY <1>2, <1>5 DEF AllExplored
  <2>1. CASE x /= s
    BY <1>1, <1>8, <2>1 DEF AllExplored
  <2>2. CASE x = s
    <3>1. Gap(s) = f.cost
      BY <1>1, <1>4, <2>2
    <3>2. kept[s] < problem.heuristic[s] => explored <= Gap(s) + problem.heuristic[s]
      BY <1>4, <1>15, <1>17, <3>1 DEF Tried
    <3>3. kept[s] >= problem.heuristic[s] =>
            \A k \in 1 .. Len(problem.action[s]) :
              Noted(problem, explored, s, kept[s], Gap(s), k)
      BY <1>4, <1>15, <1>17, <3>1 DEF Tried
    <3> QED
      BY <1>16, <2>2, <3>2, <3>3 DEF Explored
  <2> QED
    BY <2>1, <2>2
<1> QED
  BY <1>10, <1>12, <1>13, <1>14, <1>19 DEF Failing

-----------------------------------------------------------------------------
(* A search that has failed.                                                *)

\* Where no entry is under evaluation, what was called has failed.
LEMMA AllHaveFailed ==
  ASSUME Failingly, pc = "back"
  PROVE  /\ \A x \in States : top[x] /= NULL => top[x] < 0
         /\ top[Begin] < 0 /\ kept[Begin] = bounds.level
         /\ stack = << >>
<1>1. /\ IInv /\ Shapes /\ Wired(stack, top, root, elms)
      /\ Spent /\ Started
      /\ bounds.level \in Int
      /\ top \in [States -> Int] /\ kept \in [States -> Int]
      /\ DOMAIN stack = 1 .. Len(stack)
      /\ Begin \in States /\ Gap(Begin) = 0
  BY FailingFacts
<1>2. stack = << >>
  BY <1>1 DEF Shapes
<1>3. ASSUME NEW x \in States, top[x] /= NULL PROVE top[x] < 0
  <2>1. ~(top[x] > 0)
    BY <1>1, <1>2 DEF Wired
  <2> QED
    BY <1>1, <1>3, <2>1 DEF NULL
<1>4. top[Begin] /= NULL /\ kept[Begin] >= bounds.level
  BY <1>1 DEF Started, Begins
<1>5. kept[Begin] <= bounds.level
  BY <1>1, <1>4 DEF Spent
<1> QED
  BY <1>1, <1>2, <1>3, <1>4, <1>5

\* There is no plan of the cost that the search was given.
LEMMA NoCheapPlan ==
  ASSUME Failingly, pc = "back"
  PROVE  bounds.level < Least
<1>1. /\ IInv /\ Shapes /\ Wired(stack, top, root, elms) /\ Spent /\ AllFailed
      /\ bounds.level \in Int /\ Begin \in States
  BY FailingFacts
<1>2. top[Begin] < 0 /\ kept[Begin] = bounds.level /\ stack = << >>
  BY AllHaveFailed
<1>3. query.limit \in Int /\ query.limit <= Unlimited /\ Unlimited \in Nat
  BY <1>1, ProblemFacts
<1>4. \A x \in States : top[x] /= NULL => kept[x] <= Unlimited
  <2> SUFFICES ASSUME NEW x \in States, top[x] /= NULL
               PROVE  kept[x] <= Unlimited
    OBVIOUS
  <2>1. kept[x] <= query.limit /\ kept[x] \in Int
    BY <1>1 DEF Spent, Shapes
  <2> QED
    BY <1>3, <2>1
<1>5. Cheapest(Begin) > kept[Begin]
  BY <1>1, <1>2, <1>4, FailedIsTooDear
<1> QED
  BY <1>1, <1>2, <1>5, ProblemFacts DEF Least
\* The depth which the search has noted does not go beyond the cheapest plan.
LEMMA NoBoundSkipped ==
  ASSUME Failingly, pc = "back", query.how \in {"down", "bin"}
  PROVE  NextBound \in Int /\ bounds.level < NextBound /\ NextBound <= Least
<1> DEFINE B == {x \in States : /\ top[x] < 0 /\ kept[x] = bounds.level - Gap(x)
                                /\ Cheapest(x) <= Unlimited}
           p == problem
<1>1. /\ IInv /\ Shapes /\ Limits /\ Spent /\ AllFailed /\ AllExplored /\ ActionsOk(p)
      /\ bounds.level \in Int /\ explored \in Int
      /\ top \in [States -> Int] /\ kept \in [States -> Int]
      /\ Begin \in States /\ Gap(Begin) = 0
  BY FailingFacts
<1>2. /\ \A x \in States : top[x] /= NULL => top[x] < 0
      /\ top[Begin] < 0 /\ kept[Begin] = bounds.level
  BY AllHaveFailed
<1>3. /\ Least \in Nat /\ Unlimited \in Nat
      /\ \A x \in States : /\ Cheapest(x) \in Nat /\ p.heuristic[x] \in Nat
                           /\ p.heuristic[x] <= Cheapest(x)
                           /\ p.cheapest[x] = Cheapest(x)
  BY <1>1, ProblemFacts DEF Cheapest
<1>4. IsCheapest(p)
  BY <1>1, BoundsAssumption DEF Shapes
<1>5. bounds.level < Least
  BY NoCheapPlan
<1>6. CASE explored = Unlimited
  BY <1>1, <1>3, <1>5, <1>6 DEF NextBound
<1>7. CASE explored /= Unlimited
  <2>1. NextBound = explored /\ bounds.level < explored
    BY <1>1, <1>7 DEF NextBound, Limits
  <2> SUFFICES ASSUME explored > Least
               PROVE  FALSE
    BY <1>1, <1>3, <2>1
  <2>2. Least <= Unlimited
    BY <1>1, <1>3 DEF Shapes
  <2>3. Begin \in B /\ B \in SUBSET States
    BY <1>1, <1>2, <1>3, <2>2 DEF Least
  <2>4. PICK s \in B :
          \/ s \in p.final
          \/ \E k \in DOMAIN p.action[s] :
               /\ p.action[s][k].to \notin B
               /\ p.cheapest[s] = p.action[s][k].cost + p.cheapest[p.action[s][k].to]
    <3>1. \A x \in B : p.cheapest[x] <= Unlimited
      BY <1>3
    <3> HIDE DEF B
    <3> QED
      BY <1>4, <2>3, <3>1 DEF IsCheapest
  <2>5. /\ s \in States /\ top[s] < 0 /\ kept[s] = bounds.level - Gap(s)
        /\ Cheapest(s) <= Unlimited
        /\ Failed(p, s, top, kept) /\ Explored(p, s, kept[s], Gap(s), explored)
    BY <1>1, <2>4 DEF AllFailed, AllExplored
  <2>6. s \notin p.final
    BY <2>5 DEF Failed
  <2>7. PICK k \in DOMAIN p.action[s] :
          /\ p.action[s][k].to \notin B
          /\ p.cheapest[s] = p.action[s][k].cost + p.cheapest[p.action[s][k].to]
    BY <2>4, <2>6
  <2> DEFINE t == p.action[s][k].to
             c == p.action[s][k].cost
  <2>8. t \in States /\ c \in Nat /\ t \notin B /\ p.cheapest[s] = c + p.cheapest[t]
    BY <1>1, <2>5, <2>7 DEF ActionsOk
  <2>9. /\ Cheapest(s) = c + Cheapest(t) /\ Cheapest(t) \in Nat /\ Cheapest(s) \in Nat
        /\ Gap(s) = Least - Cheapest(s) /\ Gap(t) = Least - Cheapest(t)
        /\ p.heuristic[s] \in Nat /\ p.heuristic[s] <= Cheapest(s) /\ kept[s] \in Int
    BY <1>1, <1>3, <2>5, <2>8 DEF Gap
  <2>10. kept[s] < p.heuristic[s] => explored <= Gap(s) + p.heuristic[s]
    BY <2>5 DEF Explored
  <2>11. kept[s] >= p.heuristic[s]
    BY <1>1, <1>3, <2>9, <2>10
  <2>12. kept[s] < c => explored <= Gap(s) + c
    BY <2>5, <2>11 DEF Explored, Noted
  <2>13. kept[s] >= c => top[t] /= NULL /\ kept[t] >= kept[s] - c
    BY <2>5, <2>11 DEF Failed, Answered
  <2> HIDE DEF t, c
  <2>14. kept[s] >= c
    BY <1>1, <1>3, <2>8, <2>9, <2>12
  <2>15. top[t] < 0 /\ kept[t] >= bounds.level - Gap(t) /\ kept[t] \in Int
    BY <1>1, <1>2, <1>3, <2>5, <2>8, <2>9, <2>13, <2>14
  <2>16. kept[t] <= bounds.level - Gap(t)
    BY <1>1, <2>8, <2>15 DEF Spent, NULL
  <2>17. kept[t] = bounds.level - Gap(t) /\ Cheapest(t) <= Unlimited
    BY <1>1, <1>3, <2>5, <2>8, <2>9, <2>15, <2>16
  <2> QED
    BY <2>8, <2>15, <2>17
<1> QED
  BY <1>6, <1>7

-----------------------------------------------------------------------------
(* The drivers.                                                             *)

\* What a driver knows.
Asked == Under /\ Driver

\* What a driver's step leaves alone, with the types.
LEMMA DriverFacts ==
  ASSUME Asked
  PROVE  /\ IInv /\ Shapes /\ Paths /\ Outcomes /\ pc = "back" /\ stack = << >> /\ stack' = << >>
         /\ UNCHANGED <<top, kept, root, elms, problem, query, queries, solved>>
         /\ Begin' = Begin /\ Least' = Least /\ queries = 1
         /\ \A s : Gap(s)' = Gap(s) /\ Cheapest(s)' = Cheapest(s)
         /\ Begin \in States /\ Least \in Nat /\ Gap(Begin) = 0 /\ query.limit \in Int
         /\ query.how \in {"plan", "down", "bin", "bb"}
         /\ best[Begin] \in Int /\ found \in Int /\ best \in [States -> Int]
         /\ bounds \in [level : Int, low : Int, high : Int] /\ lower[Begin] \in Int
<1>1. IInv /\ Shapes /\ Paths /\ Outcomes /\ pc = "back" /\ queries = 1
  BY DEF Asked, Under, Driver, Searching
<1>2. UNCHANGED <<top, kept, root, elms, problem, query, queries, solved, stack>>
  BY DEF Asked, Driver, tableVars
<1>3. stack = << >>
  BY <1>1 DEF Shapes
<1>4. /\ Begin' = Begin /\ Least' = Least
      /\ \A s : Gap(s)' = Gap(s) /\ Cheapest(s)' = Cheapest(s)
  BY <1>2 DEF Begin, Least, Gap, Cheapest
<1>5. /\ Begin \in States /\ Least \in Nat /\ query.limit \in Int
      /\ query.how \in {"plan", "down", "bin", "bb"}
  BY <1>1, ProblemFacts
<1>6. Gap(Begin) = 0
  BY <1>5 DEF Gap, Least
<1>7. /\ best[Begin] \in Int /\ found \in Int /\ best \in [States -> Int]
      /\ bounds \in [level : Int, low : Int, high : Int] /\ lower[Begin] \in Int
  BY <1>1, <1>5 DEF IInv, Types
<1> QED
  BY <1>1, <1>2, <1>3, <1>4, <1>5, <1>6, <1>7

\* call_picat_plan_aux notes the plan that was found.
LEMMA NotedFacts ==
  ASSUME Asked, best' = NotedBest
  PROVE  /\ best'[Begin] = IF found = NoPlan THEN best[Begin] ELSE found
         /\ best'[Begin] \in Int
BY DriverFacts DEF NotedBest, Begin

\* A search that is called again starts on its way.
LEMMA AgainPaths ==
  ASSUME Asked, NEW limit \in Int, SearchAgain(limit), limit <= query.limit,
         Within(best'[Begin]), bounds'.high <= query.limit
  PROVE  Paths' /\ pc' = "call" /\ found' = NoPlan
<1>1. /\ call' = [state |-> Begin, limit |-> limit, cost |-> 0]
      /\ pc' = "call" /\ found' = NoPlan
  BY DEF SearchAgain, call_picat_plan, picat_plan, Begin
<1>2. /\ stack' = << >> /\ UNCHANGED query /\ Begin' = Begin /\ Least' = Least
      /\ \A s : Gap(s)' = Gap(s)
      /\ Gap(Begin) = 0 /\ query.limit \in Int
  BY DriverFacts
<1>3. OnTheWay(call')
  BY <1>1, <1>2 DEF OnTheWay
<1>4. OnTheWay(call)'
  BY <1>2, <1>3 DEF OnTheWay
<1>5. Within(found)' /\ Within(best[Begin])'
  BY <1>1, <1>2 DEF Within
<1>6. DOMAIN stack' = {}
  BY <1>2
<1> QED
  BY <1>1, <1>2, <1>4, <1>5, <1>6 DEF Paths

\* With a higher bound no entry stops the search at once.
LEMMA AgainFailing ==
  ASSUME Asked, ~solved, NEW limit \in Int, SearchAgain(limit), limit <= query.limit,
         query.how \in {"down", "bin"}, bounds.level < limit,
         bounds' = [bounds EXCEPT !.level = limit]
  PROVE  Failing'
<1> DEFINE level == bounds.level
<1>0. Failingly /\ pc = "back"
  BY DEF Asked, Failingly, Driver
<1>1. /\ stack = << >> /\ stack' = << >>
      /\ UNCHANGED <<top, kept, root, elms, problem, query, queries, solved>>
      /\ Begin' = Begin /\ Least' = Least
      /\ \A s : Gap(s)' = Gap(s)
      /\ bounds \in [level : Int, low : Int, high : Int]
  BY DriverFacts
<1>2. /\ Limits /\ Spent /\ AllFailed
      /\ top \in [States -> Int] /\ kept \in [States -> Int] /\ level \in Int
      /\ \A s \in States : Gap(s) \in Int
  BY <1>0, FailingFacts
<1>3. /\ call' = [state |-> Begin, limit |-> limit, cost |-> 0]
      /\ pc' = "call" /\ explored' = Unlimited
      /\ bounds'.level = limit /\ bounds'.high = NoPlan
  BY <1>1, <1>2 DEF SearchAgain, call_picat_plan, picat_plan, Begin, Limits
<1>4. DOMAIN stack' = {}
  BY <1>1
<1>5. \A s \in States : top[s] /= NULL =>
        kept[s] <= query.limit /\ kept[s] < limit - Gap(s) /\ kept[s] \in Int
  <2> SUFFICES ASSUME NEW s \in States, top[s] /= NULL
               PROVE  kept[s] <= query.limit /\ kept[s] < limit - Gap(s) /\ kept[s] \in Int
    OBVIOUS
  <2>1. kept[s] <= query.limit /\ kept[s] <= level - Gap(s)
    BY <1>2 DEF Spent
  <2> QED
    BY <1>2, <2>1
<1>6. Limits'
  <2>1. call'.limit + call'.cost = bounds'.level /\ 0 <= limit
    BY <1>2, <1>3 DEF Limits
  <2>2. query'.how \in {"down", "bin"} /\ query'.how \notin {"plan", "bb"}
    BY <1>1
  <2> QED
    BY <1>1, <1>3, <1>4, <2>1, <2>2 DEF Limits
<1>7. Spent'
  <2> SUFFICES ASSUME NEW s \in States, top[s] /= NULL
               PROVE  /\ kept[s] <= query.limit
                      /\ kept[s] <= limit - Gap(s)
                      /\ kept[s] < limit - Gap(s)
    BY <1>1, <1>3 DEF Spent
  <2> QED
    BY <1>2, <1>5
<1>8. Started'
  BY <1>1, <1>3 DEF Started, Begins
<1>9. Tracks'
  BY <1>1, <1>2, <1>4 DEF Tracks, Falling, AllTried, AllFailed
<1>10. AllExplored'
  <2>1. \A s \in States : ~(top[s] < 0 /\ kept[s] = limit - Gap(s))
    BY <1>2, <1>5 DEF NULL
  <2> QED
    BY <1>1, <1>3, <2>1 DEF AllExplored
<1> QED
  BY <1>6, <1>7, <1>8, <1>9, <1>10 DEF Failing

\* What a driver leaves: an answer that is right, or a search that goes on.
Answers ==
  IF pc' = "idle" THEN FirstAnswerIsRight'
  ELSE pc' = "call" /\ Paths' /\ Outcomes' /\ (~solved' => Failing')

\* The answer is that of a plan, or there is none within the limit.
LEMMA ReturnsPlan ==
  ASSUME Asked, NEW cost \in Int, Return(cost), Within(cost), cost /= NoPlan,
         query.how = "down" => cost <= Least
  PROVE  Answers
<1>1. answer' = cost /\ pc' = "idle" /\ Least <= cost /\ cost <= query.limit
  BY DEF Return, Within
<1>2. Least' = Least /\ UNCHANGED query /\ Least \in Nat /\ query.limit \in Int
  BY DriverFacts
<1>3. \/ answer' \in Least .. query.limit /\ query.how /= "down"
      \/ answer' = Least /\ Least <= query.limit
  BY <1>1, <1>2
<1> QED
  BY <1>1, <1>2, <1>3 DEF Answers, FirstAnswerIsRight, Least, Begin

\* No plan is right where the cheapest costs more than the limit, or as much with best_plan_bin,
\* which has not looked there.
LEMMA ReturnsNone ==
  ASSUME Asked, Return(NoPlan),
         Least > query.limit \/ (Least = query.limit /\ query.how = "bin")
  PROVE  Answers
<1>1. answer' = NoPlan /\ pc' = "idle"
  BY DEF Return
<1>2. Least' = Least /\ UNCHANGED query
  BY DriverFacts
<1> QED
  BY <1>1, <1>2 DEF Answers, FirstAnswerIsRight, Least, Begin

\* plan answers right: it throws one plan, or the search within the limit has failed.
LEMMA PlanAnswers ==
  ASSUME Asked, plan
  PROVE  Answers
<1>1. /\ Paths /\ Outcomes /\ pc = "back" /\ found \in Int /\ query.how = "plan" /\ Return(found)
      /\ Least \in Nat /\ query.limit \in Int
  BY DriverFacts DEF plan
<1>2. CASE solved
  <2>1. found /= NoPlan /\ Within(found)
    BY <1>1, <1>2 DEF Outcomes, Paths
  <2> QED
    BY <1>1, <2>1, ReturnsPlan
<1>3. CASE ~solved
  <2>1. Failingly
    BY <1>3 DEF Asked, Failingly
  <2>2. bounds.level < Least /\ bounds.level = query.limit
    BY <1>1, <2>1, NoCheapPlan, FailingFacts DEF Limits
  <2>3. found = NoPlan
    BY <1>1, <1>3 DEF Outcomes
  <2>4. Least > query.limit
    BY <1>1, <2>2
  <2> QED
    BY <1>1, <2>3, <2>4, ReturnsNone
<1> QED
  BY <1>2, <1>3

\* best_plan goes on with the next bound, which skips no plan, and answers right.
LEMMA DownwardAnswers ==
  ASSUME Asked, best_plan_downward
  PROVE  Answers
<1>1. /\ Paths /\ Outcomes /\ pc = "back" /\ found \in Int /\ query.how = "down"
      /\ Least \in Nat /\ query.limit \in Int /\ best[Begin] \in Int
      /\ best' = NotedBest /\ UNCHANGED <<solved, query>>
      /\ Begin' = Begin /\ Least' = Least
      /\ bounds \in [level : Int, low : Int, high : Int]
  BY DriverFacts DEF best_plan_downward
<1>2. best'[Begin] = IF found = NoPlan THEN best[Begin] ELSE found
  BY <1>1, NotedFacts
<1>3. CASE solved
  <2>1. found /= NoPlan /\ Within(found) /\ bounds.level <= Least /\ found <= bounds.level
    BY <1>1, <1>3 DEF Outcomes, Paths
  <2>2. best'[Begin] = found
    BY <1>2, <2>1
  <2>3. Return(found)
    BY <2>1, <2>2 DEF best_plan_downward, Begin
  <2>4. found <= Least
    BY <1>1, <2>1
  <2> QED
    BY <1>1, <2>1, <2>3, <2>4, ReturnsPlan
<1>4. CASE ~solved
  <2>1. found = NoPlan /\ best[Begin] = NoPlan /\ best'[Begin] = NoPlan
    BY <1>1, <1>2, <1>4 DEF Outcomes
  <2>2. Failingly
    BY <1>4 DEF Asked, Failingly
  <2>3. NextBound \in Int /\ bounds.level < NextBound /\ NextBound <= Least
    BY <1>1, <2>2, NoBoundSkipped
  <2>4. bounds.high = NoPlan /\ 0 <= bounds.level
    BY <2>2, FailingFacts DEF Limits
  <2>5. CASE NextBound > query.limit /\ Return(NoPlan)
    <3>1. Least > query.limit
      BY <1>1, <2>3, <2>5
    <3> QED
      BY <2>5, <3>1, ReturnsNone
  <2>6. CASE /\ NextBound <= query.limit /\ bounds' = [bounds EXCEPT !.level = NextBound]
             /\ SearchAgain(NextBound)
    <3> DEFINE limit == NextBound
    <3>1. limit \in Int /\ bounds.level < limit /\ limit <= Least /\ limit <= query.limit
          /\ SearchAgain(limit) /\ bounds' = [bounds EXCEPT !.level = limit]
      BY <2>3, <2>6
    <3> HIDE DEF limit
    <3>2. bounds'.high = NoPlan /\ bounds'.level = limit
      BY <1>1, <2>4, <3>1
    <3>3. Within(best'[Begin]) /\ bounds'.high <= query.limit
      <4>1. 0 <= query.limit
        BY <1>1, <2>4, <3>1
      <4> QED
        BY <1>1, <2>1, <3>2, <4>1 DEF Within, NoPlan
    <3>4. Paths' /\ pc' = "call" /\ found' = NoPlan
      BY <1>1, <3>1, <3>3, AgainPaths
    <3>5. Failing'
      BY <1>1, <1>4, <3>1, AgainFailing
    <3>6. Outcomes'
      <4>1. found' <= bounds'.level
        BY <1>1, <2>4, <3>1, <3>2, <3>4 DEF NoPlan
      <4> QED
        BY <1>1, <1>4, <2>1, <3>1, <3>2, <3>4, <4>1 DEF Outcomes
    <3> QED
      BY <3>4, <3>5, <3>6 DEF Answers
  <2>7. ~(best'[query.start] /= NoPlan)
    BY <2>1 DEF Begin
  <2> QED
    BY <2>5, <2>6, <2>7 DEF best_plan_downward
<1> QED
  BY <1>3, <1>4

\* best_plan_bb answers with what it has found last, or that there is none.
LEMMA BranchAnswers ==
  ASSUME Asked, loop_best_plan_bb
  PROVE  Answers
<1>1. /\ Paths /\ Outcomes /\ pc = "back" /\ found \in Int /\ query.how = "bb"
      /\ Least \in Nat /\ query.limit \in Int /\ best[Begin] \in Int
      /\ best' = NotedBest /\ UNCHANGED <<solved, query>>
      /\ Begin' = Begin /\ Least' = Least
  BY DriverFacts DEF loop_best_plan_bb
<1>2. best'[Begin] = IF found = NoPlan THEN best[Begin] ELSE found
  BY <1>1, NotedFacts
<1>3. CASE found /= NoPlan /\ SearchAgain(found - 1) /\ UNCHANGED bounds
  <2> DEFINE limit == found - 1
  <2>1. /\ solved /\ Within(found) /\ limit \in Int /\ limit <= query.limit /\ SearchAgain(limit)
        /\ bounds'.high <= query.limit /\ best'[Begin] = found
    BY <1>1, <1>2, <1>3 DEF Outcomes, Paths, Within
  <2> HIDE DEF limit
  <2>2. Paths' /\ pc' = "call" /\ found' = NoPlan
    BY <2>1, AgainPaths
  <2>3. Outcomes'
    BY <1>1, <1>3, <2>1, <2>2 DEF Outcomes
  <2> QED
    BY <1>1, <2>1, <2>2, <2>3 DEF Answers
<1>4. CASE found = NoPlan /\ Return(best[query.start])
  <2>1. Return(best[Begin]) /\ Within(best[Begin])
    BY <1>1, <1>4 DEF Begin, Paths
  <2>2. CASE solved
    <3>1. best[Begin] /= NoPlan
      BY <1>1, <1>4, <2>2 DEF Outcomes
    <3> QED
      BY <1>1, <2>1, <3>1, ReturnsPlan
  <2>3. CASE ~solved
    <3>1. Failingly
      BY <2>3 DEF Asked, Failingly
    <3>2. bounds.level < Least /\ bounds.level = query.limit
      BY <1>1, <3>1, NoCheapPlan, FailingFacts DEF Limits
    <3>3. best[Begin] = NoPlan
      BY <1>1, <2>3 DEF Outcomes
    <3>4. Least > query.limit
      BY <1>1, <3>2
    <3> QED
      BY <2>1, <3>3, <3>4, ReturnsNone
  <2> QED
    BY <2>2, <2>3
<1> QED
  BY <1>3, <1>4 DEF loop_best_plan_bb

\* The interval is halved: there is a plan, and it is noted.
LEMMA HalvingAnswers ==
  ASSUME Asked, query.how = "bin", best' = NotedBest, best'[Begin] /= NoPlan,
         NEW low \in Int, NEW high \in Int, high <= query.limit,
         loop_best_plan_bin(low, high)
  PROVE  Answers
<1>1. /\ Paths /\ Outcomes /\ pc = "back" /\ found \in Int
      /\ Least \in Nat /\ query.limit \in Int /\ best[Begin] \in Int
      /\ UNCHANGED <<solved, query>>
      /\ Begin' = Begin /\ Least' = Least
  BY DriverFacts
<1>2. best'[Begin] = (IF found = NoPlan THEN best[Begin] ELSE found) /\ best'[Begin] \in Int
  BY NotedFacts
<1>3. solved /\ Within(best'[Begin])
  BY <1>1, <1>2 DEF Outcomes, Paths
<1>4. CASE low <= high
  <2> DEFINE middle == low + (high - low) \div 2
  <2>1. middle \in Int /\ middle <= high
    BY <1>4
  <2>2. /\ SearchAgain(middle)
        /\ bounds' = [level |-> middle, low |-> low, high |-> high]
    BY <1>4 DEF loop_best_plan_bin
  <2> HIDE DEF middle
  <2>3. middle <= query.limit /\ bounds'.high <= query.limit
    BY <1>1, <2>1, <2>2
  <2>4. Paths' /\ pc' = "call" /\ found' = NoPlan
    BY <1>3, <2>1, <2>2, <2>3, AgainPaths
  <2>5. Outcomes'
    BY <1>1, <1>3, <2>4 DEF Outcomes
  <2> QED
    BY <1>1, <1>3, <2>4, <2>5 DEF Answers
<1>5. CASE low > high
  <2>1. Return(best'[Begin])
    BY <1>5 DEF loop_best_plan_bin, Begin
  <2> QED
    BY <1>2, <1>3, <2>1, ReturnsPlan
<1> QED
  BY <1>4, <1>5

\* best_plan_bin doubles its bound while there is no plan, and skips none.
LEMMA DoublingAnswers ==
  ASSUME Asked, loop_best_plan_downward_bin
  PROVE  Answers
<1>1. /\ Paths /\ Outcomes /\ pc = "back" /\ found \in Int /\ query.how = "bin"
      /\ Least \in Nat /\ query.limit \in Int /\ best[Begin] \in Int
      /\ best' = NotedBest /\ UNCHANGED <<solved, query>>
      /\ Begin' = Begin /\ Least' = Least
      /\ bounds \in [level : Int, low : Int, high : Int] /\ lower[Begin] \in Int
  BY DriverFacts DEF loop_best_plan_downward_bin
<1>2. best'[Begin] = (IF found = NoPlan THEN best[Begin] ELSE found) /\ best'[Begin] \in Int
  BY <1>1, NotedFacts
<1>3. CASE best'[Begin] /= NoPlan
  <2>1. loop_best_plan_bin(lower[Begin], best'[Begin] - 1)
    BY <1>3 DEF loop_best_plan_downward_bin, Begin
  <2>2. Within(best'[Begin])
    BY <1>1, <1>2 DEF Paths
  <2> DEFINE high == best'[Begin] - 1
  <2>3. high \in Int /\ high <= query.limit
    BY <1>1, <1>2, <1>3, <2>2 DEF Within
  <2> HIDE DEF high
  <2>4. loop_best_plan_bin(lower[Begin], high)
    BY <2>1 DEF high
  <2> QED
    BY <1>1, <1>3, <2>3, <2>4, HalvingAnswers
<1>4. CASE best'[Begin] = NoPlan
  <2>1. found = NoPlan /\ best[Begin] = NoPlan
    BY <1>2, <1>4
  <2>2. ~solved /\ Failingly
    BY <1>1, <2>1 DEF Outcomes, Asked, Failingly
  <2>3. NextBound \in Int /\ bounds.level < NextBound /\ NextBound <= Least
    BY <1>1, <2>2, NoBoundSkipped
  <2>4. bounds.high = NoPlan /\ 0 <= bounds.level
    BY <2>2, FailingFacts DEF Limits
  <2>5. CASE NextBound >= query.limit /\ Return(NoPlan)
    <3>1. Least > query.limit \/ Least = query.limit
      BY <1>1, <2>3, <2>5
    <3> QED
      BY <1>1, <2>5, <3>1, ReturnsNone
  <2>6. CASE /\ NextBound < query.limit
             /\ LET next == IF 2 * NextBound > query.limit THEN query.limit ELSE 2 * NextBound
                IN /\ bounds' = [bounds EXCEPT !.level = next]
                   /\ SearchAgain(next)
    <3> DEFINE b == NextBound
               limit == IF 2 * b > query.limit THEN query.limit ELSE 2 * b
    <3>1. SearchAgain(limit) /\ bounds' = [bounds EXCEPT !.level = limit]
      BY <2>6
    <3>2. b \in Int /\ bounds.level < b /\ b < query.limit
      BY <2>3, <2>6
    <3> HIDE DEF b
    <3>3. limit \in Int /\ bounds.level < limit /\ limit <= query.limit
      BY <1>1, <2>4, <3>2
    <3> HIDE DEF limit
    <3>4. bounds'.high = NoPlan /\ bounds'.level = limit
      BY <1>1, <2>4, <3>1
    <3>5. Within(best'[Begin]) /\ bounds'.high <= query.limit
      <4>1. 0 <= query.limit
        BY <1>1, <2>4, <3>2
      <4> QED
        BY <1>1, <1>4, <3>4, <4>1 DEF Within, NoPlan
    <3>6. Paths' /\ pc' = "call" /\ found' = NoPlan
      BY <3>1, <3>3, <3>5, AgainPaths
    <3>7. Failing'
      BY <1>1, <2>2, <3>1, <3>3, AgainFailing
    <3>8. Outcomes'
      BY <1>1, <1>4, <2>2, <3>4, <3>6 DEF Outcomes
    <3> QED
      BY <3>6, <3>7, <3>8 DEF Answers
  <2>7. ~(best'[query.start] /= NoPlan)
    BY <1>4 DEF Begin
  <2> QED
    BY <2>5, <2>6, <2>7 DEF loop_best_plan_downward_bin
<1> QED
  BY <1>3, <1>4

\* Halving keeps the plan that is noted.
LEMMA HalveAnswers ==
  ASSUME Asked, halve_best_plan_bin
  PROVE  Answers
<1>1. /\ Paths /\ Outcomes /\ found \in Int /\ query.how = "bin" /\ bounds.high /= NoPlan
      /\ query.limit \in Int /\ best[Begin] \in Int /\ best' = NotedBest
      /\ bounds \in [level : Int, low : Int, high : Int]
  BY DriverFacts DEF halve_best_plan_bin
<1>2. best'[Begin] = (IF found = NoPlan THEN best[Begin] ELSE found)
  BY <1>1, NotedFacts
<1>3. best'[Begin] /= NoPlan
  BY <1>1, <1>2 DEF Outcomes
<1>4. CASE found /= NoPlan /\ loop_best_plan_bin(bounds.low, found - 1)
  <2> DEFINE high == found - 1
             low == bounds.low
  <2>1. high \in Int /\ high <= query.limit /\ low \in Int /\ loop_best_plan_bin(low, high)
    BY <1>1, <1>4 DEF Paths, Within
  <2> HIDE DEF high, low
  <2> QED
    BY <1>1, <1>3, <2>1, HalvingAnswers
<1>5. CASE found = NoPlan /\ loop_best_plan_bin(bounds.level + 1, bounds.high)
  <2> DEFINE high == bounds.high
             low == bounds.level + 1
  <2>1. high \in Int /\ high <= query.limit /\ low \in Int /\ loop_best_plan_bin(low, high)
    BY <1>1, <1>5 DEF Paths
  <2> HIDE DEF high, low
  <2> QED
    BY <1>1, <1>3, <2>1, HalvingAnswers
<1> QED
  BY <1>4, <1>5 DEF halve_best_plan_bin

\* Every driver leaves a right answer or a search that goes on.
LEMMA DriverAnswers ==
  ASSUME Asked
  PROVE  Answers
BY PlanAnswers, DownwardAnswers, BranchAnswers, DoublingAnswers, HalveAnswers DEF Asked, Driver

-----------------------------------------------------------------------------
(* A query, a new table, and the theorem.                                   *)

\* Every step of the search that throws no plan keeps what failures rest on.
LEMMA SearchFailing ==
  ASSUME Under, Search, ~solved'
  PROVE  Failing'
<1>1. ~ThrowPlan
  BY DEF ThrowPlan
<1>2. ~solved
  BY <1>1 DEF Search, table_allocate, RunClause, table_check_completion
<1>3. Failingly
  BY <1>2 DEF Failingly
<1> QED
  BY <1>1, <1>3, OpensFailing, FailAgainFailing, RunClauseFailing, CompletionFailing
  DEF Search, table_allocate

\* The first query over a table that no query has used.
LEMMA QueryBegins ==
  ASSUME IInv, Shapes, Unused, queries = 0, NEW q \in Queries, Query(q)
  PROVE  Paths' /\ Outcomes' /\ Failing'
<1> DEFINE limit == FirstLimit(q)
<1>1. /\ q.start \in States /\ q.limit \in Int /\ 0 <= q.limit
      /\ q.how \in {"plan", "down", "bin", "bb"}
  BY BoundsAssumption
<1>2. /\ limit \in Int /\ 0 <= limit /\ limit <= q.limit
      /\ q.how \in {"plan", "bb"} => limit = q.limit
      /\ q.how \in {"down", "bin"} => limit = 0
  BY <1>1 DEF FirstLimit
<1>3. /\ call' = [state |-> q.start, limit |-> limit, cost |-> 0]
      /\ pc' = "call" /\ found' = NoPlan
      /\ q.how \in {"down", "bin"} => explored' = Unlimited
  BY DEF Query, picat_plan, call_picat_plan, FirstLimit
<1>4. /\ query' = q /\ bounds' = [level |-> limit, low |-> 0, high |-> NoPlan]
      /\ UNCHANGED <<top, kept, root, elms, stack, problem, best, solved>>
  BY DEF Query, tableVars
<1>5. stack' = << >> /\ DOMAIN stack' = {} /\ solved' = FALSE
  BY <1>4 DEF Shapes, Unused
<1>6. Begin' = q.start /\ best'[q.start] = NoPlan /\ \A s \in States : top'[s] = NULL
  BY <1>1, <1>4 DEF Begin, Unused
<1>7. Least' \in Nat /\ (Gap(q.start))' = 0
  <2>1. Least' = problem.cheapest[q.start]
    BY <1>4 DEF Least, Cheapest, Begin
  <2>2. problem \in Problem
    BY DEF IInv, Types
  <2>3. problem.cheapest[q.start] \in Nat
    BY <1>1, <2>2 DEF Problem
  <2>4. Gap(q.start)' = Least' - problem.cheapest[q.start]
    BY <1>4 DEF Gap, Cheapest
  <2> QED
    BY <2>1, <2>3, <2>4
<1> HIDE DEF limit
<1>8. OnTheWay(call)'
  <2>1. call'.state = q.start /\ call'.cost = 0 /\ call'.limit = limit /\ query'.limit = q.limit
    BY <1>3, <1>4
  <2>2. Gap(call.state)' = 0
    BY <1>4, <1>7, <2>1 DEF Gap, Cheapest, Least, Begin
  <2> QED
    BY <1>1, <1>2, <2>1, <2>2 DEF OnTheWay
<1>9. Paths'
  <2>1. bounds'.high = NoPlan /\ bounds'.high <= query'.limit
    BY <1>1, <1>4 DEF NoPlan
  <2>2. Within(found)' /\ Within(best[Begin])'
    BY <1>3, <1>6 DEF Within
  <2> QED
    BY <1>5, <1>8, <2>1, <2>2 DEF Paths
<1>10. Outcomes'
  <2>1. /\ found' = NoPlan /\ (best[Begin])' = NoPlan /\ bounds'.high = NoPlan
        /\ bounds'.level = limit /\ query'.how = q.how
    BY <1>3, <1>4, <1>6
  <2>2. q.how = "down" => limit <= Least' /\ found' <= limit
    BY <1>2, <1>7, <2>1 DEF NoPlan
  <2> QED
    BY <1>5, <2>1, <2>2 DEF Outcomes
<1>11. Limits'
  <2>1. call'.limit + call'.cost = limit /\ bounds'.level = limit /\ bounds'.high = NoPlan
        /\ query'.how = q.how /\ query'.limit = q.limit
    BY <1>2, <1>3, <1>4
  <2> QED
    BY <1>2, <1>3, <1>5, <2>1 DEF Limits
<1>12. Spent' /\ Tracks' /\ AllExplored'
  <2>1. \A s \in States : ~(top'[s] < 0) /\ ~(top'[s] /= NULL)
    BY <1>6 DEF NULL
  <2> QED
    BY <1>5, <2>1 DEF Spent, Tracks, Falling, AllTried, AllFailed, AllExplored
<1>13. Started'
  <2>1. Begins' /\ call'.state = Begin' /\ call'.limit = bounds'.level
    BY <1>3, <1>4, <1>5, <1>6 DEF Begins
  <2> QED
    BY <2>1 DEF Started
<1> QED
  BY <1>9, <1>10, <1>11, <1>12, <1>13 DEF Failing

\* A new table satisfies the invariant.
LEMMA FirstInit == Init => FirstInv
<1> SUFFICES ASSUME Init
             PROVE  FirstInv
  OBVIOUS
<1>1. IInv /\ Shapes
  BY InitEstablishes, ShapesInit
<1>2. Unused
  BY DEF Init, FreshTables, Unused
<1>3. Wired(stack, top, root, elms)
  BY FreshWired DEF Init, FreshTables
<1>4. ~Searching /\ FirstAnswerIsRight
  BY DEF Init, Searching, FirstAnswerIsRight
<1> QED
  BY <1>1, <1>2, <1>3, <1>4 DEF FirstInv

\* Every step keeps it.
LEMMA FirstKept == FirstInv /\ [Next]_vars => FirstInv'
<1> SUFFICES ASSUME FirstInv, [Next]_vars
             PROVE  FirstInv'
  OBVIOUS
<1>1. IInv' /\ Shapes'
  BY NextKeeps, ShapesKept DEF FirstInv
<1>2. ~solved' => Wired(stack', top', root', elms')
  BY WiredKept DEF FirstInv
<1>3. IInv /\ Shapes /\ queries \in Nat
  BY DEF FirstInv, Shapes
<1> DEFINE Rest == /\ queries' = 0 => Unused'
                   /\ Searching' => Paths' /\ Outcomes'
                   /\ Searching' /\ ~solved' => Failing'
                   /\ FirstAnswerIsRight'
<1> SUFFICES Rest
  BY <1>1, <1>2 DEF FirstInv
<1>4. CASE Search
  <2>1. pc \in {"call", "run"} /\ pc' \in {"call", "run", "back"} /\ UNCHANGED queries
    BY <1>4 DEF Search, table_allocate, FirstCall, Reopen, FailAgain, Push, GoOn, ThrowPlan,
       RunClause, CheckHeuristic, TryAction, table_check_completion, driverVars
  <2>2. queries /= 0 /\ FirstAnswerIsRight'
    BY <2>1 DEF FirstInv, Unused, FirstAnswerIsRight
  <2>3. ASSUME Searching' PROVE Paths' /\ Outcomes' /\ (~solved' => Failing')
    <3>1. Under
      BY <2>1, <2>3 DEF FirstInv, Searching, Under
    <3> QED
      BY <1>4, <3>1, SearchPaths, SearchOutcomes, SearchFailing
  <2> QED
    BY <2>1, <2>2, <2>3
<1>5. CASE Driver
  <2>1. pc = "back" /\ UNCHANGED queries
    BY <1>5 DEF Driver
  <2>2. queries /= 0
    BY <2>1 DEF FirstInv, Unused
  <2>3. CASE queries = 1
    <3>1. Asked
      BY <1>5, <2>1, <2>3 DEF FirstInv, Searching, Under, Asked
    <3>2. Answers
      BY <3>1, DriverAnswers
    <3>3. pc' /= "idle" => FirstAnswerIsRight'
      BY DEF FirstAnswerIsRight
    <3> QED
      BY <2>1, <2>2, <3>2, <3>3 DEF Answers, Searching
  <2>4. CASE queries /= 1
    BY <2>1, <2>2, <2>4 DEF Searching, FirstAnswerIsRight
  <2> QED
    BY <2>3, <2>4
<1>6. ASSUME NEW q \in Queries, Query(q) PROVE Rest
  <2>1. queries' = queries + 1 /\ pc' = "call" /\ queries' /= 0
    BY <1>3, <1>6 DEF Query, picat_plan, call_picat_plan
  <2>2. FirstAnswerIsRight'
    BY <2>1 DEF FirstAnswerIsRight
  <2>3. CASE queries = 0
    <3>1. Paths' /\ Outcomes' /\ Failing'
      BY <1>3, <1>6, <2>3, QueryBegins DEF FirstInv
    <3> QED
      BY <2>1, <2>2, <3>1
  <2>4. CASE queries /= 0
    <3>1. ~Searching'
      BY <1>3, <2>1, <2>4 DEF Searching
    <3> QED
      BY <2>1, <2>2, <3>1
  <2> QED
    BY <2>3, <2>4
<1>7. CASE c_INITIALIZE_TABLE
  <2>1. queries' = 0 /\ pc' = "idle" /\ solved' = FALSE
    BY <1>7 DEF c_INITIALIZE_TABLE
  <2>2. Unused'
    BY <1>7, <2>1 DEF c_INITIALIZE_TABLE, Unused
  <2> QED
    BY <2>1, <2>2 DEF Searching, FirstAnswerIsRight
<1>8. CASE UNCHANGED vars
  <2>1. (queries = 0 => Unused) => (queries = 0 => Unused)'
    BY <1>8 DEF vars, Unused
  <2>2. (Searching => Paths /\ Outcomes) => (Searching => Paths /\ Outcomes)'
    BY <1>8 DEF vars, Searching, Paths, Outcomes, OnTheWay, Within, Gap, Least, Begin, Cheapest
  <2>3. (Searching /\ ~solved => Failing) => (Searching /\ ~solved => Failing)'
    BY <1>8 DEF vars, Searching, Failing, Tracks, Falling, Limits, Spent, Started, AllTried, AllFailed,
       AllExplored, Begins, Gap, Least, Begin, Cheapest
  <2>4. FirstAnswerIsRight => FirstAnswerIsRight'
    BY <1>8 DEF vars, FirstAnswerIsRight, Cheapest
  <2> QED
    BY <2>1, <2>2, <2>3, <2>4 DEF FirstInv
<1> QED
  BY <1>4, <1>5, <1>6, <1>7, <1>8 DEF Next

\* FirstAnswerIsRight: the first query over a table gets the right answer from each of the four
\* drivers (planner.pi), for all problems whose cheapest costs and heuristic are what they say, and
\* all limits.
THEOREM FirstAnswersAreRight == Spec => []FirstAnswerIsRight
<1>1. FirstInv => FirstAnswerIsRight
  BY DEF FirstInv
<1> QED
  BY <1>1, FirstInit, FirstKept, PTL DEF Spec

-----------------------------------------------------------------------------
(* Roots, before a plan is thrown.                                          *)

\* No entries that are set aside follow each other's roots round for ever.
NoCircle(tops, roots) ==
  \A B \in SUBSET States :
    B /= {} /\ (\A x \in B : tops[x] = TEMP_COMPLETE) => \E x \in B : roots[x] \notin B

\* A failed call changes the root of its caller only, which is under evaluation.
LEMMA PropagateCircle ==
  ASSUME NEW tops, NEW s, NEW caller \in Nat, root \in [States -> States],
         NoCircle(tops, root), PropagateRoot(s, caller, tops),
         caller /= 0 => stack[caller].state \in States /\ tops[stack[caller].state] > 0
  PROVE  NoCircle(tops, root')
<1> SUFFICES ASSUME NEW B \in SUBSET States, B /= {}, \A x \in B : tops[x] = TEMP_COMPLETE
             PROVE  \E x \in B : root'[x] \notin B
  BY DEF NoCircle
<1>1. PICK x \in B : root[x] \notin B
  BY DEF NoCircle
<1>2. \/ root' = root
      \/ caller /= 0 /\ \E r : root' = [root EXCEPT ![stack[caller].state] = r]
  BY DEF PropagateRoot
<1>3. caller /= 0 => x /= stack[caller].state
  BY <1>1 DEF TEMP_COMPLETE
<1>4. root'[x] = root[x]
  BY <1>1, <1>2, <1>3
<1> QED
  BY <1>1, <1>4

\* Wired, and every walk over set-aside entries ends.
Rooted == Wired(stack, top, root, elms) /\ NoCircle(top, root)

\* Every step before a plan is thrown keeps it.
LEMMA RootedKept ==
  ASSUME IInv, Shapes, ~solved => Rooted, [Next]_vars, ~solved'
  PROVE  Rooted'
<1>1. Wired(stack, top, root, elms)'
  BY WiredKept DEF Rooted
<1> SUFFICES NoCircle(top', root')
  BY <1>1 DEF Rooted
<1>2. ASSUME ~solved, table_allocate PROVE NoCircle(top', root')
  <2>0. Wired(stack, top, root, elms) /\ NoCircle(top, root) /\ root \in [States -> States]
        /\ top \in [States -> Int] /\ call.state \in States /\ Len(stack) \in Nat
    BY <1>2 DEF Rooted, Wired, IInv, Types
  <2>1. CASE FirstCall \/ Reopen
    <3>1. /\ top' = [top EXCEPT ![call.state] = Len(stack) + 1]
          /\ root' = root \/ root' = [root EXCEPT ![call.state] = call.state]
      BY <2>1 DEF FirstCall, Reopen, Push
    <3> SUFFICES ASSUME NEW B \in SUBSET States, B /= {}, \A x \in B : top'[x] = TEMP_COMPLETE
                 PROVE  \E x \in B : root'[x] \notin B
      BY DEF NoCircle
    <3>2. \A x \in B : x /= call.state /\ top[x] = TEMP_COMPLETE /\ root'[x] = root[x]
      BY <2>0, <3>1 DEF TEMP_COMPLETE
    <3> QED
      BY <2>0, <3>2 DEF NoCircle
  <2>2. CASE FailAgain
    <3>1. PropagateRoot(call.state, Len(stack), top) /\ UNCHANGED top
      BY <2>2 DEF FailAgain
    <3>2. Len(stack) /= 0 =>
            stack[Len(stack)].state \in States /\ top[stack[Len(stack)].state] > 0
      <4> SUFFICES ASSUME Len(stack) /= 0
                   PROVE  stack[Len(stack)].state \in States /\ top[stack[Len(stack)].state] > 0
        OBVIOUS
      <4>1. Len(stack) \in 1 .. Len(stack)
        BY <2>0
      <4> DEFINE n == Len(stack)
      <4>2. top[stack[n].state] = n /\ stack[n].state \in States
        BY <2>0, <4>1, FrameFacts
      <4> QED
        BY <2>0, <4>2
    <3> QED
      BY <2>0, <3>1, <3>2, PropagateCircle
  <2> QED
    BY <1>2, <2>1, <2>2 DEF table_allocate
<1>3. ASSUME ~solved, table_check_completion PROVE NoCircle(top', root')
  <2> DEFINE n == Len(stack)
             s == stack[n].state
             c == n - 1
  <2>0. Wired(stack, top, root, elms) /\ NoCircle(top, root) /\ root \in [States -> States]
        /\ top \in [States -> Int] /\ stack \in Seq(Frames) /\ stack /= << >>
    BY <1>3 DEF Rooted, Wired, table_check_completion, IInv, Types
  <2>1. n \in Nat \ {0} /\ n \in 1 .. n /\ c \in Nat
    BY <2>0
  <2>2. s \in States /\ top[s] = n /\ top[root[s]] \in 1 .. n
    <3>1. s \in States /\ top[s] = n
      BY <2>0, <2>1, FrameFacts
    <3> QED
      BY <2>0, <2>1, <3>1 DEF Wired
  <2>3. top' = Completed(s) /\ PropagateRoot(s, c, top')
    BY <1>3 DEF table_check_completion, TopFrame
  <2>4. /\ top' \in [States -> Int] /\ top'[s] < 0
        /\ \A t \in States : t /= s => top'[t] = top[t] \/ (top[t] < 0 /\ top'[t] = COMPLETE)
    BY <2>0, <2>1, <2>3, CompletedIs
  <2>5. NoCircle(top', root)
    <3> SUFFICES ASSUME NEW B \in SUBSET States, B /= {}, \A x \in B : top'[x] = TEMP_COMPLETE
                 PROVE  \E x \in B : root[x] \notin B
      BY DEF NoCircle
    <3>1. CASE s \in B
      <4>1. top[root[s]] /= n
        <5> SUFFICES ASSUME top[root[s]] = n
                     PROVE  FALSE
          OBVIOUS
        <5>1. s \in Members(s)
          BY <2>2, ClosureHasFirst DEF Members
        <5>2. top'[s] = COMPLETE
          BY <2>2, <2>3, <5>1 DEF Completed
        <5> QED
          BY <3>1, <5>2 DEF COMPLETE, TEMP_COMPLETE
      <4>2. root[s] \in States /\ root[s] /= s /\ top[root[s]] > 0
        BY <2>0, <2>2, <4>1
      <4>3. top'[root[s]] = top[root[s]]
        BY <2>0, <2>4, <4>2
      <4>4. root[s] \notin B
        BY <4>2, <4>3 DEF TEMP_COMPLETE
      <4> QED
        BY <3>1, <4>4
    <3>2. CASE s \notin B
      <4>1. \A x \in B : top[x] = TEMP_COMPLETE
        BY <2>4, <3>2 DEF COMPLETE, TEMP_COMPLETE
      <4> QED
        BY <2>0, <4>1 DEF NoCircle
    <3> QED
      BY <3>1, <3>2
  <2>6. c /= 0 => stack[c].state \in States /\ top'[stack[c].state] > 0
    <3> SUFFICES ASSUME c /= 0
                 PROVE  stack[c].state \in States /\ top'[stack[c].state] > 0
      OBVIOUS
    <3>0. n = Len(stack) /\ c = n - 1
      OBVIOUS
    <3>1. c \in 1 .. Len(stack) /\ c /= n /\ c > 0
      <4> HIDE DEF n, c
      <4> QED
        BY <2>1, <3>0
    <3>2. top[stack[c].state] = c /\ stack[c].state \in States
      BY <2>0, <3>1, FrameFacts
    <3>3. top'[stack[c].state] = top[stack[c].state]
      BY <2>1, <2>2, <2>4, <3>1, <3>2
    <3> QED
      BY <3>1, <3>2, <3>3
  <2> HIDE DEF c, s
  <2> QED
    BY <2>0, <2>1, <2>3, <2>5, <2>6, PropagateCircle
<1>4. ASSUME ~solved, RunClause PROVE NoCircle(top', root')
  BY <1>4 DEF RunClause, tableVars, Rooted
<1>5. CASE Driver
  BY <1>5 DEF Driver, tableVars, Rooted
<1>6. ASSUME NEW q \in Queries, Query(q) PROVE NoCircle(top', root')
  BY <1>6 DEF Query, tableVars, Rooted
<1>7. CASE c_INITIALIZE_TABLE
  BY <1>7 DEF c_INITIALIZE_TABLE, NoCircle, NULL, TEMP_COMPLETE
<1>8. CASE UNCHANGED vars
  BY <1>8 DEF vars, Rooted
<1>9. ~ThrowPlan
  BY DEF ThrowPlan
<1>10. table_allocate \/ RunClause \/ table_check_completion => ~solved
  BY DEF table_allocate, RunClause, table_check_completion
<1> QED
  BY <1>2, <1>3, <1>4, <1>5, <1>6, <1>7, <1>8, <1>9, <1>10 DEF Next, Search

\* The inductive invariant of the next two theorems.
RootedInv == IInv /\ Shapes /\ (~solved => Rooted)

\* A new table satisfies it.
LEMMA RootedInit == Init => RootedInv
<1> SUFFICES ASSUME Init
             PROVE  RootedInv
  OBVIOUS
<1>1. FirstInv
  BY FirstInit
<1>2. NoCircle(top, root)
  BY DEF Init, FreshTables, NoCircle, NULL, TEMP_COMPLETE
<1> QED
  BY <1>1, <1>2 DEF FirstInv, RootedInv, Rooted

\* Every step keeps it.
LEMMA RootedNext == RootedInv /\ [Next]_vars => RootedInv'
BY NextKeeps, ShapesKept, RootedKept DEF RootedInv

\* Where set-aside entries do not go round, the walk to the live root ends.
LEMMA CircleEnds ==
  ASSUME Rooted, IInv
  PROVE  RootWalkEnds
<1> SUFFICES ASSUME NEW s \in States, LiveRoots(s, top) = {}
             PROVE  FALSE
  BY DEF RootWalkEnds
<1> DEFINE Above == [r \in States |-> IF top[r] = TEMP_COMPLETE THEN {root[r]} ELSE {}]
           B == Closure(root[s], Above)
<1>1. root \in [States -> States] /\ root[s] \in States /\ NoCircle(top, root)
  BY DEF Rooted, IInv, Types
<1>2. LiveRoots(s, top) = {t \in B : top[t] /= TEMP_COMPLETE}
  BY DEF LiveRoots
<1>3. \A t \in States : Above[t] = (IF top[t] = TEMP_COMPLETE THEN {root[t]} ELSE {})
                        /\ Above[t] \subseteq States
  BY <1>1
<1> HIDE DEF Above
<1>4. root[s] \in B /\ B \in SUBSET States
  BY <1>1, ClosureHasFirst
<1>5. \A t \in B : Above[t] \subseteq B
  BY <1>1, <1>3, <1>4, ClosureClosed
<1> HIDE DEF B
<1>6. \A t \in B : top[t] = TEMP_COMPLETE
  BY <1>2
<1>7. \A t \in B : root[t] \in B
  BY <1>3, <1>4, <1>5, <1>6
<1> QED
  BY <1>1, <1>4, <1>6, <1>7 DEF NoCircle

\* RootWalkEnds: until a plan is thrown, the loop of CALL_PROPAGATE_SCC_ROOT (toam.h), which has no
\* bound, comes to an entry that is not set aside.
THEOREM RootWalksEnd == Spec => []RootWalkEnds
<1>1. RootedInv => RootWalkEnds
  BY CircleEnds DEF RootedInv, RootWalkEnds
<1> QED
  BY <1>1, RootedInit, RootedNext, PTL DEF Spec

\* FramesAreKnown: every frame on the stack belongs to an entry, which the entry points to.
THEOREM FramesStayKnown == Spec => []FramesAreKnown
<1>1. RootedInv => FramesAreKnown
  BY DEF RootedInv, Rooted, Wired, FramesAreKnown
<1> QED
  BY <1>1, RootedInit, RootedNext, PTL DEF Spec

-----------------------------------------------------------------------------
(* Entries, frames and drivers keep to their ranges, query after query.     *)

\* A call's limit and cost add up to no more than Unlimited, and a limit of -1 has cost nothing.
Affordable(c) ==
  -1 <= c.limit /\ c.limit + c.cost <= Unlimited /\ (c.limit >= 0 \/ c.cost = 0)

\* The costs that are known, or that there is none.
Costs == NoPlan .. Unlimited

\* The ranges of what is known of plans.
KnownRanges ==
  /\ found \in Costs /\ answer \in Costs /\ best \in [States -> Costs]

\* Those of the drivers' loops.
LoopRanges ==
  /\ lower \in [States -> Nat] /\ explored \in Nat
  /\ bounds.level \in 0 .. Unlimited /\ bounds.low \in Nat /\ bounds.high <= Unlimited

\* Those of the table.
TableRanges ==
  /\ top \in [States -> Nat \cup {COMPLETE, TEMP_COMPLETE}]
  /\ kept \in [States -> -1 .. Unlimited]

\* The ranges of calls, frames, entries and drivers.
Ranges ==
  /\ Affordable(call) /\ \A i \in DOMAIN stack : Affordable(stack[i])
  /\ TableRanges /\ KnownRanges /\ LoopRanges

\* A call that can be afforded has a limit within Unlimited.
LEMMA AffordableLimit ==
  ASSUME NEW c \in [state : States, limit : Int, cost : Nat], Affordable(c)
  PROVE  c.limit \in -1 .. Unlimited /\ c.cost \in 0 .. Unlimited
BY BoundsAssumption DEF Affordable

\* A new table is within the ranges.
LEMMA RangesInit == Init => Ranges
<1> SUFFICES ASSUME Init
             PROVE  Ranges
  OBVIOUS
<1>1. Affordable(call) /\ \A i \in DOMAIN stack : Affordable(stack[i])
  BY BoundsAssumption DEF Init, Affordable
<1>2. TableRanges
  BY BoundsAssumption DEF Init, FreshTables, TableRanges, NULL
<1>3. KnownRanges
  BY BoundsAssumption DEF Init, FreshTables, KnownRanges, Costs, NoPlan
<1>4. LoopRanges
  BY BoundsAssumption DEF Init, FreshTables, LoopRanges, NoPlan
<1> QED
  BY <1>1, <1>2, <1>3, <1>4 DEF Ranges

\* The driver's state stays in range when a step of the search leaves it alone.
LEMMA SearchKeepsLoops ==
  ASSUME Ranges, UNCHANGED driverVars, explored' \in Nat
  PROVE  LoopRanges' /\ (found' \in Costs => KnownRanges')
BY DEF Ranges, LoopRanges, KnownRanges, driverVars, Costs

\* A call that gets a frame leaves its limit in the entry.
LEMMA OpensRanges ==
  ASSUME IInv, Shapes, Ranges, Opens, UNCHANGED <<call, explored, found, driverVars>>
  PROVE  Ranges'
<1> DEFINE f == [state |-> call.state, limit |-> call.limit, cost |-> call.cost, alt |-> 0]
<1>1. call \in [state : States, limit : Int, cost : Nat] /\ stack \in Seq(Frames) /\ f \in Frames
  BY DEF IInv, Types, Frames
<1>2. stack' = Append(stack, f)
  BY DEF Opens, Push
<1>3. Affordable(call) /\ Affordable(f)
  BY DEF Ranges, Affordable
<1>4. call.limit \in -1 .. Unlimited /\ call.state \in States
  BY <1>1, <1>3, AffordableLimit
<1> HIDE DEF f
<1>5. \A i \in DOMAIN stack' : stack'[i] = f \/ (i \in DOMAIN stack /\ stack'[i] = stack[i])
  BY <1>1, <1>2
<1>6. \A i \in DOMAIN stack' : Affordable(stack'[i])
  BY <1>3, <1>5 DEF Ranges
<1>7. (\A i \in DOMAIN stack : Affordable(stack[i]))' /\ Affordable(call)'
  BY <1>3, <1>6 DEF Affordable
<1>8. TableRanges'
  <2>1. kept' = [kept EXCEPT ![call.state] = call.limit]
        /\ top' = [top EXCEPT ![call.state] = Len(stack) + 1]
    BY DEF Opens, Push
  <2>2. Len(stack) + 1 \in Nat
    BY <1>1
  <2>3. kept' \in [States -> -1 .. Unlimited]
    BY <1>4, <2>1 DEF Ranges, TableRanges
  <2>4. top' \in [States -> Nat \cup {COMPLETE, TEMP_COMPLETE}]
    BY <2>1, <2>2 DEF Ranges, TableRanges
  <2> QED
    BY <2>3, <2>4 DEF TableRanges
<1>9. LoopRanges' /\ KnownRanges'
  <2>1. explored' \in Nat /\ found' \in Costs
    BY DEF Ranges, LoopRanges, KnownRanges
  <2> QED
    BY <2>1, SearchKeepsLoops
<1> QED
  BY <1>7, <1>8, <1>9 DEF Ranges

\* A thrown plan costs no more than the frame could afford.
LEMMA ThrowRanges ==
  ASSUME IInv, Shapes, Ranges, ThrowPlan
  PROVE  Ranges'
<1>1. stack /= << >> /\ stack' = << >> /\ found' = TopFrame.cost
      /\ UNCHANGED <<kept, call, explored, driverVars>> /\ top' = RESET_SUBGOAL_AR
  BY DEF ThrowPlan, IInv, Types
<1>2. Len(stack) \in 1 .. Len(stack) /\ Len(stack) \in DOMAIN stack
  BY <1>1, LenFacts
<1>3. Affordable(TopFrame) /\ TopFrame.cost \in Nat /\ TopFrame.limit \in Int
  BY <1>2, StackFacts DEF Ranges, TopFrame
<1>4. found' \in Costs
  BY <1>1, <1>3, BoundsAssumption DEF Affordable, Costs, NoPlan
<1>5. explored' \in Nat
  BY <1>1 DEF Ranges, LoopRanges
<1>6. LoopRanges' /\ KnownRanges'
  BY <1>1, <1>4, <1>5, SearchKeepsLoops
<1>7. top' \in [States -> Nat \cup {COMPLETE, TEMP_COMPLETE}]
  <2>1. \A s \in States : top'[s] \in {NULL, top[s]}
    BY <1>1 DEF RESET_SUBGOAL_AR, ResetMembers
  <2>2. top' = [s \in States |-> top'[s]]
    BY <1>1 DEF RESET_SUBGOAL_AR
  <2>3. \A s \in States : top[s] \in Nat \cup {COMPLETE, TEMP_COMPLETE}
    BY DEF Ranges, TableRanges
  <2>4. \A s \in States : top'[s] \in Nat \cup {COMPLETE, TEMP_COMPLETE}
    BY <2>1, <2>3 DEF NULL
  <2> QED
    BY <2>2, <2>4
<1>8. TableRanges'
  BY <1>1, <1>7 DEF Ranges, TableRanges
<1>9. (\A i \in DOMAIN stack : Affordable(stack[i]))'
  BY <1>1
<1>10. Affordable(call)'
  BY <1>1 DEF Ranges, Affordable
<1> QED
  BY <1>6, <1>8, <1>9, <1>10 DEF Ranges

\* The top frame calls with what is left, and notes depths that are costs.
LEMMA RunRanges ==
  ASSUME IInv, Shapes, Ranges, RunClause
  PROVE  Ranges'
<1> DEFINE n == Len(stack)
           s == TopFrame.state
<1>1. /\ stack /= << >> /\ UNCHANGED <<found, tableVars, driverVars>>
      /\ \/ SeesTooFar \/ StartsActions
         \/ \E k \in Nat : SkipsAction(k) \/ TakesAction(k)
  BY RunIs
<1>2. n \in 1 .. n /\ n \in DOMAIN stack
  BY <1>1, LenFacts
<1>3. /\ Affordable(TopFrame) /\ TopFrame.cost \in Nat /\ TopFrame.limit \in Int /\ s \in States
  BY <1>2, StackFacts DEF Ranges, TopFrame
<1>4. /\ problem.heuristic[s] \in Nat
      /\ \A k \in 1 .. NActions : ActionOf(s, k).cost \in Nat
  BY <1>3, ProblemFacts DEF NActions
<1>5. \A a : RunsOn(a) => \A i \in DOMAIN stack' : Affordable(stack'[i])
  <2> SUFFICES ASSUME NEW a, RunsOn(a), NEW i \in DOMAIN stack'
               PROVE  Affordable(stack'[i])
    OBVIOUS
  <2>1. CASE i = n
    BY <1>3, <2>1 DEF RunsOn, Affordable
  <2>2. CASE i /= n
    <3>1. i \in DOMAIN stack /\ stack'[i] = stack[i]
      BY <2>2 DEF RunsOn
    <3> QED
      BY <3>1 DEF Ranges
  <2> QED
    BY <2>1, <2>2
<1>6. \A i \in DOMAIN stack' : Affordable(stack'[i])
  BY <1>1, <1>5 DEF SeesTooFar, StartsActions, SkipsAction, TakesAction
<1>7. (\A i \in DOMAIN stack : Affordable(stack[i]))'
  BY <1>6 DEF Affordable
<1>8. ASSUME NEW d \in Nat, UpdateExploredDepth(d) PROVE explored' \in Nat
  BY <1>8 DEF UpdateExploredDepth, Ranges, LoopRanges
<1>9. explored' \in Nat
  <2>1. CASE SeesTooFar
    <3>1. TopFrame.cost + problem.heuristic[s] \in Nat
      BY <1>3, <1>4
    <3> QED
      BY <1>8, <2>1, <3>1 DEF SeesTooFar
  <2>2. ASSUME NEW k \in Nat, SkipsAction(k) PROVE explored' \in Nat
    <3>1. ActionOf(s, k).cost \in Nat
      BY <1>4, <2>2 DEF SkipsAction
    <3>2. TopFrame.cost + ActionOf(s, k).cost \in Nat
      BY <1>3, <3>1
    <3> QED
      BY <1>8, <2>2, <3>2 DEF SkipsAction
  <2>3. StartsActions \/ (\E k \in Nat : TakesAction(k)) => explored' = explored
    BY DEF StartsActions, TakesAction
  <2> QED
    BY <1>1, <2>1, <2>2, <2>3 DEF Ranges, LoopRanges
<1>10. Affordable(call)'
  <2>1. ASSUME NEW k \in Nat, TakesAction(k) PROVE Affordable(call')
    <3> DEFINE c == ActionOf(s, k).cost
    <3>1. c \in Nat
      BY <1>4, <2>1 DEF TakesAction
    <3>2. /\ call'.limit = TopFrame.limit - c /\ call'.cost = TopFrame.cost + c
          /\ TopFrame.limit >= c
      BY <2>1 DEF TakesAction
    <3> HIDE DEF c
    <3> QED
      BY <1>3, <3>1, <3>2, BoundsAssumption DEF Affordable
  <2>2. UNCHANGED call => Affordable(call')
    BY DEF Ranges
  <2>3. Affordable(call')
    BY <1>1, <2>1, <2>2 DEF SeesTooFar, StartsActions, SkipsAction
  <2> QED
    BY <2>3 DEF Affordable
<1>11. found' \in Costs
  BY <1>1 DEF Ranges, KnownRanges
<1>12. LoopRanges' /\ KnownRanges'
  BY <1>1, <1>9, <1>11, SearchKeepsLoops
<1>13. TableRanges'
  BY <1>1 DEF Ranges, TableRanges, tableVars
<1> QED
  BY <1>7, <1>10, <1>12, <1>13 DEF Ranges

\* A failed call leaves the frames and the entries' limits.
LEMMA FailRanges ==
  ASSUME IInv, Shapes, Ranges, UNCHANGED <<kept, call, explored, found, driverVars>>,
         stack' = stack \/ (stack /= << >> /\ stack' = Front(stack)),
         top' \in [States -> Nat \cup {COMPLETE, TEMP_COMPLETE}]
  PROVE  Ranges'
<1>1. \A i \in DOMAIN stack' : i \in DOMAIN stack /\ stack'[i] = stack[i]
  <2>1. CASE stack' = stack
    BY <2>1
  <2>2. CASE stack /= << >> /\ stack' = Front(stack)
    <3> DEFINE n == Len(stack)
    <3>1. stack' = SubSeq(stack, 1, n - 1)
      BY <2>2 DEF Front
    <3>2. n \in Nat \ {0} /\ DOMAIN stack = 1 .. n /\ stack \in Seq(Frames)
      BY <2>2, LenFacts DEF IInv, Types
    <3>3. n - 1 \in 0 .. n
      BY <3>2
    <3>4. /\ stack' \in Seq(Frames) /\ Len(stack') = n - 1
          /\ \A i \in 1 .. n - 1 : stack'[i] = stack[i]
      BY <3>1, <3>2, <3>3, PrefixFacts
    <3>5. DOMAIN stack' = 1 .. n - 1
      BY <3>4
    <3> QED
      BY <3>2, <3>4, <3>5
  <2> QED
    BY <2>1, <2>2
<1>2. \A i \in DOMAIN stack' : Affordable(stack'[i])
  BY <1>1 DEF Ranges
<1>3. (\A i \in DOMAIN stack : Affordable(stack[i]))'
  BY <1>2 DEF Affordable
<1>4. Affordable(call)'
  BY DEF Ranges, Affordable
<1>5. explored' \in Nat /\ found' \in Costs
  BY DEF Ranges, LoopRanges, KnownRanges
<1>6. LoopRanges' /\ KnownRanges'
  BY <1>5, SearchKeepsLoops
<1>7. TableRanges'
  BY DEF Ranges, TableRanges
<1> QED
  BY <1>3, <1>4, <1>6, <1>7 DEF Ranges

\* Completion sets entries to the two values below 0.
LEMMA CompletionRanges ==
  ASSUME IInv, Shapes, Ranges, table_check_completion
  PROVE  Ranges'
<1>1. stack /= << >> /\ stack' = Front(stack)
      /\ UNCHANGED <<kept, call, explored, found, driverVars>>
      /\ top' = Completed(TopFrame.state)
  BY DEF table_check_completion, IInv, Types
<1>2. top' \in [States -> Nat \cup {COMPLETE, TEMP_COMPLETE}]
  BY <1>1 DEF Completed, Ranges, TableRanges
<1> QED
  BY <1>1, <1>2, FailRanges

\* Every step of the search keeps the ranges.
LEMMA SearchRanges ==
  ASSUME IInv, Shapes, Ranges, Search
  PROVE  Ranges'
<1>1. CASE table_allocate
  <2>1. UNCHANGED <<call, explored, found, driverVars>>
    BY <1>1 DEF table_allocate
  <2>2. CASE FirstCall \/ Reopen
    BY <2>1, <2>2, OpensFacts, OpensRanges
  <2>3. CASE FailAgain
    <3>1. UNCHANGED <<top, kept, stack>>
      BY <2>3 DEF FailAgain
    <3>2. top' \in [States -> Nat \cup {COMPLETE, TEMP_COMPLETE}]
      BY <3>1 DEF Ranges, TableRanges
    <3> QED
      BY <2>1, <3>1, <3>2, FailRanges
  <2> QED
    BY <1>1, <2>2, <2>3 DEF table_allocate
<1> QED
  BY <1>1, ThrowRanges, RunRanges, CompletionRanges DEF Search

\* What a driver's step has to keep.
DriverRanges == Affordable(call) /\ KnownRanges /\ LoopRanges

\* The driver's step leaves the rest.
LEMMA DriverOnly ==
  ASSUME IInv, Shapes, Ranges, Driver, DriverRanges'
  PROVE  Ranges'
<1>1. UNCHANGED <<top, kept>> /\ stack = << >> /\ stack' = << >>
  BY DEF Driver, tableVars, Shapes
<1>2. TableRanges'
  BY <1>1 DEF Ranges, TableRanges
<1>3. (\A i \in DOMAIN stack : Affordable(stack[i]))'
  BY <1>1
<1> QED
  BY <1>2, <1>3 DEF Ranges, DriverRanges

\* What a driver starts from.
LEMMA DriverStarts ==
  ASSUME IInv, Shapes, Ranges
  PROVE  /\ Begin \in States /\ query.limit \in 0 .. Unlimited /\ Unlimited \in Nat
         /\ found \in Costs /\ best \in [States -> Costs] /\ best[Begin] \in Costs
         /\ NotedBest \in [States -> Costs] /\ NotedBest[Begin] \in Costs
         /\ NextBound \in Nat /\ lower \in [States -> Nat] /\ lower[Begin] \in Nat
<1>1. Begin \in States /\ query.limit \in 0 .. Unlimited /\ Unlimited \in Nat
  BY ProblemFacts
<1>2. found \in Costs /\ best \in [States -> Costs] /\ best[Begin] \in Costs
  BY <1>1 DEF Ranges, KnownRanges
<1>3. NotedBest \in [States -> Costs] /\ NotedBest[Begin] \in Costs
  BY <1>1, <1>2 DEF NotedBest, Begin
<1>4. NextBound \in Nat
  BY DEF NextBound, Ranges, LoopRanges
<1>5. lower \in [States -> Nat] /\ lower[Begin] \in Nat
  BY <1>1 DEF Ranges, LoopRanges
<1> QED
  BY <1>1, <1>2, <1>3, <1>4, <1>5

\* A search that is called again with a limit in range.
LEMMA AgainRanges ==
  ASSUME IInv, Shapes, Ranges, NEW limit \in -1 .. Unlimited, SearchAgain(limit),
         best' \in [States -> Costs], lower' \in [States -> Nat],
         bounds'.level \in 0 .. Unlimited, bounds'.low \in Nat, bounds'.high <= Unlimited
  PROVE  DriverRanges'
<1>1. /\ call' = [state |-> Begin, limit |-> limit, cost |-> 0] /\ found' = NoPlan
      /\ explored' = Unlimited /\ answer' = answer
  BY DEF SearchAgain, call_picat_plan, picat_plan, Begin
<1>2. Affordable(call)'
  BY <1>1, BoundsAssumption DEF Affordable
<1>3. KnownRanges'
  BY <1>1, BoundsAssumption DEF Ranges, KnownRanges, Costs, NoPlan
<1>4. LoopRanges'
  BY <1>1, BoundsAssumption DEF LoopRanges
<1> QED
  BY <1>2, <1>3, <1>4 DEF DriverRanges

\* A driver that returns a cost in range.
LEMMA ReturnRanges ==
  ASSUME Ranges, NEW cost \in Costs, Return(cost),
         best' \in [States -> Costs], lower' \in [States -> Nat]
  PROVE  DriverRanges'
<1>1. answer' = cost /\ UNCHANGED <<bounds, call, explored, found>>
  BY DEF Return
<1>2. Affordable(call)'
  BY <1>1 DEF Ranges, Affordable
<1>3. KnownRanges'
  BY <1>1 DEF Ranges, KnownRanges
<1>4. LoopRanges'
  BY <1>1 DEF Ranges, LoopRanges
<1> QED
  BY <1>2, <1>3, <1>4 DEF DriverRanges

\* The middle of an interval in range is in range.
LEMMA BinRanges ==
  ASSUME IInv, Shapes, Ranges, NEW low \in Nat, NEW high \in Int, high <= Unlimited,
         loop_best_plan_bin(low, high), best' \in [States -> Costs], lower' \in [States -> Nat]
  PROVE  DriverRanges'
<1>1. Begin \in States /\ Unlimited \in Nat
  BY DriverStarts
<1>2. CASE low <= high
  <2> DEFINE middle == low + (high - low) \div 2
  <2>1. middle \in 0 .. Unlimited
    BY <1>1, <1>2
  <2>2. /\ SearchAgain(middle)
        /\ bounds' = [level |-> middle, low |-> low, high |-> high]
    BY <1>2 DEF loop_best_plan_bin
  <2> HIDE DEF middle
  <2>3. bounds'.level = middle /\ bounds'.low = low /\ bounds'.high = high
    BY <2>2
  <2>4. middle \in -1 .. Unlimited
    BY <1>1, <2>1
  <2> QED
    BY <2>1, <2>2, <2>3, <2>4, AgainRanges
<1>3. CASE low > high
  <2>1. Return(best'[Begin]) /\ best'[Begin] \in Costs
    BY <1>1, <1>3 DEF loop_best_plan_bin, Begin
  <2> QED
    BY <2>1, ReturnRanges
<1> QED
  BY <1>2, <1>3

\* best_plan goes on with a bound within the query's limit.
LEMMA DownwardRanges ==
  ASSUME IInv, Shapes, Ranges, best_plan_downward
  PROVE  DriverRanges'
<1>1. best' \in [States -> Costs] /\ lower' \in [States -> Nat] /\ best'[Begin] \in Costs
  BY DriverStarts DEF best_plan_downward
<1>2. Unlimited \in Nat /\ query.limit \in 0 .. Unlimited /\ NextBound \in Nat
  BY DriverStarts
<1>3. CASE Return(best'[query.start]) \/ Return(NoPlan)
  <2>1. NoPlan \in Costs
    BY <1>2 DEF NoPlan, Costs
  <2> QED
    BY <1>1, <1>3, <2>1, ReturnRanges DEF Begin
<1>4. CASE /\ NextBound <= query.limit /\ bounds' = [bounds EXCEPT !.level = NextBound]
           /\ SearchAgain(NextBound)
  <2> DEFINE limit == NextBound
  <2>1. limit \in 0 .. Unlimited /\ SearchAgain(limit)
        /\ bounds' = [bounds EXCEPT !.level = limit]
    BY <1>2, <1>4
  <2> HIDE DEF limit
  <2>2. limit \in -1 .. Unlimited
    BY <1>2, <2>1
  <2>3. bounds'.level = limit /\ bounds'.low = bounds.low /\ bounds'.high = bounds.high
    BY <2>1 DEF IInv, Types
  <2>4. bounds'.low \in Nat /\ bounds'.high <= Unlimited
    BY <2>3 DEF Ranges, LoopRanges
  <2> QED
    BY <1>1, <2>1, <2>2, <2>3, <2>4, AgainRanges
<1> QED
  BY <1>3, <1>4 DEF best_plan_downward

\* best_plan_bb asks for less than it has found, -1 when that costs nothing.
LEMMA BranchRanges ==
  ASSUME IInv, Shapes, Ranges, loop_best_plan_bb
  PROVE  DriverRanges'
<1>1. best' \in [States -> Costs] /\ lower' \in [States -> Nat] /\ best[Begin] \in Costs
  BY DriverStarts DEF loop_best_plan_bb
<1>2. CASE Return(best[query.start])
  BY <1>1, <1>2, ReturnRanges DEF Begin
<1>3. CASE found /= NoPlan /\ SearchAgain(found - 1) /\ UNCHANGED bounds
  <2> DEFINE limit == found - 1
  <2>1. found \in Costs /\ Unlimited \in Nat
    BY DriverStarts
  <2>2. limit \in -1 .. Unlimited
    BY <1>3, <2>1 DEF Costs, NoPlan
  <2>3. SearchAgain(limit)
    BY <1>3
  <2> HIDE DEF limit
  <2>4. bounds'.level \in 0 .. Unlimited /\ bounds'.low \in Nat /\ bounds'.high <= Unlimited
    BY <1>3 DEF Ranges, LoopRanges
  <2> QED
    BY <1>1, <2>2, <2>3, <2>4, AgainRanges
<1> QED
  BY <1>2, <1>3 DEF loop_best_plan_bb

\* best_plan_bin doubles a bound that stays within the query's limit.
LEMMA DoublingRanges ==
  ASSUME IInv, Shapes, Ranges, loop_best_plan_downward_bin
  PROVE  DriverRanges'
<1>1. best' \in [States -> Costs] /\ best'[Begin] \in Costs
  BY DriverStarts DEF loop_best_plan_downward_bin
<1>2. /\ Unlimited \in Nat /\ query.limit \in 0 .. Unlimited /\ NextBound \in Nat
      /\ lower \in [States -> Nat] /\ lower[Begin] \in Nat /\ Begin \in States
  BY DriverStarts
<1>3. CASE /\ best'[query.start] /= NoPlan /\ UNCHANGED lower
           /\ loop_best_plan_bin(lower[query.start], best'[query.start] - 1)
  <2> DEFINE low == lower[Begin]
             high == best'[Begin] - 1
  <2>1. low \in Nat /\ high \in Int /\ high <= Unlimited
    BY <1>1, <1>2, BoundsAssumption DEF Costs, NoPlan
  <2>2. loop_best_plan_bin(low, high)
    BY <1>3 DEF Begin
  <2> HIDE DEF low, high
  <2>3. lower' \in [States -> Nat]
    BY <1>2, <1>3
  <2> QED
    BY <1>1, <2>1, <2>2, <2>3, BinRanges
<1>4. ASSUME lower' = [lower EXCEPT ![query.start] = NextBound]
      PROVE  lower' \in [States -> Nat]
  BY <1>2, <1>4 DEF Begin
<1>5. CASE lower' = [lower EXCEPT ![query.start] = NextBound] /\ Return(NoPlan)
  <2>1. NoPlan \in Costs
    BY <1>2 DEF NoPlan, Costs
  <2> QED
    BY <1>1, <1>4, <1>5, <2>1, ReturnRanges
<1>6. ASSUME NEW next \in 0 .. Unlimited, SearchAgain(next),
             lower' = [lower EXCEPT ![query.start] = NextBound],
             bounds' = [bounds EXCEPT !.level = next]
      PROVE  DriverRanges'
  <2>1. next \in -1 .. Unlimited
    BY <1>2, <1>6
  <2>2. bounds'.level = next /\ bounds'.low = bounds.low /\ bounds'.high = bounds.high
    BY <1>6 DEF IInv, Types
  <2>3. bounds'.low \in Nat /\ bounds'.high <= Unlimited
    BY <2>2 DEF Ranges, LoopRanges
  <2> QED
    BY <1>1, <1>4, <1>6, <2>1, <2>2, <2>3, AgainRanges
<1>7. (IF 2 * NextBound > query.limit THEN query.limit ELSE 2 * NextBound) \in 0 .. Unlimited
  <2> DEFINE b == NextBound
  <2>1. b \in Nat
    BY <1>2
  <2> HIDE DEF b
  <2>2. (IF 2 * b > query.limit THEN query.limit ELSE 2 * b) \in 0 .. Unlimited
    BY <1>2, <2>1
  <2> QED
    BY <2>2 DEF b
<1> QED
  BY <1>3, <1>5, <1>6, <1>7 DEF loop_best_plan_downward_bin

\* Halving takes an interval to one within it.
LEMMA HalveRanges ==
  ASSUME IInv, Shapes, Ranges, halve_best_plan_bin
  PROVE  DriverRanges'
<1>1. best' \in [States -> Costs] /\ lower' \in [States -> Nat]
  BY DriverStarts DEF halve_best_plan_bin
<1>2. /\ bounds.low \in Nat /\ bounds.level + 1 \in Nat
      /\ bounds.high \in Int /\ bounds.high <= Unlimited
      /\ found - 1 \in Int /\ found - 1 <= Unlimited
  BY BoundsAssumption DEF Ranges, LoopRanges, KnownRanges, Costs, NoPlan, IInv, Types
<1> QED
  BY <1>1, <1>2, BinRanges DEF halve_best_plan_bin

\* Every driver's step keeps the ranges.
LEMMA DriverKeepsRanges ==
  ASSUME IInv, Shapes, Ranges, Driver
  PROVE  Ranges'
<1>1. CASE plan
  <2>1. best' = best /\ lower' = lower /\ Return(found)
    BY <1>1 DEF plan
  <2>2. DriverRanges'
    BY <2>1, DriverStarts, ReturnRanges
  <2> QED
    BY <2>2, DriverOnly
<1> QED
  BY <1>1, DownwardRanges, BranchRanges, DoublingRanges, HalveRanges, DriverOnly DEF Driver

\* So does a new query.
LEMMA QueryRanges ==
  ASSUME IInv, Shapes, Ranges, NEW q \in Queries, Query(q)
  PROVE  Ranges'
<1>1. q.start \in States /\ q.limit \in 0 .. Unlimited /\ FirstLimit(q) \in 0 .. Unlimited
  BY BoundsAssumption DEF FirstLimit
<1>2. /\ stack' = << >> /\ UNCHANGED <<top, kept, best, lower, answer>>
  BY DEF Query, tableVars, Shapes
<1>3. PICK l \in 0 .. Unlimited : picat_plan(q.start, l)
  BY <1>1 DEF Query, call_picat_plan
<1>4. /\ explored' \in {explored, Unlimited}
      /\ bounds' = [level |-> FirstLimit(q), low |-> 0, high |-> NoPlan]
  BY DEF Query, call_picat_plan
<1>5. Affordable(call)'
  BY <1>3, BoundsAssumption DEF picat_plan, Affordable
<1>6. KnownRanges'
  BY <1>2, <1>3, BoundsAssumption DEF picat_plan, Ranges, KnownRanges, Costs, NoPlan
<1>7. LoopRanges'
  BY <1>1, <1>2, <1>4, BoundsAssumption DEF Ranges, LoopRanges, NoPlan
<1>8. TableRanges'
  BY <1>2 DEF Ranges, TableRanges
<1>9. (\A i \in DOMAIN stack : Affordable(stack[i]))'
  BY <1>2
<1> QED
  BY <1>5, <1>6, <1>7, <1>8, <1>9 DEF Ranges

\* And a cleared table.
LEMMA InitializeRanges ==
  ASSUME IInv, Shapes, Ranges, c_INITIALIZE_TABLE
  PROVE  Ranges'
<1>1. UNCHANGED <<stack, call, explored, bounds, found, answer>>
  BY DEF c_INITIALIZE_TABLE
<1>2. TableRanges'
  BY BoundsAssumption DEF c_INITIALIZE_TABLE, TableRanges, NULL
<1>3. KnownRanges'
  BY <1>1, BoundsAssumption DEF c_INITIALIZE_TABLE, Ranges, KnownRanges, Costs, NoPlan
<1>4. LoopRanges'
  BY <1>1 DEF c_INITIALIZE_TABLE, Ranges, LoopRanges
<1> QED
  BY <1>1, <1>2, <1>3, <1>4 DEF Ranges, Affordable

\* Every step keeps the ranges.
LEMMA RangesKept == RootedInv /\ Ranges /\ [Next]_vars => Ranges'
<1> SUFFICES ASSUME RootedInv, Ranges, [Next]_vars
             PROVE  Ranges'
  OBVIOUS
<1>1. IInv /\ Shapes
  BY DEF RootedInv
<1>2. CASE UNCHANGED vars
  BY <1>2 DEF vars, Ranges, TableRanges, KnownRanges, LoopRanges, Affordable
<1> QED
  BY <1>1, <1>2, SearchRanges, DriverKeepsRanges, QueryRanges, InitializeRanges DEF Next

\* WellFormed: whatever the problem, the queries and the limits, entries, frames and drivers keep
\* to their types, a limit is never below -1, frames and entries point to each other, and until a
\* plan is thrown every walk to a root ends.
THEOREM PlannerIsWellFormed == Spec => []WellFormed
<1>1. Init => RootedInv /\ Ranges
  BY RootedInit, RangesInit
<1>2. RootedInv /\ Ranges /\ [Next]_vars => (RootedInv /\ Ranges)'
  BY RootedNext, RangesKept
<1>3. RootedInv /\ Ranges => WellFormed
  <2> SUFFICES ASSUME RootedInv, Ranges
               PROVE  WellFormed
    OBVIOUS
  <2>1. IInv /\ Shapes /\ RootWalkEnds /\ FramesAreKnown
    BY CircleEnds DEF RootedInv, RootWalkEnds, Rooted, Wired, FramesAreKnown
  <2>2. call \in [state : States, limit : -1 .. Unlimited, cost : Nat]
    <3>1. call \in [state : States, limit : Int, cost : Nat]
      BY <2>1 DEF IInv, Types
    <3>2. call.limit \in -1 .. Unlimited
      BY <3>1, AffordableLimit DEF Ranges
    <3> QED
      BY <3>1, <3>2
  <2>3. /\ best \in [States -> NoPlan .. Unlimited]
        /\ {found, answer} \subseteq NoPlan .. Unlimited
    BY DEF Ranges, KnownRanges, Costs
  <2>4. /\ top \in [States -> Nat \cup {COMPLETE, TEMP_COMPLETE}]
        /\ kept \in [States -> -1 .. Unlimited]
    BY DEF Ranges, TableRanges
  <2>5. /\ root \in [States -> States] /\ elms \in [States -> Seq(States)]
        /\ stack \in Seq(Frames) /\ pc \in {"idle", "call", "run", "back"}
        /\ query \in Queries /\ FramesAreLive
    BY <2>1 DEF IInv, Types, Shapes
  <2> QED
    BY <2>1, <2>2, <2>3, <2>4, <2>5 DEF WellFormed
<1> QED
  BY <1>1, <1>2, <1>3, PTL DEF Spec
-----------------------------------------------------------------------------
(* What has failed stays out of reach, query after query.                   *)

\* The inductive invariant: until a plan is thrown every entry without a frame has failed.
TruthInv == RootedInv /\ Ranges /\ (~solved => Tracks)

\* Every step keeps it: a query and a driver begin with no frame, and a cleared table has no entry.
LEMMA TruthKept == TruthInv /\ [Next]_vars => TruthInv'
<1> SUFFICES ASSUME TruthInv, [Next]_vars
             PROVE  TruthInv'
  OBVIOUS
<1>1. RootedInv /\ Ranges /\ IInv /\ Shapes /\ (~solved => Tracks) /\ (~solved => Rooted)
  BY DEF TruthInv, RootedInv
<1>2. RootedInv' /\ Ranges'
  BY <1>1, RootedNext, RangesKept
<1> SUFFICES ASSUME ~solved'
             PROVE  Tracks'
  BY <1>2 DEF TruthInv
<1>3. CASE Search
  <2>1. ~solved
    BY <1>3 DEF Search, table_allocate, ThrowPlan, RunClause, table_check_completion
  <2>2. Tracking
    BY <1>1, <2>1 DEF Tracking, Rooted
  <2> QED
    BY <1>3, <2>2, SearchTracks
<1>4. CASE UNCHANGED vars
  BY <1>1, <1>4 DEF vars, Tracks, Falling, AllTried, AllFailed
<1>5. CASE Driver \/ \E q \in Queries : Query(q)
  <2>1. /\ UNCHANGED <<top, kept, problem, stack, solved>> /\ stack = << >>
    BY <1>1, <1>5 DEF Driver, Query, tableVars, Shapes
  <2>2. DOMAIN stack' = {}
    BY <2>1
  <2> QED
    BY <1>1, <2>1, <2>2 DEF Tracks, Falling, AllTried, AllFailed
<1>6. CASE c_INITIALIZE_TABLE
  <2>1. DOMAIN stack' = {} /\ \A s \in States : ~(top'[s] < 0)
    BY <1>1, <1>6 DEF c_INITIALIZE_TABLE, Shapes, NULL
  <2> QED
    BY <2>1 DEF Tracks, Falling, AllTried, AllFailed
<1> QED
  BY <1>3, <1>4, <1>5, <1>6 DEF Next

\* FailureIsTrue: between two queries, as long as no plan was thrown through the table, no entry
\* that has failed has a plan within what it was called with, for all problems and queries.
THEOREM FailuresAreTrue == Spec => []FailureIsTrue
<1>1. Init => TruthInv
  <2> SUFFICES ASSUME Init
               PROVE  TruthInv
    OBVIOUS
  <2>1. DOMAIN stack = {} /\ \A s \in States : ~(top[s] < 0)
    BY DEF Init, FreshTables, NULL
  <2>2. Tracks
    BY <2>1 DEF Tracks, Falling, AllTried, AllFailed
  <2> QED
    BY <2>2, RootedInit, RangesInit DEF TruthInv
<1>2. TruthInv => FailureIsTrue
  <2> SUFFICES ASSUME TruthInv, ~solved, pc = "idle"
               PROVE  \A s \in States : top[s] < 0 => Cheapest(s) > kept[s]
    BY DEF FailureIsTrue
  <2>1. IInv /\ Shapes /\ Wired(stack, top, root, elms) /\ AllFailed /\ stack = << >>
    BY DEF TruthInv, RootedInv, Rooted, Tracks, Shapes
  <2>2. \A x \in States : kept[x] <= Unlimited
    BY BoundsAssumption DEF TruthInv, Ranges, TableRanges
  <2> QED
    BY <2>1, <2>2, FailedIsTooDear
<1> QED
  BY <1>1, <1>2, TruthKept, PTL DEF Spec
=============================================================================

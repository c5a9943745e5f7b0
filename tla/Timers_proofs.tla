---------------------------- MODULE Timers_proofs ----------------------------
(***************************************************************************)
(* For any number of timers and any size of the pool: the threads and the  *)
(* machine exclude each other from the pool, and no event waits while the  *)
(* word that tells of it is zero.                                          *)
(*                                                                         *)
(* The second is not inductive: the machine writes back words that it read *)
(* earlier, so the invariant says that it does so only when no event       *)
(* waits.  The first needs that a thread that has filled a slot and not    *)
(* counted it yet is alone with that slot, which is mutual exclusion.      *)
(* From this follows, step by step, that the pool is a queue.              *)
(***************************************************************************)
EXTENDS Timers, Subsequences_proofs

ThreadPlaces == {"none", "enter", "wait", "claim", "region", "add", "count", "signal", "leave", "exit", "done"}
MachinePlaces == {"run", "post", "clear", "gc", "collect", "register", "create", "created", "lock", "pool", "handle"}

PlaceInv ==
  /\ thread \in [Timers -> [at : ThreadPlaces, look : {1, 2}, word : Words]]
  /\ machine \in [at : MachinePlaces, word : Words, timer : Timers \cup {Nobody}]
  /\ machine.at \in {"register", "create", "created"} => machine.timer \in Timers

\* The timer that is being created has no thread yet.
FreshInv == machine.at \in {"register", "create"} => thread[machine.timer].at = "none"

FlagInv ==
  /\ toam_signal_vec \in Words
  /\ in_critical_region \in BOOLEAN /\ gc_is_working \in BOOLEAN /\ handling \in BOOLEAN
  /\ trail \in Seq({"registered", "killed"} \X Timers)

MutexInv ==
  /\ mutex \in Timers \cup {Machine, Nobody}
  /\ \A t \in Timers : InPool(t) <=> mutex = t
  /\ machine.at = "pool" <=> mutex = Machine

PoolInv ==
  /\ event_pool \in Seq(Timers) /\ event_count \in 0 .. PoolSize /\ event_count <= Len(event_pool)
  /\ \A t \in Timers : thread[t].at = "count" => event_count < PoolSize /\ Len(event_pool) = event_count + 1
  /\ \A t \in Timers : thread[t].at = "add" => mutex = t

\* What is written back over toam_signal_vec when no event waits, and what stays when one does.
SignalInv ==
  /\ machine.at \in {"clear", "gc", "collect"} => triggers = <<>>
  /\ machine.at \in {"run", "register", "create", "created"} /\ triggers /= <<>> => toam_signal_vec /= {}

IInv == PlaceInv /\ FreshInv /\ FlagInv /\ MutexInv /\ PoolInv /\ SignalInv

-----------------------------------------------------------------------------
(* The holders of the mutex are told apart.                                *)
LEMMA Holders == Machine \notin Timers /\ Nobody \notin Timers /\ Machine /= Nobody
BY TimersAssumption DEF Timers

LEMMA InvImpliesWellFormed == IInv => WellFormed
<1> SUFFICES ASSUME IInv PROVE WellFormed
  OBVIOUS
<1>1. \A i \in 1 .. event_count : event_pool[i] \in Timers
  BY TimersAssumption DEF IInv, PoolInv
<1>2. machine.word \in Words /\ \A t \in Timers : thread[t].word \in Words
  BY DEF IInv, PlaceInv
<1> QED
  BY <1>1, <1>2 DEF IInv, FlagInv, MutexInv, PoolInv, WellFormed

LEMMA InvImpliesSignalled == IInv => EventsSignalled
BY DEF IInv, SignalInv, EventsSignalled

LEMMA InitInv == Init => IInv
<1> SUFFICES ASSUME Init PROVE IInv
  OBVIOUS
<1>1. PlaceInv /\ FreshInv
  BY DEF Init, PlaceInv, FreshInv, ThreadPlaces, MachinePlaces, NoThread, Words
<1>2. FlagInv
  <2>1. trail \in Seq({"registered", "killed"} \X Timers)
    BY DEF Init
  <2>2. toam_signal_vec \in Words
    BY DEF Init, Words
  <2> QED
    BY <2>1, <2>2 DEF Init, FlagInv
<1>3. MutexInv
  BY Holders DEF Init, MutexInv, InPool, NoThread
<1>4. PoolInv
  BY TimersAssumption DEF Init, PoolInv, NoThread
<1>5. SignalInv
  BY DEF Init, SignalInv
<1> QED
  BY <1>1, <1>2, <1>3, <1>4, <1>5 DEF IInv

-----------------------------------------------------------------------------
(* The steps of the machine that leave threads, mutex and pool alone.      *)

MachineOnly ==
  \/ PostEvent \/ TriggerOn \/ Fail \/ Clear \/ Throw \/ c_end_critical_region
  \/ CollectorTests \/ CollectorStarts \/ CollectorEnds \/ CatchWakeEvent \/ Handle \/ TimerCreated

LEMMA PrefixOfTrail ==
  ASSUME FlagInv, NEW n \in 0 .. Len(trail)
  PROVE  SubSeq(trail, 1, n) \in Seq({"registered", "killed"} \X Timers)
<1>1. \A i \in 1 .. n : trail[i] \in {"registered", "killed"} \X Timers
  BY DEF FlagInv
<1> QED
  BY <1>1, SubSeqProperties

LEMMA MachineOnlyStep ==
  ASSUME IInv, MachineOnly
  PROVE  IInv'
<1> USE DEF IInv, PlaceInv, FreshInv, FlagInv, SignalInv, Words, MachinePlaces, Goes, Reads, signals, pool
<1>1. CASE PostEvent
  <2>1. PlaceInv' /\ FlagInv' /\ SignalInv'
    BY <1>1 DEF PostEvent
  <2> QED
    BY <1>1, <2>1 DEF PostEvent, MutexInv, PoolInv, InPool
<1>2. CASE TriggerOn
  <2>1. PlaceInv' /\ FlagInv' /\ SignalInv'
    BY <1>2 DEF TriggerOn, TRIGGER_ON
  <2> QED
    BY <1>2, <2>1 DEF TriggerOn, MutexInv, PoolInv, InPool
<1>3. CASE Fail
  <2>1. trail' \in Seq({"registered", "killed"} \X Timers)
    BY <1>3, PrefixOfTrail DEF Fail
  <2>2. PlaceInv' /\ FlagInv' /\ SignalInv'
    BY <1>3, <2>1 DEF Fail
  <2> QED
    BY <1>3, <2>2 DEF Fail, MutexInv, PoolInv, InPool
<1>4. CASE Clear
  <2>1. PlaceInv' /\ FlagInv' /\ SignalInv'
    BY <1>4 DEF Clear
  <2> QED
    BY <1>4, <2>1 DEF Clear, MutexInv, PoolInv, InPool
<1>5. CASE Throw
  <2>1. PlaceInv' /\ FlagInv' /\ SignalInv'
    BY <1>5 DEF Throw
  <2> QED
    BY <1>5, <2>1 DEF Throw, MutexInv, PoolInv, InPool
<1>6. CASE c_end_critical_region
  <2>1. PlaceInv' /\ FlagInv' /\ SignalInv'
    BY <1>6 DEF c_end_critical_region
  <2> QED
    BY <1>6, <2>1 DEF c_end_critical_region, MutexInv, PoolInv, InPool
<1>7. CASE CollectorTests
  <2>1. PlaceInv' /\ FlagInv' /\ SignalInv'
    BY <1>7 DEF CollectorTests
  <2> QED
    BY <1>7, <2>1 DEF CollectorTests, MutexInv, PoolInv, InPool
<1>8. CASE CollectorStarts
  <2>1. PlaceInv' /\ FlagInv' /\ SignalInv'
    BY <1>8 DEF CollectorStarts
  <2> QED
    BY <1>8, <2>1 DEF CollectorStarts, MutexInv, PoolInv, InPool
<1>9. CASE CollectorEnds
  <2>1. gc_is_working' \in BOOLEAN
    BY <1>9, TimersAssumption DEF CollectorEnds
  <2>2. PlaceInv' /\ FlagInv' /\ SignalInv'
    BY <1>9, <2>1 DEF CollectorEnds
  <2> QED
    BY <1>9, <2>2 DEF CollectorEnds, MutexInv, PoolInv, InPool
<1>10. CASE CatchWakeEvent
  <2>1. machine'.at \in {"lock", "handle", "run"} /\ (machine'.at = "run" => triggers = <<>>)
    BY <1>10 DEF CatchWakeEvent
  <2>2. PlaceInv' /\ FlagInv' /\ SignalInv'
    BY <1>10, <2>1 DEF CatchWakeEvent
  <2> QED
    BY <1>10, <2>1, <2>2 DEF CatchWakeEvent, MutexInv, PoolInv, InPool
<1>11. CASE Handle
  <2>1. PlaceInv' /\ FlagInv' /\ SignalInv'
    BY <1>11 DEF Handle
  <2> QED
    BY <1>11, <2>1 DEF Handle, MutexInv, PoolInv, InPool
<1>12. CASE TimerCreated
  <2>1. PlaceInv' /\ FlagInv' /\ SignalInv'
    BY <1>12 DEF TimerCreated
  <2> QED
    BY <1>12, <2>1 DEF TimerCreated, MutexInv, PoolInv, InPool
<1> QED
  BY <1>1, <1>2, <1>3, <1>4, <1>5, <1>6, <1>7, <1>8, <1>9, <1>10, <1>11, <1>12 DEF MachineOnly

-----------------------------------------------------------------------------
(* The other steps of the machine.                                         *)

LEMMA EmptyWord == {} \in Words
BY DEF Words

LEMMA TrailGrows ==
  ASSUME FlagInv, NEW what \in {"registered", "killed"}, NEW t \in Timers
  PROVE  Append(trail, <<what, t>>) \in Seq({"registered", "killed"} \X Timers)
<1>1. <<what, t>> \in {"registered", "killed"} \X Timers
  OBVIOUS
<1> QED
  BY <1>1, AppendProperties DEF FlagInv

LEMMA CreateTimerStep ==
  ASSUME IInv, NEW t \in Timers, c_timer(t)
  PROVE  IInv'
<1>1. thread[t] = NoThread
  BY DEF c_timer, Timers
<1>2. PlaceInv' /\ FreshInv' /\ FlagInv' /\ SignalInv'
  BY <1>1 DEF IInv, PlaceInv, FreshInv, FlagInv, SignalInv, Words, MachinePlaces, NoThread, c_timer
<1> QED
  BY <1>2 DEF IInv, c_timer, MutexInv, PoolInv, InPool, pool

LEMMA RegisterStep ==
  ASSUME IInv, Register
  PROVE  IInv'
<1>1. trail' \in Seq({"registered", "killed"} \X Timers)
  BY TrailGrows DEF IInv, PlaceInv, Register
<1>2. PlaceInv' /\ FreshInv' /\ FlagInv' /\ SignalInv'
  BY <1>1 DEF IInv, PlaceInv, FreshInv, FlagInv, SignalInv, Words, MachinePlaces, Goes, signals, Register
<1> QED
  BY <1>2 DEF IInv, Register, Goes, MutexInv, PoolInv, InPool, pool, signals, PlaceInv

LEMMA CreateThreadStep ==
  ASSUME IInv, CreateThread
  PROVE  IInv'
<1>1. machine.timer \in Timers /\ thread[machine.timer].at = "none"
  BY DEF IInv, PlaceInv, FreshInv, CreateThread
<1>2. thread' \in [Timers -> [at : ThreadPlaces, look : {1, 2}, word : Words]]
  BY DEF IInv, PlaceInv, ThreadPlaces, CreateThread
<1>3. machine' = [at |-> "created", word |-> {}, timer |-> machine.timer]
  BY DEF CreateThread, Goes
<1>4. PlaceInv' /\ FreshInv'
  BY <1>1, <1>2, <1>3, EmptyWord DEF PlaceInv, FreshInv, MachinePlaces
<1>5. FlagInv' /\ SignalInv'
  BY <1>3 DEF IInv, FlagInv, SignalInv, CreateThread, signals
<1>6. /\ \A t \in Timers \ {machine.timer} : thread'[t] = thread[t]
      /\ thread'[machine.timer].at = "enter"
  BY <1>1 DEF IInv, PlaceInv, CreateThread
<1>7. MutexInv'
  BY <1>1, <1>3, <1>6 DEF IInv, MutexInv, InPool, CreateThread, signals
<1>8. PoolInv'
  BY <1>1, <1>6 DEF IInv, PoolInv, CreateThread, signals, pool
<1> QED
  BY <1>4, <1>5, <1>7, <1>8 DEF IInv

LEMMA KillTimerStep ==
  ASSUME IInv, NEW t \in Timers, c_kill_timer(t)
  PROVE  IInv'
<1>1. trail' \in Seq({"registered", "killed"} \X Timers)
  BY TrailGrows DEF IInv, c_kill_timer
<1>2. PlaceInv' /\ FreshInv' /\ FlagInv' /\ SignalInv'
  BY <1>1 DEF IInv, PlaceInv, FreshInv, FlagInv, SignalInv, Words, signals, c_kill_timer
<1> QED
  BY <1>2 DEF IInv, c_kill_timer, MutexInv, PoolInv, InPool, pool, signals

LEMMA EnterPoolStep ==
  ASSUME IInv, EnterPool
  PROVE  IInv'
<1>1. PlaceInv' /\ FreshInv' /\ FlagInv' /\ SignalInv'
  BY DEF IInv, PlaceInv, FreshInv, FlagInv, SignalInv, Words, MachinePlaces, Goes, EnterPool
<1>2. MutexInv'
  BY Holders DEF IInv, MutexInv, InPool, PlaceInv, Goes, EnterPool
<1>3. PoolInv'
  <2>1. \A t \in Timers : thread[t].at /= "add" /\ thread[t].at /= "count"
    BY Holders DEF IInv, MutexInv, InPool, EnterPool
  <2> QED
    BY <2>1 DEF IInv, PoolInv, pool, EnterPool
<1> QED
  BY <1>1, <1>2, <1>3 DEF IInv

LEMMA PostEventPoolStep ==
  ASSUME IInv, post_event_pool
  PROVE  IInv'
<1>1. machine'.at \in {"handle", "run"} /\ (machine'.at = "run" => triggers' = <<>>)
      /\ machine' = [at |-> machine'.at, word |-> {}, timer |-> machine.timer]
  BY DEF post_event_pool, Goes
<1>2. toam_signal_vec' \in Words
  BY DEF IInv, FlagInv, Words, post_event_pool, TRIGGER_ON
<1>3. PlaceInv' /\ FreshInv'
  <2>1. machine'.at \in MachinePlaces
    BY <1>1 DEF MachinePlaces
  <2>2. thread' = thread /\ trail' = trail
    BY DEF post_event_pool
  <2>3. machine' \in [at : MachinePlaces, word : Words, timer : Timers \cup {Nobody}]
    <3>1. machine.timer \in Timers \cup {Nobody}
      BY DEF IInv, PlaceInv
    <3>2. PICK place \in MachinePlaces : machine' = [at |-> place, word |-> {}, timer |-> machine.timer]
      BY <1>1, <2>1
    <3> QED
      BY <3>1, <3>2, EmptyWord
  <2>4. machine'.at \notin {"register", "create", "created"} /\ machine'.timer = machine.timer
    BY <1>1
  <2> QED
    BY <2>2, <2>3, <2>4 DEF IInv, PlaceInv, FreshInv
<1>7. FlagInv'
  BY <1>2 DEF IInv, FlagInv, post_event_pool
<1>8. SignalInv'
  BY <1>1 DEF SignalInv
<1>4. \A t \in Timers : ~InPool(t)
  BY Holders DEF IInv, MutexInv, post_event_pool
<1>5. MutexInv'
  BY <1>1, <1>4, Holders DEF MutexInv, InPool, post_event_pool
<1>6. PoolInv'
  BY <1>4, TimersAssumption DEF PoolInv, InPool, post_event_pool
<1> QED
  BY <1>3, <1>5, <1>6, <1>7, <1>8 DEF IInv

-----------------------------------------------------------------------------
(* The steps of the threads.                                               *)

LEMMA MoveStep ==
  ASSUME PlaceInv, FreshInv, NEW t \in Timers, NEW place \in ThreadPlaces, thread[t].at /= "none",
         Moves(t, place), UNCHANGED machine
  PROVE  PlaceInv' /\ FreshInv'
<1>1. thread' \in [Timers -> [at : ThreadPlaces, look : {1, 2}, word : Words]]
  BY EmptyWord DEF PlaceInv, Moves
<1>2. \A u \in Timers : thread[u].at = "none" => thread'[u] = thread[u]
  BY DEF PlaceInv, Moves
<1> QED
  BY <1>1, <1>2 DEF PlaceInv, FreshInv

LEMMA EnterStep ==
  ASSUME IInv, NEW t \in Timers, Enter(t)
  PROVE  IInv'
<1>1. Moves(t, "wait") /\ At(t, "enter")
  BY DEF Enter
<1>4. PlaceInv' /\ FreshInv'
  BY <1>1, MoveStep DEF IInv, ThreadPlaces, Enter, At
<1>5. FlagInv' /\ SignalInv'
  BY DEF IInv, FlagInv, SignalInv, Enter
<1>2. MutexInv'
  BY Holders DEF IInv, MutexInv, InPool, PlaceInv, Moves, Enter
<1>3. PoolInv'
  BY Holders DEF IInv, MutexInv, InPool, PlaceInv, PoolInv, Moves, Enter, pool
<1> QED
  BY <1>2, <1>3, <1>4, <1>5 DEF IInv

\* The steps of a thread inside, but for those that fill the pool.
LEMMA InsideStep ==
  ASSUME IInv, NEW t \in Timers, CollectorRests(t) \/ Claim(t) \/ LookUp(t) \/ Signal(t)
  PROVE  IInv'
<1>1. At(t, "wait") \/ At(t, "claim") \/ At(t, "region") \/ At(t, "signal")
  BY DEF CollectorRests, Claim, LookUp, Signal
<1>2. PICK place \in {"claim", "region", "exit", "leave", "add"} : Moves(t, place)
  BY DEF CollectorRests, Claim, LookUp, Signal
<1>3. UNCHANGED <<gc_is_working, mutex, event_pool, event_count, trail, triggers, machine, handling>>
  BY DEF CollectorRests, Claim, LookUp, Signal, signals, pool
<1>4. /\ toam_signal_vec' = toam_signal_vec \/ (toam_signal_vec' \in Words /\ toam_signal_vec' /= {})
      /\ in_critical_region' \in BOOLEAN
  BY DEF IInv, PlaceInv, FlagInv, Words, CollectorRests, Claim, LookUp, Signal, signals
<1>5. PlaceInv' /\ FreshInv'
  BY <1>1, <1>2, <1>3, MoveStep DEF IInv, ThreadPlaces, At
<1>6. FlagInv' /\ SignalInv'
  BY <1>3, <1>4 DEF IInv, FlagInv, SignalInv
<1>7. mutex = t
  BY <1>1 DEF IInv, MutexInv, InPool, At
<1>8. MutexInv'
  BY <1>2, <1>3, <1>7 DEF IInv, MutexInv, InPool, PlaceInv, Moves
<1>9. PoolInv'
  BY <1>2, <1>3, <1>7 DEF IInv, PoolInv, PlaceInv, Moves
<1> QED
  BY <1>5, <1>6, <1>8, <1>9 DEF IInv

LEMMA AddStep ==
  ASSUME IInv, NEW t \in Timers, add_to_event_pool(t)
  PROVE  IInv'
<1>1. PICK place \in {"leave", "count"} : Moves(t, place)
  BY DEF add_to_event_pool
<1>2. PlaceInv' /\ FreshInv' /\ FlagInv' /\ SignalInv'
  <2>1. PlaceInv' /\ FreshInv'
    BY <1>1, MoveStep DEF IInv, ThreadPlaces, At, add_to_event_pool
  <2> QED
    BY <2>1 DEF IInv, FlagInv, SignalInv, add_to_event_pool, signals
<1>3. mutex = t /\ At(t, "add")
  BY DEF IInv, MutexInv, InPool, At, add_to_event_pool
<1>4. MutexInv'
  BY <1>1, <1>3 DEF IInv, MutexInv, InPool, PlaceInv, Moves, add_to_event_pool, signals
<1>5. \A u \in Timers \ {t} : thread'[u] = thread[u] /\ ~InPool(u)
  BY <1>1, <1>3 DEF IInv, MutexInv, PlaceInv, Moves
<1>6. CASE event_count = PoolSize
  <2>1. Moves(t, "leave") /\ UNCHANGED pool /\ mutex' = mutex
    BY <1>6 DEF add_to_event_pool, signals, pool
  <2>2. thread'[t].at = "leave"
    BY <2>1 DEF IInv, PlaceInv, Moves
  <2> QED
    BY <1>2, <1>4, <1>5, <2>1, <2>2 DEF IInv, PoolInv, InPool, pool
<1>7. CASE event_count /= PoolSize
  <2> DEFINE kept == SubSeq(event_pool, 1, event_count)
  <2>1. /\ event_pool' = Append(kept, t) /\ event_count' = event_count /\ mutex' = mutex
        /\ Moves(t, "count")
    BY <1>7 DEF add_to_event_pool, signals
  <2>2. \A i \in 1 .. event_count : event_pool[i] \in Timers
    BY TimersAssumption DEF IInv, PoolInv
  <2>3. event_count \in Nat /\ event_count < PoolSize
    BY <1>7, TimersAssumption DEF IInv, PoolInv
  <2>4. kept \in Seq(Timers) /\ Len(kept) = event_count
    BY <2>2, <2>3, SubSeqProperties
  <2>5. event_pool' \in Seq(Timers) /\ Len(event_pool') = event_count + 1
    <3> HIDE DEF kept
    <3> QED
      BY <2>1, <2>4, AppendProperties
  <2>6. thread'[t].at = "count"
    BY <2>1 DEF IInv, PlaceInv, Moves
  <2>7. \A u \in Timers \ {t} : thread'[u].at /= "count" /\ thread'[u].at /= "add"
    BY <1>5 DEF InPool
  <2>8. event_count' \in 0 .. PoolSize /\ event_count' <= Len(event_pool')
    BY <2>1, <2>3, <2>5, TimersAssumption
  <2>9. PoolInv'
    BY <2>1, <2>3, <2>5, <2>6, <2>7, <2>8 DEF PoolInv
  <2> QED
    BY <1>2, <1>4, <2>9 DEF IInv
<1> QED
  BY <1>6, <1>7

LEMMA CountStep ==
  ASSUME IInv, NEW t \in Timers, Count(t)
  PROVE  IInv'
<1>1. PlaceInv' /\ FreshInv' /\ FlagInv' /\ SignalInv'
  <2>1. thread' \in [Timers -> [at : ThreadPlaces, look : {1, 2}, word : Words]]
    BY ZenonT(60) DEF IInv, PlaceInv, FlagInv, ThreadPlaces, Count
  <2>2. \A u \in Timers : thread[u].at = "none" => thread'[u] = thread[u]
    BY DEF IInv, PlaceInv, Count, At
  <2>3. PlaceInv' /\ FreshInv'
    BY <2>1, <2>2 DEF IInv, PlaceInv, FreshInv, Count
  <2> QED
    BY <2>3 DEF IInv, FlagInv, SignalInv, Count, signals
<1>2. mutex = t /\ At(t, "count")
  BY DEF IInv, MutexInv, InPool, At, Count
<1>3. MutexInv'
  BY <1>2 DEF IInv, MutexInv, InPool, PlaceInv, Count, signals
<1>4. \A u \in Timers \ {t} : thread'[u] = thread[u] /\ ~InPool(u)
  BY <1>2 DEF IInv, MutexInv, PlaceInv, Count
<1>5. thread'[t].at = "signal"
  BY DEF IInv, PlaceInv, Count
<1>6. PoolInv'
  <2>1. /\ event_count < PoolSize /\ Len(event_pool) = event_count + 1
        /\ event_pool' = event_pool /\ event_count' = event_count + 1
    BY <1>2 DEF IInv, PoolInv, At, Count
  <2>2. \A u \in Timers : thread'[u].at /= "count" /\ thread'[u].at /= "add"
    BY <1>4, <1>5 DEF InPool
  <2> QED
    BY <2>1, <2>2, TimersAssumption DEF IInv, PoolInv
<1> QED
  BY <1>1, <1>3, <1>6 DEF IInv

LEMMA LeaveStep ==
  ASSUME IInv, NEW t \in Timers, Leave(t)
  PROVE  IInv'
<1>1. PlaceInv' /\ FreshInv' /\ FlagInv' /\ SignalInv'
  <2>1. [at |-> IF At(t, "leave") THEN "enter" ELSE "done", look |-> 3 - thread[t].look, word |-> {}]
          \in [at : ThreadPlaces, look : {1, 2}, word : Words]
    BY EmptyWord DEF IInv, PlaceInv, ThreadPlaces
  <2>2. thread' \in [Timers -> [at : ThreadPlaces, look : {1, 2}, word : Words]]
    BY <2>1 DEF IInv, PlaceInv, Leave
  <2>3. \A u \in Timers : thread[u].at = "none" => thread'[u] = thread[u]
    BY DEF IInv, PlaceInv, Leave, At
  <2>4. PlaceInv' /\ FreshInv'
    BY <2>2, <2>3 DEF IInv, PlaceInv, FreshInv, Leave
  <2> QED
    BY <2>4 DEF IInv, FlagInv, SignalInv, Leave, pool
<1>2. mutex = t
  BY DEF IInv, MutexInv, InPool, At, Leave
<1>3. \A u \in Timers \ {t} : thread'[u] = thread[u] /\ ~InPool(u)
  BY <1>2 DEF IInv, MutexInv, PlaceInv, Leave
<1>4. thread'[t].at \in {"enter", "done"}
  BY DEF IInv, PlaceInv, Leave
<1>5. MutexInv'
  BY <1>2, <1>3, <1>4, Holders DEF IInv, MutexInv, InPool, Leave
<1>6. PoolInv'
  BY <1>3, <1>4 DEF IInv, PoolInv, InPool, Leave, pool
<1> QED
  BY <1>1, <1>5, <1>6 DEF IInv

-----------------------------------------------------------------------------

LEMMA StepInv == IInv /\ [Next]_vars => IInv'
<1> SUFFICES ASSUME IInv, [Next]_vars PROVE IInv'
  OBVIOUS
<1>1. CASE MachineOnly
  BY <1>1, MachineOnlyStep
<1>2. CASE Register \/ EnterPool \/ CreateThread \/ post_event_pool
  BY <1>2, RegisterStep, EnterPoolStep, CreateThreadStep, PostEventPoolStep
<1>3. ASSUME NEW t \in Timers, c_timer(t) \/ c_kill_timer(t) \/ timerThread(t)
      PROVE  IInv'
  BY <1>3, CreateTimerStep, KillTimerStep, EnterStep, InsideStep, AddStep, CountStep, LeaveStep DEF timerThread
<1>4. CASE UNCHANGED vars
  BY <1>4 DEF vars, signals, pool, IInv, PlaceInv, FreshInv, FlagInv, MutexInv, PoolInv, SignalInv, InPool
<1> QED
  BY <1>1, <1>2, <1>3, <1>4 DEF Next, Continue, MachineOnly

(* Thread and machine are never both inside ENTER_CRITICAL_SECTION, and    *)
(* every slot below event_count holds a time-out that is written whole,    *)
(* whatever the number of timers and the size of the pool.                 *)
THEOREM MutualExclusion == Spec => []WellFormed
<1>1. Spec => []IInv
  BY InitInv, StepInv, PTL DEF Spec
<1> QED
  BY <1>1, InvImpliesWellFormed, PTL

(* Between two calls, an event that waits in the queue is announced in     *)
(* toam_signal_vec, however threads and machine write the word over each   *)
(* other.                                                                  *)
THEOREM NoSilentEvent == Spec => []EventsSignalled
<1>1. Spec => []IInv
  BY InitInv, StepInv, PTL DEF Spec
<1> QED
  BY <1>1, InvImpliesSignalled, PTL

-----------------------------------------------------------------------------
(* The pool is a queue.                                                    *)

\* What waits to be handled has come from the pool only when the machine is about to handle it.
TriggersInv ==
  /\ triggers \in Seq(Timers \cup {AGENT})
  /\ machine.at # "handle" => triggers \in Seq({AGENT})

Waiting == SubSeq(event_pool, 1, event_count)
Handed == Kept(triggers, Timers)

\* The machine's own event is no timer.
LEMMA AgentIsNoTimer == AGENT \notin Timers /\ {AGENT} \subseteq Timers \cup {AGENT}
BY DEF AGENT, Timers

\* Nothing is handed over of the machine's own events.
LEMMA OwnEvents ==
  ASSUME NEW s \in Seq({AGENT})
  PROVE  Kept(s, Timers) = <<>>
<1>1. \A i \in 1 .. Len(s) : s[i] \notin Timers
  BY AgentIsNoTimer
<1> QED
  BY <1>1, KeptNone

\* The time-outs that wait are those of timers.
LEMMA WaitingIn ==
  ASSUME IInv
  PROVE  Waiting \in Seq(Timers) /\ Len(Waiting) = event_count
<1>1. event_pool \in Seq(Timers) /\ event_count \in Nat /\ event_count <= Len(event_pool)
  BY TimersAssumption DEF IInv, PoolInv
<1> PICK p \in Seq(Timers) : p = event_pool
  BY <1>1
<1>2. SubSeq(p, 1, event_count) \in Seq(Timers) /\ Len(SubSeq(p, 1, event_count)) = event_count
  BY <1>1
<1> QED
  BY <1>2 DEF Waiting

\* What post_event_pool adds to the queue.
LEMMA TicksIn ==
  ASSUME IInv
  PROVE  Kept(Waiting, registered) \in Seq(Timers)
BY WaitingIn, KeptFacts

\* TriggersInv holds in the initial state.
LEMMA TriggersInit == Init => TriggersInv
BY DEF Init, TriggersInv

\* Every step keeps TriggersInv.
LEMMA TriggersStep == IInv /\ TriggersInv /\ [Next]_vars => TriggersInv'
<1> SUFFICES ASSUME IInv, TriggersInv, [Next]_vars PROVE TriggersInv'
  OBVIOUS
<1>1. ASSUME triggers' = triggers, machine'.at # "handle" => machine.at # "handle" \/ triggers = <<>>
      PROVE  TriggersInv'
  BY <1>1 DEF TriggersInv
<1>2. ASSUME triggers' = <<>> PROVE TriggersInv'
  BY <1>2 DEF TriggersInv
<1>3. CASE TriggerOn
  <2>1. machine.at = "post" /\ triggers' = Append(triggers, AGENT)
    BY <1>3 DEF TriggerOn
  <2>2. triggers \in Seq({AGENT})
    BY <2>1 DEF TriggersInv
  <2>3. triggers' \in Seq({AGENT})
    BY <2>1, <2>2
  <2> QED
    BY <2>3 DEF TriggersInv
<1>4. CASE post_event_pool
  <2>1. /\ triggers' = triggers \o Kept(Waiting, registered)
        /\ machine'.at = IF triggers' # <<>> THEN "handle" ELSE "run"
    BY <1>4 DEF post_event_pool, Goes, Waiting
  <2>2. Kept(Waiting, registered) \in Seq(Timers \cup {AGENT})
    BY TicksIn
  <2>3. triggers' \in Seq(Timers \cup {AGENT})
    BY <2>1, <2>2, ConcatProperties DEF TriggersInv
  <2>4. triggers' = <<>> => triggers' \in Seq({AGENT})
    OBVIOUS
  <2> QED
    BY <2>1, <2>3, <2>4 DEF TriggersInv
<1>5. CASE MachineOnly /\ ~TriggerOn
  <2>1. CASE Fail \/ Handle
    BY <1>2, <2>1 DEF Fail, Handle
  <2>2. CASE MachineOnly /\ ~TriggerOn /\ ~Fail /\ ~Handle
    BY <1>1, <2>2 DEF MachineOnly, PostEvent, Clear, Throw, c_end_critical_region, CollectorTests,
       CollectorStarts, CollectorEnds, CatchWakeEvent, TimerCreated, Goes, Reads
  <2> QED
    BY <1>5, <2>1, <2>2
<1>6. CASE Register \/ EnterPool \/ CreateThread
  BY <1>1, <1>6 DEF Register, EnterPool, CreateThread, Goes
<1>7. ASSUME NEW t \in Timers, c_timer(t) \/ c_kill_timer(t) \/ timerThread(t)
      PROVE  TriggersInv'
  BY <1>1, <1>7 DEF c_timer, c_kill_timer, timerThread, Enter, CollectorRests, Claim, LookUp,
     add_to_event_pool, Count, Signal, Leave
<1>8. CASE UNCHANGED vars
  BY <1>1, <1>8 DEF vars
<1> QED
  BY <1>3, <1>4, <1>5, <1>6, <1>7, <1>8 DEF Next, Continue, MachineOnly

\* The initial state is one of an empty queue.
LEMMA QueueInit == Init => Ticks!Init
<1> SUFFICES ASSUME Init PROVE Ticks!Init
  OBVIOUS
<1>1. SubSeq(event_pool, 1, event_count) = <<>>
  BY DEF Init
<1>2. Kept(triggers, Timers) = <<>>
  BY KeptEmpty DEF Init
<1>3. registered = {}
  BY DEF Init, registered
<1> QED
  BY <1>1, <1>2, <1>3 DEF Ticks!Init

\* A step that leaves the pool and what was handed over can only change who is registered.
LEMMA QueueRests ==
  ASSUME Waiting' = Waiting, Handed' = Handed
  PROVE  Ticks!Next
<1>1. registered' \subseteq Timers
  BY DEF registered, Timers
<1> QED
  BY <1>1 DEF Ticks!Next, Ticks!Register, Waiting, Handed

\* A thread that counts the slot it has filled adds it to the queue.
LEMMA QueueAdds ==
  ASSUME IInv, NEW t \in Timers, Count(t)
  PROVE  Ticks!Next
<1>1. /\ event_pool \in Seq(Timers) /\ event_count \in Nat /\ event_count < PoolSize
      /\ Len(event_pool) = event_count + 1
  BY TimersAssumption DEF IInv, PoolInv, Count, At
<1>2. /\ event_pool' = event_pool /\ event_count' = event_count + 1
      /\ triggers' = triggers /\ trail' = trail
  BY DEF Count
<1> PICK p \in Seq(Timers) : p = event_pool
  BY <1>1
<1> PICK n \in Nat : n = event_count
  BY <1>1
<1>3. p[n + 1] \in Timers /\ Len(SubSeq(p, 1, n)) = n
  BY <1>1
<1>4. SubSeq(p, 1, n + 1) = Append(SubSeq(p, 1, n), p[n + 1])
  BY <1>1
<1>5. registered' = registered /\ Kept(triggers, Timers)' = Kept(triggers, Timers)
  BY <1>2 DEF registered
<1>6. Ticks!Add(p[n + 1])
  BY <1>1, <1>2, <1>3, <1>4, <1>5 DEF Ticks!Add
<1> QED
  BY <1>3, <1>6 DEF Ticks!Next

\* The machine takes all that waits and hands on what is still registered.
LEMMA QueueTakes ==
  ASSUME IInv, TriggersInv, post_event_pool
  PROVE  Ticks!Next
<1>1. /\ event_pool' = <<>> /\ event_count' = 0 /\ trail' = trail
      /\ triggers' = triggers \o Kept(Waiting, registered)
  BY DEF post_event_pool, Waiting
<1>2. Kept(Waiting, registered) \in Seq(Timers)
  BY TicksIn
<1>3. Kept(Waiting, registered) \in Seq(Timers \cup {AGENT}) /\ triggers \in Seq(Timers \cup {AGENT})
  BY <1>2 DEF TriggersInv
<1>4. Kept(Kept(Waiting, registered), Timers) = Kept(Waiting, registered)
  BY <1>2, KeptAll
<1>5. Kept(triggers', Timers) = Kept(triggers, Timers) \o Kept(Waiting, registered)
  <2> PICK x \in Seq(Timers \cup {AGENT}) : x = triggers
    BY <1>3
  <2> PICK y \in Seq(Timers \cup {AGENT}) : y = Kept(Waiting, registered)
    BY <1>3
  <2>1. Kept(x \o y, Timers) = Kept(x, Timers) \o Kept(y, Timers)
    BY ONLY x \in Seq(Timers \cup {AGENT}), y \in Seq(Timers \cup {AGENT}), KeptConcat
  <2>2. triggers' = x \o y /\ Kept(y, Timers) = y
    BY <1>1, <1>4
  <2> QED
    BY ONLY <2>1, <2>2, x = triggers, y = Kept(Waiting, registered)
<1>6. SubSeq(event_pool', 1, event_count') = <<>>
  BY <1>1
<1>7. registered' = registered
  BY <1>1 DEF registered
<1>8. Ticks!Kept(Waiting, registered) = Kept(Waiting, registered)
  BY DEF Ticks!Kept, Kept
<1>9. Ticks!Take
  BY <1>5, <1>6, <1>7, <1>8 DEF Ticks!Take, Waiting
<1> QED
  BY <1>9 DEF Ticks!Next

\* Every step is one of the queue, or leaves it.
LEMMA QueueStep ==
  ASSUME IInv, TriggersInv, [Next]_vars
  PROVE  Ticks!Next
<1>1. ASSUME UNCHANGED <<event_pool, event_count, triggers>> PROVE Ticks!Next
  BY <1>1, QueueRests DEF Waiting, Handed
<1>2. CASE TriggerOn
  <2>1. /\ machine.at = "post" /\ triggers' = Append(triggers, AGENT)
        /\ UNCHANGED <<event_pool, event_count>>
    BY <1>2 DEF TriggerOn, pool
  <2>2. triggers \in Seq({AGENT}) /\ triggers' \in Seq({AGENT})
    BY <2>1 DEF TriggersInv
  <2>3. Handed' = Handed
    BY <2>2, OwnEvents DEF Handed
  <2> QED
    BY <2>1, <2>3, QueueRests DEF Waiting
<1>3. CASE Fail
  <2>1. machine.at = "run" /\ triggers' = <<>> /\ UNCHANGED <<event_pool, event_count>>
    BY <1>3 DEF Fail, pool
  <2>2. triggers \in Seq({AGENT}) /\ triggers' \in Seq({AGENT})
    BY <2>1 DEF TriggersInv
  <2>3. Handed' = Handed
    BY <2>2, OwnEvents DEF Handed
  <2> QED
    BY <2>1, <2>3, QueueRests DEF Waiting
<1>4. CASE Handle
  <2>1. triggers' = <<>> /\ UNCHANGED <<event_pool, event_count, trail>>
    BY <1>4 DEF Handle, pool
  <2>2. Kept(triggers', Timers) = <<>>
    BY <2>1, KeptEmpty
  <2>3. registered' = registered
    BY <2>1 DEF registered
  <2>4. Ticks!Handle
    BY <2>1, <2>2, <2>3 DEF Ticks!Handle
  <2> QED
    BY <2>4 DEF Ticks!Next
<1>5. CASE post_event_pool
  BY <1>5, QueueTakes
<1>6. CASE MachineOnly /\ ~TriggerOn /\ ~Fail /\ ~Handle
  BY <1>1, <1>6 DEF MachineOnly, PostEvent, Clear, Throw, c_end_critical_region, CollectorTests,
     CollectorStarts, CollectorEnds, CatchWakeEvent, TimerCreated, pool
<1>7. CASE Register \/ EnterPool \/ CreateThread
  BY <1>1, <1>7 DEF Register, EnterPool, CreateThread, pool
<1>8. ASSUME NEW t \in Timers, add_to_event_pool(t) PROVE Ticks!Next
  <2>1. event_count' = event_count /\ triggers' = triggers
    BY <1>8 DEF add_to_event_pool
  <2>2. \/ event_pool' = event_pool
        \/ event_pool' = Append(SubSeq(event_pool, 1, event_count), t)
    BY <1>8 DEF add_to_event_pool
  <2>3. Waiting' = Waiting
    <3>1. /\ event_pool \in Seq(Timers) /\ event_count \in Nat /\ event_count <= Len(event_pool)
      BY TimersAssumption DEF IInv, PoolInv
    <3> PICK p \in Seq(Timers) : p = event_pool
      BY <3>1
    <3> PICK n \in Nat : n = event_count
      BY <3>1
    <3>2. SubSeq(Append(SubSeq(p, 1, n), t), 1, n) = SubSeq(p, 1, n)
      BY <3>1
    <3> QED
      BY <2>1, <2>2, <3>2 DEF Waiting
  <2> QED
    BY <2>1, <2>3, QueueRests DEF Handed
<1>9. ASSUME NEW t \in Timers,
             c_timer(t) \/ c_kill_timer(t) \/ (timerThread(t) /\ ~add_to_event_pool(t) /\ ~Count(t))
      PROVE  Ticks!Next
  BY <1>1, <1>9 DEF c_timer, c_kill_timer, timerThread, Enter, CollectorRests, Claim, LookUp, Signal,
     Leave, pool
<1>10. CASE UNCHANGED vars
  BY <1>1, <1>10 DEF vars, pool
<1> QED
  BY <1>2, <1>3, <1>4, <1>5, <1>6, <1>7, <1>8, <1>9, <1>10, QueueAdds
     DEF Next, Continue, MachineOnly, timerThread

(* With several steps, of several threads, for one operation, the pool is  *)
(* the queue of TickQueue: no time-out is lost, doubled or overtaken, and  *)
(* all that wait are handed over at once, but for timers no longer in the  *)
(* list.                                                                   *)
THEOREM ThePoolIsAQueue == Spec => Refines
<1>1. Init => IInv /\ TriggersInv
  BY InitInv, TriggersInit
<1>2. IInv /\ TriggersInv /\ [Next]_vars => (IInv /\ TriggersInv)'
  BY StepInv, TriggersStep
<1>3. IInv /\ TriggersInv /\ [Next]_vars => [Ticks!Next]_<<SubSeq(event_pool, 1, event_count), Kept(triggers, Timers), registered>>
  BY QueueStep
<1> QED
  BY <1>1, <1>2, <1>3, QueueInit, PTL DEF Spec, Refines, Ticks!Spec
=============================================================================

------------------------------- MODULE Timers -------------------------------
(***************************************************************************)
(* The threads of timers, the pool of events that they fill, the word that *)
(* tells the machine of it, and the flags by which threads and garbage     *)
(* collector keep out of each other's way (emu/event.c, gcstack.c, toam.h).*)
(* time_out/3 and the guide's timer module run on them.                    *)
(*                                                                         *)
(* The mutex protects the pool and the list of timers.  toam_signal_vec,   *)
(* in_critical_region and gc_is_working are plain words that the machine   *)
(* also changes without the mutex: reading such a word and writing it back *)
(* are two steps, and so are testing one and setting another.              *)
(***************************************************************************)
EXTENDS Integers, Sequences, FiniteSets, Subsequences

CONSTANTS
  MaxTimers,        \* bound: timers that the program creates
  Machine,          \* the machine, as a holder of the mutex
  Nobody,           \* the mutex is free
  PoolSize,         \* EVENT_POOL_SIZE
  CollectorFails    \* whether the collector may run out of memory

ASSUME TimersAssumption ==
  /\ MaxTimers \in Nat /\ Machine \notin Nat /\ Nobody \notin Nat /\ Machine /= Nobody
  /\ PoolSize \in Nat \ {0} /\ CollectorFails \in BOOLEAN

VARIABLES
  trail,               \* what backtracking can undo: timers registered and killed, in order
  toam_signal_vec,     \* subset of TRIGGER_ON, EVENT_POOL_NONEMPTY
  in_critical_region, gc_is_working,
  mutex,               \* csCriticalSection: its holder
  event_pool, event_count,
  triggers,            \* triggeredCs[1..trigger_no]: timers, and AGENT for other events
  machine,             \* where the machine is, and the word or timer that it has in hand
  handling,            \* an exception is being handled
  thread               \* for each timer, where its thread is

signals == <<toam_signal_vec, in_critical_region, gc_is_working, mutex>>
pool == <<event_pool, event_count>>
vars == <<signals, pool, trail, triggers, machine, handling, thread>>

TRIGGER_ON == "TRIGGER_ON"
EVENT_POOL_NONEMPTY == "EVENT_POOL_NONEMPTY"
AGENT == 0   \* the number of no timer
Timers == 1 .. MaxTimers
NoThread == [at |-> "none", look |-> 1, word |-> {}]

Init ==
  /\ trail = <<>>
  /\ toam_signal_vec = {} /\ in_critical_region = FALSE /\ gc_is_working = FALSE
  /\ mutex = Nobody
  /\ event_pool = <<>> /\ event_count = 0
  /\ triggers = <<>>
  /\ machine = [at |-> "run", word |-> {}, timer |-> Nobody]
  /\ handling = FALSE
  /\ thread = [t \in Timers |-> NoThread]

\* the list of sources of TimeOut, and the timers whose status is TIMER_STATUS_DEAD
registered == {t \in Timers : \E i \in DOMAIN trail : trail[i] = <<"registered", t>>}
killed == {t \in Timers : \E i \in DOMAIN trail : trail[i] = <<"killed", t>>}

Goes(place) == machine' = [at |-> place, word |-> {}, timer |-> machine.timer]
\* The machine reads toam_signal_vec, to change it.
Reads(place) == machine' = [at |-> place, word |-> toam_signal_vec, timer |-> machine.timer]

-----------------------------------------------------------------------------
(* The machine, between two calls.                                         *)

\* INSERT_TRIGGER_*: a built-in posts an event.
PostEvent ==
  /\ machine.at = "run" /\ triggers = <<>>
  /\ Reads("post")
  /\ UNCHANGED <<signals, pool, trail, triggers, handling, thread>>

TriggerOn ==
  /\ machine.at = "post"
  /\ toam_signal_vec' = machine.word \cup {TRIGGER_ON}
  /\ triggers' = Append(triggers, AGENT)
  /\ Goes("run")
  /\ UNCHANGED <<in_critical_region, gc_is_working, mutex, pool, trail, handling, thread>>

\* Backtracking to some choice point: the list of sources and the statuses are trailed,
\* pending events go.
Fail ==
  /\ machine.at = "run"
  /\ \E n \in 0 .. Len(trail) : trail' = SubSeq(trail, 1, n)
  /\ triggers' = <<>>
  /\ Reads("clear")
  /\ UNCHANGED <<signals, pool, handling, thread>>

Clear ==
  /\ machine.at = "clear"
  /\ toam_signal_vec' = machine.word \ {TRIGGER_ON}
  /\ Goes("run")
  /\ UNCHANGED <<in_critical_region, gc_is_working, mutex, pool, trail, triggers, handling, thread>>

\* An exception closes the region to the collector, its handler opens it.
Throw ==
  /\ machine.at = "run" /\ ~handling
  /\ handling' = TRUE /\ in_critical_region' = TRUE
  /\ UNCHANGED <<toam_signal_vec, gc_is_working, mutex, pool, trail, triggers, machine, thread>>

c_end_critical_region ==
  /\ machine.at = "run" /\ handling
  /\ handling' = FALSE /\ in_critical_region' = FALSE
  /\ UNCHANGED <<toam_signal_vec, gc_is_working, mutex, pool, trail, triggers, machine, thread>>

\* garbage_collector: the test, the flag, and the end or the return for lack of memory.
CollectorTests ==
  /\ machine.at = "run" /\ toam_signal_vec = {} /\ ~in_critical_region
  /\ Goes("gc")
  /\ UNCHANGED <<signals, pool, trail, triggers, handling, thread>>

CollectorStarts ==
  /\ machine.at = "gc" /\ gc_is_working' = TRUE
  /\ Goes("collect")
  /\ UNCHANGED <<toam_signal_vec, in_critical_region, mutex, pool, trail, triggers, handling, thread>>

CollectorEnds ==
  /\ machine.at = "collect"
  /\ gc_is_working' \in IF CollectorFails THEN BOOLEAN ELSE {FALSE}
  /\ Goes("run")
  /\ UNCHANGED <<toam_signal_vec, in_critical_region, mutex, pool, trail, triggers, handling, thread>>

-----------------------------------------------------------------------------
(* Creating and killing timers.                                            *)

\* c_timer up to register_event_source
c_timer(t) ==
  /\ machine.at = "run" /\ {u \in Timers : thread[u] = NoThread} = t .. MaxTimers
  /\ in_critical_region' = TRUE
  /\ machine' = [at |-> "register", word |-> {}, timer |-> t]
  /\ UNCHANGED <<toam_signal_vec, gc_is_working, mutex, pool, trail, triggers, handling, thread>>

\* register_event_source; nothing in it depends on what other threads do meanwhile.
Register ==
  /\ machine.at = "register" /\ mutex = Nobody
  /\ trail' = Append(trail, <<"registered", machine.timer>>)
  /\ Goes("create")
  /\ UNCHANGED <<signals, pool, triggers, handling, thread>>

CreateThread ==
  /\ machine.at = "create"
  /\ thread' = [thread EXCEPT ![machine.timer].at = "enter"]
  /\ Goes("created")
  /\ UNCHANGED <<signals, pool, trail, triggers, handling>>

TimerCreated ==
  /\ machine.at = "created"
  /\ in_critical_region' = FALSE
  /\ machine' = [at |-> "run", word |-> {}, timer |-> Nobody]
  /\ UNCHANGED <<toam_signal_vec, gc_is_working, mutex, pool, trail, triggers, handling, thread>>

c_kill_timer(t) ==
  /\ machine.at = "run" /\ t \in registered \ killed
  /\ trail' = Append(trail, <<"killed", t>>)
  /\ UNCHANGED <<signals, pool, triggers, machine, handling, thread>>

-----------------------------------------------------------------------------
(* CATCH_WAKE_EVENT: what a call does first.                               *)

\* Mutant: the pool is looked at only when an event of the machine's own is posted too.
CatchOwnEvent ==
  /\ machine.at = "run" /\ toam_signal_vec /= {}
  /\ Goes(IF TRIGGER_ON \notin toam_signal_vec THEN "run"
          ELSE IF EVENT_POOL_NONEMPTY \in toam_signal_vec THEN "lock"
          ELSE IF triggers /= <<>> THEN "handle" ELSE "run")
  /\ UNCHANGED <<signals, pool, trail, triggers, handling, thread>>

CatchWakeEvent ==
  /\ machine.at = "run" /\ toam_signal_vec /= {}
  /\ Goes(IF EVENT_POOL_NONEMPTY \in toam_signal_vec THEN "lock"
          ELSE IF triggers /= <<>> THEN "handle" ELSE "run")
  /\ UNCHANGED <<signals, pool, trail, triggers, handling, thread>>

EnterPool ==
  /\ machine.at = "lock" /\ mutex = Nobody
  /\ mutex' = Machine
  /\ Goes("pool")
  /\ UNCHANGED <<toam_signal_vec, in_critical_region, gc_is_working, pool, trail, triggers, handling, thread>>

\* Mutant: the events of the pool are posted, and the bit for them is not set.
PostUnsignalled ==
  /\ machine.at = "pool"
  /\ triggers' = triggers \o Kept(SubSeq(event_pool, 1, event_count), registered)
  /\ toam_signal_vec' = toam_signal_vec \ {EVENT_POOL_NONEMPTY}
  /\ event_pool' = <<>> /\ event_count' = 0
  /\ mutex' = Nobody
  /\ Goes("run")
  /\ UNCHANGED <<in_critical_region, gc_is_working, trail, handling, thread>>

\* Mutant: events of timers that are no longer in the list are posted too.
PostUnregistered ==
  /\ machine.at = "pool"
  /\ triggers' = triggers \o SubSeq(event_pool, 1, event_count)
  /\ toam_signal_vec' = (toam_signal_vec \cup {TRIGGER_ON}) \ {EVENT_POOL_NONEMPTY}
  /\ event_pool' = <<>> /\ event_count' = 0
  /\ mutex' = Nobody
  /\ Goes(IF triggers' /= <<>> THEN "handle" ELSE "run")
  /\ UNCHANGED <<in_critical_region, gc_is_working, trail, handling, thread>>

\* Events of timers that are no longer in the list are skipped.
post_event_pool ==
  /\ machine.at = "pool"
  /\ LET ticks == Kept(SubSeq(event_pool, 1, event_count), registered)
         set == IF ticks = <<>> THEN {} ELSE {TRIGGER_ON}
     IN /\ triggers' = triggers \o ticks
        /\ toam_signal_vec' = (toam_signal_vec \cup set) \ {EVENT_POOL_NONEMPTY}
  /\ event_pool' = <<>> /\ event_count' = 0   \* slots from event_count on are never read
  /\ mutex' = Nobody
  /\ Goes(IF triggers' /= <<>> THEN "handle" ELSE "run")
  /\ UNCHANGED <<in_critical_region, gc_is_working, trail, handling, thread>>

\* trigger_on_handler
Handle ==
  /\ machine.at = "handle"
  /\ triggers' = <<>>
  /\ Reads("clear")
  /\ UNCHANGED <<signals, pool, trail, handling, thread>>

-----------------------------------------------------------------------------
(* timerThread: it looks for its timer before it sleeps, and again after.  *)

At(t, place) == thread[t].at = place
Moves(t, place) == thread' = [thread EXCEPT ![t].at = place, ![t].word = {}]

\* Mutant: the thread does not wait for the mutex.
EnterUnasked(t) ==
  /\ At(t, "enter")
  /\ mutex' = t
  /\ Moves(t, "wait")
  /\ UNCHANGED <<toam_signal_vec, in_critical_region, gc_is_working, pool, trail, triggers, machine, handling>>

Enter(t) ==
  /\ At(t, "enter") /\ mutex = Nobody
  /\ mutex' = t
  /\ Moves(t, "wait")
  /\ UNCHANGED <<toam_signal_vec, in_critical_region, gc_is_working, pool, trail, triggers, machine, handling>>

\* busy waiting
CollectorRests(t) ==
  /\ At(t, "wait") /\ ~gc_is_working
  /\ Moves(t, "claim")
  /\ UNCHANGED <<signals, pool, trail, triggers, machine, handling>>

Claim(t) ==
  /\ At(t, "claim")
  /\ in_critical_region' = TRUE
  /\ Moves(t, "region")
  /\ UNCHANGED <<toam_signal_vec, gc_is_working, mutex, pool, trail, triggers, machine, handling>>

\* cg_lookup_component, and the status when the interval is over
LookUp(t) ==
  /\ At(t, "region")
  /\ Moves(t, IF t \notin registered THEN "exit"
              ELSE IF thread[t].look = 1 THEN "leave"
              ELSE IF t \in killed THEN "exit" ELSE "add")
  /\ UNCHANGED <<signals, pool, trail, triggers, machine, handling>>

add_to_event_pool(t) ==
  /\ At(t, "add")
  /\ IF event_count = PoolSize THEN Moves(t, "leave") /\ UNCHANGED event_pool
     ELSE /\ event_pool' = Append(SubSeq(event_pool, 1, event_count), t)
          /\ Moves(t, "count")
  /\ UNCHANGED <<signals, event_count, trail, triggers, machine, handling>>

Count(t) ==
  /\ At(t, "count")
  /\ event_count' = event_count + 1
  /\ thread' = [thread EXCEPT ![t].at = "signal", ![t].word = toam_signal_vec]
  /\ UNCHANGED <<signals, event_pool, trail, triggers, machine, handling>>

Signal(t) ==
  /\ At(t, "signal")
  /\ toam_signal_vec' = thread[t].word \cup {EVENT_POOL_NONEMPTY}
  /\ Moves(t, "leave")
  /\ UNCHANGED <<in_critical_region, gc_is_working, mutex, pool, trail, triggers, machine, handling>>

\* Mutant: the thread sleeps in its critical section.
LeaveHolding(t) ==
  /\ At(t, "leave") \/ At(t, "exit")
  /\ in_critical_region' = FALSE /\ mutex' = IF At(t, "leave") THEN t ELSE Nobody
  /\ thread' = [thread EXCEPT ![t] = [at |-> IF At(t, "leave") THEN "wait" ELSE "done",
                                      look |-> 3 - thread[t].look, word |-> {}]]
  /\ UNCHANGED <<toam_signal_vec, gc_is_working, pool, trail, triggers, machine, handling>>

Leave(t) ==
  /\ At(t, "leave") \/ At(t, "exit")
  /\ in_critical_region' = FALSE /\ mutex' = Nobody
  /\ thread' = [thread EXCEPT ![t] = [at |-> IF At(t, "leave") THEN "enter" ELSE "done",
                                      look |-> 3 - thread[t].look, word |-> {}]]
  /\ UNCHANGED <<toam_signal_vec, gc_is_working, pool, trail, triggers, machine, handling>>

-----------------------------------------------------------------------------

timerThread(t) ==
  \/ Enter(t) \/ CollectorRests(t) \/ Claim(t) \/ LookUp(t)
  \/ add_to_event_pool(t) \/ Count(t) \/ Signal(t) \/ Leave(t)

\* What the machine does by itself once it has begun it.
Continue ==
  \/ TriggerOn \/ Clear \/ CollectorStarts \/ CollectorEnds
  \/ CreateThread \/ TimerCreated \/ post_event_pool \/ Handle

Next ==
  \/ PostEvent \/ Fail \/ Throw \/ c_end_critical_region \/ CollectorTests
  \/ Register \/ EnterPool \/ CatchWakeEvent \/ Continue
  \/ \E t \in Timers : c_timer(t) \/ c_kill_timer(t) \/ timerThread(t)

Spec == Init /\ [][Next]_vars

\* The program keeps making calls; a sleep ends, and the mutex goes to whoever keeps asking
\* for it: threads sleep between two uses of it.
FairSpec ==
  /\ Spec
  /\ WF_vars(Continue)
  /\ SF_vars(CatchWakeEvent \/ EnterPool \/ Register)
  /\ \A t \in Timers : SF_vars(timerThread(t))

-----------------------------------------------------------------------------
(* Properties.                                                             *)

Words == SUBSET {TRIGGER_ON, EVENT_POOL_NONEMPTY}
InPool(t) == thread[t].at \in {"wait", "claim", "region", "add", "count", "signal", "leave", "exit"}

\* Types, and mutual exclusion: exactly the holder of the mutex is inside ENTER_CRITICAL_SECTION,
\* so that what the pool holds below event_count is whole.
WellFormed ==
  /\ trail \in Seq({"registered", "killed"} \X Timers)
  /\ toam_signal_vec \in Words /\ machine.word \in Words /\ \A t \in Timers : thread[t].word \in Words
  /\ in_critical_region \in BOOLEAN /\ gc_is_working \in BOOLEAN /\ handling \in BOOLEAN
  /\ event_count \in 0 .. PoolSize
  /\ \A i \in 1 .. event_count : event_pool[i] \in Timers
  /\ \A t \in Timers : InPool(t) <=> mutex = t
  /\ machine.at = "pool" <=> mutex = Machine
  /\ mutex \in Timers \cup {Machine, Nobody}

\* A call looks at the queue of events only when toam_signal_vec is not zero: whatever the
\* threads write back into that word, between two calls it is not zero while an event waits in
\* the queue.
EventsSignalled == machine.at = "run" /\ triggers /= <<>> => toam_signal_vec /= {}

\* While a timer in the list has a running thread, a time-out in the pool is taken sooner or
\* later, also when the machine wrote an old word over the bit that tells of it: the next
\* time-out sets the bit again.  The exception is a pool that is full when the bit is lost, for
\* add_to_event_pool then returns before it sets the bit.
Ticking(t) == t \in registered \ killed /\ thread[t].at /= "done"
Forgotten ==
  /\ event_count = PoolSize /\ EVENT_POOL_NONEMPTY \notin toam_signal_vec
  /\ \A t \in Timers : thread[t].at /= "signal"
TicksServed ==
  event_count > 0 ~> event_count = 0 \/ Forgotten \/ ~ \E t \in Timers : Ticking(t)

\* The machine never waits for ever for a thread to leave the pool.
MachineGetsMutex == machine.at \in {"lock", "register"} ~> machine.at \notin {"lock", "register"}

\* No thread looks at the list of timers while the collector moves it.
CollectorAlone ==
  gc_is_working => \A t \in Timers : thread[t].at \notin {"region", "add", "count", "signal"}

\* With several steps for each operation, the pool is the queue that TickQueue describes.
Ticks == INSTANCE TickQueue
  WITH waiting <- SubSeq(event_pool, 1, event_count),
       handed <- Kept(triggers, Timers),
       known <- registered, Size <- PoolSize
Refines == Ticks!Spec
=============================================================================

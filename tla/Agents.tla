------------------------------- MODULE Agents -------------------------------
(***************************************************************************)
(* Agents (actors defined by action rules): the status word of suspension  *)
(* frames, the event queue, the trigger handler and the chain of woken     *)
(* frames (emu/toam.h, toam.c, emu_inst.h, term.h, event.h), under         *)
(* backtracking and cuts.                                                  *)
(*                                                                         *)
(* Program steps are nondeterministic: wherever inline code runs, any      *)
(* event may be posted, any call made, any rule of an agent apply or fail. *)
(* The local stack is a line of addresses; a larger one is newer (in the   *)
(* code the stack grows downwards and stamps are offsets from its base).   *)
(* Ordinary frames are not modelled, they only take up addresses.          *)
(***************************************************************************)
EXTENDS Naturals, Sequences, SequencesExt, Subsequences

CONSTANTS
    Frame,        \* calls that may become agents
    Channel,      \* attributed variables
    Programs,     \* programs: what the agents watch, which kinds of event are posted, whether
                  \* choice points are cut, and (a bound) how many events are posted
    MaxAddr,      \* bound: size of the local stack
    MaxTriggers,  \* size of the arrays that hold the events (basic.h: MAXTRIGGERS); as slot 0
                  \* is not used, they have room for one less
    Spare,        \* the kinds of events that, written one past the arrays, hit nothing that
                  \* the build has laid there
    MaxPosts      \* bound: number of events that any of them posts

Port == {"ins", "minmax", "dom", "outer_dom"}
InsKinds == {"var_ins", "dvar_ins"}
TermKinds == {"dom", "general"}
AllKinds == InsKinds \cup {"minmax"} \cup TermKinds

ASSUME AgentsAssumption ==
    /\ Programs \subseteq [watch : [Frame -> SUBSET (Channel \X Port)],
                             kinds : SUBSET AllKinds,
                             cuts : BOOLEAN,
                             posts : 0..MaxPosts]
    /\ {MaxAddr, MaxTriggers, MaxPosts} \subseteq Nat \ {0}
    /\ Spare \subseteq AllKinds
    /\ "lists" \notin Frame   \* a cell of the trail is a frame or this

VARIABLES
    program,     \* the program that runs
    at,          \* at[f]: address of f's suspension frame, 0 when f has none
    status,      \* status[f]: AR_STATUS, a tag and a stamp
    list,        \* list[c, p]: frames attached to port p of channel c, latest first
    trail,       \* cells to restore, oldest first
    choices,     \* choice points, oldest first
    chain,       \* activations on the active chain, the running one last
    queue,       \* triggeredCs, event_flag, event_object: the posted events
    triggering,  \* triggering_frame[]: addresses, which outlive their events
    cursor,      \* trigger_on_handler: event at hand, frames left; no = 0 outside
    posts,       \* number of events posted so far: the next event's identity
    owed,        \* history: activations that posted events still owe to agents
    gone         \* history: agents to which a normal rule has been applied

vars == <<program, at, status, list, trail, choices, chain, queue, triggering, cursor,
          posts, owed, gone>>
fixed == <<program, owed, gone>>

Word(tag, stamp) == [tag |-> tag, stamp |-> stamp]
Idle == [no |-> 0, rest |-> <<>>]

\* An activation: the frame or a clone of it, the event object it was woken with (0: none),
\* the queue it was woken from, and what it does next.
Activation(f, clone, obj, batch) ==
    [frame |-> f, clone |-> clone, obj |-> obj, batch |-> batch, pc |-> "head"]

-----------------------------------------------------------------------------
(* The machine's registers. *)

B == IF choices = <<>> THEN 0 ELSE Last(choices).at
Top == Max({0, B} \cup {at[f] : f \in Frame})

Running == IF chain = <<>> THEN "main" ELSE Last(chain).pc
Inline == cursor = Idle /\ Running # "head"      \* inline code runs
AtCall == Inline /\ queue = <<>>                 \* a call that found no event pending

\* The frame in AR, when it is a suspension frame.
RunningFrame == IF chain = <<>> \/ Last(chain).clone THEN {} ELSE {Last(chain).frame}

\* Choice points that the running activation has created and not cut.
OwnChoices == {i \in DOMAIN choices : Len(choices[i].chain) >= Len(chain)}

Init ==
    /\ program \in Programs
    /\ at = [f \in Frame |-> 0]
    /\ status = [f \in Frame |-> Word("start", 0)]
    /\ list = [cp \in Channel \X Port |-> <<>>]
    /\ trail = <<>>
    /\ choices = <<>>
    /\ chain = <<>>
    /\ queue = <<>>
    /\ triggering = [i \in 1..MaxTriggers |-> 0]
    /\ cursor = Idle
    /\ posts = 0
    /\ owed = {}
    /\ gone = {}

-----------------------------------------------------------------------------
(* Creating an agent: allocate_susp, delay and the trigger instructions.   *)
(* Events that were pending have been handled on entry to the call.        *)

Attach(f) ==
    /\ list' = [w \in DOMAIN list |-> IF w \in program.watch[f] THEN <<f>> \o list[w] ELSE list[w]]
    /\ trail' = Append(trail, [cell |-> "lists", old |-> list])

NewActor(f) ==
    /\ AtCall
    /\ at[f] = 0
    /\ \E a \in Top + 1..MaxAddr : at' = [at EXCEPT ![f] = a]
    /\ status' = [status EXCEPT ![f] = Word("run", 0)]
    /\ Attach(f)
    /\ chain' = Append(chain, [Activation(f, FALSE, 0, posts) EXCEPT !.pc = "body"])
    /\ UNCHANGED <<choices, queue, triggering, cursor, posts, fixed>>

-----------------------------------------------------------------------------
(* Posting events. Inline code posts; an event without watchers is not posted. *)

InBody(f) == \E i \in DOMAIN chain : chain[i].frame = f /\ chain[i].pc = "body"

\* The test for the full queue; and the slots, one less, unless what is behind them is spare.
\* Without a slot the event is written over something else: such runs are left out.
HasRoom == Len(queue) < MaxTriggers
HasSlot(kind) == HasRoom /\ (Len(queue) + 1 = MaxTriggers => kind \in Spare)

Post(c, p, kind, seeds) ==
    /\ Inline
    /\ kind \in program.kinds
    /\ posts < program.posts
    /\ list[c, p] # <<>>
    /\ HasSlot(kind)
    /\ queue' = Append(queue, [chan |-> c, port |-> p, kind |-> kind, obj |-> posts + 1])
    /\ posts' = posts + 1
    /\ \E seed \in seeds : triggering' = [triggering EXCEPT ![Len(queue) + 1] = seed]
    /\ owed' = owed \cup
         {[frame |-> f, obj |-> posts + 1, kind |-> kind, own |-> InBody(f)] :
            f \in {g \in Range(list[c, p]) : g \notin gone}}
    /\ UNCHANGED <<at, status, list, trail, choices, chain, cursor, gone, program>>

\* INSERT_TRIGGER_var_ins, of a variable without a domain or of two that are unified, leaves
\* triggering_frame[] alone; INSERT_TRIGGER_dvar_ins clears it.
PostVarIns(c) == Post(c, "ins", "var_ins", {triggering[Len(queue) + 1]})
PostDvarIns(c) == Post(c, "ins", "dvar_ins", {0})

\* INSERT_TRIGGER_minmax and INSERT_TRIGGER_minmax_checkseed, which names the running frame.
PostMinmax(c) == Post(c, "minmax", "minmax", {0} \cup {at[f] : f \in RunningFrame})

\* INSERT_TRIGGER_dom, INSERT_TRIGGER_outer_dom
PostDom(c, p) == Post(c, p, "dom", {triggering[Len(queue) + 1]})

\* INSERT_TRIGGER_dom and INSERT_TRIGGER_outer_dom with a full queue: the event is ignored.
IgnoreDom(c, p) ==
    /\ Inline
    /\ "dom" \in program.kinds
    /\ list[c, p] # <<>>
    /\ ~HasRoom
    /\ posts < program.posts /\ posts' = posts + 1
    /\ UNCHANGED <<at, status, list, trail, choices, chain, queue, triggering, cursor, fixed>>

\* INSERT_TRIGGER_event
PostGeneral(c) == Post(c, "dom", "general", {triggering[Len(queue) + 1]})

-----------------------------------------------------------------------------
(* CATCH_WAKE_EVENT and trigger_on_handler: events are taken from the last *)
(* posted to the first, and each woken frame goes on top of the chain, so  *)
(* that what was woken last runs first.                                    *)

Alive(f) == status[f].tag # "exit"

Forward(n) == queue[Len(queue) + 1 - n]
EventAt(n) == queue[n]
AtEvent(n) == [no |-> n, rest |-> list[EventAt(n).chan, EventAt(n).port]]

\* EVENT_GENERAL also compacts the list: dead frames are removed from it.
Compact(e) ==
    /\ list' = IF e.kind = "general"
               THEN [list EXCEPT ![<<e.chan, e.port>>] = Kept(@, {f \in Frame : Alive(f)})]
               ELSE list
    /\ trail' = IF list' = list THEN trail ELSE Append(trail, [cell |-> "lists", old |-> list])

\* At a return or at the entry of a call; what is on the chain by then is chain'.
CatchWake == cursor' = IF queue = <<>> THEN Idle ELSE AtEvent(Len(queue))

\* A call of an ordinary predicate: pending events are handled before its body.
Call ==
    /\ Inline
    /\ queue # <<>>
    /\ CatchWake
    /\ UNCHANGED <<at, status, list, trail, choices, chain, queue, triggering, posts, fixed>>

WokenBatch == posts - Len(queue)

WakeUntrailed(f, obj) ==
    /\ status[f].tag = "sleep"
    /\ status' = [status EXCEPT ![f].tag = "run"]
    /\ chain' = Append(chain, Activation(f, FALSE, obj, WokenBatch))
    /\ UNCHANGED trail

\* FRAME_IS_SLEEP: the status is trailed unless the frame is newer than the choice point or
\* already carries its stamp.
WakeSleeper(f, obj) ==
    LET trailed == at[f] < B /\ status[f].stamp # B IN
      /\ status[f].tag = "sleep"
      /\ trail' = IF trailed THEN Append(trail, [cell |-> f, old |-> status[f]]) ELSE trail
      /\ status' = [status EXCEPT ![f] = Word("run", IF trailed THEN B ELSE @.stamp)]
      /\ chain' = Append(chain, Activation(f, FALSE, obj, WokenBatch))

ConnectSleeper(f) ==
    \/ WakeSleeper(f, 0)
    \/ status[f].tag # "sleep" /\ UNCHANGED <<status, chain, trail>>

\* CONNECT_WOKEN_FRAME_ins
ConnectIns(f) ==
    \/ WakeSleeper(f, 0)
    \/ /\ status[f].tag \notin {"sleep", "exit"}
       /\ status' = [status EXCEPT ![f].tag = "reent"]
       /\ UNCHANGED <<chain, trail>>
    \/ status[f].tag = "exit" /\ UNCHANGED <<status, chain, trail>>

SkipWhenSeeded(f) ==
    \/ triggering[Len(queue)] = 0 /\ WakeSleeper(f, 0)
    \/ (triggering[Len(queue)] # 0 \/ status[f].tag # "sleep") /\ UNCHANGED <<status, chain, trail>>

\* CONNECT_WOKEN_FRAME_min_max, after the test against the last event's triggering frame
ConnectMinmax(f) ==
    LET skipped == at[f] = triggering[Len(queue)] IN
      \/ ~skipped /\ WakeSleeper(f, 0)
      \/ (skipped \/ status[f].tag # "sleep") /\ UNCHANGED <<status, chain, trail>>

ConnectUncloned(f, obj) ==
    \/ WakeSleeper(f, obj)
    \/ status[f].tag # "sleep" /\ UNCHANGED <<status, chain, trail>>

ConnectAgain(f, obj) ==
    \/ WakeSleeper(f, obj)
    \/ /\ status[f].tag = "run"
       /\ chain' = Append(chain, Activation(f, FALSE, obj, WokenBatch))
       /\ UNCHANGED <<status, trail>>
    \/ status[f].tag \notin {"sleep", "run"} /\ UNCHANGED <<status, chain, trail>>

ConnectMarkingOriginal(f, obj) ==
    \/ WakeSleeper(f, obj)
    \/ /\ status[f].tag = "run"
       /\ chain' = Append(chain, Activation(f, TRUE, obj, WokenBatch))
       /\ status' = [status EXCEPT ![f].tag = "clone"]
       /\ UNCHANGED trail
    \/ status[f].tag \notin {"sleep", "run"} /\ UNCHANGED <<status, chain, trail>>

\* CONNECT_WOKEN_FRAME_dom
ConnectDom(f, obj) ==
    \/ WakeSleeper(f, obj)
    \/ /\ status[f].tag = "run"
       /\ chain' = Append(chain, Activation(f, TRUE, obj, WokenBatch))
       /\ UNCHANGED <<status, trail>>
    \/ status[f].tag \notin {"sleep", "run"} /\ UNCHANGED <<status, chain, trail>>

Connect ==
    /\ cursor.rest # <<>>
    /\ LET f == Head(cursor.rest)
           e == EventAt(cursor.no)
       IN  \/ e.kind \in InsKinds /\ ConnectIns(f)
           \/ e.kind = "minmax" /\ ConnectMinmax(f)
           \/ e.kind \in TermKinds /\ ConnectDom(f, e.obj)
    /\ cursor' = [cursor EXCEPT !.rest = Tail(@)]
    /\ UNCHANGED <<at, list, choices, queue, triggering, posts, fixed>>

NextEvent ==
    /\ cursor.no > 1 /\ cursor.rest = <<>>
    /\ Compact(EventAt(cursor.no))
    /\ cursor' = AtEvent(cursor.no - 1)
    /\ UNCHANGED <<at, status, choices, chain, queue, triggering, posts, fixed>>

HandlerDone ==
    /\ cursor.no = 1 /\ cursor.rest = <<>>
    /\ Compact(EventAt(1))
    /\ queue' = <<>>
    /\ cursor' = Idle
    /\ UNCHANGED <<at, status, choices, chain, triggering, posts, fixed>>

-----------------------------------------------------------------------------
(* Running a woken agent.                                                  *)

AtHead == cursor = Idle /\ Running = "head"
GoTo(pc) == chain' = [chain EXCEPT ![Len(chain)].pc = pc]

\* What the activation at the head settles: its own event, and, for the frame itself, every
\* event that only asks the agent to look at its variables again.
Settles(o) ==
    LET a == Last(chain) IN
      /\ o.frame = a.frame
      /\ o.obj = a.obj \/ (~a.clone /\ o.kind \notin TermKinds)

\* An action rule applies: delay jumps to the rule's body.
SelectAction ==
    /\ AtHead
    /\ GoTo("body")
    /\ owed' = {o \in owed : ~Settles(o)}
    /\ UNCHANGED <<at, status, list, trail, choices, queue, triggering, cursor, posts, gone, program>>

\* A normal rule applies: end_delay kills the frame, but not the frame of a clone.
SelectNormal ==
    /\ AtHead
    /\ GoTo("exit")
    /\ status' = IF Last(chain).clone THEN status
                 ELSE [status EXCEPT ![Last(chain).frame] = Word("exit", 0)]
    /\ gone' = gone \cup {Last(chain).frame}
    /\ owed' = {o \in owed : o.frame # Last(chain).frame}
    /\ UNCHANGED <<at, list, trail, choices, queue, triggering, cursor, posts, program>>

KillAnywhere ==
    /\ Inline /\ Running = "body"
    /\ \E f \in RunningFrame :
         /\ status' = [status EXCEPT ![f] = Word("exit", 0)]
         /\ gone' = gone \cup {f}
         /\ owed' = {o \in owed : o.frame # f}
    /\ UNCHANGED <<at, list, trail, choices, chain, queue, triggering, cursor, posts, program>>

\* KILL_SUSP_FRAME: a propagator whose constraint is entailed kills its own frame. Its body is
\* a call of a C function, which leaves no choice point.
Kill ==
    /\ Inline /\ Running = "body"
    /\ OwnChoices = {}
    /\ \E f \in RunningFrame :
         /\ status' = [status EXCEPT ![f] = Word("exit", 0)]
         /\ gone' = gone \cup {f}
         /\ owed' = {o \in owed : o.frame # f}
    /\ UNCHANGED <<at, list, trail, choices, chain, queue, triggering, cursor, posts, program>>

\* return_delay at the end of an action rule's body, which has been made deterministic.
ReturnDelay ==
    /\ Inline /\ Running = "body"
    /\ OwnChoices = {}
    /\ LET a == Last(chain)
           below == Front(chain)
           word == status[a.frame]
       IN  \/ /\ ~a.clone /\ word.tag = "run"
              /\ chain' = below
              /\ status' = [status EXCEPT ![a.frame].tag = "sleep"]
           \/ /\ ~a.clone /\ word.tag = "reent"
              /\ chain' = Append(below, [a EXCEPT !.pc = "head", !.obj = 0])
              /\ status' = [status EXCEPT ![a.frame].tag = "run"]
           \/ a.clone /\ chain' = below /\ UNCHANGED status
           \/ ~a.clone /\ word.tag = "exit" /\ chain' = below /\ UNCHANGED status
    /\ CatchWake
    /\ UNCHANGED <<at, list, trail, choices, queue, triggering, posts, fixed>>

\* return_commit at the end of a normal rule's body
ReturnCommit ==
    /\ Inline /\ Running = "exit"
    /\ OwnChoices = {}
    /\ chain' = Front(chain)
    /\ CatchWake
    /\ UNCHANGED <<at, status, list, trail, choices, queue, triggering, posts, fixed>>

-----------------------------------------------------------------------------
(* Choice points.                                                          *)

\* allocate_nondet: events have been handled before the frame becomes a choice point.
Choice ==
    /\ AtCall
    /\ \E a \in Top + 1..MaxAddr :
         choices' = Append(choices,
                      [at |-> a, trail |-> Len(trail), chain |-> chain,
                       owed |-> owed, gone |-> gone])
    /\ UNCHANGED <<at, status, list, trail, chain, queue, triggering, cursor, posts, fixed>>

\* CUT: back to one of the choice points that were there when the activation began, or later
Cut ==
    /\ program.cuts /\ Inline
    /\ \E n \in 0..Len(choices) - 1 :
         /\ n + 1..Len(choices) \subseteq OwnChoices
         /\ choices' = SubSeq(choices, 1, n)
    /\ UNCHANGED <<at, status, list, trail, chain, queue, triggering, cursor, posts, fixed>>

\* UNDO of the trail down to length t: the oldest of the popped entries of a cell wins.
Popped(t, cell) == {i \in t + 1..Len(trail) : trail[i].cell = cell}
Restored(t, cell, now) ==
    IF Popped(t, cell) = {} THEN now ELSE trail[Min(Popped(t, cell))].old

\* fail: to the latest choice point, which its last alternative removes. The queue is dropped.
Fail ==
    /\ cursor = Idle
    /\ choices # <<>>
    /\ LET cp == Last(choices) IN
         /\ at' = [f \in Frame |-> IF at[f] > cp.at THEN 0 ELSE at[f]]
         /\ status' = [f \in Frame |-> IF at[f] > cp.at THEN Word("start", 0)
                                       ELSE Restored(cp.trail, f, status[f])]
         /\ list' = Restored(cp.trail, "lists", list)
         /\ trail' = SubSeq(trail, 1, cp.trail)
         /\ choices' \in {choices, Front(choices)}
         /\ chain' = cp.chain
         /\ owed' = cp.owed
         /\ gone' = cp.gone
    /\ queue' = <<>>
    /\ UNCHANGED <<triggering, cursor, posts, program>>

-----------------------------------------------------------------------------
Next ==
    \/ \E f \in Frame : NewActor(f)
    \/ \E c \in Channel : PostVarIns(c) \/ PostDvarIns(c) \/ PostMinmax(c) \/ PostGeneral(c)
    \/ \E c \in Channel, p \in {"dom", "outer_dom"} : PostDom(c, p) \/ IgnoreDom(c, p)
    \/ Call
    \/ Connect
    \/ NextEvent
    \/ HandlerDone
    \/ SelectAction
    \/ SelectNormal
    \/ Kill
    \/ ReturnDelay
    \/ ReturnCommit
    \/ Choice
    \/ Cut
    \/ Fail

Spec == Init /\ [][Next]_vars

-----------------------------------------------------------------------------
(* Properties.                                                             *)

\* Every variable holds values of the kind its comment states.
TypeOK ==
    LET Act == [frame : Frame, clone : BOOLEAN, obj : 0..MaxPosts, batch : 0..MaxPosts,
                pc : {"head", "body", "exit"}]
        Owed == [frame : Frame, obj : 1..MaxPosts, kind : AllKinds, own : BOOLEAN]
    IN  /\ program \in Programs
        /\ at \in [Frame -> 0..MaxAddr]
        /\ status \in [Frame -> [tag : {"start", "reent", "sleep", "run", "exit"},
                                 stamp : 0..MaxAddr]]
        /\ list \in [Channel \X Port -> Seq(Frame)]
        /\ \A i \in DOMAIN trail : trail[i].cell \in Frame \cup {"lists"}
        /\ choices \in Seq([at : 1..MaxAddr, trail : Nat, chain : Seq(Act),
                            owed : SUBSET Owed, gone : SUBSET Frame])
        /\ chain \in Seq(Act)
        /\ queue \in Seq([chan : Channel, port : Port, kind : AllKinds, obj : 1..MaxPosts])
        /\ Len(queue) <= MaxTriggers
        /\ triggering \in [1..MaxTriggers -> 0..MaxAddr]
        /\ cursor \in [no : 0..MaxTriggers, rest : Seq(Frame)]
        /\ posts \in 0..MaxPosts
        /\ owed \subseteq Owed
        /\ gone \subseteq Frame

OnChain(f) == {i \in DOMAIN chain : chain[i].frame = f /\ ~chain[i].clone}

\* A frame is on the active chain at most once, and not at all while it sleeps, through every
\* mix of wake-ups, nested handlers, re-entries and backtracking: connecting it a second time
\* would overwrite its AR_AR and AR_CPS and close the chain into a loop.
OnChainOnce ==
    \A f \in Frame :
      /\ \A i, j \in OnChain(f) : i = j
      /\ status[f].tag \in {"start", "sleep"} => OnChain(f) = {}

\* The frames, the words and the chain that the machine runs on are whole.
WellFormed == TypeOK /\ OnChainOnce

\* A frame marked as running or to be re-entered is on the active chain. Otherwise the agent
\* is lost: bound events ignore it, ins events only mark it, and nothing ever returns from it.
RunnersOnChain ==
    \A f \in Frame : status[f].tag \in {"run", "reent"} => OnChain(f) # {}

\* The same for programs that do not cut choice points.
UncutRunnersOnChain == ~program.cuts => RunnersOnChain

\* Programs in which no frame is cloned, and of agents that only take terms.
Uncloned == ~program.cuts /\ program.kinds \cap TermKinds = {}
TermsOnly == ~program.cuts /\ program.kinds \subseteq TermKinds

\* Programs of propagators whose variables are bound to integers and not unified.
BoundsOnly == Uncloned /\ "var_ins" \notin program.kinds

\* Where no frame is cloned, an agent is dead exactly when a normal rule has been applied to
\* it on the current branch: backtracking revives those killed since the choice point, and
\* only those.
VanishedIsDead ==
    Uncloned => \A f \in Frame : at[f] # 0 => (status[f].tag = "exit" <=> f \in gone)

\* Status words tell the truth: an agent is marked as running or as dead only when it is.
StatusIsTrue == UncutRunnersOnChain /\ VanishedIsDead

Settled == cursor = Idle /\ queue = <<>>
Pending(f) == \E i \in OnChain(f) : chain[i].pc = "head" \/ status[f].tag = "reent"

\* Between handlers, an agent that is owed a wake-up by the instantiation of a variable is at
\* its head or will be re-entered when it returns.
NoLostIns ==
    ~program.cuts /\ Settled => \A o \in owed : o.kind \in InsKinds => Pending(o.frame)

\* The same for bound events, except those that were posted while the agent was inside its
\* own body.
NoLostBound ==
    Settled => \A o \in owed : o.kind = "minmax" /\ ~o.own => Pending(o.frame)

\* The same where every event names its triggering frame, or that there is none.
NoLostBoundOfDvars == BoundsOnly => NoLostBound

\* What a propagator relies on: it looks at its variables after each change of them.
NoLostWakeUp == NoLostIns /\ NoLostBoundOfDvars

\* Every event posted to the dom port has an activation of its own waiting for each agent.
NoLostTerm ==
    Settled => \A o \in owed : o.kind \in TermKinds =>
                 \E i \in DOMAIN chain : /\ chain[i].frame = o.frame
                                         /\ chain[i].obj = o.obj
                                         /\ chain[i].pc = "head"

\* The same for channels, to which only terms are posted.
NoLostTermOfChannels == TermsOnly => NoLostTerm

\* No agent waits for something that has happened.
NothingLost == NoLostWakeUp /\ NoLostTermOfChannels

\* Events posted one after the other are received in that order: of two waiting activations
\* from the same queue, the one nearer the top of the chain has the earlier event.
InPostingOrder ==
    \A i, j \in DOMAIN chain :
      (/\ i < j
       /\ chain[i].frame = chain[j].frame
       /\ chain[i].batch = chain[j].batch
       /\ chain[i].pc = "head" /\ chain[j].pc = "head"
       /\ chain[i].obj # 0 /\ chain[j].obj # 0)
        => chain[j].obj < chain[i].obj

=============================================================================

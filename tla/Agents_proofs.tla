---------------------------- MODULE Agents_proofs ----------------------------
(***************************************************************************)
(* The invariants of Agents, for all programs, frames and bounds: what     *)
(* holds whatever is cut, and then what holds where nothing is.            *)
(***************************************************************************)
EXTENDS Agents, Subsequences_proofs

-----------------------------------------------------------------------------
(* The inductive invariant.                                                *)

Lists == [Channel \X Port -> Seq(Frame)]
Stamps == 0 .. MaxAddr
Words == [tag : {"start", "reent", "sleep", "run", "exit"}, stamp : Stamps]
Acts == [frame : Frame, clone : BOOLEAN, obj : 0 .. MaxPosts, batch : 0 .. MaxPosts,
         pc : {"head", "body", "exit"}]
Debts == [frame : Frame, obj : 1 .. MaxPosts, kind : AllKinds, own : BOOLEAN]
Points == [at : 1 .. MaxAddr, trail : Nat, chain : Seq(Acts), owed : SUBSET Debts,
           gone : SUBSET Frame]
Entries == [cell : Frame, old : [tag : {"sleep"}, stamp : Stamps]] \cup
           [cell : {"lists"}, old : Lists]

\* Only the words of sleeping frames are trailed.
Types == TypeOK /\ trail \in Seq(Entries)

\* OnChain of any chain, Popped of any trail, and Restored.
On(c, f) == {i \in DOMAIN c : c[i].frame = f /\ ~c[i].clone}
Pops(tr, t, cell) == {i \in t + 1 .. Len(tr) : tr[i].cell = cell}
Back(tr, t, cell, now) ==
  IF Pops(tr, t, cell) = {} THEN now ELSE tr[Min(Pops(tr, t, cell))].old

\* What Fail would restore if choice point i were the latest.
Old(i, f) == at[f] <= choices[i].at
WasStatus(i, f) ==
  IF Old(i, f) THEN Back(trail, choices[i].trail, f, status[f]) ELSE Word("start", 0)
WasList(i) == Back(trail, choices[i].trail, "lists", list)

\* A frame that has no address has not been called, and no two have the same.
Placed ==
  /\ \A f \in Frame : at[f] = 0 <=> status[f].tag = "start"
  /\ \A f, g \in Frame : at[f] = at[g] /\ at[f] # 0 => f = g

\* Choice points are older the lower they are, and frames are not where one is.
Stacked ==
  /\ \A i, j \in DOMAIN choices : i < j =>
       /\ choices[i].at < choices[j].at
       /\ choices[i].trail <= choices[j].trail
       /\ Len(choices[i].chain) <= Len(choices[j].chain)
  /\ \A i \in DOMAIN choices : choices[i].trail <= Len(trail)
  /\ \A i \in DOMAIN choices, f \in Frame : at[f] # choices[i].at

\* The chain that a choice point has saved is still there, under what was woken since, and
\* inline code was running on it.
Begins(c, d) == Len(c) <= Len(d) /\ \A k \in 1 .. Len(c) : c[k] = d[k]
ChainsKept ==
  \A i \in DOMAIN choices :
    LET c == choices[i].chain IN
      /\ Begins(c, chain)
      /\ c # <<>> => c[Len(c)].pc # "head"
      /\ \A f \in Frame : On(c, f) # {} => Old(i, f) /\ Pops(trail, choices[i].trail, f) = {}

\* The trail has words of frames that are there, and that were when a later choice point came.
TrailIsOld ==
  \A k \in DOMAIN trail : trail[k].cell # "lists" =>
    /\ at[trail[k].cell] # 0
    /\ \A i \in DOMAIN choices : k <= choices[i].trail => Old(i, trail[k].cell)

\* Each list of watchers has frames that are there, and each of them once.
Once(s) == \A i, j \in DOMAIN s : s[i] = s[j] => i = j
Watchers(s) == Once(s) /\ \A k \in DOMAIN s : at[s[k]] # 0
ListsNow == (\A w \in Channel \X Port : Watchers(list[w])) /\ Watchers(cursor.rest)
ListsSaved ==
  \A i \in DOMAIN choices, w \in Channel \X Port :
    LET s == WasList(i)[w] IN Once(s) /\ \A k \in DOMAIN s : at[s[k]] # 0 /\ Old(i, s[k])

\* Events are handled before what they woke runs, and the handler has some. All have been
\* posted.
EventsFirst ==
  /\ Len(queue) <= posts
  /\ cursor = Idle /\ queue # <<>> => Running # "head"
  /\ cursor # Idle => cursor.no \in 1 .. Len(queue)

Saved == Stacked /\ ChainsKept /\ TrailIsOld /\ ListsSaved
Core == Types /\ OnChainOnce /\ Placed /\ EventsFirst /\ ListsNow /\ Saved

\* The posted events are in order, and what the chain has of earlier queues is known by its
\* batch.
InOrder ==
  /\ \A k \in DOMAIN queue : queue[k].obj <= posts
  /\ \A j, k \in DOMAIN queue : j < k => queue[j].obj < queue[k].obj
  /\ \A j \in DOMAIN chain : chain[j].obj # 0 =>
       /\ chain[j].batch <= WokenBatch
       /\ chain[j].batch = WokenBatch =>
            /\ cursor # Idle
            /\ queue[cursor.no].obj <= chain[j].obj
            /\ chain[j].obj = queue[cursor.no].obj => chain[j].frame \notin Range(cursor.rest)
  /\ InPostingOrder

-----------------------------------------------------------------------------
(* Types, one by one.                                                      *)

Events == [chan : Channel, port : Port, kind : AllKinds, obj : 1 .. MaxPosts]

\* The bounds are positive numbers.
LEMMA Bounds == MaxAddr \in Nat \ {0} /\ MaxTriggers \in Nat \ {0} /\ MaxPosts \in Nat \ {0}
BY AgentsAssumption

\* Types is what each variable holds.
LEMMA TypesAre ==
  Types <=>
    /\ program \in Programs
    /\ at \in [Frame -> Stamps]
    /\ status \in [Frame -> Words]
    /\ list \in Lists
    /\ trail \in Seq(Entries)
    /\ choices \in Seq(Points)
    /\ chain \in Seq(Acts)
    /\ queue \in Seq(Events) /\ Len(queue) <= MaxTriggers
    /\ triggering \in [1 .. MaxTriggers -> Stamps]
    /\ cursor \in [no : 0 .. MaxTriggers, rest : Seq(Frame)]
    /\ posts \in 0 .. MaxPosts
    /\ owed \in SUBSET Debts /\ gone \in SUBSET Frame
<1>1. ASSUME trail \in Seq(Entries)
      PROVE  \A i \in DOMAIN trail : trail[i].cell \in Frame \cup {"lists"}
  <2> SUFFICES ASSUME NEW i \in DOMAIN trail PROVE trail[i].cell \in Frame \cup {"lists"}
    OBVIOUS
  <2>1. trail[i] \in Entries
    BY <1>1
  <2> QED
    BY <2>1 DEF Entries
<1> QED
  BY <1>1 DEF Types, TypeOK, Stamps, Words, Lists, Points, Acts, Debts, Events

-----------------------------------------------------------------------------
(* What Restored finds, for any trail.                                     *)

\* The first of the entries of a cell above t.
LEMMA FirstPop ==
  ASSUME NEW tr \in Seq(Entries), NEW t \in Nat, NEW cell, Pops(tr, t, cell) # {}
  PROVE  /\ Min(Pops(tr, t, cell)) \in Pops(tr, t, cell)
         /\ \A k \in Pops(tr, t, cell) : Min(Pops(tr, t, cell)) <= k
<1>1. Pops(tr, t, cell) \subseteq Nat
  BY DEF Pops
<1> QED
  BY <1>1, MinOfNaturals

\* It is the entry of the cell above t with no other in between.
LEMMA BackIs ==
  ASSUME NEW tr \in Seq(Entries), NEW t \in Nat, NEW cell, NEW now,
         NEW k \in Pops(tr, t, cell), \A j \in Pops(tr, t, cell) : k <= j
  PROVE  Back(tr, t, cell, now) = tr[k].old
<1>1. Pops(tr, t, cell) \subseteq Nat
  BY DEF Pops
<1>2. Min(Pops(tr, t, cell)) = k
  BY <1>1, FirstPop
<1> QED
  BY <1>2 DEF Back

\* Nothing lies above the end of a trail: the present word is what is restored.
LEMMA BackAtEnd ==
  ASSUME NEW tr \in Seq(Entries), NEW cell, NEW now
  PROVE  Pops(tr, Len(tr), cell) = {} /\ Back(tr, Len(tr), cell, now) = now
BY DEF Pops, Back

\* An entry of another cell changes nothing.
LEMMA BackOther ==
  ASSUME NEW tr \in Seq(Entries), NEW e \in Entries, NEW t \in Nat, t <= Len(tr),
         NEW cell, e.cell # cell, NEW now
  PROVE  /\ Pops(Append(tr, e), t, cell) = Pops(tr, t, cell)
         /\ Back(Append(tr, e), t, cell, now) = Back(tr, t, cell, now)
<1> DEFINE r == Append(tr, e)
<1>1. Len(r) = Len(tr) + 1 /\ r[Len(tr) + 1] = e /\ \A k \in 1 .. Len(tr) : r[k] = tr[k]
  OBVIOUS
<1> HIDE DEF r
<1>2. Pops(r, t, cell) = Pops(tr, t, cell)
  BY <1>1 DEF Pops
<1>3. CASE Pops(tr, t, cell) = {}
  BY <1>2, <1>3 DEF Back, r
<1>4. CASE Pops(tr, t, cell) # {}
  <2> DEFINE m == Min(Pops(tr, t, cell))
  <2>1. m \in Pops(tr, t, cell)
    BY <1>4, FirstPop
  <2>2. Back(r, t, cell, now) = r[m].old /\ Back(tr, t, cell, now) = tr[m].old
    BY <1>2, <1>4 DEF Back
  <2> HIDE DEF m
  <2>3. m \in 1 .. Len(tr)
    BY <2>1 DEF Pops
  <2> QED
    BY <1>1, <1>2, <2>2, <2>3 DEF r
<1> QED
  BY <1>2, <1>3, <1>4 DEF r

\* An entry that has the present value changes nothing either, and from now on the present
\* value does not matter.
LEMMA BackSame ==
  ASSUME NEW tr \in Seq(Entries), NEW e \in Entries, NEW t \in Nat, t <= Len(tr),
         NEW now
  PROVE  /\ Pops(Append(tr, e), t, e.cell) # {}
         /\ Back(Append(tr, e), t, e.cell, now) = Back(tr, t, e.cell, e.old)
<1> DEFINE r == Append(tr, e)
           c == e.cell
<1>1. r \in Seq(Entries) /\ Len(r) = Len(tr) + 1 /\ r[Len(tr) + 1] = e /\ \A k \in 1 .. Len(tr) : r[k] = tr[k]
  OBVIOUS
<1> HIDE DEF r
<1>2. Pops(r, t, c) = Pops(tr, t, c) \cup {Len(tr) + 1}
  BY <1>1, SMTT(20) DEF Pops
<1>3. CASE Pops(tr, t, c) = {}
  <2>1. Back(r, t, c, now) = r[Len(tr) + 1].old
    BY <1>1, <1>2, <1>3, BackIs, SMTT(60)
  <2> QED
    BY <1>1, <1>2, <1>3, <2>1 DEF Back, r
<1>4. CASE Pops(tr, t, c) # {}
  <2> DEFINE m == Min(Pops(tr, t, c))
  <2>1. m \in Pops(tr, t, c) /\ \A k \in Pops(tr, t, c) : m <= k
    BY <1>4, FirstPop
  <2> HIDE DEF m
  <2>2. m \in 1 .. Len(tr)
    BY <2>1 DEF Pops
  <2>3. Back(r, t, c, now) = r[m].old
    <3>1. m \in Pops(r, t, c) /\ \A k \in Pops(r, t, c) : m <= k
      BY <1>2, <2>1, <2>2
    <3> QED
      BY <1>1, <3>1, BackIs
  <2>4. Back(tr, t, c, e.old) = tr[m].old
    BY <1>4 DEF Back, m
  <2> QED
    BY <1>1, <1>2, <1>4, <2>2, <2>3, <2>4 DEF r
<1> QED
  BY <1>3, <1>4

\* Undoing in two steps is the same as in one.
LEMMA BackUndo ==
  ASSUME NEW tr \in Seq(Entries), NEW t \in Nat, NEW m \in Nat, t <= m, m <= Len(tr),
         NEW cell, NEW now
  PROVE  /\ Pops(SubSeq(tr, 1, m), t, cell) = {k \in Pops(tr, t, cell) : k <= m}
         /\ Back(SubSeq(tr, 1, m), t, cell, Back(tr, m, cell, now)) = Back(tr, t, cell, now)
<1> DEFINE r == SubSeq(tr, 1, m)
<1>1. r \in Seq(Entries) /\ Len(r) = m /\ \A k \in 1 .. m : r[k] = tr[k]
  OBVIOUS
<1> HIDE DEF r
<1>2. Pops(r, t, cell) = {k \in Pops(tr, t, cell) : k <= m}
  BY <1>1 DEF Pops
<1>3. Pops(tr, m, cell) = {k \in Pops(tr, t, cell) : k > m}
  BY DEF Pops
<1>4. CASE Pops(r, t, cell) = {}
  <2>1. Pops(tr, t, cell) = Pops(tr, m, cell)
    <3>1. \A k \in Pops(tr, t, cell) : k \in Nat
      BY DEF Pops
    <3> QED
      BY <1>2, <1>3, <1>4, <3>1
  <2> QED
    BY <1>2, <1>4, <2>1 DEF Back, r
<1>5. CASE Pops(r, t, cell) # {}
  <2> DEFINE n == Min(Pops(r, t, cell))
  <2>1. n \in Pops(r, t, cell) /\ \A k \in Pops(r, t, cell) : n <= k
    BY <1>1, <1>5, FirstPop
  <2>2. Back(r, t, cell, Back(tr, m, cell, now)) = r[n].old
    BY <1>5 DEF Back
  <2> HIDE DEF n
  <2>3. n \in Pops(tr, t, cell) /\ n \in 1 .. m /\ \A k \in Pops(tr, t, cell) : n <= k
    <3>1. \A k \in Pops(tr, t, cell) : k \in Nat
      BY DEF Pops
    <3>2. n \in 1 .. m
      BY <1>1, <2>1 DEF Pops
    <3> QED
      BY <1>2, <2>1, <3>1, <3>2
  <2>4. Back(tr, t, cell, now) = tr[n].old
    BY <2>3, BackIs
  <2> QED
    BY <1>1, <1>2, <2>2, <2>3, <2>4 DEF r
<1> QED
  BY <1>4, <1>5

\* Entries of frames hold words of sleeping frames, the others the lists.
LEMMA BackTypes ==
  ASSUME NEW tr \in Seq(Entries), NEW t \in Nat, NEW now
  PROVE  /\ \A f \in Frame :
              \/ Back(tr, t, f, now) = now
              \/ Pops(tr, t, f) # {} /\ Back(tr, t, f, now) \in [tag : {"sleep"}, stamp : Stamps]
         /\ now \in Lists => Back(tr, t, "lists", now) \in Lists
<1>1. ASSUME NEW cell, Pops(tr, t, cell) # {}
      PROVE  \E e \in Entries : e.cell = cell /\ Back(tr, t, cell, now) = e.old
  <2> DEFINE k == Min(Pops(tr, t, cell))
  <2>1. k \in Pops(tr, t, cell) /\ Back(tr, t, cell, now) = tr[k].old
    BY <1>1, FirstPop DEF Back
  <2> HIDE DEF k
  <2>2. k \in 1 .. Len(tr) /\ tr[k].cell = cell
    BY <2>1 DEF Pops
  <2>3. tr[k] \in Entries
    BY <2>2
  <2> QED
    BY <2>1, <2>2, <2>3
<1>2. ASSUME NEW f \in Frame, Pops(tr, t, f) # {}
      PROVE  Back(tr, t, f, now) \in [tag : {"sleep"}, stamp : Stamps]
  <2>1. PICK e \in Entries : e.cell = f /\ Back(tr, t, f, now) = e.old
    BY <1>1, <1>2
  <2>2. f # "lists"
    BY AgentsAssumption
  <2>3. e \in [cell : Frame, old : [tag : {"sleep"}, stamp : Stamps]]
    BY <2>1, <2>2 DEF Entries
  <2> QED
    BY <2>1, <2>3
<1>3. ASSUME now \in Lists PROVE Back(tr, t, "lists", now) \in Lists
  <2>1. CASE Pops(tr, t, "lists") = {}
    BY <1>3, <2>1 DEF Back
  <2>2. CASE Pops(tr, t, "lists") # {}
    <3>1. PICK e \in Entries : e.cell = "lists" /\ Back(tr, t, "lists", now) = e.old
      BY <1>1, <2>2
    <3>2. e \in [cell : {"lists"}, old : Lists]
      BY <3>1, AgentsAssumption DEF Entries
    <3> QED
      BY <3>1, <3>2
  <2> QED
    BY <2>1, <2>2
<1> QED
  BY <1>2, <1>3 DEF Back

-----------------------------------------------------------------------------
(* Steps other than Choice, Cut and Fail leave alone what is saved.        *)

\* What such a step does to what choice points have saved: it may start a frame on top of
\* them, put other activations above those they have, and append one entry to the trail.
Onward ==
  /\ choices' = choices
  /\ \A f \in Frame : at'[f] = at[f] \/ (at[f] = 0 /\ at'[f] > B)
  /\ \A i \in DOMAIN choices : Begins(choices[i].chain, chain')
  /\ \/ trail' = trail /\ list' = list
     \/ trail' = Append(trail, [cell |-> "lists", old |-> list])
     \/ \E f \in Frame : /\ status[f].tag = "sleep"
                         /\ trail' = Append(trail, [cell |-> f, old |-> status[f]])
                         /\ list' = list

\* The same of the next state.
LEMMA TypesAreNext ==
  Types' <=>
    /\ program' \in Programs
    /\ at' \in [Frame -> Stamps]
    /\ status' \in [Frame -> Words]
    /\ list' \in Lists
    /\ trail' \in Seq(Entries)
    /\ choices' \in Seq(Points)
    /\ chain' \in Seq(Acts)
    /\ queue' \in Seq(Events) /\ Len(queue') <= MaxTriggers
    /\ triggering' \in [1 .. MaxTriggers -> Stamps]
    /\ cursor' \in [no : 0 .. MaxTriggers, rest : Seq(Frame)]
    /\ posts' \in 0 .. MaxPosts
    /\ owed' \in SUBSET Debts /\ gone' \in SUBSET Frame
<1>1. ASSUME trail' \in Seq(Entries)
      PROVE  \A i \in DOMAIN trail' : trail'[i].cell \in Frame \cup {"lists"}
  <2> SUFFICES ASSUME NEW i \in DOMAIN trail' PROVE trail'[i].cell \in Frame \cup {"lists"}
    OBVIOUS
  <2>1. trail'[i] \in Entries
    BY <1>1
  <2> QED
    BY <2>1 DEF Entries
<1> QED
  BY <1>1 DEF Types, TypeOK, Stamps, Words, Lists, Points, Acts, Debts, Events

\* The parts of choice points.
LEMMA PointTypes ==
  ASSUME Types
  PROVE  /\ \A i \in DOMAIN choices :
              /\ choices[i] \in Points
              /\ choices[i].at \in 1 .. MaxAddr /\ choices[i].at \in Nat
              /\ choices[i].trail \in Nat /\ choices[i].chain \in Seq(Acts)
              /\ choices[i].owed \subseteq Debts /\ choices[i].gone \subseteq Frame
         /\ choices \in Seq(Points) /\ DOMAIN choices = 1 .. Len(choices) /\ Len(choices) \in Nat
<1>1. choices \in Seq(Points) /\ MaxAddr \in Nat
  BY TypesAre, Bounds
<1>2. \A i \in DOMAIN choices : choices[i] \in Points
  BY <1>1
<1> QED
  BY <1>1, <1>2 DEF Points

\* B is the address of the latest choice point, above that of all others.
LEMMA LatestIsB ==
  ASSUME Types, Stacked
  PROVE  /\ B \in Stamps /\ \A i \in DOMAIN choices : choices[i].at \in 1 .. MaxAddr /\ choices[i].at <= B
         /\ choices # <<>> => B = choices[Len(choices)].at /\ Len(choices) \in DOMAIN choices
<1>1. choices \in Seq(Points) /\ MaxAddr \in Nat
  BY TypesAre, Bounds
<1>2. CASE choices = <<>>
  BY <1>1, <1>2 DEF B, Stamps
<1>3. CASE choices # <<>>
  <2>1. Len(choices) \in 1 .. Len(choices) /\ DOMAIN choices = 1 .. Len(choices) /\ Len(choices) \in Nat
    BY <1>1, <1>3
  <2>2. \A i \in DOMAIN choices : choices[i] \in Points
    BY <1>1
  <2>3. \A i \in DOMAIN choices : choices[i].at \in 1 .. MaxAddr
    BY <2>2 DEF Points
  <2>4. B = choices[Len(choices)].at
    BY <1>3 DEF B, Last
  <2>5. ASSUME NEW i \in DOMAIN choices PROVE choices[i].at <= B
    <3>1. CASE i = Len(choices)
      BY <2>1, <2>3, <2>4, <3>1
    <3>2. CASE i < Len(choices)
      BY <2>1, <2>3, <2>4, <3>2 DEF Stacked
    <3> QED
      BY <2>1, <3>1, <3>2
  <2> QED
    BY <1>1, <2>1, <2>3, <2>4, <2>5 DEF Stamps
<1> QED
  BY <1>2, <1>3

\* The entries that such a step may append.
LEMMA EntryTypes ==
  ASSUME Types
  PROVE  /\ [cell |-> "lists", old |-> list] \in Entries
         /\ \A f \in Frame : status[f].tag = "sleep" => [cell |-> f, old |-> status[f]] \in Entries
<1>1. list \in Lists /\ \A f \in Frame : status[f] \in Words
  BY TypesAre
<1> QED
  BY <1>1 DEF Entries, Words

\* A frame on a chain that is saved is on the chain.
LEMMA SavedIsOnChain ==
  ASSUME Types, ChainsKept, NEW i \in DOMAIN choices, NEW f \in Frame
  PROVE  /\ On(choices[i].chain, f) \subseteq On(chain, f)
         /\ choices[i].chain \in Seq(Acts) /\ Len(choices[i].chain) <= Len(chain)
<1>1. choices[i].chain \in Seq(Acts) /\ chain \in Seq(Acts)
  BY TypesAre, PointTypes
<1>2. Begins(choices[i].chain, chain)
  BY DEF ChainsKept
<1> QED
  BY <1>1, <1>2 DEF On, Begins

\* Of the trail, and of the lists that choice points have saved.
LEMMA OnwardTrail ==
  ASSUME Core, Onward
  PROVE  /\ \A f \in Frame : On(chain, f) # {} => \A i \in DOMAIN choices :
              Pops(trail', choices[i].trail, f) = Pops(trail, choices[i].trail, f)
         /\ \A i \in DOMAIN choices : WasList(i)' = WasList(i)
         /\ \A k \in DOMAIN trail : trail'[k] = trail[k]
         /\ \A k \in DOMAIN trail' : k \in DOMAIN trail \/ (k = Len(trail) + 1 /\ (trail'[k].cell = "lists" \/
              \E f \in Frame : trail'[k].cell = f /\ status[f].tag = "sleep"))
         /\ trail' \in Seq(Entries) /\ Len(trail') \in Nat /\ Len(trail') >= Len(trail)
<1>1. trail \in Seq(Entries) /\ list \in Lists /\ \A i \in DOMAIN choices : choices[i].trail \in Nat
  BY TypesAre, PointTypes DEF Core
<1>2. \A i \in DOMAIN choices : choices[i].trail <= Len(trail)
  BY DEF Core, Saved, Stacked
<1>3. choices' = choices
  BY DEF Onward
<1>4. "lists" \notin Frame
  BY AgentsAssumption
<1>5. CASE trail' = trail /\ list' = list
  BY <1>1, <1>3, <1>5 DEF WasList
<1>6. CASE trail' = Append(trail, [cell |-> "lists", old |-> list])
  <2> DEFINE e == [cell |-> "lists", old |-> list]
  <2>1. e \in Entries
    BY EntryTypes DEF Core
  <2>2. e.cell = "lists" /\ e.old = list
    OBVIOUS
  <2>3. trail' = Append(trail, e)
    BY <1>6
  <2> HIDE DEF e
  <2>4. \A f \in Frame, i \in DOMAIN choices :
          Pops(trail', choices[i].trail, f) = Pops(trail, choices[i].trail, f)
    BY <1>1, <1>2, <1>4, <2>1, <2>2, <2>3, BackOther
  <2>5. \A i \in DOMAIN choices : WasList(i)' = WasList(i)
    <3>1. \A i \in DOMAIN choices :
            Back(trail', choices[i].trail, e.cell, list') = Back(trail, choices[i].trail, e.cell, e.old)
      BY <1>1, <1>2, <2>1, <2>3, BackSame
    <3> QED
      BY <1>3, <2>2, <3>1 DEF WasList
  <2> QED
    BY <1>1, <2>1, <2>2, <2>3, <2>4, <2>5
<1>7. ASSUME NEW g \in Frame, status[g].tag = "sleep",
             trail' = Append(trail, [cell |-> g, old |-> status[g]]), list' = list
      PROVE  /\ \A f \in Frame : On(chain, f) # {} => \A i \in DOMAIN choices :
                  Pops(trail', choices[i].trail, f) = Pops(trail, choices[i].trail, f)
             /\ \A i \in DOMAIN choices : WasList(i)' = WasList(i)
             /\ \A k \in DOMAIN trail : trail'[k] = trail[k]
             /\ \A k \in DOMAIN trail' : k \in DOMAIN trail \/ (k = Len(trail) + 1 /\ (trail'[k].cell = "lists" \/
                  \E f \in Frame : trail'[k].cell = f /\ status[f].tag = "sleep"))
             /\ trail' \in Seq(Entries) /\ Len(trail') \in Nat /\ Len(trail') >= Len(trail)
  <2> DEFINE e == [cell |-> g, old |-> status[g]]
  <2>1. e \in Entries
    BY <1>7, EntryTypes DEF Core
  <2>2. e.cell = g /\ trail' = Append(trail, e)
    BY <1>7
  <2> HIDE DEF e
  <2>3. On(chain, g) = {}
    BY <1>7 DEF Core, OnChainOnce, OnChain, On
  <2>4. \A f \in Frame : On(chain, f) # {} => \A i \in DOMAIN choices :
          Pops(trail', choices[i].trail, f) = Pops(trail, choices[i].trail, f)
    BY <1>1, <1>2, <2>1, <2>2, <2>3, BackOther
  <2>5. \A i \in DOMAIN choices : WasList(i)' = WasList(i)
    <3>1. "lists" # e.cell
      BY <1>4, <2>2
    <3>2. ASSUME NEW i \in DOMAIN choices
          PROVE  Back(trail', choices[i].trail, "lists", list) = Back(trail, choices[i].trail, "lists", list)
      <4>1. choices[i].trail \in Nat /\ choices[i].trail <= Len(trail)
        BY <1>1, <1>2
      <4> DEFINE t == choices[i].trail
                 c == "lists"
      <4>2. Back(Append(trail, e), t, c, list) = Back(trail, t, c, list)
        <5>1. t \in Nat /\ t <= Len(trail) /\ e.cell # c
          BY <4>1, <3>1
        <5> HIDE DEF t, c
        <5> QED
          BY <1>1, <2>1, <5>1, BackOther
      <4> QED
        BY <2>2, <4>2
    <3> QED
      BY <1>3, <1>7, <3>2 DEF WasList
  <2> QED
    BY <1>1, <1>7, <2>1, <2>2, <2>4, <2>5
<1> QED
  BY <1>5, <1>6, <1>7 DEF Onward

\* Frames that are there stay where they are.
LEMMA OnwardOld ==
  ASSUME Core, Types', Onward, NEW f \in Frame
  PROVE  /\ at[f] # 0 => at'[f] = at[f] /\ \A i \in DOMAIN choices : Old(i, f)' <=> Old(i, f)
         /\ at[f] = 0 /\ at'[f] # 0 => \A i \in DOMAIN choices : ~Old(i, f)'
<1>1. choices' = choices /\ (at'[f] = at[f] \/ (at[f] = 0 /\ at'[f] > B)) /\ at[f] \in Nat /\ at'[f] \in Nat
  BY TypesAre, TypesAreNext DEF Onward, Core, Stamps
<1>2. \A i \in DOMAIN choices : choices[i].at \in Nat /\ choices[i].at <= B /\ B \in Nat
  BY LatestIsB, Bounds DEF Core, Saved, Stamps
<1> QED
  BY <1>1, <1>2 DEF Old

\* What choice points have saved stays.
LEMMA OnwardKeeps ==
  ASSUME Core, Types', Onward
  PROVE  Saved'
<1>1. choices' = choices /\ choices \in Seq(Points)
  BY TypesAre DEF Onward, Core
<1>2. \A i \in DOMAIN choices : choices[i].at \in Nat /\ choices[i].at <= B /\ B \in Nat /\ choices[i].trail \in Nat
  BY LatestIsB, Bounds, PointTypes DEF Core, Saved, Stamps
<1>3. \A f \in Frame : at[f] \in Nat /\ at'[f] \in Nat /\ (at'[f] = at[f] \/ (at[f] = 0 /\ at'[f] > B))
  BY TypesAre, TypesAreNext DEF Onward, Core, Stamps
<1>4. Stacked'
  <2>1. Len(trail') \in Nat /\ Len(trail) \in Nat /\ Len(trail') >= Len(trail)
    BY OnwardTrail, TypesAre DEF Core
  <2> QED
    BY <1>1, <1>2, <1>3, <2>1 DEF Core, Saved, Stacked
<1>5. ChainsKept'
  <2> SUFFICES ASSUME NEW i \in DOMAIN choices
               PROVE  LET c == choices[i].chain IN
                        /\ Begins(c, chain')
                        /\ c # <<>> => c[Len(c)].pc # "head"
                        /\ \A f \in Frame : On(c, f) # {} => Old(i, f)' /\ Pops(trail', choices[i].trail, f) = {}
    BY <1>1 DEF ChainsKept
  <2>1. ASSUME NEW f \in Frame, On(choices[i].chain, f) # {}
        PROVE  Old(i, f)' /\ Pops(trail', choices[i].trail, f) = {}
    <3>1. On(chain, f) # {}
      BY <2>1, SavedIsOnChain DEF Core, Saved
    <3>2. at[f] # 0
      BY <3>1 DEF Core, OnChainOnce, OnChain, On, Placed
    <3>3. Old(i, f) /\ Pops(trail, choices[i].trail, f) = {}
      BY <2>1 DEF Core, Saved, ChainsKept
    <3> QED
      BY <3>1, <3>2, <3>3, OnwardOld, OnwardTrail
  <2> QED
    BY <2>1 DEF Onward, Core, Saved, ChainsKept
<1>6. TrailIsOld'
  <2> SUFFICES ASSUME NEW k \in DOMAIN trail', trail'[k].cell # "lists"
               PROVE  /\ at'[trail'[k].cell] # 0
                      /\ \A i \in DOMAIN choices : k <= choices[i].trail => at'[trail'[k].cell] <= choices[i].at
    BY <1>1 DEF TrailIsOld, Old
  <2>1. CASE k \in DOMAIN trail
    <3>1. trail'[k] = trail[k] /\ trail[k].cell \in Frame
      <4>1. trail[k] \in Entries
        BY <2>1, TypesAre DEF Core
      <4>2. trail'[k] = trail[k]
        BY <2>1, OnwardTrail
      <4> QED
        BY <4>1, <4>2 DEF Entries
    <3> DEFINE f == trail[k].cell
    <3>2. f \in Frame /\ f # "lists"
      BY <3>1, AgentsAssumption
    <3>3. at[f] # 0 /\ \A i \in DOMAIN choices : k <= choices[i].trail => at[f] <= choices[i].at
      BY <2>1, <3>2 DEF Core, Saved, TrailIsOld, Old
    <3> HIDE DEF f
    <3>4. at'[f] = at[f]
      BY <3>2, <3>3, OnwardOld
    <3> QED
      BY <3>1, <3>3, <3>4 DEF f
  <2>2. CASE k \notin DOMAIN trail
    <3>1. k = Len(trail) + 1 /\ \E f \in Frame : trail'[k].cell = f /\ status[f].tag = "sleep"
      BY <2>2, OnwardTrail
    <3>2. at'[trail'[k].cell] # 0
      BY <3>1, OnwardOld DEF Core, Placed
    <3>3. \A i \in DOMAIN choices : ~(k <= choices[i].trail)
      BY <1>2, <3>1, TypesAre DEF Core, Saved, Stacked
    <3> QED
      BY <3>2, <3>3
  <2> QED
    BY <2>1, <2>2
<1>7. ListsSaved'
  <2> SUFFICES ASSUME NEW i \in DOMAIN choices, NEW w \in Channel \X Port
               PROVE  LET s == WasList(i)[w]
                      IN Once(s) /\ \A k \in DOMAIN s : at'[s[k]] # 0 /\ at'[s[k]] <= choices[i].at
    BY <1>1, OnwardTrail DEF ListsSaved, Old
  <2> DEFINE s == WasList(i)[w]
  <2>1. s \in Seq(Frame)
    <3>1. WasList(i) \in Lists
      BY <1>2, BackTypes, TypesAre DEF WasList, Core
    <3> QED
      BY <3>1 DEF Lists
  <2>2. Once(s) /\ \A k \in DOMAIN s : at[s[k]] # 0 /\ Old(i, s[k])
    BY DEF Core, Saved, ListsSaved
  <2> HIDE DEF s
  <2>3. ASSUME NEW k \in DOMAIN s PROVE at'[s[k]] # 0 /\ at'[s[k]] <= choices[i].at
    <3> DEFINE f == s[k]
    <3>1. f \in Frame /\ at[f] # 0 /\ Old(i, f)
      BY <2>1, <2>2
    <3> HIDE DEF f
    <3>2. at'[f] = at[f]
      BY <3>1, OnwardOld
    <3> QED
      BY <1>1, <3>1, <3>2 DEF f, Old
  <2> QED
    BY <2>2, <2>3 DEF s
<1> QED
  BY <1>4, <1>5, <1>6, <1>7 DEF Saved

-----------------------------------------------------------------------------
(* What steps do to a chain.                                               *)

\* A frame is pushed, or a clone of it.
LEMMA Pushed ==
  ASSUME NEW c \in Seq(Acts), NEW a \in Acts
  PROVE  /\ Append(c, a) \in Seq(Acts)
         /\ Begins(c, Append(c, a))
         /\ \A f \in Frame : f # a.frame => On(Append(c, a), f) = On(c, f)
         /\ a.clone => \A f \in Frame : On(Append(c, a), f) = On(c, f)
         /\ ~a.clone => On(Append(c, a), a.frame) = On(c, a.frame) \cup {Len(c) + 1}
<1> DEFINE d == Append(c, a)
<1>1. d \in Seq(Acts) /\ Len(d) = Len(c) + 1 /\ d[Len(c) + 1] = a /\ Len(c) \in Nat /\ \A k \in 1 .. Len(c) : d[k] = c[k]
  OBVIOUS
<1> HIDE DEF d
<1>2. Begins(c, d)
  BY <1>1 DEF Begins
<1>3. /\ \A f \in Frame : f # a.frame => On(d, f) = On(c, f)
      /\ a.clone => \A f \in Frame : On(d, f) = On(c, f)
  BY <1>1 DEF On
<1>4. ~a.clone => On(d, a.frame) = On(c, a.frame) \cup {Len(c) + 1}
  BY <1>1 DEF On
<1> QED
  BY <1>1, <1>2, <1>3, <1>4 DEF d

\* The running activation goes on.
LEMMA Marked ==
  ASSUME NEW c \in Seq(Acts), c # <<>>, NEW pc \in {"head", "body", "exit"}
  PROVE  LET d == [c EXCEPT ![Len(c)].pc = pc]
         IN  /\ d \in Seq(Acts) /\ Len(d) = Len(c) /\ DOMAIN d = DOMAIN c
             /\ \A k \in 1 .. Len(c) - 1 : d[k] = c[k]
             /\ d[Len(c)] = [c[Len(c)] EXCEPT !.pc = pc]
             /\ \A f \in Frame : On(d, f) = On(c, f)
             /\ \A b \in Seq(Acts) : Begins(b, c) /\ Len(b) < Len(c) => Begins(b, d)
<1> DEFINE n == Len(c)
           a == [c[n] EXCEPT !.pc = pc]
           d == [c EXCEPT ![n].pc = pc]
<1>1. n \in 1 .. Len(c) /\ c[n] \in Acts /\ n \in Nat
  OBVIOUS
<1>2. a \in Acts /\ a.frame = c[n].frame /\ a.clone = c[n].clone
  BY <1>1 DEF Acts
<1>3. d = [c EXCEPT ![n] = a]
  OBVIOUS
<1> HIDE DEF a
<1>4. d \in Seq(Acts) /\ Len(d) = n /\ DOMAIN d = DOMAIN c /\ d[n] = a /\ \A k \in 1 .. n - 1 : d[k] = c[k]
  BY <1>1, <1>2, <1>3
<1> HIDE DEF d
<1>5. \A f \in Frame : On(d, f) = On(c, f)
  <2>1. \A k \in DOMAIN c : d[k].frame = c[k].frame /\ d[k].clone = c[k].clone
    BY <1>1, <1>2, <1>4
  <2> QED
    BY <1>4, <2>1 DEF On
<1>6. \A b \in Seq(Acts) : Begins(b, c) /\ Len(b) < Len(c) => Begins(b, d)
  BY <1>4 DEF Begins
<1> QED
  BY <1>4, <1>5, <1>6 DEF d, a

\* The running activation leaves.
LEMMA Dropped ==
  ASSUME NEW c \in Seq(Acts), c # <<>>
  PROVE  /\ Front(c) \in Seq(Acts) /\ Len(Front(c)) = Len(c) - 1 /\ Len(c) \in Nat \ {0} /\ DOMAIN c = 1 .. Len(c)
         /\ Last(c) \in Acts /\ Last(c) = c[Len(c)] /\ Len(c) \in DOMAIN c
         /\ \A k \in 1 .. Len(c) - 1 : Front(c)[k] = c[k]
         /\ \A f \in Frame : On(Front(c), f) = On(c, f) \ {Len(c)}
         /\ \A b \in Seq(Acts) : Begins(b, c) /\ Len(b) < Len(c) => Begins(b, Front(c))
<1> DEFINE n == Len(c)
           d == Front(c)
<1>1. n \in 1 .. Len(c) /\ c[n] \in Acts /\ n \in Nat /\ n # 0
  OBVIOUS
<1>2. d \in Seq(Acts) /\ Len(d) = n - 1 /\ \A k \in 1 .. n - 1 : d[k] = c[k]
  <2> DEFINE m == n - 1
  <2>1. m \in Nat /\ m <= Len(c) /\ d = SubSeq(c, 1, m)
    BY <1>1 DEF Front
  <2> HIDE DEF m, d
  <2>2. d \in Seq(Acts) /\ Len(d) = m /\ \A k \in 1 .. m : d[k] = c[k]
    BY <2>1
  <2> QED
    BY <2>2 DEF m
<1> HIDE DEF d
<1>3. \A f \in Frame : On(d, f) = On(c, f) \ {n}
  BY <1>1, <1>2 DEF On
<1>4. \A b \in Seq(Acts) : Begins(b, c) /\ Len(b) < Len(c) => Begins(b, d)
  BY <1>2 DEF Begins
<1> QED
  BY <1>1, <1>2, <1>3, <1>4 DEF d, Last

\* The running activation has no choice point when it is at its head, which all that are
\* saved are not, or when the code says so.
LEMMA SavedIsBelow ==
  ASSUME Types, ChainsKept, chain # <<>>, OwnChoices = {} \/ Running = "head"
  PROVE  \A i \in DOMAIN choices :
           /\ choices[i].chain \in Seq(Acts)
           /\ Begins(choices[i].chain, chain)
           /\ Len(choices[i].chain) < Len(chain)
<1> SUFFICES ASSUME NEW i \in DOMAIN choices
             PROVE  /\ choices[i].chain \in Seq(Acts)
                    /\ Begins(choices[i].chain, chain)
                    /\ Len(choices[i].chain) < Len(chain)
  OBVIOUS
<1> DEFINE c == choices[i].chain
<1>1. c \in Seq(Acts) /\ chain \in Seq(Acts) /\ Begins(c, chain) /\ (c # <<>> => c[Len(c)].pc # "head")
  BY TypesAre, PointTypes DEF ChainsKept
<1> HIDE DEF c
<1>2. Len(c) <= Len(chain) /\ Len(c) \in Nat /\ Len(chain) \in Nat \ {0}
  BY <1>1 DEF Begins
<1>3. CASE OwnChoices = {}
  <2>1. ~(Len(c) >= Len(chain))
    BY <1>3 DEF OwnChoices, c
  <2> QED
    BY <1>1, <1>2, <2>1 DEF c
<1>4. CASE Running = "head"
  <2>1. chain[Len(chain)].pc = "head"
    BY <1>4 DEF Running, Last
  <2>2. Len(c) # Len(chain)
    BY <1>1, <1>2, <2>1 DEF Begins
  <2> QED
    BY <1>1, <1>2, <2>2 DEF c
<1> QED
  BY <1>3, <1>4

\* Every chain goes on from itself.
LEMMA BeginsSame == ASSUME NEW c \in Seq(Acts) PROVE Begins(c, c)
BY DEF Begins

\* And from what it goes on from.
LEMMA BeginsOn ==
  ASSUME NEW b \in Seq(Acts), NEW c \in Seq(Acts), NEW d \in Seq(Acts), Begins(b, c), Begins(c, d)
  PROVE  Begins(b, d)
BY DEF Begins

-----------------------------------------------------------------------------
(* Core, step by step.                                                     *)

\* A step that only goes on keeps Core if it keeps the parts about the present.
LEMMA OnwardCore ==
  ASSUME Core, Onward, Types', OnChainOnce', Placed', EventsFirst', ListsNow'
  PROVE  Core'
BY OnwardKeeps DEF Core

\* What Core says of the present.
LEMMA CoreNow ==
  ASSUME Core
  PROVE  /\ Types /\ OnChainOnce /\ Placed /\ EventsFirst /\ ListsNow /\ Saved
         /\ Stacked /\ ChainsKept /\ TrailIsOld /\ ListsSaved
         /\ \A i \in DOMAIN choices : Begins(choices[i].chain, chain)
         /\ chain \in Seq(Acts) /\ at \in [Frame -> Stamps] /\ status \in [Frame -> Words]
         /\ list \in Lists /\ trail \in Seq(Entries) /\ queue \in Seq(Events)
         /\ program \in Programs /\ posts \in 0 .. MaxPosts
         /\ cursor \in [no : 0 .. MaxTriggers, rest : Seq(Frame)]
BY TypesAre DEF Core, Saved, ChainsKept

\* The events of the queue are taken from their lists.
LEMMA EventIs ==
  ASSUME Core, NEW n \in 1 .. Len(queue)
  PROVE  /\ AtEvent(n) \in [no : 0 .. MaxTriggers, rest : Seq(Frame)] /\ AtEvent(n).no = n /\ AtEvent(n) # Idle
         /\ \A k \in DOMAIN AtEvent(n).rest : at[AtEvent(n).rest[k]] # 0
         /\ Once(AtEvent(n).rest)
         /\ <<queue[n].chan, queue[n].port>> \in Channel \X Port /\ queue[n] \in Events
<1>1. queue \in Seq(Events) /\ Len(queue) <= MaxTriggers /\ list \in Lists /\ MaxTriggers \in Nat
  BY TypesAre, Bounds DEF Core
<1>2. queue[n] \in Events /\ n \in 0 .. MaxTriggers /\ n # 0
  BY <1>1
<1> DEFINE w == <<queue[n].chan, queue[n].port>>
<1>3. w \in Channel \X Port
  BY <1>2 DEF Events
<1>4. AtEvent(n) = [no |-> n, rest |-> list[w]]
  BY DEF AtEvent, EventAt
<1> HIDE DEF w
<1>5. list[w] \in Seq(Frame) /\ Watchers(list[w])
  BY <1>1, <1>3, CoreNow DEF Lists, ListsNow
<1> DEFINE v == list[w]
<1>6. v \in Seq(Frame) /\ Once(v) /\ \A k \in DOMAIN v : at[v[k]] # 0
  BY <1>5 DEF Watchers
<1>7. AtEvent(n).no = n /\ AtEvent(n).rest = v
  BY <1>4
<1> HIDE DEF v
<1>8. AtEvent(n) \in [no : 0 .. MaxTriggers, rest : Seq(Frame)]
  BY <1>2, <1>4, <1>6 DEF v
<1>9. AtEvent(n) # Idle
  BY <1>2, <1>7 DEF Idle
<1> QED
  BY <1>2, <1>3, <1>6, <1>7, <1>8, <1>9 DEF w

\* Inline code is not at a head, and outside the handler no frames are left to connect.
LEMMA OutsideHandler ==
  ASSUME cursor = Idle
  PROVE  cursor.no = 0 /\ cursor.rest = <<>> /\ Watchers(cursor.rest)
BY DEF Idle, Watchers, Once

\* Steps that leave frames and chains alone.
LEMMA QuietCore ==
  ASSUME Core, Types', UNCHANGED <<at, status, list, trail, choices, chain>>, EventsFirst', Watchers(cursor'.rest)
  PROVE  Core'
<1>1. Onward
  BY CoreNow DEF Onward
<1>2. OnChainOnce' /\ Placed'
  BY CoreNow DEF OnChainOnce, OnChain, Placed
<1>3. ListsNow'
  BY CoreNow DEF ListsNow, Watchers, Once
<1> QED
  BY <1>1, <1>2, <1>3, OnwardCore

\* What a program is.
LEMMA ProgramIs ==
  ASSUME Core
  PROVE  /\ program.posts \in 0 .. MaxPosts /\ program.watch \in [Frame -> SUBSET (Channel \X Port)]
         /\ program.kinds \subseteq AllKinds /\ program.cuts \in BOOLEAN
<1>1. program \in [watch : [Frame -> SUBSET (Channel \X Port)], kinds : SUBSET AllKinds,
                    cuts : BOOLEAN, posts : 0 .. MaxPosts]
  BY CoreNow, AgentsAssumption
<1> QED
  BY <1>1

\* Posting an event changes the queue only, and what is owed.
LEMMA PostCore ==
  ASSUME Core, NEW c \in Channel, NEW p \in Port, NEW kind \in AllKinds, NEW seeds \in SUBSET Stamps,
         Post(c, p, kind, seeds)
  PROVE  Core'
<1>1. posts \in Nat /\ MaxPosts \in Nat /\ posts + 1 \in 1 .. MaxPosts
  <2>1. program.posts \in 0 .. MaxPosts /\ posts \in 0 .. MaxPosts /\ posts < program.posts
    BY CoreNow, ProgramIs DEF Post
  <2> QED
    BY <2>1, Bounds
<1> DEFINE o == posts + 1
           e == [chan |-> c, port |-> p, kind |-> kind, obj |-> o]
<1>2. o \in 1 .. MaxPosts
  BY <1>1
<1> HIDE DEF o
<1>3. e \in Events
  BY <1>2 DEF Events
<1>4. queue' = Append(queue, e) /\ Len(queue) < MaxTriggers
  BY DEF Post, HasSlot, HasRoom, o
<1> HIDE DEF e
<1>5. queue' \in Seq(Events) /\ Len(queue') <= MaxTriggers
  BY <1>3, <1>4, CoreNow, Bounds
<1>6. triggering' \in [1 .. MaxTriggers -> Stamps]
  <2>1. PICK seed \in seeds : triggering' = [triggering EXCEPT ![Len(queue) + 1] = seed]
    BY DEF Post
  <2>2. triggering \in [1 .. MaxTriggers -> Stamps] /\ seed \in Stamps
    BY TypesAre, CoreNow
  <2> QED
    BY <2>1, <2>2
<1>7. owed' \in SUBSET Debts
  <2>1. owed \in SUBSET Debts
    BY TypesAre, CoreNow
  <2>2. \A f \in Frame : [frame |-> f, obj |-> o, kind |-> kind, own |-> InBody(f)] \in Debts
    <3>1. \A f \in Frame : InBody(f) \in BOOLEAN
      BY DEF InBody
    <3> QED
      BY <1>2, <3>1 DEF Debts
  <2>3. Range(list[c, p]) \subseteq Frame
    <3> DEFINE w == <<c, p>>
    <3>1. w \in Channel \X Port
      OBVIOUS
    <3> HIDE DEF w
    <3>2. list[w] \in Seq(Frame)
      BY <3>1, CoreNow DEF Lists
    <3> DEFINE l == list[w]
    <3>3. \A k \in DOMAIN l : l[k] \in Frame
      BY <3>2
    <3> HIDE DEF l
    <3>4. Range(l) \subseteq Frame
      BY <3>3 DEF Range
    <3> QED
      BY <3>4 DEF l, w
  <2>4. owed' = owed \cup {[frame |-> f, obj |-> o, kind |-> kind, own |-> InBody(f)] :
                             f \in {g \in Range(list[c, p]) : g \notin gone}}
    BY DEF Post, o
  <2> QED
    BY <2>1, <2>2, <2>3, <2>4
<1>8. posts' \in 0 .. MaxPosts
  <2>1. posts' = posts + 1
    BY DEF Post
  <2> QED
    BY <1>1, <2>1
<1>9. UNCHANGED <<at, status, list, trail, choices, chain, cursor, gone, program>> /\ cursor = Idle /\ Running # "head"
  BY DEF Post, Inline
<1>10. Types'
  BY <1>5, <1>6, <1>7, <1>8, <1>9, TypesAre, TypesAreNext, CoreNow
<1>11. EventsFirst'
  <2>1. Len(queue') <= posts'
    <3>1. posts' = posts + 1 /\ Len(queue) <= posts /\ queue \in Seq(Events)
      BY CoreNow DEF Post, EventsFirst
    <3>2. Len(queue') = Len(queue) + 1 /\ Len(queue) \in Nat
      BY <1>3, <1>4, <3>1
    <3> QED
      BY <1>1, <3>1, <3>2
  <2> QED
    BY <1>9, <2>1 DEF EventsFirst, Running
<1>12. Watchers(cursor'.rest)
  BY <1>9, OutsideHandler
<1> QED
  BY <1>9, <1>10, <1>11, <1>12, QuietCore

\* Every way to post.
LEMMA PostsCore ==
  ASSUME Core, NEW c \in Channel,
         \/ PostVarIns(c) \/ PostDvarIns(c) \/ PostMinmax(c) \/ PostGeneral(c)
         \/ \E p \in {"dom", "outer_dom"} : PostDom(c, p)
  PROVE  Core'
<1>1. {"ins", "minmax", "dom", "outer_dom"} \subseteq Port
      /\ {"var_ins", "dvar_ins", "minmax", "dom", "general"} \subseteq AllKinds
  BY DEF Port, AllKinds, InsKinds, TermKinds
<1>2. HasRoom => triggering[Len(queue) + 1] \in Stamps
  <2>1. triggering \in [1 .. MaxTriggers -> Stamps] /\ queue \in Seq(Events) /\ MaxTriggers \in Nat
    BY TypesAre, CoreNow, Bounds
  <2>2. HasRoom => Len(queue) + 1 \in 1 .. MaxTriggers
    BY <2>1 DEF HasRoom
  <2> QED
    BY <2>1, <2>2
<1>3. 0 \in Stamps /\ {at[f] : f \in RunningFrame} \subseteq Stamps
  <2>1. RunningFrame \subseteq Frame
    <3>1. chain # <<>> => Last(chain) \in Acts
      BY CoreNow, Dropped
    <3> QED
      BY <3>1 DEF RunningFrame, Acts
  <2> QED
    BY <2>1, CoreNow, Bounds DEF Stamps
<1> DEFINE stale == triggering[Len(queue) + 1]
<1>4. HasRoom => {stale} \in SUBSET Stamps
  BY <1>2
<1> HIDE DEF stale
<1>5. ASSUME PostVarIns(c) PROVE Core'
  <2>1. Post(c, "ins", "var_ins", {stale})
    BY <1>5 DEF PostVarIns, stale
  <2>2. HasRoom
    BY <2>1 DEF Post, HasSlot
  <2> QED
    BY <1>1, <1>4, <2>1, <2>2, PostCore
<1>6. ASSUME PostDvarIns(c) PROVE Core'
  <2>1. Post(c, "ins", "dvar_ins", {0}) /\ {0} \in SUBSET Stamps
    BY <1>3, <1>6 DEF PostDvarIns
  <2> QED
    BY <1>1, <2>1, PostCore
<1>7. ASSUME PostMinmax(c) PROVE Core'
  <2> DEFINE seeds == {0} \cup {at[f] : f \in RunningFrame}
  <2>1. Post(c, "minmax", "minmax", seeds) /\ seeds \in SUBSET Stamps
    BY <1>3, <1>7 DEF PostMinmax
  <2> HIDE DEF seeds
  <2> QED
    BY <1>1, <2>1, PostCore
<1>8. ASSUME PostGeneral(c) PROVE Core'
  <2>1. Post(c, "dom", "general", {stale})
    BY <1>8 DEF PostGeneral, stale
  <2>2. HasRoom
    BY <2>1 DEF Post, HasSlot
  <2> QED
    BY <1>1, <1>4, <2>1, <2>2, PostCore
<1>9. ASSUME NEW p \in {"dom", "outer_dom"}, PostDom(c, p) PROVE Core'
  <2>1. Post(c, p, "dom", {stale})
    BY <1>9 DEF PostDom, stale
  <2>2. HasRoom
    BY <2>1 DEF Post, HasSlot
  <2> QED
    BY <1>1, <1>4, <2>1, <2>2, PostCore
<1> QED
  BY <1>5, <1>6, <1>7, <1>8, <1>9

\* An event is ignored.
LEMMA IgnoreDomCore == ASSUME Core, NEW c \in Channel, NEW p \in Port, IgnoreDom(c, p) PROVE Core'
<1>1. MaxPosts \in Nat /\ posts + 1 \in 0 .. MaxPosts
  <2>1. program.posts \in 0 .. MaxPosts /\ posts \in 0 .. MaxPosts /\ posts < program.posts
    BY CoreNow, ProgramIs DEF IgnoreDom
  <2> QED
    BY <2>1, Bounds
<1>2. UNCHANGED <<at, status, list, trail, choices, chain, queue, triggering, cursor, gone, owed, program>>
      /\ cursor = Idle /\ Running # "head" /\ posts' = posts + 1
  BY DEF IgnoreDom, Inline, fixed
<1>3. Types'
  BY <1>1, <1>2, TypesAre, TypesAreNext, CoreNow
<1>4. EventsFirst'
  <2>1. Len(queue) <= posts + 1
    BY CoreNow DEF EventsFirst
  <2> QED
    BY <1>2, <2>1 DEF EventsFirst, Running
<1>5. Watchers(cursor'.rest)
  BY <1>2, OutsideHandler
<1> QED
  BY <1>2, <1>3, <1>4, <1>5, QuietCore

\* Pending events are caught: the cursor is at one of them, or there is none.
LEMMA Caught ==
  ASSUME Core, CatchWake, UNCHANGED <<queue, posts>>
  PROVE  /\ cursor' \in [no : 0 .. MaxTriggers, rest : Seq(Frame)]
         /\ Watchers(cursor'.rest)
         /\ EventsFirst'
<1>1. queue \in Seq(Events) /\ Len(queue) \in Nat
  BY CoreNow
<1>2. CASE queue = <<>>
  <2>1. cursor' = Idle
    BY <1>2 DEF CatchWake
  <2>2. cursor'.rest = <<>> /\ cursor' \in [no : 0 .. MaxTriggers, rest : Seq(Frame)]
    BY <2>1, Bounds DEF Idle
  <2>3. Watchers(cursor'.rest)
    BY <2>2 DEF Watchers, Once
  <2>4. EventsFirst'
    BY <1>2, <2>1, CoreNow DEF EventsFirst, Idle
  <2> QED
    BY <2>2, <2>3, <2>4
<1>3. CASE queue # <<>>
  <2>1. Len(queue) \in 1 .. Len(queue)
    BY <1>1, <1>3
  <2>2. cursor' = AtEvent(Len(queue))
    BY <1>3 DEF CatchWake
  <2>3. cursor' \in [no : 0 .. MaxTriggers, rest : Seq(Frame)] /\ cursor'.no = Len(queue) /\ cursor' # Idle
        /\ Watchers(cursor'.rest)
    BY <2>1, <2>2, EventIs DEF Watchers
  <2>4. EventsFirst'
    BY <2>1, <2>3, CoreNow DEF EventsFirst, Idle
  <2> QED
    BY <2>3, <2>4
<1> QED
  BY <1>2, <1>3

\* A call of an ordinary predicate.
LEMMA CallCore == ASSUME Core, Call PROVE Core'
<1>1. UNCHANGED <<at, status, list, trail, choices, chain, queue, triggering, posts, gone, owed, program>> /\ CatchWake
  BY DEF Call, fixed
<1>2. Types'
  BY <1>1, Caught, TypesAre, TypesAreNext, CoreNow
<1> QED
  BY <1>1, <1>2, Caught, QuietCore

\* OnChainOnce, of a chain and the words, and back.
LEMMA OnceIs ==
  /\ OnChainOnce <=> \A f \in Frame :
       /\ \A i, j \in On(chain, f) : i = j
       /\ status[f].tag \in {"start", "sleep"} => On(chain, f) = {}
  /\ OnChainOnce' <=> \A f \in Frame :
       /\ \A i, j \in On(chain', f) : i = j
       /\ status'[f].tag \in {"start", "sleep"} => On(chain', f) = {}
BY DEF OnChainOnce, OnChain, On

\* New activations.
LEMMA ActivationIs ==
  ASSUME NEW f \in Frame, NEW clone \in BOOLEAN, NEW obj \in 0 .. MaxPosts, NEW batch \in 0 .. MaxPosts
  PROVE  Activation(f, clone, obj, batch) \in Acts
BY DEF Activation, Acts

\* Top is at or above B and every frame.
LEMMA TopIs ==
  ASSUME Core
  PROVE  Top \in Stamps /\ B <= Top /\ \A f \in Frame : at[f] <= Top
<1> DEFINE S == {0, B} \cup {at[f] : f \in Frame}
<1>1. B \in Stamps /\ at \in [Frame -> Stamps] /\ MaxAddr \in Nat
  BY CoreNow, LatestIsB, Bounds
<1>2. S \subseteq Nat /\ S # {} /\ \A x \in S : x <= MaxAddr /\ x \in Stamps
  BY <1>1 DEF Stamps
<1>3. B \in S /\ \A f \in Frame : at[f] \in S
  OBVIOUS
<1>4. Top = Max(S)
  BY DEF Top
<1> HIDE DEF S
<1>5. Top \in S /\ \A x \in S : x <= Top
  BY <1>1, <1>2, <1>4, MaxOfNaturals
<1> QED
  BY <1>2, <1>3, <1>5

\* A frame without an address is on no list.
LEMMA AttachedOnce ==
  ASSUME Core, NEW f \in Frame, at[f] = 0, Attach(f), NEW w \in Channel \X Port
  PROVE  list'[w] \in Seq(Frame) /\ Once(list'[w]) /\ \A k \in DOMAIN list'[w] : list'[w][k] = f \/ at[list'[w][k]] # 0
<1> DEFINE l == list[w]
           r == <<f>> \o l
<1>1. l \in Seq(Frame) /\ Once(l) /\ (\A k \in DOMAIN l : at[l[k]] # 0) /\ DOMAIN list = Channel \X Port
  BY CoreNow DEF Lists, ListsNow, Watchers
<1>2. list'[w] = l \/ list'[w] = r
  BY <1>1 DEF Attach
<1> HIDE DEF l
<1>3. r \in Seq(Frame) /\ Len(r) = Len(l) + 1 /\ r[1] = f /\ \A k \in 2 .. Len(r) : r[k] = l[k - 1] /\ k - 1 \in 1 .. Len(l)
  BY <1>1
<1> HIDE DEF r
<1>4. \A k \in 2 .. Len(r) : at[r[k]] # 0 /\ r[k] # f
  BY <1>1, <1>3
<1>5. Once(r)
  <2> SUFFICES ASSUME NEW i \in 1 .. Len(r), NEW j \in 1 .. Len(r), r[i] = r[j] PROVE i = j
    BY <1>3 DEF Once
  <2>1. CASE i = 1 \/ j = 1
    BY <1>3, <1>4, <2>1
  <2>2. CASE i # 1 /\ j # 1
    <3>1. l[i - 1] = l[j - 1] /\ i - 1 \in DOMAIN l /\ j - 1 \in DOMAIN l
      BY <1>1, <1>3, <2>2
    <3>2. i - 1 = j - 1
      BY <1>1, <3>1 DEF Once
    <3> QED
      BY <3>2
  <2> QED
    BY <2>1, <2>2
<1>6. \A k \in DOMAIN r : r[k] = f \/ at[r[k]] # 0
  BY <1>3, <1>4
<1> QED
  BY <1>1, <1>2, <1>3, <1>5, <1>6

\* A new agent is above all there is.
LEMMA NewActorCore == ASSUME Core, NEW f \in Frame, NewActor(f) PROVE Core'
<1>1. cursor = Idle /\ queue = <<>> /\ at[f] = 0 /\ Running # "head"
  BY DEF NewActor, AtCall, Inline
<1>2. PICK a \in Top + 1 .. MaxAddr : at' = [at EXCEPT ![f] = a]
  BY DEF NewActor
<1>3. a \in Stamps /\ a > Top /\ a > B /\ a # 0
  BY <1>2, TopIs, CoreNow, LatestIsB, Bounds DEF Stamps
<1>4. at' \in [Frame -> Stamps] /\ at'[f] = a /\ \A g \in Frame : g # f => at'[g] = at[g]
  BY <1>2, <1>3, CoreNow
<1>5. status' \in [Frame -> Words] /\ status'[f].tag = "run" /\ \A g \in Frame : g # f => status'[g] = status[g]
  <2>1. Word("run", 0) \in Words /\ Word("run", 0).tag = "run"
    BY Bounds DEF Word, Words, Stamps
  <2>2. status' = [status EXCEPT ![f] = Word("run", 0)]
    BY DEF NewActor
  <2> QED
    BY <2>1, <2>2, CoreNow
<1> DEFINE act == [Activation(f, FALSE, 0, posts) EXCEPT !.pc = "body"]
<1>6. act \in Acts /\ act.frame = f /\ ~act.clone
  <2>1. 0 \in 0 .. MaxPosts /\ posts \in 0 .. MaxPosts
    BY CoreNow, Bounds
  <2> DEFINE b == Activation(f, FALSE, 0, posts)
  <2>2. b \in Acts /\ b.frame = f /\ ~b.clone
    BY <2>1, ActivationIs DEF Activation
  <2> HIDE DEF b
  <2>3. [b EXCEPT !.pc = "body"] \in Acts
    BY <2>2 DEF Acts
  <2>4. [b EXCEPT !.pc = "body"].frame = f /\ ~[b EXCEPT !.pc = "body"].clone
    BY <2>2 DEF Acts
  <2> QED
    BY <2>3, <2>4 DEF b
<1>7. chain' = Append(chain, act)
  BY DEF NewActor
<1> HIDE DEF act
<1>8. /\ chain' \in Seq(Acts) /\ Begins(chain, chain')
      /\ \A g \in Frame : g # f => On(chain', g) = On(chain, g)
      /\ On(chain', f) = On(chain, f) \cup {Len(chain) + 1}
  BY <1>6, <1>7, CoreNow, Pushed
<1>9. status[f].tag = "start" /\ On(chain, f) = {}
  BY <1>1, CoreNow DEF OnChainOnce, OnChain, On, Placed
<1>10. UNCHANGED <<choices, queue, triggering, cursor, posts, owed, gone, program>> /\ Attach(f)
  BY DEF NewActor, fixed
<1>11. list' \in Lists /\ trail' \in Seq(Entries)
  <2>1. list' \in Lists
    <3>1. DOMAIN list = Channel \X Port
      BY CoreNow DEF Lists
    <3>2. list' = [w \in Channel \X Port |-> list'[w]]
      BY <1>10, <3>1 DEF Attach
    <3>3. \A w \in Channel \X Port : list'[w] \in Seq(Frame)
      BY <1>1, <1>10, AttachedOnce
    <3> QED
      BY <3>2, <3>3 DEF Lists
  <2>2. trail' = Append(trail, [cell |-> "lists", old |-> list])
    BY <1>10 DEF Attach
  <2> QED
    BY <2>1, <2>2, EntryTypes, CoreNow
<1>12. Types'
  BY <1>4, <1>5, <1>8, <1>10, <1>11, TypesAre, TypesAreNext, CoreNow
<1>13. Onward
  <2>1. \A i \in DOMAIN choices : Begins(choices[i].chain, chain')
    BY <1>8, BeginsOn, PointTypes, CoreNow
  <2>2. trail' = Append(trail, [cell |-> "lists", old |-> list])
    BY <1>10 DEF Attach
  <2> QED
    BY <1>1, <1>3, <1>4, <1>10, <2>1, <2>2 DEF Onward
<1>14. OnChainOnce'
  <2> SUFFICES ASSUME NEW g \in Frame
               PROVE  /\ \A i, j \in On(chain', g) : i = j
                      /\ status'[g].tag \in {"start", "sleep"} => On(chain', g) = {}
    BY OnceIs
  <2>1. CASE g = f
    BY <1>5, <1>8, <1>9, <2>1
  <2>2. CASE g # f
    BY <1>5, <1>8, <2>2, CoreNow, OnceIs
  <2> QED
    BY <2>1, <2>2
<1>15. Placed'
  <2>1. \A g \in Frame : at'[g] = 0 <=> status'[g].tag = "start"
    BY <1>3, <1>4, <1>5, CoreNow DEF Placed
  <2>2. \A g \in Frame : at[g] <= Top /\ at[g] # a
    <3>1. Top \in Nat /\ \A g \in Frame : at[g] <= Top /\ at[g] \in Nat
      BY TopIs, CoreNow, Bounds DEF Stamps
    <3> QED
      BY <1>2, <3>1
  <2>3. \A g, h \in Frame : at'[g] = at'[h] /\ at'[g] # 0 => g = h
    BY <1>4, <2>2, CoreNow DEF Placed
  <2> QED
    BY <2>1, <2>3 DEF Placed
<1>16. EventsFirst'
  BY <1>1, <1>10, CoreNow DEF EventsFirst
<1>17. ListsNow'
  <2>1. \A w \in Channel \X Port : Watchers(list[w])'
    <3> SUFFICES ASSUME NEW w \in Channel \X Port
                 PROVE  Once(list'[w]) /\ \A k \in DOMAIN list'[w] : at'[list'[w][k]] # 0
      BY DEF Watchers, Once
    <3>1. list'[w] \in Seq(Frame) /\ Once(list'[w]) /\ \A k \in DOMAIN list'[w] : list'[w][k] = f \/ at[list'[w][k]] # 0
      BY <1>1, <1>10, AttachedOnce
    <3>2. \A k \in DOMAIN list'[w] : list'[w][k] \in Frame
      BY <3>1
    <3> QED
      BY <1>3, <1>4, <3>1, <3>2
  <2>2. Watchers(cursor.rest)'
    BY <1>1, <1>10, OutsideHandler DEF Watchers, Once, Idle
  <2> QED
    BY <2>1, <2>2 DEF ListsNow
<1> QED
  BY <1>12, <1>13, <1>14, <1>15, <1>16, <1>17, OnwardCore

\* No more events are pending than have been posted.
LEMMA BatchIs == ASSUME Core PROVE WokenBatch \in 0 .. MaxPosts
<1>1. posts \in 0 .. MaxPosts /\ MaxPosts \in Nat /\ Len(queue) \in Nat /\ Len(queue) <= posts
  BY CoreNow, Bounds DEF EventsFirst
<1> QED
  BY <1>1 DEF WokenBatch

\* What connecting a frame does: it may be pushed, marked or skipped.
Linked ==
  /\ status' \in [Frame -> Words] /\ chain' \in Seq(Acts) /\ trail' \in Seq(Entries)
  /\ Begins(chain, chain')
  /\ \/ trail' = trail
     \/ \E f \in Frame : status[f].tag = "sleep" /\ trail' = Append(trail, [cell |-> f, old |-> status[f]])
  /\ OnChainOnce'
  /\ \A f \in Frame : status'[f].tag = "start" <=> status[f].tag = "start"

\* A frame is left as it is.
LEMMA SkippedLinked == ASSUME Core, UNCHANGED <<status, chain, trail>> PROVE Linked
BY CoreNow, OnceIs, BeginsSame DEF Linked

\* A sleeping frame is woken; it was not on the chain.
LEMMA WakeLinked ==
  ASSUME Core, NEW f \in Frame, NEW obj \in 0 .. MaxPosts, WakeSleeper(f, obj)
  PROVE  Linked
<1> DEFINE trailed == at[f] < B /\ status[f].stamp # B
           w == Word("run", IF trailed THEN B ELSE status[f].stamp)
           act == Activation(f, FALSE, obj, WokenBatch)
           e == [cell |-> f, old |-> status[f]]
<1>1. /\ status[f].tag = "sleep" /\ status' = [status EXCEPT ![f] = w] /\ chain' = Append(chain, act)
      /\ trail' = trail \/ trail' = Append(trail, [cell |-> f, old |-> status[f]])
  BY CoreNow DEF WakeSleeper
<1>2. w \in Words /\ w.tag = "run"
  <2>1. B \in Stamps /\ status[f].stamp \in Stamps
    BY CoreNow, LatestIsB DEF Words
  <2> QED
    BY <2>1 DEF Word, Words
<1>3. act \in Acts /\ act.frame = f /\ ~act.clone
  BY ActivationIs, BatchIs DEF Activation
<1> HIDE DEF w, act
<1>4. status' \in [Frame -> Words] /\ status'[f].tag = "run" /\ \A g \in Frame : g # f => status'[g] = status[g]
  BY <1>1, <1>2, CoreNow
<1>5. /\ chain' \in Seq(Acts) /\ Begins(chain, chain')
      /\ \A g \in Frame : g # f => On(chain', g) = On(chain, g)
      /\ On(chain', f) = On(chain, f) \cup {Len(chain) + 1}
  BY <1>1, <1>3, CoreNow, Pushed
<1>6. On(chain, f) = {}
  BY <1>1, CoreNow, OnceIs
<1>7. OnChainOnce'
  <2> SUFFICES ASSUME NEW g \in Frame
               PROVE  /\ \A i, j \in On(chain', g) : i = j
                      /\ status'[g].tag \in {"start", "sleep"} => On(chain', g) = {}
    BY OnceIs
  <2>1. CASE g = f
    BY <1>4, <1>5, <1>6, <2>1
  <2>2. CASE g # f
    BY <1>4, <1>5, <2>2, CoreNow, OnceIs
  <2> QED
    BY <2>1, <2>2
<1>8. trail' \in Seq(Entries)
  <2>1. e \in Entries
    BY <1>1, EntryTypes, CoreNow
  <2>2. trail' = trail \/ trail' = Append(trail, e)
    BY <1>1
  <2>3. trail \in Seq(Entries)
    BY CoreNow
  <2> HIDE DEF e
  <2> QED
    BY <2>1, <2>2, <2>3
<1>9. \A g \in Frame : status'[g].tag = "start" <=> status[g].tag = "start"
  BY <1>1, <1>4
<1> QED
  BY <1>1, <1>4, <1>5, <1>7, <1>8, <1>9 DEF Linked

\* A frame that has been called and neither sleeps nor is dead is marked.
LEMMA MarkLinked ==
  ASSUME Core, NEW f \in Frame, status[f].tag \notin {"start", "sleep", "exit"},
         status' = [status EXCEPT ![f].tag = "reent"], UNCHANGED <<chain, trail>>
  PROVE  Linked
<1> DEFINE w == [status[f] EXCEPT !.tag = "reent"]
<1>1. w \in Words /\ w.tag = "reent" /\ status' = [status EXCEPT ![f] = w]
  BY CoreNow DEF Words
<1> HIDE DEF w
<1>2. status' \in [Frame -> Words] /\ status'[f].tag = "reent" /\ \A g \in Frame : g # f => status'[g] = status[g]
  BY <1>1, CoreNow
<1>3. OnChainOnce'
  BY <1>2, CoreNow, OnceIs
<1> QED
  BY <1>2, <1>3, CoreNow, BeginsSame DEF Linked

\* A clone is pushed.
LEMMA CloneLinked ==
  ASSUME Core, NEW f \in Frame, NEW obj \in 0 .. MaxPosts,
         chain' = Append(chain, Activation(f, TRUE, obj, WokenBatch)), UNCHANGED <<status, trail>>
  PROVE  Linked
<1> DEFINE act == Activation(f, TRUE, obj, WokenBatch)
<1>1. act \in Acts /\ act.clone
  BY ActivationIs, BatchIs DEF Activation
<1> HIDE DEF act
<1>2. chain' \in Seq(Acts) /\ Begins(chain, chain') /\ \A g \in Frame : On(chain', g) = On(chain, g)
  <2>1. chain' = Append(chain, act)
    BY DEF act
  <2>2. chain \in Seq(Acts)
    BY CoreNow
  <2> HIDE DEF act
  <2>3. Append(chain, act) \in Seq(Acts) /\ Begins(chain, Append(chain, act))
    BY <1>1, <2>2, Pushed
  <2>4. \A g \in Frame : On(Append(chain, act), g) = On(chain, g)
    BY <1>1, <2>2, Pushed
  <2> QED
    BY <2>1, <2>3, <2>4
<1>3. OnChainOnce'
  BY <1>2, CoreNow, OnceIs
<1> QED
  BY <1>2, <1>3, CoreNow DEF Linked

\* The elements of a sequence.
LEMMA RangeIs == \A s : \A x : x \in Range(s) <=> \E k \in DOMAIN s : x = s[k]
BY DEF Range

\* What the handler is doing when it is not idle.
LEMMA HandlerIs ==
  ASSUME Core, cursor # Idle
  PROVE  /\ cursor.no \in 1 .. Len(queue) /\ cursor.no \in Nat /\ queue[cursor.no] \in Events
         /\ cursor.rest \in Seq(Frame) /\ Once(cursor.rest) /\ \A k \in DOMAIN cursor.rest : at[cursor.rest[k]] # 0
<1>1. cursor.no \in 1 .. Len(queue) /\ queue \in Seq(Events) /\ cursor \in [no : 0 .. MaxTriggers, rest : Seq(Frame)]
      /\ Watchers(cursor.rest)
  BY CoreNow DEF EventsFirst, ListsNow
<1> QED
  BY <1>1, Bounds DEF Watchers

\* A list without its head.
LEMMA TailOnce ==
  ASSUME NEW s \in Seq(Frame), s # <<>>, Once(s)
  PROVE  /\ Head(s) \in Frame /\ Tail(s) \in Seq(Frame) /\ Once(Tail(s)) /\ 1 \in DOMAIN s /\ Head(s) = s[1]
         /\ \A k \in DOMAIN Tail(s) : k + 1 \in DOMAIN s /\ Tail(s)[k] = s[k + 1]
         /\ Range(Tail(s)) = Range(s) \ {Head(s)}
<1> DEFINE t == Tail(s)
<1>1. t \in Seq(Frame) /\ Len(t) = Len(s) - 1 /\ Len(s) \in Nat /\ Len(s) # 0 /\ \A k \in 1 .. Len(t) : t[k] = s[k + 1]
  OBVIOUS
<1>2. Head(s) \in Frame /\ 1 \in DOMAIN s /\ Head(s) = s[1]
  OBVIOUS
<1> HIDE DEF t
<1>3. Once(t)
  BY <1>1, SMTT(60) DEF Once
<1>4. \A k \in DOMAIN t : k + 1 \in DOMAIN s /\ t[k] = s[k + 1]
  BY <1>1
<1>5. Range(t) \subseteq Range(s) \ {Head(s)}
  <2> SUFFICES ASSUME NEW k \in DOMAIN t PROVE t[k] \in Range(s) \ {s[1]}
    BY <1>2 DEF Range
  <2>1. s[k + 1] # s[1]
    BY <1>1, <1>2, <1>4 DEF Once
  <2> QED
    BY <1>4, <2>1 DEF Range
<1>6. Range(s) \ {Head(s)} \subseteq Range(t)
  <2> SUFFICES ASSUME NEW k \in DOMAIN s, s[k] # s[1] PROVE s[k] \in Range(t)
    BY <1>2 DEF Range
  <2>1. k - 1 \in DOMAIN t /\ t[k - 1] = s[k]
    BY <1>1
  <2> QED
    BY <2>1 DEF Range
<1> QED
  BY <1>1, <1>2, <1>3, <1>4, <1>5, <1>6 DEF t

\* A frame is connected to the chain.
LEMMA ConnectLinked ==
  ASSUME Core, Connect
  PROVE  /\ Linked /\ cursor # Idle
         /\ cursor' \in [no : 0 .. MaxTriggers, rest : Seq(Frame)]
         /\ cursor'.no = cursor.no /\ cursor'.rest = Tail(cursor.rest)
         /\ UNCHANGED <<at, list, choices, queue, triggering, posts, owed, gone, program>>
<1> DEFINE f == Head(cursor.rest)
           e == queue[cursor.no]
<1>1. cursor # Idle /\ cursor.rest # <<>>
  BY DEF Connect, Idle
<1>2. f \in Frame /\ at[f] # 0 /\ e \in Events
  BY <1>1, HandlerIs, TailOnce
<1>3. e.obj \in 0 .. MaxPosts /\ 0 \in 0 .. MaxPosts
  BY <1>2, Bounds DEF Events
<1>4. status[f].tag # "start" /\ status[f].tag \in {"start", "reent", "sleep", "run", "exit"}
  BY <1>2, CoreNow DEF Placed, Words
<1>5. \/ ConnectIns(f) \/ ConnectMinmax(f) \/ ConnectDom(f, e.obj)
  BY DEF Connect, EventAt
<1>6. /\ cursor' = [cursor EXCEPT !.rest = Tail(@)]
      /\ UNCHANGED <<at, list, choices, queue, triggering, posts, owed, gone, program>>
  BY DEF Connect, fixed
<1> HIDE DEF f, e
<1>7. Linked
  <2>1. ASSUME WakeSleeper(f, 0) \/ WakeSleeper(f, e.obj) PROVE Linked
    BY <1>2, <1>3, <2>1, WakeLinked
  <2>2. ASSUME UNCHANGED <<status, chain, trail>> PROVE Linked
    BY <2>2, SkippedLinked
  <2>3. CASE ConnectIns(f)
    <3>1. ASSUME status[f].tag \notin {"sleep", "exit"}, status' = [status EXCEPT ![f].tag = "reent"],
                 UNCHANGED <<chain, trail>>
          PROVE  Linked
      BY <1>2, <1>4, <3>1, MarkLinked
    <3> QED
      BY <2>1, <2>2, <2>3, <3>1 DEF ConnectIns
  <2>4. CASE ConnectMinmax(f)
    BY <2>1, <2>2, <2>4 DEF ConnectMinmax
  <2>5. CASE ConnectDom(f, e.obj)
    <3>1. ASSUME chain' = Append(chain, Activation(f, TRUE, e.obj, WokenBatch)), UNCHANGED <<status, trail>>
          PROVE  Linked
      BY <1>2, <1>3, <3>1, CloneLinked
    <3> QED
      BY <2>1, <2>2, <2>5, <3>1 DEF ConnectDom
  <2> QED
    BY <1>5, <2>3, <2>4, <2>5
<1>8. /\ cursor' \in [no : 0 .. MaxTriggers, rest : Seq(Frame)]
      /\ cursor'.no = cursor.no /\ cursor'.rest = Tail(cursor.rest)
  <2> DEFINE t == Tail(cursor.rest)
  <2>1. cursor \in [no : 0 .. MaxTriggers, rest : Seq(Frame)] /\ t \in Seq(Frame)
    BY <1>1, CoreNow, HandlerIs, TailOnce
  <2>2. cursor' = [cursor EXCEPT !.rest = t]
    BY <1>6
  <2> HIDE DEF t
  <2> QED
    BY <2>1, <2>2 DEF t
<1> QED
  BY <1>1, <1>6, <1>7, <1>8

\* And the handler goes on.
LEMMA ConnectCore == ASSUME Core, Connect PROVE Core'
<1>1. /\ Linked /\ cursor # Idle /\ cursor.rest # <<>>
      /\ cursor' \in [no : 0 .. MaxTriggers, rest : Seq(Frame)]
      /\ cursor'.no = cursor.no /\ cursor'.rest = Tail(cursor.rest)
      /\ UNCHANGED <<at, list, choices, queue, triggering, posts, owed, gone, program>>
  BY ConnectLinked DEF Connect
<1>2. /\ Tail(cursor.rest) \in Seq(Frame) /\ Once(Tail(cursor.rest))
      /\ \A k \in DOMAIN Tail(cursor.rest) : at[Tail(cursor.rest)[k]] # 0
  BY <1>1, HandlerIs, TailOnce
<1>4. cursor.no \in 0 .. MaxTriggers /\ cursor.no \in 1 .. Len(queue)
  BY <1>1, HandlerIs, CoreNow
<1>5. cursor' # Idle
  BY <1>1, <1>4 DEF Idle
<1>6. Types'
  BY <1>1, TypesAre, TypesAreNext, CoreNow DEF Linked
<1>7. Onward
  <2>1. \A i \in DOMAIN choices : Begins(choices[i].chain, chain')
    BY <1>1, BeginsOn, PointTypes, CoreNow DEF Linked
  <2> QED
    BY <1>1, <2>1 DEF Onward, Linked
<1>8. Placed'
  BY <1>1, CoreNow DEF Placed, Linked
<1>9. EventsFirst'
  BY <1>1, <1>4, <1>5, CoreNow DEF EventsFirst
<1>10. ListsNow'
  <2>1. \A w \in Channel \X Port : Watchers(list[w])'
    BY <1>1, CoreNow DEF ListsNow, Watchers, Once
  <2>2. Watchers(cursor.rest)'
    BY <1>1, <1>2 DEF Watchers, Once
  <2> QED
    BY <2>1, <2>2 DEF ListsNow
<1> QED
  BY <1>1, <1>6, <1>7, <1>8, <1>9, <1>10, OnwardCore DEF Linked

\* Dead frames leave a list; the others stay, in their order.
LEMMA CompactLists ==
  ASSUME Core, NEW e \in Events, Compact(e)
  PROVE  /\ list' \in Lists
         /\ \/ list' = list /\ trail' = trail
            \/ trail' = Append(trail, [cell |-> "lists", old |-> list])
         /\ \A w \in Channel \X Port :
              /\ Once(list'[w])
              /\ Range(list'[w]) \subseteq Range(list[w])
              /\ \A f \in Range(list[w]) : f \in Range(list'[w]) \/ status[f].tag = "exit"
<1> DEFINE K == {f \in Frame : Alive(f)}
           v == <<e.chan, e.port>>
<1>1. v \in Channel \X Port /\ list \in Lists
  BY CoreNow DEF Events
<1>2. list' = list \/ list' = [list EXCEPT ![v] = Kept(@, K)]
  BY DEF Compact
<1>3. ASSUME NEW w \in Channel \X Port
      PROVE  LET l == list[w] IN
             /\ Kept(l, K) \in Seq(Frame) /\ Once(Kept(l, K))
             /\ Range(Kept(l, K)) \subseteq Range(l)
             /\ \A f \in Range(l) : f \in Range(Kept(l, K)) \/ status[f].tag = "exit"
  <2> DEFINE l == list[w]
             s == Kept(l, K)
  <2>1. l \in Seq(Frame) /\ Once(l)
    BY CoreNow DEF Lists, ListsNow, Watchers
  <2>2. \A f \in Frame : f \notin K => status[f].tag = "exit"
    BY DEF Alive
  <2> HIDE DEF l, K
  <2>3. /\ s \in Seq(Frame)
        /\ \A i \in 1 .. Len(l) : l[i] \in K => \E j \in 1 .. Len(s) : s[j] = l[i]
        /\ \A j \in 1 .. Len(s) : \E i \in 1 .. Len(l) : s[j] = l[i] /\ l[i] \in K
        /\ (\A i, j \in 1 .. Len(l) : l[i] = l[j] => i = j) => \A i, j \in 1 .. Len(s) : s[i] = s[j] => i = j
    BY <2>1, KeptFacts
  <2> HIDE DEF s
  <2>4. DOMAIN l = 1 .. Len(l) /\ DOMAIN s = 1 .. Len(s)
    BY <2>1, <2>3
  <2>5. Once(s)
    BY <2>1, <2>3, <2>4 DEF Once
  <2>6. Range(s) \subseteq Range(l)
    <3> SUFFICES ASSUME NEW x \in Range(s) PROVE x \in Range(l)
      OBVIOUS
    <3>1. PICK j \in 1 .. Len(s) : x = s[j]
      BY <2>4, RangeIs
    <3>2. PICK i \in 1 .. Len(l) : s[j] = l[i]
      BY <2>3
    <3> QED
      BY <2>4, <3>1, <3>2, RangeIs
  <2>7. \A f \in Range(l) : f \in Range(s) \/ status[f].tag = "exit"
    <3> SUFFICES ASSUME NEW i \in DOMAIN l, status[l[i]].tag # "exit" PROVE l[i] \in Range(s)
      BY DEF Range
    <3>1. l[i] \in K
      BY <2>1, <2>2
    <3> QED
      BY <2>3, <2>4, <3>1, RangeIs
  <2> QED
    BY <2>3, <2>5, <2>6, <2>7 DEF s, l
<1>4. \A w \in Channel \X Port : list'[w] = list[w] \/ list'[w] = Kept(list[w], K)
  BY <1>1, <1>2 DEF Lists
<1>5. ASSUME NEW w \in Channel \X Port
      PROVE  /\ list'[w] \in Seq(Frame) /\ Once(list'[w])
             /\ Range(list'[w]) \subseteq Range(list[w])
             /\ \A f \in Range(list[w]) : f \in Range(list'[w]) \/ status[f].tag = "exit"
  <2>1. list[w] \in Seq(Frame) /\ Once(list[w])
    BY CoreNow DEF Lists, ListsNow, Watchers
  <2> HIDE DEF K
  <2>2. CASE list'[w] = list[w]
    BY <2>1, <2>2
  <2>3. CASE list'[w] = Kept(list[w], K)
    BY <1>3, <2>3
  <2> QED
    BY <1>4, <2>2, <2>3
<1>6. list' \in Lists
  <2>1. list' = [w \in Channel \X Port |-> list'[w]]
    BY <1>1, <1>2 DEF Lists
  <2> QED
    BY <1>5, <2>1 DEF Lists
<1> QED
  BY <1>5, <1>6 DEF Compact

\* The handler goes to the next event, or is done.
LEMMA HandlerCore == ASSUME Core, NextEvent \/ HandlerDone PROVE Core'
<1>1. cursor # Idle /\ cursor.no \in 1 .. Len(queue) /\ cursor.no \in Nat
  <2>1. cursor # Idle
    BY DEF NextEvent, HandlerDone, Idle
  <2> QED
    BY <2>1, HandlerIs
<1> DEFINE n == cursor.no
<1>2. /\ UNCHANGED <<at, status, choices, chain, triggering, posts, owed, gone, program>>
      /\ Compact(queue[n]) /\ queue[n] \in Events
      /\ \/ n > 1 /\ cursor' = AtEvent(n - 1) /\ queue' = queue
         \/ cursor' = Idle /\ queue' = <<>>
  BY <1>1, HandlerIs DEF NextEvent, HandlerDone, EventAt, fixed
<1> HIDE DEF n
<1>3. /\ list' \in Lists
      /\ \/ list' = list /\ trail' = trail
         \/ trail' = Append(trail, [cell |-> "lists", old |-> list])
      /\ \A w \in Channel \X Port : Once(list'[w]) /\ Range(list'[w]) \subseteq Range(list[w])
  BY <1>2, CompactLists
<1>4. trail' \in Seq(Entries)
  <2> DEFINE e == [cell |-> "lists", old |-> list]
  <2>1. e \in Entries /\ trail \in Seq(Entries)
    BY EntryTypes, CoreNow
  <2>2. trail' = trail \/ trail' = Append(trail, e)
    BY <1>3
  <2> HIDE DEF e
  <2> QED
    BY <2>1, <2>2
<1>5. /\ cursor' \in [no : 0 .. MaxTriggers, rest : Seq(Frame)]
      /\ Once(cursor'.rest) /\ (\A k \in DOMAIN cursor'.rest : at[cursor'.rest[k]] # 0)
      /\ EventsFirst'
      /\ queue' \in Seq(Events) /\ Len(queue') <= MaxTriggers
  <2>1. CASE n > 1 /\ cursor' = AtEvent(n - 1) /\ queue' = queue
    <3>1. n - 1 \in 1 .. Len(queue) /\ Len(queue) \in Nat
      BY <1>1, <2>1, CoreNow DEF n
    <3> DEFINE m == n - 1
    <3>2. cursor' = AtEvent(m) /\ m \in 1 .. Len(queue)
      BY <2>1, <3>1
    <3> HIDE DEF m
    <3>3. /\ cursor' \in [no : 0 .. MaxTriggers, rest : Seq(Frame)] /\ cursor'.no = m /\ cursor' # Idle
          /\ Once(cursor'.rest) /\ \A k \in DOMAIN cursor'.rest : at[cursor'.rest[k]] # 0
      BY <3>2, EventIs
    <3>4. EventsFirst'
      BY <1>2, <2>1, <3>2, <3>3, CoreNow DEF EventsFirst
    <3> QED
      BY <2>1, <3>3, <3>4, TypesAre, CoreNow
  <2>2. CASE cursor' = Idle /\ queue' = <<>>
    <3>1. cursor'.rest = <<>> /\ cursor' \in [no : 0 .. MaxTriggers, rest : Seq(Frame)]
      BY <2>2, Bounds DEF Idle
    <3>2. EventsFirst'
      BY <1>2, <2>2, CoreNow, Bounds DEF EventsFirst
    <3>3. queue' \in Seq(Events) /\ Len(queue') <= MaxTriggers
      BY <2>2, Bounds
    <3> QED
      BY <3>1, <3>2, <3>3 DEF Once
  <2> QED
    BY <1>2, <2>1, <2>2
<1>6. Types'
  BY <1>2, <1>3, <1>4, <1>5, TypesAre, TypesAreNext, CoreNow
<1>7. Onward
  BY <1>2, <1>3, CoreNow DEF Onward
<1>8. OnChainOnce' /\ Placed'
  BY <1>2, CoreNow, OnceIs DEF Placed
<1>9. ListsNow'
  <2>1. ASSUME NEW w \in Channel \X Port
        PROVE  Once(list'[w]) /\ \A k \in DOMAIN list'[w] : at[list'[w][k]] # 0
    <3>1. \A f \in Range(list[w]) : at[f] # 0
      BY CoreNow DEF ListsNow, Watchers, Range
    <3>2. \A k \in DOMAIN list'[w] : list'[w][k] \in Range(list'[w])
      BY DEF Range
    <3> QED
      BY <1>3, <3>1, <3>2
  <2> QED
    BY <1>2, <1>5, <2>1 DEF ListsNow, Watchers, Once
<1> QED
  BY <1>6, <1>7, <1>8, <1>9, <1>5, OnwardCore

\* What the running activation does.
LEMMA RunningCore ==
  ASSUME Core, Types', UNCHANGED <<at, list, trail, choices>>,
         \A i \in DOMAIN choices : Begins(choices[i].chain, chain'),
         OnChainOnce', \A f \in Frame : status'[f].tag = "start" <=> status[f].tag = "start",
         EventsFirst', Watchers(cursor'.rest)
  PROVE  Core'
<1>1. Onward
  BY CoreNow DEF Onward
<1>2. Placed'
  BY CoreNow DEF Placed
<1>3. ListsNow'
  BY CoreNow DEF ListsNow, Watchers, Once
<1> QED
  BY <1>1, <1>2, <1>3, OnwardCore

\* The activation that runs, and its frame.
LEMMA LastIs ==
  ASSUME Core, chain # <<>>
  PROVE  /\ Last(chain) \in Acts /\ Last(chain).frame \in Frame /\ Last(chain).clone \in BOOLEAN
         /\ Last(chain) = chain[Len(chain)] /\ Running = Last(chain).pc
         /\ Len(chain) \in DOMAIN chain /\ Len(chain) \in Nat \ {0} /\ DOMAIN chain = 1 .. Len(chain)
         /\ RunningFrame = IF Last(chain).clone THEN {} ELSE {Last(chain).frame}
         /\ ~Last(chain).clone =>
              /\ On(chain, Last(chain).frame) = {Len(chain)}
              /\ status[Last(chain).frame].tag \in {"reent", "run", "exit"}
<1>1. Last(chain) \in Acts /\ Last(chain) = chain[Len(chain)]
      /\ Len(chain) \in DOMAIN chain /\ Len(chain) \in Nat \ {0} /\ DOMAIN chain = 1 .. Len(chain)
  BY CoreNow, Dropped
<1>2. Last(chain).frame \in Frame /\ Last(chain).clone \in BOOLEAN
  BY <1>1 DEF Acts
<1> DEFINE f == Last(chain).frame
<1>3. ASSUME ~Last(chain).clone
      PROVE  On(chain, f) = {Len(chain)} /\ status[f].tag \in {"reent", "run", "exit"}
  <2>1. Len(chain) \in On(chain, f)
    BY <1>1, <1>3 DEF On
  <2>2. f \in Frame
    BY <1>2
  <2> HIDE DEF f
  <2>3. \A i, j \in On(chain, f) : i = j
    BY <2>2, CoreNow, OnceIs
  <2>4. status[f].tag \notin {"start", "sleep"} /\ status[f] \in Words
    BY <2>1, <2>2, CoreNow, OnceIs
  <2> QED
    BY <2>1, <2>3, <2>4 DEF Words
<1> QED
  BY <1>1, <1>2, <1>3 DEF Running, RunningFrame

\* The present word of a frame that is on the chain may change to any of the others but those
\* of frames that are not.
LEMMA ReworkedOnce ==
  ASSUME Core, NEW f \in Frame, On(chain, f) # {}, NEW w \in Words, w.tag \notin {"start", "sleep"},
         status' = [status EXCEPT ![f] = w], \A g \in Frame : On(chain', g) = On(chain, g)
  PROVE  /\ OnChainOnce' /\ status' \in [Frame -> Words]
         /\ \A g \in Frame : status'[g].tag = "start" <=> status[g].tag = "start"
<1>1. status[f].tag \notin {"start", "sleep"}
  BY CoreNow, OnceIs
<1>2. status' \in [Frame -> Words] /\ status'[f] = w /\ \A g \in Frame : g # f => status'[g] = status[g]
  BY CoreNow
<1>3. OnChainOnce'
  BY <1>1, <1>2, CoreNow, OnceIs
<1> QED
  BY <1>1, <1>2, <1>3

\* At the head a rule is selected: events have been handled, and no choice point is on top.
LEMMA AtHeadIs ==
  ASSUME Core, AtHead
  PROVE  /\ chain # <<>> /\ Last(chain).pc = "head" /\ queue = <<>> /\ cursor = Idle /\ OwnChoices = {}
         /\ \A i \in DOMAIN choices :
              /\ choices[i].chain \in Seq(Acts)
              /\ Begins(choices[i].chain, chain)
              /\ Len(choices[i].chain) < Len(chain)
<1>1. chain # <<>> /\ Last(chain).pc = "head" /\ cursor = Idle /\ Running = "head"
  BY DEF AtHead, Running
<1>2. queue = <<>>
  BY <1>1, CoreNow DEF EventsFirst
<1>3. \A i \in DOMAIN choices :
        /\ choices[i].chain \in Seq(Acts)
        /\ Begins(choices[i].chain, chain)
        /\ Len(choices[i].chain) < Len(chain)
  BY <1>1, CoreNow, SavedIsBelow
<1>4. OwnChoices = {}
  <2>1. \A i \in DOMAIN choices : ~(Len(choices[i].chain) >= Len(chain))
    BY <1>3, CoreNow
  <2> QED
    BY <2>1 DEF OwnChoices
<1> QED
  BY <1>1, <1>2, <1>3, <1>4

\* The activation at the head goes to a rule's body.
LEMMA GoneTo ==
  ASSUME Core, AtHead, NEW pc \in {"body", "exit"}, GoTo(pc)
  PROVE  /\ chain' \in Seq(Acts) /\ \A i \in DOMAIN choices : Begins(choices[i].chain, chain')
         /\ \A f \in Frame : On(chain', f) = On(chain, f)
         /\ DOMAIN chain' = DOMAIN chain
         /\ \A k \in DOMAIN chain : k # Len(chain) => chain'[k] = chain[k]
         /\ chain'[Len(chain)] = [chain[Len(chain)] EXCEPT !.pc = pc]
<1>1. chain # <<>> /\ chain \in Seq(Acts)
  BY AtHeadIs, CoreNow
<1>2. chain' = [chain EXCEPT ![Len(chain)].pc = pc]
  BY DEF GoTo
<1>3. pc \in {"head", "body", "exit"}
  OBVIOUS
<1> DEFINE d == [chain EXCEPT ![Len(chain)].pc = pc]
<1>4. /\ d \in Seq(Acts) /\ DOMAIN d = DOMAIN chain
      /\ \A k \in 1 .. Len(chain) - 1 : d[k] = chain[k]
      /\ d[Len(chain)] = [chain[Len(chain)] EXCEPT !.pc = pc]
      /\ \A f \in Frame : On(d, f) = On(chain, f)
      /\ \A b \in Seq(Acts) : Begins(b, chain) /\ Len(b) < Len(chain) => Begins(b, d)
  BY <1>1, <1>3, Marked
<1>5. chain' = d
  BY <1>2
<1> HIDE DEF d
<1>6. \A i \in DOMAIN choices : Begins(choices[i].chain, d)
  BY <1>4, AtHeadIs
<1>7. \A k \in DOMAIN chain : k # Len(chain) => k \in 1 .. Len(chain) - 1
  BY <1>1
<1> QED
  BY <1>4, <1>5, <1>6, <1>7

\* An action rule applies.
LEMMA SelectActionCore == ASSUME Core, SelectAction PROVE Core'
<1>1. /\ AtHead /\ GoTo("body")
      /\ UNCHANGED <<at, status, list, trail, choices, queue, triggering, cursor, posts, gone, program>>
  BY DEF SelectAction
<1>2. /\ chain' \in Seq(Acts) /\ \A i \in DOMAIN choices : Begins(choices[i].chain, chain')
      /\ \A f \in Frame : On(chain', f) = On(chain, f)
  BY <1>1, GoneTo
<1>3. queue = <<>> /\ cursor = Idle
  BY <1>1, AtHeadIs
<1>4. owed' \in SUBSET Debts
  BY TypesAre, CoreNow DEF SelectAction
<1>5. Types'
  BY <1>1, <1>2, <1>4, TypesAre, TypesAreNext, CoreNow
<1>6. OnChainOnce'
  BY <1>1, <1>2, CoreNow, OnceIs
<1>7. EventsFirst'
  BY <1>1, <1>3, CoreNow DEF EventsFirst
<1>8. Watchers(cursor'.rest)
  BY <1>1, <1>3, OutsideHandler
<1> QED
  BY <1>1, <1>2, <1>5, <1>6, <1>7, <1>8, RunningCore

\* A dead word.
LEMMA ExitWord == Word("exit", 0) \in Words /\ Word("exit", 0).tag = "exit"
BY Bounds DEF Word, Words, Stamps

\* A normal rule applies.
LEMMA SelectNormalCore == ASSUME Core, SelectNormal PROVE Core'
<1> DEFINE f == Last(chain).frame
<1>1. /\ AtHead /\ GoTo("exit")
      /\ UNCHANGED <<at, list, trail, choices, queue, triggering, cursor, posts, program>>
      /\ gone' = gone \cup {f} /\ owed' = {o \in owed : o.frame # f}
      /\ status' = IF Last(chain).clone THEN status ELSE [status EXCEPT ![f] = Word("exit", 0)]
  BY DEF SelectNormal
<1>2. /\ chain' \in Seq(Acts) /\ \A i \in DOMAIN choices : Begins(choices[i].chain, chain')
      /\ \A g \in Frame : On(chain', g) = On(chain, g)
  BY <1>1, GoneTo
<1>3. queue = <<>> /\ cursor = Idle /\ chain # <<>>
  BY <1>1, AtHeadIs
<1>4. f \in Frame /\ (~Last(chain).clone => On(chain, f) # {})
  BY <1>3, LastIs
<1> HIDE DEF f
<1>5. owed' \in SUBSET Debts /\ gone' \in SUBSET Frame
  BY <1>1, <1>4, TypesAre, CoreNow
<1>6. /\ OnChainOnce' /\ status' \in [Frame -> Words]
      /\ \A g \in Frame : status'[g].tag = "start" <=> status[g].tag = "start"
  <2>1. CASE Last(chain).clone
    BY <1>1, <1>2, <2>1, CoreNow, OnceIs
  <2>2. CASE ~Last(chain).clone
    <3> DEFINE w == Word("exit", 0)
    <3>1. w \in Words /\ w.tag \notin {"start", "sleep"} /\ status' = [status EXCEPT ![f] = w] /\ On(chain, f) # {}
      BY <1>1, <1>4, <2>2, ExitWord
    <3> HIDE DEF w
    <3> QED
      BY <1>2, <1>4, <3>1, ReworkedOnce
  <2> QED
    BY <2>1, <2>2
<1>7. Types'
  BY <1>1, <1>2, <1>5, <1>6, TypesAre, TypesAreNext, CoreNow
<1>8. EventsFirst'
  BY <1>1, <1>3, CoreNow DEF EventsFirst
<1>9. Watchers(cursor'.rest)
  BY <1>1, <1>3, OutsideHandler
<1> QED
  BY <1>1, <1>2, <1>6, <1>7, <1>8, <1>9, RunningCore

\* A propagator kills its own frame.
LEMMA KillCore == ASSUME Core, Kill PROVE Core'
<1>1. PICK f \in RunningFrame :
        /\ status' = [status EXCEPT ![f] = Word("exit", 0)]
        /\ gone' = gone \cup {f}
        /\ owed' = {o \in owed : o.frame # f}
  BY DEF Kill
<1>2. cursor = Idle /\ Running # "head"
      /\ UNCHANGED <<at, list, trail, choices, chain, queue, triggering, cursor, posts, program>>
  BY DEF Kill, Inline
<1>3. chain # <<>>
  BY DEF RunningFrame
<1>4. f \in Frame /\ On(chain, f) # {}
  BY <1>1, <1>3, LastIs
<1>5. owed' \in SUBSET Debts /\ gone' \in SUBSET Frame
  BY <1>1, <1>4, TypesAre, CoreNow
<1>6. /\ OnChainOnce' /\ status' \in [Frame -> Words]
      /\ \A g \in Frame : status'[g].tag = "start" <=> status[g].tag = "start"
  <2> DEFINE w == Word("exit", 0)
  <2>1. w \in Words /\ w.tag \notin {"start", "sleep"} /\ status' = [status EXCEPT ![f] = w]
    BY <1>1, ExitWord
  <2> HIDE DEF w
  <2> QED
    BY <1>2, <1>4, <2>1, ReworkedOnce
<1>7. Types'
  BY <1>2, <1>5, <1>6, TypesAre, TypesAreNext, CoreNow
<1>8. EventsFirst'
  BY <1>2, CoreNow DEF EventsFirst, Running
<1>9. Watchers(cursor'.rest)
  BY <1>2, OutsideHandler
<1>10. \A i \in DOMAIN choices : Begins(choices[i].chain, chain')
  BY <1>2, CoreNow
<1> QED
  BY <1>2, <1>6, <1>7, <1>8, <1>9, <1>10, RunningCore

\* An agent returns: what is left, and what is saved.
LEMMA Returned ==
  ASSUME Core, chain # <<>>, OwnChoices = {}
  PROVE  /\ Front(chain) \in Seq(Acts) /\ Len(Front(chain)) = Len(chain) - 1
         /\ \A k \in 1 .. Len(chain) - 1 : Front(chain)[k] = chain[k]
         /\ \A i \in DOMAIN choices : choices[i].chain \in Seq(Acts) /\ Begins(choices[i].chain, Front(chain))
         /\ \A f \in Frame : Last(chain).clone \/ f # Last(chain).frame => On(Front(chain), f) = On(chain, f)
         /\ ~Last(chain).clone => On(Front(chain), Last(chain).frame) = {}
<1>1. chain \in Seq(Acts)
  BY CoreNow
<1>2. /\ Front(chain) \in Seq(Acts) /\ Len(Front(chain)) = Len(chain) - 1
      /\ \A k \in 1 .. Len(chain) - 1 : Front(chain)[k] = chain[k]
      /\ \A f \in Frame : On(Front(chain), f) = On(chain, f) \ {Len(chain)}
      /\ \A b \in Seq(Acts) : Begins(b, chain) /\ Len(b) < Len(chain) => Begins(b, Front(chain))
  BY <1>1, Dropped
<1>3. \A i \in DOMAIN choices : choices[i].chain \in Seq(Acts) /\ Begins(choices[i].chain, Front(chain))
  BY <1>2, CoreNow, SavedIsBelow
<1>4. ASSUME NEW f \in Frame, Last(chain).clone \/ f # Last(chain).frame PROVE Len(chain) \notin On(chain, f)
  BY <1>4, LastIs DEF On
<1>5. ~Last(chain).clone => On(chain, Last(chain).frame) = {Len(chain)} /\ Last(chain).frame \in Frame
  BY LastIs
<1> QED
  BY <1>2, <1>3, <1>4, <1>5

\* An agent that is to be re-entered goes back to its head.
LEMMA Reentered ==
  ASSUME Core, chain # <<>>, OwnChoices = {}, ~Last(chain).clone,
         chain' = Append(Front(chain), [Last(chain) EXCEPT !.pc = "head", !.obj = 0])
  PROVE  /\ chain' \in Seq(Acts) /\ Len(chain') = Len(chain)
         /\ \A k \in 1 .. Len(chain) - 1 : chain'[k] = chain[k]
         /\ chain'[Len(chain)] \in Acts /\ chain'[Len(chain)].frame = Last(chain).frame
         /\ chain'[Len(chain)].pc = "head" /\ chain'[Len(chain)].obj = 0 /\ ~chain'[Len(chain)].clone
         /\ \A i \in DOMAIN choices : Begins(choices[i].chain, chain')
         /\ \A f \in Frame : On(chain', f) = On(chain, f)
<1> DEFINE a == Last(chain)
           b == [a EXCEPT !.pc = "head", !.obj = 0]
           d == Front(chain)
<1>1. a \in Acts /\ a.frame \in Frame /\ ~a.clone /\ Len(chain) \in Nat \ {0} /\ On(chain, a.frame) = {Len(chain)}
  BY LastIs
<1> HIDE DEF a
<1>2. b \in Acts /\ b.frame = a.frame /\ ~b.clone /\ b.pc = "head" /\ b.obj = 0
  <2>1. 0 \in 0 .. MaxPosts
    BY Bounds
  <2> DEFINE m == [a EXCEPT !.pc = "head"]
  <2>2. m \in Acts /\ m.frame = a.frame /\ ~m.clone /\ m.pc = "head" /\ b = [m EXCEPT !.obj = 0]
    BY <1>1 DEF Acts
  <2> HIDE DEF m, b
  <2> QED
    BY <2>1, <2>2 DEF Acts
<1>3. chain' = Append(d, b)
  BY DEF a
<1> HIDE DEF b, d
<1>4. /\ d \in Seq(Acts) /\ Len(d) = Len(chain) - 1
      /\ \A k \in 1 .. Len(chain) - 1 : d[k] = chain[k]
      /\ \A i \in DOMAIN choices : choices[i].chain \in Seq(Acts) /\ Begins(choices[i].chain, d)
      /\ \A f \in Frame : f # a.frame => On(d, f) = On(chain, f)
      /\ On(d, a.frame) = {}
  BY <1>1, Returned DEF a, d
<1>5. /\ Append(d, b) \in Seq(Acts) /\ Begins(d, Append(d, b))
      /\ \A f \in Frame : f # a.frame => On(Append(d, b), f) = On(d, f)
      /\ On(Append(d, b), a.frame) = On(d, a.frame) \cup {Len(d) + 1}
  BY <1>2, <1>4, Pushed, ZenonT(60)
<1>6. Len(chain') = Len(chain) /\ chain'[Len(chain)] = b /\ \A k \in 1 .. Len(chain) - 1 : chain'[k] = chain[k]
  BY <1>1, <1>2, <1>3, <1>4
<1>7. \A i \in DOMAIN choices : Begins(choices[i].chain, chain')
  BY <1>3, <1>4, <1>5, BeginsOn
<1>8. ASSUME NEW f \in Frame PROVE On(chain', f) = On(chain, f)
  <2>1. CASE f = a.frame
    <3>1. Len(d) + 1 = Len(chain)
      BY <1>1, <1>4
    <3>2. On(chain', a.frame) = {Len(chain)}
      BY <1>3, <1>4, <1>5, <3>1
    <3> QED
      BY <1>1, <2>1, <3>2
  <2>2. CASE f # a.frame
    BY <1>3, <1>4, <1>5, <2>2
  <2> QED
    BY <2>1, <2>2
<1> QED
  BY <1>2, <1>3, <1>5, <1>6, <1>7, <1>8 DEF a

\* An agent's body ends.
LEMMA ReturnDelayCore == ASSUME Core, ReturnDelay PROVE Core'
<1> DEFINE a == Last(chain)
           f == a.frame
           d == Front(chain)
<1>1. /\ cursor = Idle /\ Running = "body" /\ OwnChoices = {} /\ CatchWake /\ chain # <<>>
      /\ UNCHANGED <<at, list, trail, choices, queue, triggering, posts, owed, gone, program>>
      /\ \/ ~a.clone /\ status[f].tag = "run" /\ chain' = d /\ status' = [status EXCEPT ![f].tag = "sleep"]
         \/ /\ ~a.clone /\ status[f].tag = "reent" /\ status' = [status EXCEPT ![f].tag = "run"]
            /\ chain' = Append(d, [a EXCEPT !.pc = "head", !.obj = 0])
         \/ a.clone /\ chain' = d /\ status' = status
         \/ ~a.clone /\ status[f].tag = "exit" /\ chain' = d /\ status' = status
  BY DEF ReturnDelay, Inline, Running, fixed
<1>2. /\ f \in Frame /\ status[f] \in Words /\ a.clone \in BOOLEAN
      /\ ~a.clone => On(chain, f) = {Len(chain)}
  BY <1>1, LastIs, CoreNow
<1>3. /\ d \in Seq(Acts)
      /\ \A i \in DOMAIN choices : Begins(choices[i].chain, d)
      /\ \A g \in Frame : a.clone \/ g # f => On(d, g) = On(chain, g)
      /\ ~a.clone => On(d, f) = {}
  BY <1>1, Returned
<1>4. /\ chain' \in Seq(Acts) /\ \A i \in DOMAIN choices : Begins(choices[i].chain, chain')
      /\ OnChainOnce' /\ status' \in [Frame -> Words]
      /\ \A g \in Frame : status'[g].tag = "start" <=> status[g].tag = "start"
  <2>1. CASE /\ ~a.clone /\ status[f].tag = "run" /\ chain' = d /\ status' = [status EXCEPT ![f].tag = "sleep"]
    <3> DEFINE w == [status[f] EXCEPT !.tag = "sleep"]
    <3>1. w \in Words /\ w.tag = "sleep"
      BY <1>2 DEF Words
    <3>2. status' = [status EXCEPT ![f] = w]
      BY <2>1
    <3> HIDE DEF w, f, a, d
    <3>3. status' \in [Frame -> Words] /\ status'[f] = w /\ \A g \in Frame : g # f => status'[g] = status[g]
      BY <1>2, <3>1, <3>2, CoreNow
    <3>4. OnChainOnce'
      <4> SUFFICES ASSUME NEW g \in Frame
                   PROVE  /\ \A i, j \in On(chain', g) : i = j
                          /\ status'[g].tag \in {"start", "sleep"} => On(chain', g) = {}
        BY OnceIs
      <4>1. CASE g = f
        BY <1>3, <2>1, <4>1
      <4>2. CASE g # f
        BY <1>3, <2>1, <3>3, <4>2, CoreNow, OnceIs
      <4> QED
        BY <4>1, <4>2
    <3>5. \A g \in Frame : status'[g].tag = "start" <=> status[g].tag = "start"
      BY <2>1, <3>1, <3>3
    <3> QED
      BY <1>3, <2>1, <3>3, <3>4, <3>5
  <2>2. CASE /\ ~a.clone /\ status[f].tag = "reent" /\ status' = [status EXCEPT ![f].tag = "run"]
             /\ chain' = Append(d, [a EXCEPT !.pc = "head", !.obj = 0])
    <3>1. /\ chain' \in Seq(Acts) /\ \A i \in DOMAIN choices : Begins(choices[i].chain, chain')
          /\ \A g \in Frame : On(chain', g) = On(chain, g)
      BY <1>1, <2>2, Reentered
    <3> DEFINE w == [status[f] EXCEPT !.tag = "run"]
    <3>2. w \in Words /\ w.tag \notin {"start", "sleep"}
      BY <1>2 DEF Words
    <3>3. status' = [status EXCEPT ![f] = w]
      BY <2>2
    <3> HIDE DEF w, f
    <3>4. /\ OnChainOnce' /\ status' \in [Frame -> Words]
          /\ \A g \in Frame : status'[g].tag = "start" <=> status[g].tag = "start"
      BY <1>2, <2>2, <3>1, <3>2, <3>3, ReworkedOnce
    <3> QED
      BY <3>1, <3>4
  <2>3. CASE a.clone /\ chain' = d /\ status' = status
    <3> HIDE DEF a, d, f
    <3> QED
      BY <1>3, <2>3, CoreNow, OnceIs
  <2>4. CASE ~a.clone /\ status[f].tag = "exit" /\ chain' = d /\ status' = status
    <3> HIDE DEF a, d, f
    <3>1. OnChainOnce'
      <4> SUFFICES ASSUME NEW g \in Frame
                   PROVE  /\ \A i, j \in On(chain', g) : i = j
                          /\ status'[g].tag \in {"start", "sleep"} => On(chain', g) = {}
        BY OnceIs
      <4>1. CASE g = f
        BY <1>3, <2>4, <4>1
      <4>2. CASE g # f
        BY <1>3, <2>4, <4>2, CoreNow, OnceIs
      <4> QED
        BY <4>1, <4>2
    <3> QED
      BY <1>3, <2>4, <3>1, CoreNow
  <2> QED
    BY <1>1, <2>1, <2>2, <2>3, <2>4
<1>5. cursor' \in [no : 0 .. MaxTriggers, rest : Seq(Frame)] /\ Watchers(cursor'.rest) /\ EventsFirst'
  BY <1>1, Caught
<1>6. Types'
  BY <1>1, <1>4, <1>5, TypesAre, TypesAreNext, CoreNow
<1> QED
  BY <1>1, <1>4, <1>5, <1>6, RunningCore

\* A normal rule's body ends.
LEMMA ReturnCommitCore ==
  ASSUME Core, ReturnCommit
  PROVE  Core'
<1>1. /\ OwnChoices = {} /\ CatchWake /\ chain # <<>> /\ chain' = Front(chain)
      /\ UNCHANGED <<at, status, list, trail, choices, queue, triggering, posts, owed, gone, program>>
  BY DEF ReturnCommit, Running, fixed
<1> DEFINE a == Last(chain)
           f == a.frame
           d == Front(chain)
<1>2. f \in Frame /\ a.clone \in BOOLEAN /\ (~a.clone => status[f].tag \in {"reent", "run", "exit"})
  BY <1>1, LastIs
<1>3. /\ d \in Seq(Acts)
      /\ \A i \in DOMAIN choices : Begins(choices[i].chain, d)
      /\ \A g \in Frame : a.clone \/ g # f => On(d, g) = On(chain, g)
      /\ ~a.clone => On(d, f) = {}
  BY <1>1, Returned
<1>4. chain' = d
  BY <1>1
<1> HIDE DEF a, d, f
<1>5. OnChainOnce'
  <2> SUFFICES ASSUME NEW g \in Frame
               PROVE  /\ \A i, j \in On(chain', g) : i = j
                      /\ status'[g].tag \in {"start", "sleep"} => On(chain', g) = {}
    BY OnceIs
  <2>1. CASE ~a.clone /\ g = f
    BY <1>3, <1>4, <2>1
  <2>2. CASE a.clone \/ g # f
    BY <1>1, <1>3, <1>4, <2>2, CoreNow, OnceIs
  <2> QED
    BY <1>2, <2>1, <2>2
<1>6. cursor' \in [no : 0 .. MaxTriggers, rest : Seq(Frame)] /\ Watchers(cursor'.rest) /\ EventsFirst'
  BY <1>1, Caught
<1>7. Types'
  BY <1>1, <1>3, <1>4, <1>6, TypesAre, TypesAreNext, CoreNow
<1>8. \A i \in DOMAIN choices : Begins(choices[i].chain, chain')
  BY <1>3, <1>4
<1> QED
  BY <1>1, <1>5, <1>6, <1>7, <1>8, RunningCore

-----------------------------------------------------------------------------
(* Choice points are created, cut and returned to.                         *)

\* What a new choice point saves is the present.
LEMMA ChoiceIs ==
  ASSUME Core, Choice
  PROVE  /\ UNCHANGED <<at, status, list, trail, chain, queue, triggering, cursor, posts, owed, gone, program>>
         /\ cursor = Idle /\ queue = <<>> /\ Running # "head"
         /\ Len(choices') = Len(choices) + 1 /\ Len(choices) \in Nat /\ choices' \in Seq(Points)
         /\ \A i \in 1 .. Len(choices) : choices'[i] = choices[i]
         /\ LET cp == choices'[Len(choices) + 1]
            IN  /\ cp \in Points /\ cp.at > B /\ (\A f \in Frame : at[f] < cp.at)
                /\ cp.trail = Len(trail) /\ cp.chain = chain /\ cp.owed = owed /\ cp.gone = gone
         /\ \A i \in 1 .. Len(choices), f \in Frame :
              /\ Old(i, f)' <=> Old(i, f)
              /\ WasStatus(i, f)' = WasStatus(i, f)
         /\ \A i \in 1 .. Len(choices) : WasList(i)' = WasList(i)
<1>1. /\ UNCHANGED <<at, status, list, trail, chain, queue, triggering, cursor, posts, owed, gone, program>>
      /\ cursor = Idle /\ queue = <<>> /\ Running # "head"
  BY DEF Choice, AtCall, Inline, fixed
<1>2. PICK a \in Top + 1 .. MaxAddr :
        choices' = Append(choices, [at |-> a, trail |-> Len(trail), chain |-> chain, owed |-> owed, gone |-> gone])
  BY DEF Choice
<1> DEFINE cp == [at |-> a, trail |-> Len(trail), chain |-> chain, owed |-> owed, gone |-> gone]
<1>3. Top \in Stamps /\ B \in Stamps /\ a \in 1 .. MaxAddr /\ a > B /\ \A f \in Frame : at[f] < a
  <2>1. Top \in Stamps /\ B \in Stamps /\ B <= Top /\ \A f \in Frame : at[f] <= Top /\ at[f] \in Stamps
    BY TopIs, CoreNow, LatestIsB
  <2> QED
    BY <2>1, Bounds DEF Stamps
<1>4. cp \in Points
  <2>1. Len(trail) \in Nat /\ chain \in Seq(Acts) /\ owed \in SUBSET Debts /\ gone \in SUBSET Frame
    BY TypesAre, CoreNow
  <2> QED
    BY <1>3, <2>1 DEF Points
<1>5. choices \in Seq(Points) /\ choices' = Append(choices, cp)
  BY <1>2, TypesAre, CoreNow
<1>6. cp.at = a /\ cp.trail = Len(trail) /\ cp.chain = chain /\ cp.owed = owed /\ cp.gone = gone
  OBVIOUS
<1> HIDE DEF cp
<1>7. /\ Len(choices') = Len(choices) + 1 /\ Len(choices) \in Nat /\ choices' \in Seq(Points)
      /\ choices'[Len(choices) + 1] = cp
      /\ \A i \in 1 .. Len(choices) : choices'[i] = choices[i]
  BY <1>4, <1>5
<1>8. \A i \in 1 .. Len(choices), f \in Frame : (Old(i, f)' <=> Old(i, f)) /\ WasStatus(i, f)' = WasStatus(i, f)
  BY <1>1, <1>7 DEF Old, WasStatus
<1>9. \A i \in 1 .. Len(choices) : WasList(i)' = WasList(i)
  BY <1>1, <1>7 DEF WasList
<1> QED
  BY <1>1, <1>3, <1>4, <1>6, <1>7, <1>8, <1>9

\* A choice point is created.
LEMMA ChoiceCore == ASSUME Core, Choice PROVE Core'
<1> DEFINE n == Len(choices) + 1
           cp == choices'[n]
<1>1. UNCHANGED <<at, status, list, trail, chain, queue, triggering, cursor, posts, owed, gone, program>>
      /\ Running # "head"
  BY ChoiceIs
<1>2. /\ Len(choices') = n /\ n \in Nat \ {0} /\ choices' \in Seq(Points) /\ DOMAIN choices' = 1 .. n
      /\ \A i \in 1 .. n : i # n => i \in DOMAIN choices /\ choices'[i] = choices[i]
  <2>1. choices \in Seq(Points) /\ DOMAIN choices = 1 .. Len(choices)
    BY TypesAre, CoreNow
  <2> QED
    BY <2>1, ChoiceIs
<1>3. cp \in Points /\ cp.at > B /\ (\A f \in Frame : at[f] < cp.at) /\ cp.trail = Len(trail) /\ cp.chain = chain
  BY ChoiceIs
<1>4. \A i \in 1 .. n : i # n => WasList(i)' = WasList(i) /\ \A f \in Frame : Old(i, f)' <=> Old(i, f)
  BY <1>2, ChoiceIs
<1> HIDE DEF n
<1>5. /\ \A i \in DOMAIN choices : choices[i].at \in Nat /\ choices[i].at <= B
      /\ B \in Nat /\ cp.at \in Nat /\ \A f \in Frame : at[f] \in Nat
  <2>1. \A i \in DOMAIN choices : choices[i].at \in Nat
    BY PointTypes, CoreNow
  <2>2. B \in Stamps /\ \A i \in DOMAIN choices : choices[i].at <= B
    BY LatestIsB, CoreNow
  <2>3. \A f \in Frame : at[f] \in Stamps
    BY CoreNow
  <2>4. cp.at \in 1 .. MaxAddr
    BY <1>3 DEF Points
  <2> QED
    BY <2>1, <2>2, <2>3, <2>4, Bounds DEF Stamps
<1> HIDE DEF cp
<1>6. trail \in Seq(Entries) /\ Len(trail) \in Nat /\ chain \in Seq(Acts)
  BY CoreNow
<1>7. Types'
  BY <1>1, <1>2, TypesAre, TypesAreNext, CoreNow
<1>8. OnChainOnce' /\ Placed' /\ ListsNow' /\ EventsFirst'
  BY <1>1, CoreNow, OnceIs DEF Placed, ListsNow, Watchers, Once, EventsFirst, Running
<1>9. Stacked'
  <2>1. ASSUME NEW i \in 1 .. n, NEW j \in 1 .. n, i < j
        PROVE  /\ choices'[i].at < choices'[j].at
               /\ choices'[i].trail <= choices'[j].trail
               /\ Len(choices'[i].chain) <= Len(choices'[j].chain)
    <3>1. i # n /\ i \in DOMAIN choices /\ choices'[i] = choices[i]
      BY <1>2, <2>1
    <3>2. CASE j # n
      BY <1>2, <2>1, <3>1, <3>2, CoreNow DEF Stacked
    <3>3. CASE j = n
      <4>1. choices[i].trail <= Len(trail) /\ Len(choices[i].chain) <= Len(chain)
        BY <3>1, CoreNow DEF Stacked, Begins
      <4> QED
        BY <1>3, <1>5, <3>1, <3>3, <4>1 DEF cp
    <3> QED
      BY <3>2, <3>3
  <2>2. \A i \in 1 .. n : choices'[i].trail <= Len(trail)
    <3>1. \A i \in DOMAIN choices : choices[i].trail <= Len(trail)
      BY CoreNow DEF Stacked
    <3> QED
      BY <1>2, <1>3, <1>6, <3>1 DEF cp
  <2>3. \A i \in 1 .. n, f \in Frame : at[f] # choices'[i].at
    <3>1. \A i \in DOMAIN choices, f \in Frame : at[f] # choices[i].at
      BY CoreNow DEF Stacked
    <3> QED
      BY <1>2, <1>3, <1>5, <3>1 DEF cp
  <2> QED
    BY <1>1, <1>2, <2>1, <2>2, <2>3 DEF Stacked
<1>10. ChainsKept'
  <2> SUFFICES ASSUME NEW i \in 1 .. n
               PROVE  LET c == choices'[i].chain IN
                        /\ Begins(c, chain)
                        /\ c # <<>> => c[Len(c)].pc # "head"
                        /\ \A f \in Frame : On(c, f) # {} => Old(i, f)' /\ Pops(trail, choices'[i].trail, f) = {}
    BY <1>1, <1>2 DEF ChainsKept
  <2>1. CASE i # n
    BY <1>2, <1>4, <2>1, CoreNow DEF ChainsKept
  <2>2. CASE i = n
    <3>1. choices'[i].chain = chain /\ choices'[i].trail = Len(trail)
      BY <1>3, <2>2 DEF cp
    <3>2. chain # <<>> => chain[Len(chain)].pc # "head"
      BY <1>1 DEF Running, Last
    <3>3. \A f \in Frame : at[f] <= choices'[i].at
      BY <1>3, <1>5, <2>2 DEF cp
    <3>5. \A f \in Frame : Pops(trail, Len(trail), f) = {}
      BY <1>6, BackAtEnd
    <3>4. \A f \in Frame : Old(i, f)'
      BY <1>1, <3>3 DEF Old
    <3> QED
      BY <1>6, <3>1, <3>2, <3>4, <3>5, BeginsSame
  <2> QED
    BY <2>1, <2>2
<1>11. TrailIsOld'
  <2> SUFFICES ASSUME NEW k \in DOMAIN trail, trail[k].cell # "lists"
               PROVE  /\ at[trail[k].cell] # 0
                      /\ \A i \in 1 .. n : k <= choices'[i].trail => at[trail[k].cell] <= choices'[i].at
    BY <1>1, <1>2 DEF TrailIsOld, Old
  <2>1. trail[k].cell \in Frame
    <3>1. trail[k] \in Entries
      BY <1>6
    <3> QED
      BY <3>1 DEF Entries
  <2>2. at[trail[k].cell] # 0 /\ \A i \in DOMAIN choices : k <= choices[i].trail => at[trail[k].cell] <= choices[i].at
    BY CoreNow DEF TrailIsOld, Old
  <2>3. at[trail[k].cell] <= cp.at
    BY <1>3, <1>5, <2>1
  <2> QED
    BY <1>2, <2>2, <2>3 DEF cp
<1>12. ListsSaved'
  <2> SUFFICES ASSUME NEW i \in 1 .. n, NEW w \in Channel \X Port
               PROVE  LET s == WasList(i)'[w]
                      IN Once(s) /\ \A k \in DOMAIN s : at[s[k]] # 0 /\ at[s[k]] <= choices'[i].at
    BY <1>1, <1>2 DEF ListsSaved, Old
  <2>1. CASE i # n
    <3>1. Once(WasList(i)[w])
          /\ \A k \in DOMAIN WasList(i)[w] : at[WasList(i)[w][k]] # 0 /\ at[WasList(i)[w][k]] <= choices[i].at
      BY <1>2, <2>1, CoreNow DEF ListsSaved, Old
    <3> QED
      BY <1>2, <1>4, <2>1, <3>1
  <2>2. CASE i = n
    <3>1. WasList(i)' = list
      <4>1. WasList(i)' = Back(trail', choices'[i].trail, "lists", list')
        BY DEF WasList
      <4>2. choices'[i].trail = Len(trail)
        BY <1>3, <2>2 DEF cp
      <4> DEFINE c == "lists"
      <4>3. Back(trail, Len(trail), c, list) = list
        <5> HIDE DEF c
        <5> QED
          BY <1>6, BackAtEnd
      <4> QED
        BY <1>1, <4>1, <4>2, <4>3
    <3>2. list[w] \in Seq(Frame) /\ Watchers(list[w])
      BY CoreNow DEF Lists, ListsNow
    <3>3. \A k \in DOMAIN list[w] : list[w][k] \in Frame
      BY <3>2
    <3> QED
      BY <1>3, <1>5, <2>2, <3>1, <3>2, <3>3 DEF Watchers, cp
  <2> QED
    BY <2>1, <2>2
<1> QED
  BY <1>7, <1>8, <1>9, <1>10, <1>11, <1>12 DEF Core, Saved

\* What is left of the choice points is as it was.
LEMMA CutIs ==
  ASSUME Core, Cut
  PROVE  /\ UNCHANGED <<at, status, list, trail, chain, queue, triggering, cursor, posts, owed, gone, program>>
         /\ program.cuts /\ cursor = Idle /\ Running # "head"
         /\ choices' \in Seq(Points) /\ DOMAIN choices' \subseteq DOMAIN choices
         /\ \A i \in DOMAIN choices' : choices'[i] = choices[i]
<1>1. choices \in Seq(Points)
  BY TypesAre, CoreNow
<1>2. PICK n \in 0 .. Len(choices) - 1 : choices' = SubSeq(choices, 1, n)
  BY DEF Cut
<1>3. n \in Nat /\ n <= Len(choices)
  BY <1>1, <1>2
<1>4. choices' \in Seq(Points) /\ Len(choices') = n /\ \A i \in 1 .. n : choices'[i] = choices[i]
  BY <1>1, <1>2, <1>3
<1>5. DOMAIN choices' \subseteq DOMAIN choices /\ \A i \in DOMAIN choices' : choices'[i] = choices[i]
  BY <1>1, <1>3, <1>4
<1> QED
  BY <1>4, <1>5 DEF Cut, Inline, fixed

\* Choice points are cut.
LEMMA CutCore == ASSUME Core, Cut PROVE Core'
<1>1. UNCHANGED <<at, status, list, trail, chain, queue, triggering, cursor, posts, owed, gone, program>>
      /\ choices' \in Seq(Points) /\ DOMAIN choices' \subseteq DOMAIN choices
      /\ \A i \in DOMAIN choices' : choices'[i] = choices[i]
  BY CutIs
<1>2. Types'
  BY <1>1, TypesAre, TypesAreNext, CoreNow
<1>3. OnChainOnce' /\ Placed' /\ ListsNow' /\ EventsFirst'
  BY <1>1, CoreNow, OnceIs DEF Placed, ListsNow, Watchers, Once, EventsFirst, Running
<1>4. Stacked'
  BY <1>1, CoreNow DEF Stacked
<1>5. ChainsKept'
  BY <1>1, CoreNow DEF ChainsKept, Old
<1>6. TrailIsOld'
  BY <1>1, CoreNow DEF TrailIsOld, Old
<1>7. ListsSaved'
  <2> SUFFICES ASSUME NEW i \in DOMAIN choices', NEW w \in Channel \X Port
               PROVE  LET s == WasList(i)'[w]
                      IN Once(s) /\ \A k \in DOMAIN s : at[s[k]] # 0 /\ at[s[k]] <= choices'[i].at
    BY <1>1 DEF ListsSaved, Old
  <2>1. WasList(i)' = WasList(i)
    BY <1>1 DEF WasList
  <2>2. Once(WasList(i)[w])
        /\ \A k \in DOMAIN WasList(i)[w] : at[WasList(i)[w][k]] # 0 /\ at[WasList(i)[w][k]] <= choices[i].at
    BY <1>1, CoreNow DEF ListsSaved, Old
  <2> QED
    BY <1>1, <2>1, <2>2
<1> QED
  BY <1>2, <1>3, <1>4, <1>5, <1>6, <1>7 DEF Core, Saved

\* The latest choice point is above all others.
LEMMA LatestIs ==
  ASSUME Core, choices # <<>>
  PROVE  LET n == Len(choices)
         IN  /\ n \in DOMAIN choices /\ n \in Nat \ {0} /\ DOMAIN choices = 1 .. n
             /\ choices[n] = Last(choices) /\ choices[n] \in Points /\ B = choices[n].at
             /\ \A i \in DOMAIN choices :
                  /\ choices[i].at <= choices[n].at /\ choices[i].trail <= choices[n].trail
                  /\ Len(choices[i].chain) <= Len(choices[n].chain)
                  /\ choices[i].at \in 1 .. MaxAddr /\ choices[i].at \in Nat /\ choices[i].trail \in Nat
                  /\ choices[i].trail <= Len(trail) /\ choices[i].chain \in Seq(Acts)
<1> DEFINE n == Len(choices)
<1>1. n \in DOMAIN choices /\ n \in Nat \ {0} /\ DOMAIN choices = 1 .. n /\ choices[n] = Last(choices)
  BY TypesAre, CoreNow DEF Last
<1>2. \A i \in DOMAIN choices :
        /\ choices[i] \in Points /\ choices[i].at \in 1 .. MaxAddr /\ choices[i].at \in Nat
        /\ choices[i].trail \in Nat /\ choices[i].chain \in Seq(Acts)
  BY PointTypes, CoreNow
<1> HIDE DEF n
<1>3. ASSUME NEW i \in DOMAIN choices
      PROVE  /\ choices[i].at <= choices[n].at /\ choices[i].trail <= choices[n].trail
             /\ Len(choices[i].chain) <= Len(choices[n].chain)
  <2>1. CASE i = n
    BY <1>2, <2>1
  <2>2. CASE i # n
    <3>1. i < n
      BY <1>1, <2>2
    <3> QED
      BY <1>1, <1>2, <3>1, CoreNow DEF Stacked
  <2> QED
    BY <2>1, <2>2
<1>4. \A i \in DOMAIN choices : choices[i].trail <= Len(trail)
  BY CoreNow DEF Stacked
<1>5. B = choices[n].at
  BY CoreNow, LatestIsB DEF n
<1> QED
  BY <1>1, <1>2, <1>3, <1>4, <1>5 DEF n

\* Failing brings back what the latest choice point has saved, and leaves alone what the
\* others have.
LEMMA FailIs ==
  ASSUME Core, Fail
  PROVE  LET n == Len(choices)
         IN  /\ n \in DOMAIN choices
             /\ cursor = Idle /\ cursor' = Idle /\ queue' = <<>>
             /\ UNCHANGED <<triggering, posts, program>>
             /\ \A f \in Frame : at'[f] = IF Old(n, f) THEN at[f] ELSE 0
             /\ \A f \in Frame : status'[f] = WasStatus(n, f)
             /\ at' = [f \in Frame |-> at'[f]] /\ status' = [f \in Frame |-> status'[f]]
             /\ list' = WasList(n)
             /\ trail' = SubSeq(trail, 1, choices[n].trail)
             /\ chain' = choices[n].chain /\ owed' = choices[n].owed /\ gone' = choices[n].gone
             /\ choices' \in Seq(Points)
             /\ DOMAIN choices' \subseteq DOMAIN choices /\ (\A i \in DOMAIN choices' : choices'[i] = choices[i])
             /\ \A i \in DOMAIN choices : i # n => i \in DOMAIN choices'
<1> DEFINE n == Len(choices)
           cp == Last(choices)
<1>1. choices # <<>> /\ cursor = Idle /\ queue' = <<>> /\ UNCHANGED <<triggering, cursor, posts, program>>
  BY DEF Fail
<1>2. n \in DOMAIN choices /\ choices[n] = cp /\ n \in Nat \ {0} /\ cp \in Points /\ DOMAIN choices = 1 .. n
      /\ choices \in Seq(Points)
  BY <1>1, LatestIs, TypesAre, CoreNow
<1>3. /\ at' = [f \in Frame |-> IF at[f] > cp.at THEN 0 ELSE at[f]]
      /\ status' = [f \in Frame |-> IF at[f] > cp.at THEN Word("start", 0)
                                    ELSE Restored(cp.trail, f, status[f])]
      /\ list' = Restored(cp.trail, "lists", list)
      /\ trail' = SubSeq(trail, 1, cp.trail)
      /\ choices' \in {choices, Front(choices)}
      /\ chain' = cp.chain /\ owed' = cp.owed /\ gone' = cp.gone
  BY DEF Fail
<1>4. \A f \in Frame : at[f] \in Nat /\ cp.at \in Nat
  <2>1. \A f \in Frame : at[f] \in Stamps /\ cp.at \in 1 .. MaxAddr
    BY <1>2, CoreNow DEF Points
  <2> QED
    BY <2>1, Bounds DEF Stamps
<1>5. \A cell, now : Restored(cp.trail, cell, now) = Back(trail, cp.trail, cell, now)
  BY DEF Restored, Popped, Back, Pops
<1> HIDE DEF cp
<1>6. \A f \in Frame : ~Old(n, f) <=> at[f] > cp.at
  BY <1>2, <1>4 DEF Old
<1>7. \A f \in Frame : at'[f] = IF Old(n, f) THEN at[f] ELSE 0
  BY <1>3, <1>6
<1>8. \A f \in Frame : status'[f] = WasStatus(n, f)
  <2> SUFFICES ASSUME NEW f \in Frame PROVE status'[f] = WasStatus(n, f)
    OBVIOUS
  <2>1. status'[f] = IF Old(n, f) THEN Back(trail, cp.trail, f, status[f]) ELSE Word("start", 0)
    BY <1>3, <1>5, <1>6
  <2> QED
    BY <1>2, <2>1 DEF WasStatus
<1>9. list' = WasList(n)
  BY <1>2, <1>3, <1>5 DEF WasList
<1>10. /\ choices' \in Seq(Points)
       /\ DOMAIN choices' \subseteq DOMAIN choices /\ (\A i \in DOMAIN choices' : choices'[i] = choices[i])
       /\ \A i \in DOMAIN choices : i # n => i \in DOMAIN choices'
  <2>1. CASE choices' = choices
    BY <1>2, <2>1
  <2>2. CASE choices' = Front(choices)
    <3> DEFINE m == n - 1
    <3>1. m \in Nat /\ m <= Len(choices) /\ choices' = SubSeq(choices, 1, m)
      BY <1>2, <2>2 DEF Front
    <3> HIDE DEF m
    <3>2. choices' \in Seq(Points) /\ Len(choices') = m /\ \A i \in 1 .. m : choices'[i] = choices[i]
      BY <1>2, <3>1
    <3>3. DOMAIN choices' = 1 .. n - 1
      BY <3>2 DEF m
    <3> HIDE DEF n
    <3> QED
      BY <1>2, <3>2, <3>3
  <2> QED
    BY <1>3, <2>1, <2>2
<1> QED
  BY <1>1, <1>2, <1>3, <1>7, <1>8, <1>9, <1>10

\* What the trail that is left restores.
LEMMA FailBack ==
  ASSUME Core, Fail, NEW i \in DOMAIN choices, NEW cell, NEW now
  PROVE  LET t == choices[i].trail
             m == choices[Len(choices)].trail
         IN  /\ Pops(trail', t, cell) = {k \in Pops(trail, t, cell) : k <= m}
             /\ Back(trail', t, cell, Back(trail, m, cell, now)) = Back(trail, t, cell, now)
             /\ Len(trail') = m /\ DOMAIN trail' = 1 .. m /\ (\A k \in 1 .. m : trail'[k] = trail[k] /\ k \in DOMAIN trail)
             /\ trail' \in Seq(Entries)
<1> DEFINE t == choices[i].trail
           m == choices[Len(choices)].trail
<1>1. t \in Nat /\ m \in Nat /\ t <= m /\ m <= Len(trail) /\ trail' = SubSeq(trail, 1, m) /\ trail \in Seq(Entries)
  <2>1. choices # <<>>
    BY DEF Fail
  <2> QED
    BY <2>1, LatestIs, FailIs, CoreNow
<1> HIDE DEF t, m
<1>2. /\ Pops(trail', t, cell) = {k \in Pops(trail, t, cell) : k <= m}
      /\ Back(trail', t, cell, Back(trail, m, cell, now)) = Back(trail, t, cell, now)
  BY <1>1, BackUndo
<1>3. Len(trail') = m /\ DOMAIN trail' = 1 .. m /\ (\A k \in 1 .. m : trail'[k] = trail[k] /\ k \in DOMAIN trail)
      /\ trail' \in Seq(Entries)
  BY <1>1
<1> QED
  BY <1>2, <1>3 DEF t, m

\* What the choice points have saved is what it was before the step.
LEMMA FailKeeps ==
  ASSUME Core, Fail, NEW i \in DOMAIN choices'
  PROVE  /\ i \in DOMAIN choices /\ choices'[i] = choices[i]
         /\ WasList(i)' = WasList(i)
         /\ \A f \in Frame : /\ WasStatus(i, f)' = WasStatus(i, f)
                             /\ Old(i, f) => at'[f] = at[f] /\ at'[f] <= choices[i].at
                             /\ at'[f] = at[f] \/ at'[f] = 0
<1> DEFINE n == Len(choices)
           t == choices[i].trail
           m == choices[n].trail
<1>1. i \in DOMAIN choices /\ choices'[i] = choices[i]
  BY FailIs
<1>2. choices # <<>>
  BY DEF Fail
<1>3. n \in DOMAIN choices /\ choices[i].at <= choices[n].at /\ choices[i].at \in Nat /\ choices[n].at \in Nat
  BY <1>1, <1>2, LatestIs
<1>4. \A f \in Frame : at[f] \in Nat
  BY CoreNow, Bounds DEF Stamps
<1>5. WasList(i)' = WasList(i)
  <2>1. list' = Back(trail, m, "lists", list)
    BY FailIs DEF WasList
  <2> DEFINE c == "lists"
  <2>2. Back(trail', t, c, Back(trail, m, c, list)) = Back(trail, t, c, list)
    <3> HIDE DEF c
    <3> QED
      BY <1>1, FailBack
  <2> QED
    BY <1>1, <2>1, <2>2 DEF WasList
<1> HIDE DEF n
<1>6. ASSUME NEW f \in Frame
      PROVE  /\ WasStatus(i, f)' = WasStatus(i, f)
             /\ Old(i, f) => at'[f] = at[f] /\ at'[f] <= choices[i].at
             /\ at'[f] = at[f] \/ at'[f] = 0
  <2>1. Old(i, f) => Old(n, f)
    BY <1>3, <1>4 DEF Old
  <2>2. at'[f] = IF Old(n, f) THEN at[f] ELSE 0
    BY FailIs DEF n
  <2>3. status'[f] = WasStatus(n, f)
    BY FailIs DEF n
  <2>4. WasStatus(i, f)' = IF at'[f] <= choices'[i].at
                           THEN Back(trail', choices'[i].trail, f, status'[f]) ELSE Word("start", 0)
    BY DEF WasStatus, Old
  <2>5. Back(trail', t, f, Back(trail, m, f, status[f])) = Back(trail, t, f, status[f])
    BY <1>1, FailBack DEF n
  <2>6. CASE Old(i, f)
    <3>1. status'[f] = Back(trail, m, f, status[f])
      BY <2>1, <2>3, <2>6 DEF WasStatus
    <3>2. at'[f] = at[f] /\ at'[f] <= choices[i].at
      BY <2>1, <2>2, <2>6 DEF Old
    <3> QED
      BY <1>1, <2>4, <2>5, <2>6, <3>1, <3>2 DEF WasStatus
  <2>7. CASE ~Old(i, f) /\ Old(n, f)
    <3>1. at'[f] = at[f] /\ ~(at'[f] <= choices[i].at)
      BY <2>2, <2>7 DEF Old
    <3> QED
      BY <1>1, <2>4, <2>7, <3>1 DEF WasStatus
  <2>8. CASE ~Old(n, f)
    <3>1. at'[f] = 0 /\ status'[f] = Word("start", 0) /\ at'[f] <= choices[i].at
      BY <1>3, <2>2, <2>3, <2>8 DEF WasStatus
    <3>2. Pops(trail', t, f) = {}
      <4> SUFFICES ASSUME NEW k \in Pops(trail', t, f) PROVE FALSE
        OBVIOUS
      <4>1. k \in Pops(trail, t, f) /\ k <= m
        BY <1>1, FailBack DEF n
      <4>2. k \in DOMAIN trail /\ trail[k].cell = f
        BY <4>1, CoreNow, PointTypes, <1>1 DEF Pops
      <4>3. f # "lists"
        BY AgentsAssumption
      <4> QED
        BY <1>3, <2>8, <4>1, <4>2, <4>3, CoreNow DEF TrailIsOld
    <3>3. WasStatus(i, f)' = Word("start", 0)
      BY <1>1, <2>4, <3>1, <3>2 DEF Back
    <3> QED
      BY <2>1, <2>8, <3>1, <3>3 DEF WasStatus
  <2> QED
    BY <2>1, <2>6, <2>7, <2>8
<1> QED
  BY <1>1, <1>5, <1>6

\* What a frame was at the latest choice point.
LEMMA WasFacts ==
  ASSUME Core, NEW i \in DOMAIN choices, NEW f \in Frame
  PROVE  /\ WasStatus(i, f) \in Words
         /\ ~Old(i, f) => WasStatus(i, f) = Word("start", 0)
         /\ Old(i, f) => \/ WasStatus(i, f) = status[f]
                         \/ Pops(trail, choices[i].trail, f) # {} /\ WasStatus(i, f).tag = "sleep" /\ at[f] # 0
         /\ On(choices[i].chain, f) # {} => Old(i, f) /\ WasStatus(i, f) = status[f] /\ On(chain, f) # {}
         /\ On(choices[i].chain, f) \subseteq On(chain, f)
<1> DEFINE t == choices[i].trail
<1>1. t \in Nat /\ trail \in Seq(Entries) /\ status[f] \in Words
  BY CoreNow, PointTypes
<1>2. Word("start", 0) \in Words
  BY Bounds DEF Word, Words, Stamps
<1>3. ASSUME Old(i, f)
      PROVE  /\ WasStatus(i, f) = Back(trail, t, f, status[f])
             /\ \/ WasStatus(i, f) = status[f]
                \/ /\ Pops(trail, t, f) # {} /\ WasStatus(i, f) \in [tag : {"sleep"}, stamp : Stamps] /\ at[f] # 0
  <2>1. WasStatus(i, f) = Back(trail, t, f, status[f])
    BY <1>3 DEF WasStatus
  <2>2. Pops(trail, t, f) # {} => at[f] # 0
    <3> SUFFICES ASSUME NEW k \in Pops(trail, t, f) PROVE at[f] # 0
      OBVIOUS
    <3>1. k \in DOMAIN trail /\ trail[k].cell = f
      BY <1>1 DEF Pops
    <3> QED
      BY <3>1, AgentsAssumption, CoreNow DEF TrailIsOld
  <2>3. \/ Back(trail, t, f, status[f]) = status[f]
        \/ Pops(trail, t, f) # {} /\ Back(trail, t, f, status[f]) \in [tag : {"sleep"}, stamp : Stamps]
    BY <1>1, BackTypes
  <2> QED
    BY <2>1, <2>2, <2>3
<1>4. ASSUME On(choices[i].chain, f) # {}
      PROVE  Old(i, f) /\ WasStatus(i, f) = status[f] /\ On(chain, f) # {}
  <2>1. Old(i, f) /\ Pops(trail, t, f) = {}
    BY <1>4, CoreNow DEF ChainsKept
  <2>2. On(chain, f) # {}
    BY <1>4, CoreNow, SavedIsOnChain
  <2> QED
    BY <2>1, <2>2 DEF WasStatus, Back
<1>5. On(choices[i].chain, f) \subseteq On(chain, f)
  BY CoreNow, SavedIsOnChain
<1>6. ~Old(i, f) => WasStatus(i, f) = Word("start", 0)
  BY DEF WasStatus
<1>7. WasStatus(i, f) \in Words
  BY <1>1, <1>2, <1>3, <1>6 DEF Words
<1> QED
  BY <1>3, <1>4, <1>5, <1>6, <1>7

\* The machine fails.
LEMMA FailCore == ASSUME Core, Fail PROVE Core'
<1> DEFINE n == Len(choices)
<1>1. /\ n \in DOMAIN choices
      /\ cursor = Idle /\ cursor' = Idle /\ queue' = <<>>
      /\ UNCHANGED <<triggering, posts, program>>
      /\ \A f \in Frame : at'[f] = IF Old(n, f) THEN at[f] ELSE 0
      /\ \A f \in Frame : status'[f] = WasStatus(n, f)
      /\ at' = [f \in Frame |-> at'[f]] /\ status' = [f \in Frame |-> status'[f]]
      /\ list' = WasList(n)
      /\ chain' = choices[n].chain /\ owed' = choices[n].owed /\ gone' = choices[n].gone
      /\ choices' \in Seq(Points)
      /\ DOMAIN choices' \subseteq DOMAIN choices /\ (\A i \in DOMAIN choices' : choices'[i] = choices[i])
  BY FailIs
<1>2. \A i \in DOMAIN choices :
        /\ choices[i].at <= choices[n].at /\ choices[i].trail <= choices[n].trail
        /\ Len(choices[i].chain) <= Len(choices[n].chain)
        /\ choices[i].at \in 1 .. MaxAddr /\ choices[i].at \in Nat /\ choices[i].trail \in Nat
        /\ choices[i].chain \in Seq(Acts) /\ choices[i] \in Points /\ Begins(choices[i].chain, chain)
  <2>1. choices # <<>>
    BY DEF Fail
  <2> QED
    BY <2>1, LatestIs, PointTypes, CoreNow
<1>3. /\ trail' \in Seq(Entries) /\ Len(trail') = choices[n].trail /\ DOMAIN trail' = 1 .. choices[n].trail
      /\ \A k \in DOMAIN trail' : trail'[k] = trail[k] /\ k \in DOMAIN trail
  BY <1>1, FailBack
<1>4. ASSUME NEW i \in DOMAIN choices, NEW f \in Frame
      PROVE  Pops(trail', choices[i].trail, f) \subseteq Pops(trail, choices[i].trail, f)
  BY FailBack
<1>5. \A f \in Frame : at[f] \in Stamps /\ at'[f] \in Stamps /\ at[f] \in Nat
  <2>1. \A f \in Frame : at[f] \in Stamps
    BY CoreNow
  <2>2. 0 \in Stamps /\ \A x \in Stamps : x \in Nat
    BY Bounds DEF Stamps
  <2> HIDE DEF n
  <2>3. \A f \in Frame : at'[f] = at[f] \/ at'[f] = 0
    BY <1>1
  <2> QED
    BY <2>1, <2>2, <2>3
<1> HIDE DEF n
<1>6. Types'
  <2>1. at' \in [Frame -> Stamps]
    BY <1>1, <1>5
  <2>2. status' \in [Frame -> Words]
    BY <1>1, WasFacts
  <2>3. list' \in Lists
    <3>1. list' = Back(trail, choices[n].trail, "lists", list)
      BY <1>1 DEF WasList
    <3> QED
      BY <1>1, <1>2, <3>1, BackTypes, CoreNow
  <2>4. owed' \in SUBSET Debts /\ gone' \in SUBSET Frame
    BY <1>1, <1>2 DEF Points
  <2>5. queue' \in Seq(Events) /\ Len(queue') <= MaxTriggers
    BY <1>1, Bounds
  <2>6. triggering' \in [1 .. MaxTriggers -> Stamps] /\ cursor' \in [no : 0 .. MaxTriggers, rest : Seq(Frame)]
        /\ posts' \in 0 .. MaxPosts /\ program' \in Programs
    BY <1>1, TypesAre, CoreNow
  <2> QED
    BY <1>1, <1>2, <1>3, <2>1, <2>2, <2>3, <2>4, <2>5, <2>6, TypesAreNext
<1>7. OnChainOnce'
  <2> SUFFICES ASSUME NEW f \in Frame
               PROVE  /\ \A i, j \in On(chain', f) : i = j
                      /\ status'[f].tag \in {"start", "sleep"} => On(chain', f) = {}
    BY OnceIs
  <2>1. /\ On(choices[n].chain, f) # {} => Old(n, f) /\ WasStatus(n, f) = status[f] /\ On(chain, f) # {}
        /\ On(choices[n].chain, f) \subseteq On(chain, f)
    BY <1>1, WasFacts
  <2>2. /\ \A i, j \in On(chain, f) : i = j
        /\ status[f].tag \in {"start", "sleep"} => On(chain, f) = {}
    BY CoreNow, OnceIs
  <2> QED
    BY <1>1, <2>1, <2>2
<1>8. Placed'
  <2>1. ASSUME NEW f \in Frame PROVE at'[f] = 0 <=> status'[f].tag = "start"
    <3>1. at[f] = 0 <=> status[f].tag = "start"
      BY CoreNow DEF Placed
    <3>2. /\ ~Old(n, f) => WasStatus(n, f) = Word("start", 0)
          /\ Old(n, f) => WasStatus(n, f) = status[f] \/ (WasStatus(n, f).tag = "sleep" /\ at[f] # 0)
      BY <1>1, WasFacts
    <3>3. at'[f] = (IF Old(n, f) THEN at[f] ELSE 0) /\ status'[f] = WasStatus(n, f)
      BY <1>1
    <3> QED
      BY <3>1, <3>2, <3>3 DEF Word
  <2>2. \A f, g \in Frame : at'[f] = at'[g] /\ at'[f] # 0 => f = g
    BY <1>1, CoreNow DEF Placed
  <2> QED
    BY <2>1, <2>2 DEF Placed
<1>9. EventsFirst'
  BY <1>1, CoreNow, Bounds DEF EventsFirst
<1>10. ASSUME NEW i \in DOMAIN choices, NEW w \in Channel \X Port
       PROVE  /\ Once(WasList(i)[w])
              /\ \A k \in DOMAIN WasList(i)[w] : /\ WasList(i)[w][k] \in Frame
                                                 /\ at'[WasList(i)[w][k]] # 0
                                                 /\ at'[WasList(i)[w][k]] <= choices[i].at
  <2> DEFINE s == WasList(i)[w]
  <2>1. s \in Seq(Frame)
    <3>1. WasList(i) \in Lists
      BY <1>2, BackTypes, CoreNow DEF WasList
    <3> QED
      BY <3>1 DEF Lists
  <2>2. Once(s) /\ \A k \in DOMAIN s : at[s[k]] # 0 /\ at[s[k]] <= choices[i].at
    BY CoreNow DEF ListsSaved, Old
  <2> HIDE DEF s
  <2>3. ASSUME NEW k \in DOMAIN s PROVE s[k] \in Frame /\ at'[s[k]] # 0 /\ at'[s[k]] <= choices[i].at
    <3>1. s[k] \in Frame /\ at[s[k]] # 0 /\ at[s[k]] <= choices[i].at
      BY <2>1, <2>2
    <3>2. at[s[k]] <= choices[n].at
      BY <1>1, <1>2, <1>5, <3>1
    <3> QED
      BY <1>1, <3>1, <3>2 DEF Old
  <2> QED
    BY <2>2, <2>3 DEF s
<1>11. ListsNow'
  <2>1. \A w \in Channel \X Port : Watchers(list[w])'
    BY <1>1, <1>10 DEF Watchers, Once
  <2>2. Watchers(cursor.rest)'
    BY <1>1, OutsideHandler DEF Watchers, Once
  <2> QED
    BY <2>1, <2>2 DEF ListsNow
<1>12. Stacked'
  <2>1. \A i \in DOMAIN choices' : i \in DOMAIN choices /\ choices'[i] = choices[i] /\ choices[i].trail <= Len(trail')
    BY <1>1, <1>2, <1>3
  <2>2. \A i \in DOMAIN choices, f \in Frame : at'[f] # choices[i].at
    <3>1. \A i \in DOMAIN choices, f \in Frame : at[f] # choices[i].at /\ choices[i].at # 0
      BY <1>2, CoreNow DEF Stacked
    <3> QED
      BY <1>1, <3>1
  <2> QED
    BY <2>1, <2>2, CoreNow DEF Stacked
<1>13. ChainsKept'
  <2> SUFFICES ASSUME NEW i \in DOMAIN choices'
               PROVE  LET c == choices[i].chain IN
                        /\ Begins(c, chain')
                        /\ c # <<>> => c[Len(c)].pc # "head"
                        /\ \A f \in Frame : On(c, f) # {} =>
                             at'[f] <= choices[i].at /\ Pops(trail', choices[i].trail, f) = {}
    BY <1>1 DEF ChainsKept, Old
  <2>1. i \in DOMAIN choices
    BY <1>1
  <2>2. Begins(choices[i].chain, chain')
    BY <1>1, <1>2, <2>1 DEF Begins
  <2>3. ASSUME NEW f \in Frame, On(choices[i].chain, f) # {}
        PROVE  at'[f] <= choices[i].at /\ Pops(trail', choices[i].trail, f) = {}
    <3>1. Old(i, f) /\ Pops(trail, choices[i].trail, f) = {}
      BY <2>1, <2>3, CoreNow DEF ChainsKept
    <3>2. at'[f] <= choices[i].at
      BY <3>1, FailKeeps
    <3>3. Pops(trail', choices[i].trail, f) = {}
      BY <1>4, <2>1, <3>1
    <3> QED
      BY <3>2, <3>3
  <2> QED
    BY <2>1, <2>2, <2>3, CoreNow DEF ChainsKept
<1>14. TrailIsOld'
  <2> SUFFICES ASSUME NEW k \in DOMAIN trail', trail'[k].cell # "lists"
               PROVE  /\ at'[trail'[k].cell] # 0
                      /\ \A i \in DOMAIN choices' : k <= choices[i].trail => at'[trail'[k].cell] <= choices[i].at
    BY <1>1 DEF TrailIsOld, Old
  <2> DEFINE f == trail[k].cell
  <2>1. k \in DOMAIN trail /\ trail'[k] = trail[k] /\ k <= choices[n].trail
    BY <1>1, <1>2, <1>3
  <2>2. f \in Frame
    <3>1. trail[k] \in Entries
      BY <2>1, CoreNow
    <3> QED
      BY <2>1, <3>1 DEF Entries
  <2>3. at[f] # 0 /\ \A i \in DOMAIN choices : k <= choices[i].trail => at[f] <= choices[i].at
    BY <2>1, CoreNow DEF TrailIsOld, Old
  <2> HIDE DEF f
  <2>4. at'[f] = at[f]
    BY <1>1, <2>1, <2>2, <2>3 DEF Old
  <2> QED
    BY <1>1, <2>1, <2>3, <2>4 DEF f
<1>15. ListsSaved'
  <2> SUFFICES ASSUME NEW i \in DOMAIN choices', NEW w \in Channel \X Port
               PROVE  LET s == WasList(i)'[w]
                      IN Once(s) /\ \A k \in DOMAIN s : at'[s[k]] # 0 /\ at'[s[k]] <= choices'[i].at
    BY DEF ListsSaved, Old
  <2>1. i \in DOMAIN choices /\ choices'[i] = choices[i] /\ WasList(i)' = WasList(i)
    BY FailKeeps
  <2> QED
    BY <1>10, <2>1
<1> QED
  BY <1>6, <1>7, <1>8, <1>9, <1>11, <1>12, <1>13, <1>14, <1>15 DEF Core, Saved

-----------------------------------------------------------------------------
(* Core is invariant.                                                      *)

\* Nothing is there at first.
LEMMA CoreInit == ASSUME Init PROVE Core
<1>1. /\ program \in Programs /\ at = [f \in Frame |-> 0] /\ status = [f \in Frame |-> Word("start", 0)]
      /\ list = [cp \in Channel \X Port |-> <<>>] /\ trail = <<>> /\ choices = <<>> /\ chain = <<>>
      /\ queue = <<>> /\ triggering = [i \in 1 .. MaxTriggers |-> 0] /\ cursor = Idle
      /\ posts = 0 /\ owed = {} /\ gone = {}
  BY DEF Init
<1>2. Types
  <2>1. at \in [Frame -> Stamps] /\ triggering \in [1 .. MaxTriggers -> Stamps]
    BY <1>1, Bounds DEF Stamps
  <2>2. status \in [Frame -> Words]
    BY <1>1, Bounds DEF Words, Word, Stamps
  <2>3. list \in Lists
    BY <1>1 DEF Lists
  <2>4. cursor \in [no : 0 .. MaxTriggers, rest : Seq(Frame)]
    BY <1>1, Bounds DEF Idle
  <2>5. queue \in Seq(Events) /\ Len(queue) <= MaxTriggers /\ posts \in 0 .. MaxPosts
    BY <1>1, Bounds
  <2>6. trail \in Seq(Entries) /\ choices \in Seq(Points) /\ chain \in Seq(Acts)
    BY <1>1
  <2> QED
    BY <1>1, <2>1, <2>2, <2>3, <2>4, <2>5, <2>6, TypesAre
<1>3. OnChainOnce
  BY <1>1, OnceIs DEF On
<1>4. Placed
  BY <1>1 DEF Placed, Word
<1>5. EventsFirst
  BY <1>1 DEF EventsFirst
<1>6. ListsNow
  BY <1>1, OutsideHandler DEF ListsNow, Watchers, Once
<1>7. Saved
  BY <1>1 DEF Saved, Stacked, ChainsKept, TrailIsOld, ListsSaved
<1> QED
  BY <1>2, <1>3, <1>4, <1>5, <1>6, <1>7 DEF Core

\* Every step keeps it.
LEMMA CoreNext == ASSUME Core, [Next]_vars PROVE Core'
<1>1. CASE UNCHANGED vars
  <2>1. UNCHANGED <<at, status, list, trail, choices, chain>> /\ UNCHANGED <<program, queue, triggering, cursor, posts, owed, gone>>
    BY <1>1 DEF vars
  <2>2. Types'
    BY <2>1, TypesAre, TypesAreNext, CoreNow
  <2>3. EventsFirst' /\ Watchers(cursor'.rest)
    BY <2>1, CoreNow DEF EventsFirst, Running, ListsNow
  <2> QED
    BY <2>1, <2>2, <2>3, QuietCore
<1>2. ASSUME NEW f \in Frame, NewActor(f) PROVE Core'
  BY <1>2, NewActorCore
<1>3. ASSUME NEW c \in Channel, PostVarIns(c) \/ PostDvarIns(c) \/ PostMinmax(c) \/ PostGeneral(c) PROVE Core'
  BY <1>3, PostsCore
<1>4. ASSUME NEW c \in Channel, NEW p \in {"dom", "outer_dom"}, PostDom(c, p) \/ IgnoreDom(c, p) PROVE Core'
  <2>1. p \in Port
    BY DEF Port
  <2> QED
    BY <1>4, <2>1, PostsCore, IgnoreDomCore
<1> QED
  BY <1>1, <1>2, <1>3, <1>4, CallCore, ConnectCore, HandlerCore, SelectActionCore, SelectNormalCore, KillCore,
     ReturnDelayCore, ReturnCommitCore, ChoiceCore, CutCore, FailCore DEF Next

\* The frames, the words and the chain that the machine runs on are whole, through every mix of
\* wake-ups, nested handlers, re-entries, choice points, cuts and backtracking: no frame is on
\* the active chain twice, nor while it sleeps.
THEOREM AgentsAreWellFormed == Spec => []WellFormed
<1>1. Init => Core
  BY CoreInit
<1>2. Core /\ [Next]_vars => Core'
  BY CoreNext
<1>3. Core => WellFormed
  BY DEF Core, Types, WellFormed
<1> QED
  BY <1>1, <1>2, <1>3, PTL DEF Spec

-----------------------------------------------------------------------------
(* The order of events.                                                    *)

\* Where the handler is idle, all activations with an event are from earlier queues.
LEMMA FromEarlier ==
  ASSUME Core, InOrder, cursor = Idle, NEW j \in DOMAIN chain, chain[j].obj # 0
  PROVE  chain[j].batch < WokenBatch /\ chain[j].batch \in Nat /\ WokenBatch \in Nat /\ WokenBatch <= posts
<1>1. chain[j].batch \in 0 .. MaxPosts /\ WokenBatch \in 0 .. MaxPosts
  <2>1. chain[j] \in Acts
    BY CoreNow
  <2> QED
    BY <2>1, BatchIs DEF Acts
<1>2. chain[j].batch <= WokenBatch /\ chain[j].batch # WokenBatch
  BY DEF InOrder
<1>3. posts \in Nat /\ Len(queue) \in Nat
  BY CoreNow, Bounds
<1>4. WokenBatch <= posts
  BY <1>3 DEF WokenBatch
<1> QED
  BY <1>1, <1>2, <1>4, Bounds

\* Steps outside the handler: what is on the chain was there, or has no event of its own or is
\* not at its head. The events that are pending are the same or others are posted.
LEMMA QuietOrder ==
  ASSUME Core, Core', InOrder, cursor = Idle,
         posts' - Len(queue') >= posts - Len(queue),
         \A k \in DOMAIN queue' : queue'[k].obj <= posts',
         \A j, k \in DOMAIN queue' : j < k => queue'[j].obj < queue'[k].obj,
         \A j \in DOMAIN chain' : \/ chain'[j].obj = 0
                                  \/ /\ j \in DOMAIN chain /\ chain'[j].frame = chain[j].frame
                                     /\ chain'[j].obj = chain[j].obj /\ chain'[j].batch = chain[j].batch
                                     /\ chain'[j].pc = "head" => chain[j].pc = "head"
  PROVE  InOrder'
<1>1. \A j \in DOMAIN chain' : chain'[j].obj # 0 => chain'[j].batch < WokenBatch'
  <2> SUFFICES ASSUME NEW j \in DOMAIN chain', chain'[j].obj # 0 PROVE chain'[j].batch < WokenBatch'
    OBVIOUS
  <2>1. j \in DOMAIN chain /\ chain[j].obj # 0 /\ chain'[j].batch = chain[j].batch
    OBVIOUS
  <2>2. chain[j].batch < WokenBatch /\ chain[j].batch \in Nat /\ WokenBatch \in Nat
    BY <2>1, FromEarlier
  <2>3. WokenBatch' \in Nat
    <3>1. posts' \in 0 .. MaxPosts /\ queue' \in Seq(Events) /\ Len(queue') <= posts'
      BY TypesAreNext DEF Core, EventsFirst
    <3> QED
      BY <3>1, Bounds DEF WokenBatch
  <2>4. WokenBatch <= WokenBatch'
    <3>1. posts \in Int /\ Len(queue) \in Int /\ posts' \in Int /\ Len(queue') \in Int
      BY TypesAre, TypesAreNext, Bounds DEF Core
    <3> QED
      BY <3>1 DEF WokenBatch
  <2> QED
    BY <2>1, <2>2, <2>3, <2>4
<1>2. InPostingOrder'
  BY DEF InPostingOrder, InOrder
<1>3. \A j \in DOMAIN chain' : chain'[j].obj # 0 => chain'[j].batch <= WokenBatch' /\ chain'[j].batch # WokenBatch'
  <2> SUFFICES ASSUME NEW j \in DOMAIN chain', chain'[j].obj # 0
               PROVE  chain'[j].batch <= WokenBatch' /\ chain'[j].batch # WokenBatch'
    OBVIOUS
  <2>1. chain'[j].batch < WokenBatch'
    BY <1>1
  <2>2. chain'[j].batch \in Int /\ WokenBatch' \in Int
    <3>1. chain'[j] \in Acts
      BY TypesAreNext DEF Core
    <3>2. posts' \in 0 .. MaxPosts /\ queue' \in Seq(Events)
      BY TypesAreNext DEF Core
    <3> QED
      BY <3>1, <3>2, Bounds DEF WokenBatch, Acts
  <2> QED
    BY <2>1, <2>2
<1> QED
  BY <1>2, <1>3 DEF InOrder

\* Events are posted with growing numbers.
LEMMA PostOrder ==
  ASSUME Core, Core', InOrder, \E c, p, kind, seeds : Post(c, p, kind, seeds)
  PROVE  InOrder'
<1>1. PICK c, p, kind, seeds : Post(c, p, kind, seeds)
  OBVIOUS
<1> DEFINE e == [chan |-> c, port |-> p, kind |-> kind, obj |-> posts + 1]
<1>2. queue' = Append(queue, e) /\ posts' = posts + 1 /\ chain' = chain /\ cursor = Idle /\ e.obj = posts + 1
  BY <1>1 DEF Post, Inline
<1> HIDE DEF e
<1>3. queue \in Seq(Events) /\ posts \in Nat /\ queue' \in Seq(Events)
  BY CoreNow, TypesAreNext, Bounds DEF Core
<1>4. /\ Len(queue') = Len(queue) + 1 /\ Len(queue) \in Nat /\ queue'[Len(queue) + 1] = e
      /\ \A k \in 1 .. Len(queue) : queue'[k] = queue[k]
  BY <1>2, <1>3
<1>5. \A k \in 1 .. Len(queue) : queue[k].obj <= posts /\ queue[k].obj \in Nat
  <2>1. \A k \in 1 .. Len(queue) : queue[k] \in Events /\ k \in DOMAIN queue
    BY <1>3
  <2> QED
    BY <2>1, Bounds DEF InOrder, Events
<1>6. \A k \in DOMAIN queue' : queue'[k].obj <= posts'
  BY <1>2, <1>3, <1>4, <1>5
<1>7. \A j, k \in DOMAIN queue' : j < k => queue'[j].obj < queue'[k].obj
  <2> SUFFICES ASSUME NEW j \in DOMAIN queue', NEW k \in DOMAIN queue', j < k PROVE queue'[j].obj < queue'[k].obj
    OBVIOUS
  <2>1. j \in 1 .. Len(queue) /\ DOMAIN queue' = 1 .. Len(queue) + 1 /\ DOMAIN queue = 1 .. Len(queue)
    BY <1>3, <1>4
  <2>2. CASE k = Len(queue) + 1
    BY <1>2, <1>3, <1>4, <1>5, <2>1, <2>2
  <2>3. CASE k # Len(queue) + 1
    BY <1>4, <2>1, <2>3 DEF InOrder
  <2> QED
    BY <2>2, <2>3
<1>8. posts' - Len(queue') >= posts - Len(queue)
  BY <1>2, <1>3, <1>4
<1> QED
  BY <1>2, <1>6, <1>7, <1>8, QuietOrder

\* A frame is connected to the event at hand, which is earlier than those that came before.
LEMMA ConnectOrder == ASSUME Core, Core', InOrder, Connect PROVE InOrder'
<1> DEFINE f == Head(cursor.rest)
           e == queue[cursor.no]
           n == Len(chain) + 1
<1>1. /\ cursor # Idle /\ cursor.rest # <<>>
      /\ cursor'.no = cursor.no /\ cursor'.rest = Tail(cursor.rest) /\ cursor' # Idle
      /\ UNCHANGED <<queue, posts>>
  <2>1. cursor # Idle /\ cursor.rest # <<>>
    BY DEF Connect, Idle
  <2>2. cursor.no # 0
    BY <2>1, HandlerIs
  <2> QED
    BY <2>1, <2>2, ConnectLinked DEF Idle
<1>2. e \in Events /\ e.obj \in Nat /\ f \in Frame
  BY <1>1, HandlerIs, TailOnce, Bounds DEF Events
<1>3. Range(Tail(cursor.rest)) = Range(cursor.rest) \ {f}
  BY <1>1, HandlerIs, TailOnce
<1>4. \/ chain' = chain
      \/ \E clone \in BOOLEAN : \/ chain' = Append(chain, Activation(f, clone, 0, WokenBatch))
                               \/ chain' = Append(chain, Activation(f, clone, e.obj, WokenBatch))
  BY DEF Connect, EventAt, ConnectIns, ConnectMinmax, ConnectDom, WakeSleeper
<1>5. f \in Range(cursor.rest)
  <2>1. f = cursor.rest[1] /\ 1 \in DOMAIN cursor.rest
    BY <1>1, HandlerIs, TailOnce
  <2> QED
    BY <2>1, RangeIs
<1> HIDE DEF f, e
<1>6. chain \in Seq(Acts) /\ WokenBatch' = WokenBatch /\ WokenBatch \in Nat
  BY <1>1, CoreNow, BatchIs, Bounds DEF WokenBatch
<1>7. \/ chain' = chain
      \/ /\ DOMAIN chain' = 1 .. n /\ (\A k \in 1 .. Len(chain) : chain'[k] = chain[k])
         /\ chain'[n].frame = f /\ chain'[n].obj \in {0, e.obj} /\ chain'[n].batch = WokenBatch
  <2> SUFFICES ASSUME NEW clone \in BOOLEAN, NEW o \in {0, e.obj},
                      chain' = Append(chain, Activation(f, clone, o, WokenBatch))
               PROVE  /\ DOMAIN chain' = 1 .. n /\ (\A k \in 1 .. Len(chain) : chain'[k] = chain[k])
                      /\ chain'[n].frame = f /\ chain'[n].obj \in {0, e.obj} /\ chain'[n].batch = WokenBatch
    BY <1>4
  <2> DEFINE a == Activation(f, clone, o, WokenBatch)
  <2>1. a.frame = f /\ a.obj = o /\ a.batch = WokenBatch
    BY DEF Activation
  <2>2. chain' = Append(chain, a)
    OBVIOUS
  <2>3. a \in Acts
    <3>1. 0 \in 0 .. MaxPosts /\ e.obj \in 0 .. MaxPosts
      BY <1>2, Bounds DEF Events
    <3> QED
      BY <1>2, <3>1, ActivationIs, BatchIs
  <2> HIDE DEF a
  <2>4. Len(chain') = Len(chain) + 1 /\ chain'[Len(chain) + 1] = a /\ chain' \in Seq(Acts)
        /\ \A k \in 1 .. Len(chain) : chain'[k] = chain[k]
    BY <1>6, <2>2, <2>3
  <2> QED
    BY <2>1, <2>4
<1>8. ASSUME NEW j \in DOMAIN chain, chain[j].obj # 0
      PROVE  /\ chain[j].batch <= WokenBatch
             /\ chain[j].batch = WokenBatch =>
                  /\ e.obj <= chain[j].obj
                  /\ chain[j].obj = e.obj => chain[j].frame \notin Range(cursor.rest)
  BY <1>8 DEF InOrder, e
<1>9. \A j \in DOMAIN chain' : chain'[j].obj # 0 =>
        /\ chain'[j].batch <= WokenBatch
        /\ chain'[j].batch = WokenBatch =>
             /\ e.obj <= chain'[j].obj
             /\ chain'[j].obj = e.obj => chain'[j].frame \notin Range(Tail(cursor.rest))
  <2> SUFFICES ASSUME NEW j \in DOMAIN chain', chain'[j].obj # 0
               PROVE  /\ chain'[j].batch <= WokenBatch
                      /\ chain'[j].batch = WokenBatch =>
                           /\ e.obj <= chain'[j].obj
                           /\ chain'[j].obj = e.obj => chain'[j].frame \notin Range(Tail(cursor.rest))
    OBVIOUS
  <2>1. CASE j \in DOMAIN chain /\ chain'[j] = chain[j]
    BY <1>3, <1>8, <2>1
  <2>2. CASE chain'[j].frame = f /\ chain'[j].obj \in {0, e.obj} /\ chain'[j].batch = WokenBatch
    BY <1>2, <1>3, <1>6, <2>2
  <2> QED
    BY <1>6, <1>7, <2>1, <2>2
<1>10. InPostingOrder'
  <2> SUFFICES ASSUME NEW i \in DOMAIN chain', NEW j \in DOMAIN chain', i < j,
                      chain'[i].frame = chain'[j].frame, chain'[i].batch = chain'[j].batch,
                      chain'[i].pc = "head", chain'[j].pc = "head", chain'[i].obj # 0, chain'[j].obj # 0
               PROVE  chain'[j].obj < chain'[i].obj
    BY DEF InPostingOrder
  <2>1. CASE j \in DOMAIN chain /\ chain' = chain
    BY <2>1 DEF InOrder, InPostingOrder
  <2>2. CASE /\ DOMAIN chain' = 1 .. n /\ (\A k \in 1 .. Len(chain) : chain'[k] = chain[k])
             /\ chain'[n].frame = f /\ chain'[n].obj \in {0, e.obj} /\ chain'[n].batch = WokenBatch
    <3>1. i \in DOMAIN chain /\ chain'[i] = chain[i] /\ chain[i].obj \in Nat
      <4>1. i \in DOMAIN chain /\ chain'[i] = chain[i]
        BY <1>6, <2>2
      <4>2. chain[i] \in Acts
        BY <1>6, <4>1
      <4> QED
        BY <4>1, <4>2, Bounds DEF Acts
    <3>2. CASE j = n
      <4>1. chain'[j].obj = e.obj /\ chain[i].batch = WokenBatch /\ chain[i].frame = f
        BY <2>2, <3>1, <3>2
      <4>2. e.obj <= chain[i].obj /\ (chain[i].obj = e.obj => f \notin Range(cursor.rest))
        BY <1>8, <3>1, <4>1
      <4> QED
        BY <1>2, <1>5, <3>1, <4>1, <4>2
    <3>3. CASE j # n
      <4>1. j \in DOMAIN chain /\ chain'[j] = chain[j]
        BY <1>6, <2>2, <3>3
      <4> QED
        BY <3>1, <4>1 DEF InOrder, InPostingOrder
    <3> QED
      BY <3>2, <3>3
  <2> QED
    BY <1>7, <2>1, <2>2
<1>11. queue'[cursor'.no].obj = e.obj
  BY <1>1 DEF e
<1> QED
  BY <1>1, <1>6, <1>9, <1>10, <1>11 DEF InOrder

\* The handler goes to an earlier event, or is done.
LEMMA HandlerOrder == ASSUME Core, Core', InOrder, NextEvent \/ HandlerDone PROVE InOrder'
<1>1. cursor # Idle /\ cursor.no \in 1 .. Len(queue) /\ cursor.no \in Nat /\ UNCHANGED <<chain, posts>>
  <2>1. cursor # Idle
    BY DEF NextEvent, HandlerDone, Idle
  <2> QED
    BY <2>1, HandlerIs DEF NextEvent, HandlerDone
<1>2. queue \in Seq(Events) /\ chain \in Seq(Acts) /\ WokenBatch \in Nat /\ posts \in Nat
  BY CoreNow, BatchIs, Bounds
<1>3. CASE NextEvent
  <2> DEFINE m == cursor.no - 1
  <2>1. queue' = queue /\ cursor' = AtEvent(m) /\ m \in 1 .. Len(queue) /\ m < cursor.no
    BY <1>1, <1>2, <1>3 DEF NextEvent
  <2> HIDE DEF m
  <2>2. cursor'.no = m /\ cursor' # Idle
    BY <2>1, EventIs
  <2>3. queue[m].obj < queue[cursor.no].obj /\ queue[m].obj \in Nat /\ queue[cursor.no].obj \in Nat
    <3>1. queue[m] \in Events /\ queue[cursor.no] \in Events
      BY <1>1, <1>2, <2>1
    <3> QED
      BY <1>1, <1>2, <2>1, <3>1, Bounds DEF InOrder, Events
  <2>4. \A j \in DOMAIN chain : chain[j].obj \in Nat
    <3>1. \A j \in DOMAIN chain : chain[j] \in Acts
      BY <1>2
    <3> QED
      BY <3>1, Bounds DEF Acts
  <2>5. WokenBatch' = WokenBatch
    BY <1>1, <2>1 DEF WokenBatch
  <2>6. \A j \in DOMAIN chain' : chain'[j].obj # 0 =>
          /\ chain'[j].batch <= WokenBatch'
          /\ chain'[j].batch = WokenBatch' =>
               /\ cursor' # Idle
               /\ queue'[cursor'.no].obj <= chain'[j].obj
               /\ chain'[j].obj # queue'[cursor'.no].obj
    BY <1>1, <2>1, <2>2, <2>3, <2>4, <2>5 DEF InOrder
  <2>7. InPostingOrder'
    BY <1>1 DEF InOrder, InPostingOrder
  <2> QED
    BY <1>1, <2>1, <2>6, <2>7 DEF InOrder
<1>4. CASE HandlerDone
  <2>1. queue' = <<>> /\ Len(queue) \in Nat /\ Len(queue) >= 1
    BY <1>1, <1>2, <1>4 DEF HandlerDone
  <2>2. WokenBatch' = posts /\ WokenBatch < posts
    BY <1>1, <1>2, <2>1 DEF WokenBatch
  <2>3. \A j \in DOMAIN chain' : chain'[j].obj # 0 => chain'[j].batch <= WokenBatch' /\ chain'[j].batch # WokenBatch'
    <3>1. \A j \in DOMAIN chain : chain[j].batch \in Nat
      <4>1. \A j \in DOMAIN chain : chain[j] \in Acts
        BY <1>2
      <4> QED
        BY <4>1, Bounds DEF Acts
    <3> QED
      BY <1>1, <1>2, <2>2, <3>1 DEF InOrder
  <2>4. InPostingOrder'
    BY <1>1 DEF InOrder, InPostingOrder
  <2> QED
    BY <2>1, <2>3, <2>4 DEF InOrder
<1> QED
  BY <1>3, <1>4

\* The rest of the steps connect nothing and post nothing.
LEMMA OtherOrder ==
  ASSUME Core, Core', InOrder,
         \/ \E f \in Frame : NewActor(f)
         \/ \E c \in Channel, p \in {"dom", "outer_dom"} : IgnoreDom(c, p)
         \/ Call \/ SelectAction \/ SelectNormal \/ Kill \/ ReturnDelay \/ ReturnCommit \/ Choice \/ Cut \/ Fail
  PROVE  InOrder'
<1>1. cursor = Idle
  BY DEF NewActor, IgnoreDom, Call, SelectAction, SelectNormal, Kill, ReturnDelay, ReturnCommit, Choice, Cut, Fail,
         AtCall, Inline, AtHead
<1>2. /\ queue' \in {queue, <<>>}
      /\ posts' = posts \/ posts' = posts + 1
  BY DEF NewActor, IgnoreDom, Call, SelectAction, SelectNormal, Kill, ReturnDelay, ReturnCommit, Choice, Cut, Fail
<1>3. queue \in Seq(Events) /\ chain \in Seq(Acts) /\ posts \in Nat
  BY CoreNow, Bounds
<1>4. /\ posts' - Len(queue') >= posts - Len(queue)
      /\ \A k \in DOMAIN queue' : queue'[k].obj <= posts'
      /\ \A j, k \in DOMAIN queue' : j < k => queue'[j].obj < queue'[k].obj
  <2>1. CASE queue' = queue
    <3>1. \A k \in DOMAIN queue : queue[k] \in Events
      BY <1>3
    <3>2. \A k \in DOMAIN queue : queue[k].obj <= posts /\ queue[k].obj \in Nat
      BY <3>1, Bounds DEF InOrder, Events
    <3>3. \A k \in DOMAIN queue' : queue'[k].obj <= posts'
      BY <1>2, <1>3, <2>1, <3>2
    <3> QED
      BY <1>2, <1>3, <2>1, <3>3 DEF InOrder
  <2>2. CASE queue' = <<>>
    BY <1>2, <1>3, <2>2
  <2> QED
    BY <1>2, <2>1, <2>2
<1> DEFINE Stays ==
      \A j \in DOMAIN chain' : \/ chain'[j].obj = 0
                               \/ /\ j \in DOMAIN chain /\ chain'[j].frame = chain[j].frame
                                  /\ chain'[j].obj = chain[j].obj /\ chain'[j].batch = chain[j].batch
                                  /\ chain'[j].pc = "head" => chain[j].pc = "head"
<1>5. ASSUME chain' = chain PROVE Stays
  BY <1>5
<1>6. ASSUME NEW f \in Frame, NewActor(f) PROVE Stays
  <2> DEFINE act == [Activation(f, FALSE, 0, posts) EXCEPT !.pc = "body"]
  <2>1. chain' = Append(chain, act) /\ act.obj = 0
    BY <1>6 DEF NewActor, Activation
  <2> HIDE DEF act
  <2>2. Len(chain') = Len(chain) + 1 /\ chain'[Len(chain) + 1] = act /\ DOMAIN chain' = 1 .. Len(chain) + 1
        /\ \A k \in 1 .. Len(chain) : chain'[k] = chain[k]
    BY <1>3, <2>1
  <2> QED
    BY <1>3, <2>1, <2>2
<1>7. ASSUME SelectAction \/ SelectNormal PROVE Stays
  <2>1. PICK pc \in {"body", "exit"} : AtHead /\ GoTo(pc)
    BY <1>7 DEF SelectAction, SelectNormal
  <2>2. /\ DOMAIN chain' = DOMAIN chain
        /\ \A k \in DOMAIN chain : k # Len(chain) => chain'[k] = chain[k]
        /\ chain'[Len(chain)] = [chain[Len(chain)] EXCEPT !.pc = pc]
    BY <2>1, GoneTo
  <2>3. chain # <<>> /\ chain[Len(chain)] \in Acts /\ chain[Len(chain)].pc = "head"
    BY <2>1, AtHeadIs, LastIs
  <2>4. /\ chain'[Len(chain)].frame = chain[Len(chain)].frame /\ chain'[Len(chain)].obj = chain[Len(chain)].obj
        /\ chain'[Len(chain)].batch = chain[Len(chain)].batch
    BY <2>2, <2>3 DEF Acts
  <2> QED
    BY <2>2, <2>3, <2>4
<1>8. ASSUME ReturnDelay \/ ReturnCommit PROVE Stays
  <2>1. chain # <<>> /\ OwnChoices = {}
    BY <1>8 DEF ReturnDelay, ReturnCommit, Running
  <2>2. CASE chain' = Front(chain)
    <3>1. Front(chain) \in Seq(Acts) /\ Len(Front(chain)) = Len(chain) - 1
          /\ \A k \in 1 .. Len(chain) - 1 : Front(chain)[k] = chain[k]
      BY <2>1, Returned
    <3> QED
      BY <1>3, <2>2, <3>1
  <2>3. CASE ~Last(chain).clone /\ chain' = Append(Front(chain), [Last(chain) EXCEPT !.pc = "head", !.obj = 0])
    <3>1. /\ chain' \in Seq(Acts) /\ Len(chain') = Len(chain) /\ chain'[Len(chain)].obj = 0
          /\ \A k \in 1 .. Len(chain) - 1 : chain'[k] = chain[k]
      BY <2>1, <2>3, Reentered
    <3>2. DOMAIN chain' = 1 .. Len(chain) /\ DOMAIN chain = 1 .. Len(chain) /\ Len(chain) \in Nat
      BY <1>3, <3>1
    <3>3. ASSUME NEW j \in DOMAIN chain' PROVE chain'[j].obj = 0 \/ (j \in DOMAIN chain /\ chain'[j] = chain[j])
      BY <3>1, <3>2
    <3> QED
      BY <3>3
  <2> QED
    BY <1>8, <2>2, <2>3 DEF ReturnDelay, ReturnCommit
<1>9. ASSUME Fail PROVE Stays
  <2> DEFINE n == Len(choices)
  <2>1. chain' = choices[n].chain /\ n \in DOMAIN choices
    BY <1>9, FailIs
  <2>2. Begins(choices[n].chain, chain) /\ choices[n].chain \in Seq(Acts)
    BY <2>1, CoreNow, PointTypes
  <2> HIDE DEF n
  <2> QED
    BY <1>3, <2>1, <2>2 DEF Begins
<1>10. Stays
  <2>1. ASSUME \/ \E c \in Channel, p \in {"dom", "outer_dom"} : IgnoreDom(c, p)
               \/ Call \/ Kill \/ Choice \/ Cut
        PROVE  chain' = chain
    BY <2>1 DEF IgnoreDom, Call, Kill, Choice, Cut
  <2> QED
    BY <1>5, <1>6, <1>7, <1>8, <1>9, <2>1
<1> QED
  BY <1>1, <1>4, <1>10, QuietOrder

\* Events posted one after the other are received in that order, by every agent and through
\* nested handlers, although they are taken from the queue last first.
THEOREM EventsInPostingOrder == Spec => []InPostingOrder
<1>1. Init => Core /\ InOrder
  <2>1. Init => Core
    BY CoreInit
  <2>2. Init => InOrder
    BY DEF Init, InOrder, InPostingOrder
  <2> QED
    BY <2>1, <2>2
<1>2. Core /\ InOrder /\ [Next]_vars => Core' /\ InOrder'
  <2> SUFFICES ASSUME Core, InOrder, [Next]_vars PROVE Core' /\ InOrder'
    OBVIOUS
  <2>1. Core'
    BY CoreNext
  <2>2. CASE UNCHANGED vars
    <3>1. UNCHANGED <<queue, posts, chain, cursor>>
      BY <2>2 DEF vars
    <3> QED
      BY <2>1, <3>1 DEF InOrder, InPostingOrder, WokenBatch
  <2>3. ASSUME NEW c \in Channel, PostVarIns(c) \/ PostDvarIns(c) \/ PostMinmax(c) \/ PostGeneral(c)
        PROVE  InOrder'
    BY <2>1, <2>3, PostOrder DEF PostVarIns, PostDvarIns, PostMinmax, PostGeneral
  <2>4. ASSUME NEW c \in Channel, NEW p \in {"dom", "outer_dom"}, PostDom(c, p) PROVE InOrder'
    BY <2>1, <2>4, PostOrder DEF PostDom
  <2> QED
    BY <2>1, <2>2, <2>3, <2>4, ConnectOrder, HandlerOrder, OtherOrder DEF Next
<1>3. InOrder => InPostingOrder
  BY DEF InOrder
<1> QED
  BY <1>1, <1>2, <1>3, PTL DEF Spec

-----------------------------------------------------------------------------
(* Where choice points are not cut, status words tell the truth, and no    *)
(* agent waits for what has happened.                                      *)

\* Without cuts: a frame that was woken after a choice point that is newer has its word on
\* the trail, whether it carries that choice point's stamp or not.
Base(i) == IF i = 1 THEN 0 ELSE choices[i - 1].at
Trailed ==
  /\ \A i \in DOMAIN choices, f \in Frame :
       On(chain, f) # {} /\ On(choices[i].chain, f) = {} /\ Old(i, f) => Pops(trail, choices[i].trail, f) # {}
  /\ \A f \in Frame : status[f].stamp <= B
  /\ \A i \in DOMAIN choices, f \in Frame : WasStatus(i, f).stamp <= Base(i)
  /\ choices # <<>> => \A f \in Frame :
       status[f].stamp = B => Pops(trail, choices[Len(choices)].trail, f) # {}
  /\ \A i \in DOMAIN choices, f \in Frame :
       i > 1 /\ WasStatus(i, f).stamp = Base(i) =>
         \E k \in choices[i - 1].trail + 1 .. choices[i].trail : trail[k].cell = f

\* Without cuts: what tags say of a chain, and of the frames that are gone, now and at each
\* choice point.
Tags == [f \in Frame |-> status[f].tag]
WasTags(i) == [f \in Frame |-> WasStatus(i, f).tag]
TagsTrue(tag, c, g) ==
  /\ \A f \in Frame :
       /\ tag[f] \in {"run", "reent"} => On(c, f) # {}
       /\ tag[f] = "exit" => f \in g
       /\ Uncloned /\ f \in g => tag[f] = "exit"
  /\ \A k \in DOMAIN c : c[k].pc = "exit" /\ ~c[k].clone => tag[c[k].frame] = "exit"
OwedLive(o, g) == \A d \in o : d.frame \notin g
Truth ==
  /\ TagsTrue(Tags, chain, gone) /\ OwedLive(owed, gone)
  /\ \A i \in DOMAIN choices :
       /\ TagsTrue(WasTags(i), choices[i].chain, choices[i].gone)
       /\ OwedLive(choices[i].owed, choices[i].gone)

\* Only kinds of events are posted that the program has, and only terms clone.
Cloneless ==
  /\ \A k \in DOMAIN queue : queue[k].kind \in program.kinds
  /\ Uncloned => \A k \in DOMAIN chain : ~chain[k].clone

Uncut == Cloneless /\ (~program.cuts => Trailed /\ Truth)

-----------------------------------------------------------------------------
(* What choice points have saved, of words, when a step goes on.           *)

\* What such a step may do to the word of a frame: nothing, or trail it, or the frame had no
\* address, or it has been trailed since every choice point that it is older than and that
\* has it not on its chain; or it is on the chain, and marked.
Reworked(f) ==
  \/ status'[f] = status[f]
  \/ at[f] = 0 /\ at'[f] # 0
  \/ trail' = Append(trail, [cell |-> f, old |-> status[f]])
  \/ \A i \in DOMAIN choices : Old(i, f) => Pops(trail, choices[i].trail, f) # {}
  \/ status[f].tag \in {"run", "reent"} /\ status'[f] = [status[f] EXCEPT !.tag = "reent"]

\* What is saved of it, then.
WasNext(i, f) ==
  \/ WasStatus(i, f)' = WasStatus(i, f)
  \/ WasStatus(i, f).tag = "start" /\ WasStatus(i, f)' = Word("start", 0)
  \/ /\ On(choices[i].chain, f) # {} /\ WasStatus(i, f).tag \in {"run", "reent"}
     /\ WasStatus(i, f)' = [WasStatus(i, f) EXCEPT !.tag = "reent"]

\* What the trail restores, after an entry of the frame and after others.
LEMMA OnwardBack ==
  ASSUME Core, Onward, NEW i \in DOMAIN choices, NEW f \in Frame
  PROVE  LET t == choices[i].trail
         IN  \/ /\ status[f].tag = "sleep" /\ Pops(trail', t, f) # {}
                /\ \A now : Back(trail', t, f, now) = Back(trail, t, f, status[f])
             \/ /\ trail' # Append(trail, [cell |-> f, old |-> status[f]])
                /\ Pops(trail', t, f) = Pops(trail, t, f)
                /\ \A now : Back(trail', t, f, now) = Back(trail, t, f, now)
<1> DEFINE t == choices[i].trail
           own == [cell |-> f, old |-> status[f]]
<1>1. t \in Nat /\ t <= Len(trail) /\ trail \in Seq(Entries)
  BY PointTypes, CoreNow DEF Stacked
<1> HIDE DEF t
<1>2. own.cell = f /\ own.old = status[f] /\ (status[f].tag = "sleep" => own \in Entries)
  BY EntryTypes, CoreNow
<1> HIDE DEF own
<1>3. CASE trail' = Append(trail, own) /\ status[f].tag = "sleep"
  <2>1. Pops(trail', t, f) # {} /\ \A now : Back(trail', t, f, now) = Back(trail, t, f, status[f])
    BY <1>1, <1>2, <1>3, BackSame
  <2> QED
    BY <1>3, <2>1 DEF t
<1>4. ASSUME NEW e \in Entries, trail' = Append(trail, e), e.cell # f
      PROVE  /\ trail' # Append(trail, own)
             /\ Pops(trail', t, f) = Pops(trail, t, f)
             /\ \A now : Back(trail', t, f, now) = Back(trail, t, f, now)
  <2>1. Append(trail, e)[Len(trail) + 1] = e
    BY <1>1
  <2>2. Append(trail, own)[Len(trail) + 1] = own
    BY <1>1
  <2>3. trail' # Append(trail, own)
    BY <1>2, <1>4, <2>1, <2>2
  <2>4. Pops(Append(trail, e), t, f) = Pops(trail, t, f)
        /\ \A now : Back(Append(trail, e), t, f, now) = Back(trail, t, f, now)
    BY <1>1, <1>4, BackOther
  <2> QED
    BY <1>4, <2>3, <2>4
<1>5. CASE trail' = trail
  <2>1. trail # Append(trail, own)
    <3>1. Len(Append(trail, own)) = Len(trail) + 1 /\ Len(trail) \in Nat
      BY <1>1
    <3> QED
      BY <3>1
  <2> QED
    BY <1>5, <2>1 DEF t, own
<1>6. CASE trail' = Append(trail, [cell |-> "lists", old |-> list])
  <2> DEFINE e == [cell |-> "lists", old |-> list]
  <2>1. e \in Entries /\ e.cell # f
    BY EntryTypes, AgentsAssumption, CoreNow
  <2>2. trail' = Append(trail, e)
    BY <1>6
  <2> HIDE DEF e
  <2> QED
    BY <1>4, <2>1, <2>2 DEF t, own
<1>7. ASSUME NEW g \in Frame, status[g].tag = "sleep", trail' = Append(trail, [cell |-> g, old |-> status[g]]), g # f
      PROVE  /\ trail' # Append(trail, own)
             /\ Pops(trail', t, f) = Pops(trail, t, f)
             /\ \A now : Back(trail', t, f, now) = Back(trail, t, f, now)
  <2> DEFINE e == [cell |-> g, old |-> status[g]]
  <2>1. e \in Entries /\ e.cell # f
    BY <1>7, EntryTypes, CoreNow
  <2>2. trail' = Append(trail, e)
    BY <1>7
  <2> HIDE DEF e
  <2> QED
    BY <1>4, <2>1, <2>2
<1> QED
  BY <1>3, <1>5, <1>6, <1>7 DEF Onward, t, own

\* Where there is an entry, the present word does not matter.
LEMMA BackNow ==
  ASSUME NEW tr, NEW t, NEW cell, Pops(tr, t, cell) # {}
  PROVE  \A x, y : Back(tr, t, cell, x) = Back(tr, t, cell, y)
BY DEF Back

\* So the words that are saved stay as they are, but for marks.
LEMMA WasKept ==
  ASSUME Core, Core', Onward, Trailed, Truth, NEW i \in DOMAIN choices, NEW f \in Frame, Reworked(f)
  PROVE  WasNext(i, f)
<1> DEFINE t == choices[i].trail
<1>1. choices' = choices /\ choices[i].at \in Nat /\ choices[i].at <= B
  BY PointTypes, CoreNow, LatestIsB DEF Onward
<1>2. WasStatus(i, f)' = IF at'[f] <= choices[i].at THEN Back(trail', t, f, status'[f]) ELSE Word("start", 0)
  BY <1>1 DEF WasStatus, Old
<1>3. WasStatus(i, f) = IF Old(i, f) THEN Back(trail, t, f, status[f]) ELSE Word("start", 0)
  BY DEF WasStatus
<1>4. \/ /\ status[f].tag = "sleep" /\ Pops(trail', t, f) # {}
         /\ \A now : Back(trail', t, f, now) = Back(trail, t, f, status[f])
      \/ /\ trail' # Append(trail, [cell |-> f, old |-> status[f]])
         /\ Pops(trail', t, f) = Pops(trail, t, f)
         /\ \A now : Back(trail', t, f, now) = Back(trail, t, f, now)
  BY OnwardBack
<1> HIDE DEF t
<1>5. CASE at[f] = 0
  <2>1. Old(i, f)
    BY <1>1, <1>5 DEF Old
  <2>2. status[f].tag = "start" /\ WasStatus(i, f) = status[f]
    BY <1>5, <2>1, WasFacts, CoreNow DEF Placed
  <2>3. CASE at'[f] = 0
    <3>1. WasStatus(i, f)' = Back(trail', t, f, status'[f]) /\ WasStatus(i, f) = Back(trail, t, f, status[f])
      BY <1>1, <1>2, <1>3, <2>1, <2>3
    <3>2. trail' # Append(trail, [cell |-> f, old |-> status[f]])
      BY <1>4, <2>2
    <3>3. status'[f] = status[f] \/ Pops(trail, t, f) # {}
      BY <2>1, <2>2, <2>3, <3>2 DEF Reworked, t
    <3>4. CASE status'[f] = status[f]
      BY <1>4, <2>2, <3>1, <3>4 DEF WasNext
    <3>5. CASE Pops(trail, t, f) # {}
      BY <1>4, <2>2, <3>1, <3>5, BackNow DEF WasNext
    <3> QED
      BY <3>3, <3>4, <3>5
  <2>4. CASE at'[f] # 0
    <3>1. ~(at'[f] <= choices[i].at)
      <4>1. ~Old(i, f)'
        BY <1>5, <2>4, OnwardOld DEF Core
      <4> QED
        BY <1>1, <4>1 DEF Old
    <3> QED
      BY <1>2, <2>2, <3>1 DEF WasNext
  <2> QED
    BY <2>3, <2>4
<1>6. CASE at[f] # 0
  <2>1. at'[f] = at[f]
    BY <1>6, OnwardOld DEF Core
  <2>2. CASE ~Old(i, f)
    BY <1>2, <1>3, <2>1, <2>2 DEF WasNext, Old
  <2>3. CASE Old(i, f)
    <3>1. WasStatus(i, f)' = Back(trail', t, f, status'[f]) /\ WasStatus(i, f) = Back(trail, t, f, status[f])
      BY <1>2, <1>3, <2>1, <2>3 DEF Old
    <3>2. CASE status'[f] = status[f]
      BY <1>4, <3>1, <3>2 DEF WasNext
    <3>3. CASE trail' = Append(trail, [cell |-> f, old |-> status[f]])
      BY <1>4, <3>1, <3>3 DEF WasNext
    <3>4. CASE Pops(trail, t, f) # {}
      BY <1>4, <3>1, <3>4, BackNow DEF WasNext
    <3>5. CASE Pops(trail, t, f) = {} /\ status[f].tag \in {"run", "reent"} /\ status'[f] = [status[f] EXCEPT !.tag = "reent"]
      <4>1. WasStatus(i, f) = status[f]
        BY <3>1, <3>5 DEF Back
      <4>2. WasStatus(i, f)' = status'[f]
        BY <1>4, <3>1, <3>5 DEF Back
      <4>3. On(chain, f) # {}
        BY <3>5 DEF Truth, TagsTrue, Tags
      <4>4. On(choices[i].chain, f) # {}
        BY <2>3, <3>5, <4>3 DEF Trailed, t
      <4> QED
        BY <3>5, <4>1, <4>2, <4>4 DEF WasNext
    <3> QED
      BY <1>6, <2>3, <3>2, <3>3, <3>4, <3>5 DEF Reworked, t
  <2> QED
    BY <2>2, <2>3
<1> QED
  BY <1>5, <1>6

-----------------------------------------------------------------------------
(* Steps that go on, without cuts.                                         *)

\* What such a step does to a frame: its word is reworked; if it comes on the chain, it is a
\* new one, or has been trailed; its stamp stays or is that of the latest choice point, in
\* which case it has been trailed.
Tidy(f) ==
  /\ Reworked(f)
  /\ \/ On(chain', f) = {} \/ On(chain, f) # {}
     \/ at[f] = 0
     \/ \A i \in DOMAIN choices : Old(i, f) => Pops(trail', choices[i].trail, f) # {}
  /\ \/ status'[f].stamp \in {status[f].stamp, 0}
     \/ status'[f].stamp = B /\ \A i \in DOMAIN choices : Pops(trail', choices[i].trail, f) # {}

\* Where a frame has been trailed since, it still is.
LEMMA PopsStay ==
  ASSUME Core, Onward, NEW t \in Nat, NEW f, Pops(trail, t, f) # {}
  PROVE  Pops(trail', t, f) # {}
<1>1. /\ \A k \in DOMAIN trail : trail'[k] = trail[k]
      /\ trail' \in Seq(Entries) /\ Len(trail') \in Nat /\ Len(trail') >= Len(trail)
  BY OnwardTrail
<1>2. trail \in Seq(Entries) /\ DOMAIN trail = 1 .. Len(trail) /\ Len(trail) \in Nat
  BY CoreNow
<1>3. PICK k \in t + 1 .. Len(trail) : trail[k].cell = f
  BY DEF Pops
<1>4. k \in t + 1 .. Len(trail') /\ trail'[k].cell = f
  BY <1>1, <1>2, <1>3
<1> QED
  BY <1>4 DEF Pops

\* Words of frames on chains, and the addresses of these.
LEMMA ChainIsPlaced ==
  ASSUME Core, NEW f \in Frame, On(chain, f) # {}
  PROVE  at[f] # 0 /\ status[f].tag \in {"run", "reent", "exit"}
<1>1. status[f].tag \notin {"start", "sleep"} /\ status[f] \in Words
  BY OnceIs, CoreNow
<1> QED
  BY <1>1, CoreNow DEF Placed, Words

\* Trailed holds on.
LEMMA OnwardTrailed ==
  ASSUME Core, Core', Onward, Trailed, Truth, \A f \in Frame : Tidy(f)
  PROVE  Trailed'
<1>1. /\ choices' = choices /\ B' = B
      /\ \A i \in DOMAIN choices : choices[i].trail \in Nat /\ choices[i].at \in Nat /\ choices[i].at >= 1
      /\ DOMAIN choices = 1 .. Len(choices) /\ Len(choices) \in Nat
  BY PointTypes, CoreNow DEF Onward, B
<1>2. B \in Nat /\ (choices # <<>> => B = choices[Len(choices)].at /\ Len(choices) \in DOMAIN choices)
  BY LatestIsB, CoreNow DEF Stamps
<1>3. \A f \in Frame : /\ status[f] \in Words /\ status'[f] \in Words
                       /\ status[f].stamp \in Nat /\ status'[f].stamp \in Nat
  BY TypesAreNext, CoreNow DEF Core, Words, Stamps
<1>4. \A i \in DOMAIN choices, f \in Frame : WasNext(i, f)
  BY WasKept DEF Tidy
<1>5. \A i \in DOMAIN choices, f \in Frame : WasStatus(i, f)'.stamp \in {WasStatus(i, f).stamp, 0}
  <2> SUFFICES ASSUME NEW i \in DOMAIN choices, NEW f \in Frame
               PROVE  WasStatus(i, f)'.stamp \in {WasStatus(i, f).stamp, 0}
    OBVIOUS
  <2> DEFINE w == WasStatus(i, f)
             v == WasStatus(i, f)'
  <2>1. w \in Words
    BY WasFacts
  <2>2. v = w \/ v = Word("start", 0) \/ v = [w EXCEPT !.tag = "reent"]
    BY <1>4 DEF WasNext
  <2> HIDE DEF w, v
  <2>3. v.stamp \in {w.stamp, 0}
    BY <2>1, <2>2 DEF Words, Word
  <2> QED
    BY <2>3 DEF w, v
<1>6. \A i \in DOMAIN choices : Base(i)' = Base(i) /\ Base(i) \in Nat /\ (i > 1 => Base(i) >= 1)
  <2> SUFFICES ASSUME NEW i \in DOMAIN choices PROVE Base(i)' = Base(i) /\ Base(i) \in Nat /\ (i > 1 => Base(i) >= 1)
    OBVIOUS
  <2>1. i \in Nat /\ (i # 1 => i - 1 \in DOMAIN choices)
    BY <1>1
  <2> QED
    BY <1>1, <2>1 DEF Base
<1>7. ASSUME NEW i \in DOMAIN choices, NEW f \in Frame,
             On(chain', f) # {}, On(choices[i].chain, f) = {}, Old(i, f)'
      PROVE  Pops(trail', choices[i].trail, f) # {}
  <2>1. at'[f] # 0
    <3>1. status'[f].tag \notin {"start", "sleep"}
      BY <1>7, OnceIs DEF Core
    <3> QED
      BY <3>1 DEF Core, Placed
  <2>2. at[f] # 0 /\ Old(i, f)
    BY <1>1, <1>7, <2>1, OnwardOld DEF Core
  <2>3. CASE On(chain, f) # {}
    <3>1. Pops(trail, choices[i].trail, f) # {}
      BY <1>7, <2>2, <2>3 DEF Trailed
    <3> QED
      BY <1>1, <3>1, PopsStay
  <2>4. CASE On(chain, f) = {}
    BY <1>7, <2>2, <2>4 DEF Tidy
  <2> QED
    BY <2>3, <2>4
<1>8. ASSUME NEW f \in Frame PROVE status'[f].stamp <= B
  BY <1>2, <1>3 DEF Tidy, Trailed
<1>9. ASSUME NEW i \in DOMAIN choices, NEW f \in Frame PROVE WasStatus(i, f)'.stamp <= Base(i)
  <2>1. WasStatus(i, f).stamp <= Base(i) /\ WasStatus(i, f).stamp \in Nat
    BY WasFacts DEF Trailed, Words, Stamps
  <2> QED
    BY <1>5, <1>6, <2>1
<1>10. ASSUME choices # <<>>, NEW f \in Frame, status'[f].stamp = B
       PROVE  Pops(trail', choices[Len(choices)].trail, f) # {}
  <2>1. B >= 1 /\ Len(choices) \in DOMAIN choices
    BY <1>1, <1>2, <1>10
  <2>2. status[f].stamp = B \/ Pops(trail', choices[Len(choices)].trail, f) # {}
    BY <1>2, <1>3, <1>10, <2>1 DEF Tidy
  <2>3. ASSUME status[f].stamp = B PROVE Pops(trail', choices[Len(choices)].trail, f) # {}
    BY <1>1, <1>10, <2>1, <2>3, PopsStay DEF Trailed
  <2> QED
    BY <2>2, <2>3
<1>11. ASSUME NEW i \in DOMAIN choices, NEW f \in Frame, i > 1, WasStatus(i, f)'.stamp = Base(i)
       PROVE  \E k \in choices[i - 1].trail + 1 .. choices[i].trail : trail'[k].cell = f
  <2>1. WasStatus(i, f).stamp = Base(i)
    BY <1>5, <1>6, <1>11
  <2>2. PICK k \in choices[i - 1].trail + 1 .. choices[i].trail : trail[k].cell = f
    BY <1>11, <2>1 DEF Trailed
  <2>3. i - 1 \in DOMAIN choices /\ choices[i].trail <= Len(trail) /\ trail \in Seq(Entries)
    BY <1>1, <1>11, CoreNow DEF Stacked
  <2>4. k \in DOMAIN trail
    BY <1>1, <2>2, <2>3
  <2>5. trail'[k] = trail[k]
    BY <2>4, OnwardTrail
  <2> QED
    BY <2>2, <2>5
<1>12. (\A i \in DOMAIN choices, f \in Frame :
          On(chain, f) # {} /\ On(choices[i].chain, f) = {} /\ Old(i, f) => Pops(trail, choices[i].trail, f) # {})'
  BY <1>1, <1>7
<1>13. (\A f \in Frame : status[f].stamp <= B)'
  BY <1>1, <1>8
<1>14. (\A i \in DOMAIN choices, f \in Frame : WasStatus(i, f).stamp <= Base(i))'
  <2> SUFFICES ASSUME NEW i \in DOMAIN choices, NEW f \in Frame PROVE WasStatus(i, f)'.stamp <= Base(i)'
    BY <1>1
  <2> QED
    BY <1>6, <1>9
<1>15. (choices # <<>> => \A f \in Frame :
          status[f].stamp = B => Pops(trail, choices[Len(choices)].trail, f) # {})'
  BY <1>1, <1>10
<1>16. (\A i \in DOMAIN choices, f \in Frame :
          i > 1 /\ WasStatus(i, f).stamp = Base(i) =>
            \E k \in choices[i - 1].trail + 1 .. choices[i].trail : trail[k].cell = f)'
  <2> SUFFICES ASSUME NEW i \in DOMAIN choices, NEW f \in Frame, i > 1, WasStatus(i, f)'.stamp = Base(i)'
               PROVE  \E k \in choices[i - 1].trail + 1 .. choices[i].trail : trail'[k].cell = f
    BY <1>1
  <2> QED
    BY <1>6, <1>11
<1> QED
  BY <1>12, <1>13, <1>14, <1>15, <1>16 DEF Trailed

\* Of the tags that are saved, some become marks to re-enter.
LEMMA MarksAre ==
  ASSUME Core, Core', Onward, Trailed, Truth, \A f \in Frame : Tidy(f), NEW i \in DOMAIN choices, NEW f \in Frame
  PROVE  \/ WasTags(i)'[f] = WasTags(i)[f]
         \/ WasTags(i)[f] \in {"run", "reent"} /\ WasTags(i)'[f] = "reent" /\ On(choices[i].chain, f) # {}
<1> DEFINE w == WasStatus(i, f)
           v == WasStatus(i, f)'
<1>1. w \in Words /\ WasTags(i)[f] = w.tag /\ WasTags(i)'[f] = v.tag
  BY WasFacts DEF WasTags
<1>2. WasNext(i, f)
  BY WasKept DEF Tidy
<1>3. \/ v = w
      \/ w.tag = "start" /\ v = Word("start", 0)
      \/ On(choices[i].chain, f) # {} /\ w.tag \in {"run", "reent"} /\ v = [w EXCEPT !.tag = "reent"]
  BY <1>2 DEF WasNext
<1> HIDE DEF w, v
<1> QED
  BY <1>1, <1>3 DEF Words, Word

\* What is saved keeps telling the truth.
LEMMA OnwardSaved ==
  ASSUME Core, Core', Onward, Trailed, Truth, program' = program, \A f \in Frame : Tidy(f)
  PROVE  \A i \in DOMAIN choices' :
           (TagsTrue(WasTags(i), choices[i].chain, choices[i].gone) /\ OwedLive(choices[i].owed, choices[i].gone))'
<1>1. choices' = choices
  BY DEF Onward
<1> SUFFICES ASSUME NEW i \in DOMAIN choices
             PROVE (TagsTrue(WasTags(i), choices[i].chain, choices[i].gone) /\ OwedLive(choices[i].owed, choices[i].gone))'
  BY <1>1
<1>3. TagsTrue(WasTags(i), choices[i].chain, choices[i].gone) /\ OwedLive(choices[i].owed, choices[i].gone)
  BY DEF Truth
<1>4. choices[i].chain \in Seq(Acts) /\ \A k \in DOMAIN choices[i].chain : choices[i].chain[k].frame \in Frame
  <2>1. choices[i].chain \in Seq(Acts)
    BY PointTypes, CoreNow
  <2>2. \A a \in Acts : a.frame \in Frame
    BY DEF Acts
  <2> QED
    BY <2>1, <2>2
<1>5. Uncloned' <=> Uncloned
  BY DEF Uncloned
<1>6. \A f \in Frame :
        \/ WasTags(i)'[f] = WasTags(i)[f]
        \/ WasTags(i)[f] \in {"run", "reent"} /\ WasTags(i)'[f] = "reent" /\ On(choices[i].chain, f) # {}
  BY MarksAre
<1>7. \A f \in Frame :
        /\ WasTags(i)'[f] \in {"run", "reent"} => On(choices[i].chain, f) # {}
        /\ WasTags(i)'[f] = "exit" => f \in choices[i].gone
        /\ Uncloned /\ f \in choices[i].gone => WasTags(i)'[f] = "exit"
  BY <1>3, <1>6 DEF TagsTrue
<1>8. \A k \in DOMAIN choices[i].chain :
        choices[i].chain[k].pc = "exit" /\ ~choices[i].chain[k].clone => WasTags(i)'[choices[i].chain[k].frame] = "exit"
  BY <1>3, <1>4, <1>6 DEF TagsTrue
<1> QED
  BY <1>1, <1>3, <1>5, <1>7, <1>8 DEF TagsTrue, OwedLive

\* What a step leaves of the tags that are saved: some of them become marks to re-enter.
Saves ==
  /\ choices' = choices
  /\ ~program.cuts => \A i \in DOMAIN choices, f \in Frame :
       WasTags(i)'[f] = WasTags(i)[f] \/ WasTags(i)'[f] = "reent"

\* So a step that goes on keeps Uncut if it keeps the parts about the present.
LEMMA OnwardUncut ==
  ASSUME Core, Core', Onward, Uncut, program' = program, Cloneless',
         ~program.cuts => /\ \A f \in Frame : Tidy(f)
                          /\ TagsTrue(Tags, chain, gone)' /\ OwedLive(owed, gone)'
  PROVE  Uncut' /\ Saves
<1>1. Uncut'
  BY OnwardTrailed, OnwardSaved DEF Uncut, Truth
<1>2. ASSUME ~program.cuts, NEW i \in DOMAIN choices, NEW f \in Frame
      PROVE  WasTags(i)'[f] = WasTags(i)[f] \/ WasTags(i)'[f] = "reent"
  BY <1>2, MarksAre DEF Uncut
<1>3. choices' = choices
  BY DEF Onward
<1> QED
  BY <1>1, <1>2, <1>3 DEF Saves

-----------------------------------------------------------------------------
(* What steps do, one by one.                                              *)

\* What tags say, of words.
LEMMA TruthIs ==
  ASSUME Core
  PROVE  TagsTrue(Tags, chain, gone) <=>
           /\ \A f \in Frame :
                /\ status[f].tag \in {"run", "reent"} => On(chain, f) # {}
                /\ status[f].tag = "exit" => f \in gone
                /\ Uncloned /\ f \in gone => status[f].tag = "exit"
           /\ \A k \in DOMAIN chain :
                chain[k].pc = "exit" /\ ~chain[k].clone => status[chain[k].frame].tag = "exit"
<1>1. \A a \in Acts : a.frame \in Frame
  BY DEF Acts
<1>2. \A k \in DOMAIN chain : chain[k].frame \in Frame
  BY <1>1, CoreNow
<1> QED
  BY <1>2 DEF TagsTrue, Tags

\* The same of the next state.
LEMMA TruthIsNext ==
  ASSUME Core'
  PROVE  TagsTrue(Tags, chain, gone)' <=>
           /\ \A f \in Frame :
                /\ status'[f].tag \in {"run", "reent"} => On(chain', f) # {}
                /\ status'[f].tag = "exit" => f \in gone'
                /\ Uncloned' /\ f \in gone' => status'[f].tag = "exit"
           /\ \A k \in DOMAIN chain' :
                chain'[k].pc = "exit" /\ ~chain'[k].clone => status'[chain'[k].frame].tag = "exit"
<1>1. \A a \in Acts : a.frame \in Frame
  BY DEF Acts
<1>2. \A k \in DOMAIN chain' : chain'[k].frame \in Frame
  BY <1>1, TypesAreNext DEF Core
<1> QED
  BY <1>2 DEF TagsTrue, Tags

\* A chain with an activation pushed on it.
LEMMA PushedAt ==
  ASSUME NEW c \in Seq(Acts), NEW a \in Acts
  PROVE  /\ DOMAIN Append(c, a) = DOMAIN c \cup {Len(c) + 1} /\ Len(c) + 1 \notin DOMAIN c
         /\ Len(Append(c, a)) = Len(c) + 1
         /\ \A k \in DOMAIN c : Append(c, a)[k] = c[k]
         /\ Append(c, a)[Len(c) + 1] = a
OBVIOUS

\* Steps that leave frames and chains alone.
LEMMA QuietUncut ==
  ASSUME Core, Core', Uncut, UNCHANGED <<at, status, choices, chain, gone, program>>,
         \/ trail' = trail /\ list' = list
         \/ trail' = Append(trail, [cell |-> "lists", old |-> list]),
         \A k \in DOMAIN queue' : queue'[k].kind \in program.kinds,
         \A d \in owed' : d \in owed \/ d.frame \notin gone
  PROVE  Uncut' /\ Saves
<1>1. Onward
  BY CoreNow DEF Onward
<1>2. Cloneless'
  BY DEF Uncut, Cloneless, Uncloned
<1>3. ASSUME ~program.cuts
      PROVE  /\ \A f \in Frame : Tidy(f)
             /\ TagsTrue(Tags, chain, gone)' /\ OwedLive(owed, gone)'
  <2>1. Truth
    BY <1>3 DEF Uncut
  <2>2. \A f \in Frame : Tidy(f)
    BY DEF Tidy, Reworked
  <2>3. TagsTrue(Tags, chain, gone)'
    BY <2>1 DEF Truth, TagsTrue, Tags, Uncloned
  <2>4. OwedLive(owed, gone)'
    BY <2>1 DEF Truth, OwedLive
  <2> QED
    BY <2>2, <2>3, <2>4
<1> QED
  BY <1>1, <1>2, <1>3, OnwardUncut

\* What posting makes owed: the event, to every agent on the list that is not dead.
LEMMA PostedIs ==
  ASSUME NEW c, NEW p, NEW kind, NEW seeds, Post(c, p, kind, seeds), NEW d \in owed', d \notin owed
  PROVE  /\ d.frame \in Range(list[c, p]) /\ d.frame \notin gone
         /\ d.obj = posts + 1 /\ d.kind = kind /\ d.own = InBody(d.frame)
<1> DEFINE S == {g \in Range(list[c, p]) : g \notin gone}
           D(f) == [frame |-> f, obj |-> posts + 1, kind |-> kind, own |-> InBody(f)]
<1>1. d \in {D(f) : f \in S}
  BY DEF Post
<1>2. PICK f \in S : d = D(f)
  BY <1>1
<1>3. d.frame = f /\ d.obj = posts + 1 /\ d.kind = kind /\ d.own = InBody(f)
  BY <1>2
<1> QED
  BY <1>2, <1>3

\* Posting changes the queue, and what is owed.
LEMMA PostUncut ==
  ASSUME Core, Core', Uncut, NEW c, NEW p, NEW kind, NEW seeds, Post(c, p, kind, seeds)
  PROVE  Uncut' /\ Saves
<1> DEFINE e == [chan |-> c, port |-> p, kind |-> kind, obj |-> posts + 1]
<1>1. queue' = Append(queue, e) /\ e.kind \in program.kinds
  BY DEF Post
<1>2. queue \in Seq(Events) /\ \A k \in DOMAIN queue : queue[k].kind \in program.kinds
  BY CoreNow DEF Uncut, Cloneless
<1> HIDE DEF e
<1>3. \A k \in DOMAIN queue' : queue'[k].kind \in program.kinds
  BY <1>1, <1>2
<1>4. \A d \in owed' : d \in owed \/ d.frame \notin gone
  BY PostedIs
<1> QED
  BY <1>3, <1>4, QuietUncut DEF Post

\* Steps of the machine and the handler that leave frames and chains alone.
LEMMA StillUncut ==
  ASSUME Core, Core', Uncut,
         \/ \E c \in Channel, p \in {"dom", "outer_dom"} : IgnoreDom(c, p)
         \/ Call \/ NextEvent \/ HandlerDone
  PROVE  Uncut' /\ Saves
<1>1. /\ UNCHANGED <<at, status, choices, chain, gone, program, owed>>
      /\ \/ trail' = trail /\ list' = list
         \/ trail' = Append(trail, [cell |-> "lists", old |-> list])
      /\ queue' = queue \/ queue' = <<>>
  BY DEF IgnoreDom, Call, NextEvent, HandlerDone, Compact, fixed
<1>2. \A k \in DOMAIN queue' : queue'[k].kind \in program.kinds
  BY <1>1 DEF Uncut, Cloneless
<1> QED
  BY <1>1, <1>2, QuietUncut

\* A new agent: what it is, and where.
LEMMA NewActorIs ==
  ASSUME Core, Core', NEW f \in Frame, NewActor(f)
  PROVE  /\ at[f] = 0 /\ at'[f] # 0 /\ at'[f] > B /\ \A g \in Frame : g # f => at'[g] = at[g]
         /\ status[f].tag = "start" /\ status'[f] = Word("run", 0)
         /\ \A g \in Frame : g # f => status'[g] = status[g]
         /\ DOMAIN chain' = DOMAIN chain \cup {Len(chain) + 1} /\ Len(chain) + 1 \notin DOMAIN chain
         /\ \A k \in DOMAIN chain : chain'[k] = chain[k]
         /\ LET a == chain'[Len(chain) + 1] IN a.frame = f /\ ~a.clone /\ a.pc = "body" /\ a.obj = 0
         /\ \A g \in Frame : g # f => On(chain', g) = On(chain, g)
         /\ On(chain', f) # {} /\ On(chain, f) = {}
         /\ Onward
         /\ cursor = Idle /\ queue = <<>>
         /\ UNCHANGED <<choices, queue, triggering, cursor, posts, owed, gone, program>>
<1>1. cursor = Idle /\ queue = <<>> /\ at[f] = 0 /\ UNCHANGED <<choices, queue, triggering, cursor, posts, owed, gone, program>>
  BY DEF NewActor, AtCall, Inline, fixed
<1>2. PICK a \in Top + 1 .. MaxAddr : at' = [at EXCEPT ![f] = a]
  BY DEF NewActor
<1>3. a > B /\ a # 0
  BY <1>2, TopIs, CoreNow, LatestIsB, Bounds DEF Stamps
<1>4. at'[f] = a /\ \A g \in Frame : g # f => at'[g] = at[g]
  BY <1>2, CoreNow
<1>5. status'[f] = Word("run", 0) /\ \A g \in Frame : g # f => status'[g] = status[g]
  BY CoreNow DEF NewActor
<1> DEFINE b == Activation(f, FALSE, 0, posts)
           act == [b EXCEPT !.pc = "body"]
<1>6. act \in Acts /\ act.frame = f /\ ~act.clone /\ act.pc = "body" /\ act.obj = 0
  <2>1. 0 \in 0 .. MaxPosts /\ posts \in 0 .. MaxPosts
    BY CoreNow, Bounds
  <2>2. b \in Acts /\ b.frame = f /\ ~b.clone /\ b.obj = 0
    BY <2>1, ActivationIs DEF Activation
  <2> HIDE DEF b
  <2> QED
    BY <2>2 DEF Acts
<1>7. chain' = Append(chain, act)
  BY DEF NewActor
<1> HIDE DEF act
<1>8. /\ Begins(chain, chain')
      /\ \A g \in Frame : g # f => On(chain', g) = On(chain, g)
      /\ On(chain', f) = On(chain, f) \cup {Len(chain) + 1}
  BY <1>6, <1>7, CoreNow, Pushed
<1>9. /\ DOMAIN chain' = DOMAIN chain \cup {Len(chain) + 1} /\ Len(chain) + 1 \notin DOMAIN chain
      /\ \A k \in DOMAIN chain : chain'[k] = chain[k]
      /\ chain'[Len(chain) + 1] = act
  BY <1>6, <1>7, CoreNow, PushedAt
<1>10. Onward
  <2>1. \A i \in DOMAIN choices : Begins(choices[i].chain, chain')
    BY <1>8, BeginsOn, PointTypes, CoreNow, TypesAreNext DEF Core
  <2>2. trail' = Append(trail, [cell |-> "lists", old |-> list])
    BY DEF NewActor, Attach
  <2> QED
    BY <1>1, <1>3, <1>4, <2>1, <2>2 DEF Onward
<1>11. status[f].tag = "start" /\ On(chain, f) = {}
  BY <1>1, CoreNow, OnceIs DEF Placed
<1> QED
  BY <1>1, <1>3, <1>4, <1>5, <1>6, <1>8, <1>9, <1>10, <1>11

\* A new agent runs.
LEMMA NewActorUncut ==
  ASSUME Core, Core', Uncut, NEW f \in Frame, NewActor(f)
  PROVE  Uncut' /\ Saves
<1>1. /\ at[f] = 0 /\ at'[f] # 0 /\ \A g \in Frame : g # f => at'[g] = at[g]
      /\ status[f].tag = "start" /\ status'[f] = Word("run", 0)
      /\ \A g \in Frame : g # f => status'[g] = status[g]
      /\ DOMAIN chain' = DOMAIN chain \cup {Len(chain) + 1}
      /\ \A k \in DOMAIN chain : chain'[k] = chain[k]
      /\ \A g \in Frame : g # f => On(chain', g) = On(chain, g)
      /\ On(chain', f) # {}
      /\ Onward /\ UNCHANGED <<choices, queue, owed, gone, program>>
  BY NewActorIs
<1>2. LET a == chain'[Len(chain) + 1] IN a.frame = f /\ ~a.clone /\ a.pc = "body" /\ a.obj = 0
  BY NewActorIs
<1>3. Cloneless'
  BY <1>1, <1>2 DEF Uncut, Cloneless, Uncloned
<1>4. status'[f].tag = "run" /\ status'[f].stamp = 0
  BY <1>1 DEF Word
<1>5. ASSUME ~program.cuts
      PROVE  /\ \A g \in Frame : Tidy(g)
             /\ TagsTrue(Tags, chain, gone)' /\ OwedLive(owed, gone)'
  <2>1. /\ \A g \in Frame :
             /\ status[g].tag \in {"run", "reent"} => On(chain, g) # {}
             /\ status[g].tag = "exit" => g \in gone
             /\ Uncloned /\ g \in gone => status[g].tag = "exit"
        /\ \A k \in DOMAIN chain :
             chain[k].pc = "exit" /\ ~chain[k].clone => status[chain[k].frame].tag = "exit"
        /\ OwedLive(owed, gone)
    BY <1>5, TruthIs DEF Uncut, Truth
  <2>2. \A g \in Frame : Tidy(g)
    BY <1>1, <1>4 DEF Tidy, Reworked
  <2>3. /\ \A g \in Frame :
             /\ status'[g].tag \in {"run", "reent"} => On(chain', g) # {}
             /\ status'[g].tag = "exit" => g \in gone'
             /\ Uncloned' /\ g \in gone' => status'[g].tag = "exit"
    BY <1>1, <1>4, <2>1 DEF Uncloned
  <2>4. ASSUME NEW k \in DOMAIN chain', chain'[k].pc = "exit" /\ ~chain'[k].clone
        PROVE  status'[chain'[k].frame].tag = "exit"
    <3>1. k \in DOMAIN chain /\ chain'[k] = chain[k]
      BY <1>1, <1>2, <2>4
    <3>2. status[chain[k].frame].tag = "exit" /\ chain[k].frame \in Frame
      <4>1. chain[k] \in Acts
        BY <3>1, CoreNow
      <4>2. chain[k].frame \in Frame
        BY <4>1 DEF Acts
      <4> QED
        BY <2>1, <2>4, <3>1, <4>2
    <3> QED
      BY <1>1, <3>1, <3>2
  <2>5. TagsTrue(Tags, chain, gone)'
    BY <2>3, <2>4, TruthIsNext
  <2> QED
    BY <1>1, <2>1, <2>2, <2>5 DEF OwedLive
<1> QED
  BY <1>1, <1>3, <1>5, OnwardUncut

\* Where a frame has been trailed since a choice point, it has been since those before.
LEMMA PopsBelow ==
  ASSUME NEW tr \in Seq(Entries), NEW t \in Nat, NEW m \in Nat, t <= m, NEW f, Pops(tr, m, f) # {}
  PROVE  Pops(tr, t, f) # {}
<1>1. PICK k \in m + 1 .. Len(tr) : tr[k].cell = f
  BY DEF Pops
<1>2. k \in t + 1 .. Len(tr)
  BY <1>1
<1> QED
  BY <1>1, <1>2 DEF Pops

\* A frame is woken.
LEMMA WokenIs ==
  ASSUME Core, NEW f \in Frame, NEW obj \in 0 .. MaxPosts, WakeSleeper(f, obj)
  PROVE  /\ status[f].tag = "sleep" /\ status'[f].tag = "run" /\ \A g \in Frame : g # f => status'[g] = status[g]
         /\ \/ /\ at[f] < B /\ status[f].stamp # B /\ status'[f].stamp = B
               /\ trail' = Append(trail, [cell |-> f, old |-> status[f]])
            \/ ~(at[f] < B /\ status[f].stamp # B) /\ status'[f].stamp = status[f].stamp /\ trail' = trail
         /\ DOMAIN chain' = DOMAIN chain \cup {Len(chain) + 1} /\ Len(chain) + 1 \notin DOMAIN chain
         /\ \A k \in DOMAIN chain : chain'[k] = chain[k]
         /\ LET a == chain'[Len(chain) + 1] IN a.frame = f /\ ~a.clone /\ a.pc = "head" /\ a.obj = obj
         /\ \A g \in Frame : g # f => On(chain', g) = On(chain, g)
         /\ On(chain', f) = {Len(chain) + 1} /\ On(chain, f) = {}
<1> DEFINE act == Activation(f, FALSE, obj, WokenBatch)
<1>1. act \in Acts /\ act.frame = f /\ ~act.clone /\ act.pc = "head" /\ act.obj = obj
  BY ActivationIs, BatchIs DEF Activation
<1>2. chain' = Append(chain, act)
  BY DEF WakeSleeper
<1> HIDE DEF act
<1>3. /\ DOMAIN chain' = DOMAIN chain \cup {Len(chain) + 1} /\ Len(chain) + 1 \notin DOMAIN chain
      /\ \A k \in DOMAIN chain : chain'[k] = chain[k]
      /\ chain'[Len(chain) + 1] = act
  BY <1>1, <1>2, CoreNow, PushedAt
<1>4. /\ \A g \in Frame : g # f => On(chain', g) = On(chain, g)
      /\ On(chain', f) = On(chain, f) \cup {Len(chain) + 1}
  BY <1>1, <1>2, CoreNow, Pushed
<1>5. status[f].tag = "sleep" /\ On(chain, f) = {}
  BY CoreNow, OnceIs DEF WakeSleeper
<1> DEFINE w == Word("run", IF at[f] < B /\ status[f].stamp # B THEN B ELSE status[f].stamp)
<1>6. status' = [status EXCEPT ![f] = w]
  BY CoreNow DEF WakeSleeper
<1>7. w.tag = "run" /\ w.stamp = IF at[f] < B /\ status[f].stamp # B THEN B ELSE status[f].stamp
  BY DEF Word
<1> HIDE DEF w
<1>8. status'[f] = w /\ \A g \in Frame : g # f => status'[g] = status[g]
  BY <1>6, CoreNow
<1>9. trail' = IF at[f] < B /\ status[f].stamp # B THEN Append(trail, [cell |-> f, old |-> status[f]]) ELSE trail
  BY DEF WakeSleeper
<1> QED
  BY <1>1, <1>3, <1>4, <1>5, <1>7, <1>8, <1>9

\* It is trailed unless there is no need to.
LEMMA WokenTidy ==
  ASSUME Core, Trailed, NEW f \in Frame, NEW obj \in 0 .. MaxPosts, WakeSleeper(f, obj)
  PROVE  \A g \in Frame : Tidy(g)
<1>1. /\ \A g \in Frame : g # f => status'[g] = status[g] /\ On(chain', g) = On(chain, g)
      /\ \/ /\ at[f] < B /\ status[f].stamp # B /\ status'[f].stamp = B
            /\ trail' = Append(trail, [cell |-> f, old |-> status[f]])
         \/ ~(at[f] < B /\ status[f].stamp # B) /\ status'[f].stamp = status[f].stamp /\ trail' = trail
      /\ status[f].tag = "sleep"
  BY WokenIs
<1>2. ASSUME NEW g \in Frame, g # f PROVE Tidy(g)
  BY <1>1, <1>2 DEF Tidy, Reworked
<1>3. /\ trail \in Seq(Entries) /\ B \in Nat /\ at[f] \in Nat
      /\ \A i \in DOMAIN choices : /\ choices[i].trail \in Nat /\ choices[i].trail <= Len(trail)
                                   /\ choices[i].at \in Nat /\ choices[i].at <= B /\ at[f] # choices[i].at
  BY CoreNow, PointTypes, LatestIsB DEF Stacked, Stamps
<1>4. choices # <<>> => /\ Len(choices) \in DOMAIN choices /\ B = choices[Len(choices)].at
                        /\ \A i \in DOMAIN choices : choices[i].trail <= choices[Len(choices)].trail
  BY LatestIs, LatestIsB, CoreNow
<1>5. ASSUME trail' = Append(trail, [cell |-> f, old |-> status[f]]), status'[f].stamp = B
      PROVE  Tidy(f)
  <2> DEFINE e == [cell |-> f, old |-> status[f]]
  <2>1. e \in Entries /\ e.cell = f /\ trail' = Append(trail, e)
    BY <1>1, <1>5, EntryTypes, CoreNow
  <2> HIDE DEF e
  <2>2. \A i \in DOMAIN choices : Pops(trail', choices[i].trail, f) # {}
    BY <1>3, <2>1, BackSame
  <2> QED
    BY <1>5, <2>2 DEF Tidy, Reworked
<1>6. ASSUME ~(at[f] < B), trail' = trail, status'[f].stamp = status[f].stamp
      PROVE  Tidy(f)
  <2>1. \A i \in DOMAIN choices : ~Old(i, f)
    BY <1>3, <1>4, <1>6 DEF Old
  <2> QED
    BY <1>6, <2>1 DEF Tidy, Reworked
<1>7. ASSUME status[f].stamp = B, trail' = trail, status'[f].stamp = status[f].stamp
      PROVE  Tidy(f)
  <2>1. ASSUME NEW i \in DOMAIN choices PROVE Pops(trail, choices[i].trail, f) # {}
    <3>1. choices # <<>>
      BY PointTypes, CoreNow
    <3>2. Pops(trail, choices[Len(choices)].trail, f) # {}
      BY <1>7, <3>1 DEF Trailed
    <3> QED
      BY <1>3, <1>4, <3>1, <3>2, PopsBelow
  <2> QED
    BY <1>7, <2>1 DEF Tidy, Reworked
<1>8. Tidy(f)
  BY <1>1, <1>5, <1>6, <1>7
<1> QED
  BY <1>2, <1>8

\* What connecting a frame does, and to which kind of event.
LEMMA ConnectIs ==
  ASSUME Core, Connect
  PROVE  LET f == Head(cursor.rest)
             e == queue[cursor.no]
         IN  /\ f \in Frame /\ at[f] # 0 /\ e \in Events /\ cursor.no \in DOMAIN queue
             /\ e.obj \in 0 .. MaxPosts /\ 0 \in 0 .. MaxPosts
             /\ \/ e.kind \in InsKinds /\ WakeSleeper(f, 0)
                \/ e.kind = "minmax" /\ WakeSleeper(f, 0)
                \/ e.kind \in TermKinds /\ WakeSleeper(f, e.obj)
                \/ /\ e.kind \in InsKinds /\ status[f].tag \in {"run", "reent"}
                   /\ status' = [status EXCEPT ![f].tag = "reent"] /\ UNCHANGED <<chain, trail>>
                \/ /\ e.kind \in TermKinds /\ status[f].tag = "run"
                   /\ chain' = Append(chain, Activation(f, TRUE, e.obj, WokenBatch)) /\ UNCHANGED <<status, trail>>
                \/ /\ UNCHANGED <<status, chain, trail>>
                   /\ \/ status[f].tag = "exit"
                      \/ e.kind = "minmax" /\ (at[f] = triggering[Len(queue)] \/ status[f].tag # "sleep")
                      \/ e.kind \in TermKinds /\ status[f].tag = "reent"
<1> DEFINE f == Head(cursor.rest)
           e == queue[cursor.no]
<1>1. cursor # Idle /\ cursor.rest # <<>>
  BY DEF Connect, Idle
<1>2. f \in Frame /\ at[f] # 0 /\ e \in Events /\ cursor.no \in DOMAIN queue
  BY <1>1, HandlerIs, TailOnce, CoreNow
<1>3. e.obj \in 0 .. MaxPosts /\ 0 \in 0 .. MaxPosts
  BY <1>2, Bounds DEF Events
<1>4. status[f].tag # "start" /\ status[f].tag \in {"start", "reent", "sleep", "run", "exit"}
  BY <1>2, CoreNow DEF Placed, Words
<1>5. \/ e.kind \in InsKinds /\ ConnectIns(f)
      \/ e.kind = "minmax" /\ ConnectMinmax(f)
      \/ e.kind \in TermKinds /\ ConnectDom(f, e.obj)
  BY DEF Connect, EventAt
<1> HIDE DEF f, e
<1>6. CASE e.kind \in InsKinds /\ ConnectIns(f)
  BY <1>2, <1>3, <1>4, <1>6 DEF ConnectIns, f, e
<1>7. CASE e.kind = "minmax" /\ ConnectMinmax(f)
  BY <1>2, <1>3, <1>4, <1>7 DEF ConnectMinmax, f, e
<1>8. CASE e.kind \in TermKinds /\ ConnectDom(f, e.obj)
  BY <1>2, <1>3, <1>4, <1>8 DEF ConnectDom, f, e
<1> QED
  BY <1>5, <1>6, <1>7, <1>8

\* A clone is pushed: where, and what is left as it is.
LEMMA ClonedIs ==
  ASSUME Core, NEW f \in Frame, NEW obj \in 0 .. MaxPosts,
         chain' = Append(chain, Activation(f, TRUE, obj, WokenBatch))
  PROVE  /\ DOMAIN chain' = DOMAIN chain \cup {Len(chain) + 1} /\ Len(chain) + 1 \notin DOMAIN chain
         /\ \A k \in DOMAIN chain : chain'[k] = chain[k]
         /\ LET a == chain'[Len(chain) + 1] IN a.frame = f /\ a.clone /\ a.pc = "head" /\ a.obj = obj
         /\ \A g \in Frame : On(chain', g) = On(chain, g)
<1> DEFINE act == Activation(f, TRUE, obj, WokenBatch)
<1>1. act \in Acts /\ act.frame = f /\ act.clone /\ act.pc = "head" /\ act.obj = obj
  BY ActivationIs, BatchIs DEF Activation
<1>2. chain' = Append(chain, act)
  OBVIOUS
<1> HIDE DEF act
<1> DEFINE d == Append(chain, act)
<1>3. /\ DOMAIN d = DOMAIN chain \cup {Len(chain) + 1} /\ Len(chain) + 1 \notin DOMAIN chain
      /\ \A k \in DOMAIN chain : d[k] = chain[k]
      /\ d[Len(chain) + 1] = act
  BY <1>1, CoreNow, PushedAt
<1>4. \A g \in Frame : On(d, g) = On(chain, g)
  BY <1>1, CoreNow, Pushed
<1> HIDE DEF d
<1>5. chain' = d
  BY <1>2 DEF d
<1> QED
  BY <1>1, <1>3, <1>4, <1>5

\* A frame is connected: the words of the woken and of the marked are true.
LEMMA ConnectUncut == ASSUME Core, Core', Uncut, Connect PROVE Uncut' /\ Saves
<1> DEFINE f == Head(cursor.rest)
           e == queue[cursor.no]
<1>1. /\ f \in Frame /\ at[f] # 0 /\ e.obj \in 0 .. MaxPosts /\ 0 \in 0 .. MaxPosts /\ cursor.no \in DOMAIN queue
      /\ \/ WakeSleeper(f, 0) \/ WakeSleeper(f, e.obj)
         \/ /\ status[f].tag \in {"run", "reent"}
            /\ status' = [status EXCEPT ![f].tag = "reent"] /\ UNCHANGED <<chain, trail>>
         \/ /\ e.kind \in TermKinds /\ status[f].tag = "run"
            /\ chain' = Append(chain, Activation(f, TRUE, e.obj, WokenBatch)) /\ UNCHANGED <<status, trail>>
         \/ UNCHANGED <<status, chain, trail>>
  BY ConnectIs
<1>2. Linked /\ UNCHANGED <<at, list, choices, queue, owed, gone, program>>
  BY ConnectLinked
<1> HIDE DEF f, e
<1>3. Onward
  <2>1. \A i \in DOMAIN choices : Begins(choices[i].chain, chain')
    BY <1>2, BeginsOn, PointTypes, CoreNow DEF Linked
  <2> QED
    BY <1>2, <2>1 DEF Onward, Linked
<1>4. /\ \A g \in Frame :
           /\ ~program.cuts /\ status[g].tag \in {"run", "reent"} => On(chain, g) # {}
           /\ ~program.cuts /\ status[g].tag = "exit" => g \in gone
           /\ ~program.cuts /\ Uncloned /\ g \in gone => status[g].tag = "exit"
      /\ \A k \in DOMAIN chain :
           ~program.cuts /\ chain[k].pc = "exit" /\ ~chain[k].clone => status[chain[k].frame].tag = "exit"
      /\ ~program.cuts => OwedLive(owed, gone) /\ Trailed
      /\ \A k \in DOMAIN chain : chain[k].frame \in Frame
  <2>1. \A a \in Acts : a.frame \in Frame
    BY DEF Acts
  <2>2. \A k \in DOMAIN chain : chain[k].frame \in Frame
    BY <2>1, CoreNow
  <2> QED
    BY <2>2, TruthIs DEF Uncut, Truth
<1>5. ASSUME NEW obj \in 0 .. MaxPosts, WakeSleeper(f, obj) PROVE Uncut' /\ Saves
  <2>1. /\ status[f].tag = "sleep" /\ status'[f].tag = "run" /\ \A g \in Frame : g # f => status'[g] = status[g]
        /\ DOMAIN chain' = DOMAIN chain \cup {Len(chain) + 1}
        /\ \A k \in DOMAIN chain : chain'[k] = chain[k]
        /\ \A g \in Frame : g # f => On(chain', g) = On(chain, g)
        /\ On(chain', f) # {}
    BY <1>1, <1>5, WokenIs, ZenonT(60)
  <2>2. LET a == chain'[Len(chain) + 1] IN a.frame = f /\ ~a.clone /\ a.pc = "head" /\ a.obj = obj
    BY <1>1, <1>5, WokenIs
  <2>3. Cloneless'
    BY <1>2, <2>1, <2>2 DEF Uncut, Cloneless, Uncloned
  <2>4. ~program.cuts => \A g \in Frame : Tidy(g)
    BY <1>1, <1>4, <1>5, WokenTidy
  <2>5. ~program.cuts => TagsTrue(Tags, chain, gone)'
    <3>1. \A g \in Frame :
            ~program.cuts =>
              /\ status'[g].tag \in {"run", "reent"} => On(chain', g) # {}
              /\ status'[g].tag = "exit" => g \in gone'
              /\ Uncloned' /\ g \in gone' => status'[g].tag = "exit"
      BY <1>1, <1>2, <1>4, <2>1 DEF Uncloned
    <3>2. \A k \in DOMAIN chain' :
            ~program.cuts /\ chain'[k].pc = "exit" /\ ~chain'[k].clone => status'[chain'[k].frame].tag = "exit"
      BY <1>4, <2>1, <2>2
    <3> QED
      BY <3>1, <3>2, TruthIsNext
  <2> QED
    BY <1>2, <1>3, <1>4, <2>3, <2>4, <2>5, OnwardUncut DEF OwedLive
<1>6. ASSUME status[f].tag \in {"run", "reent"}, status' = [status EXCEPT ![f].tag = "reent"], UNCHANGED <<chain, trail>>
      PROVE  Uncut' /\ Saves
  <2>1. /\ status'[f] = [status[f] EXCEPT !.tag = "reent"] /\ status[f] \in Words
        /\ \A g \in Frame : g # f => status'[g] = status[g]
    BY <1>1, <1>6, CoreNow
  <2>2. status'[f].tag = "reent" /\ status'[f].stamp = status[f].stamp
    BY <2>1 DEF Words
  <2>3. Cloneless'
    BY <1>2, <1>6 DEF Uncut, Cloneless, Uncloned
  <2>4. \A g \in Frame : Tidy(g)
    BY <1>6, <2>1, <2>2 DEF Tidy, Reworked
  <2>5. ~program.cuts => TagsTrue(Tags, chain, gone)'
    <3>1. \A g \in Frame :
            ~program.cuts =>
              /\ status'[g].tag \in {"run", "reent"} => On(chain', g) # {}
              /\ status'[g].tag = "exit" => g \in gone'
              /\ Uncloned' /\ g \in gone' => status'[g].tag = "exit"
      BY <1>1, <1>2, <1>4, <1>6, <2>1, <2>2 DEF Uncloned
    <3>2. \A k \in DOMAIN chain' :
            ~program.cuts /\ chain'[k].pc = "exit" /\ ~chain'[k].clone => status'[chain'[k].frame].tag = "exit"
      BY <1>4, <1>6, <2>1
    <3> QED
      BY <3>1, <3>2, TruthIsNext
  <2> QED
    BY <1>2, <1>3, <1>4, <2>3, <2>4, <2>5, OnwardUncut DEF OwedLive
<1>7. ASSUME e.kind \in TermKinds, chain' = Append(chain, Activation(f, TRUE, e.obj, WokenBatch)), UNCHANGED <<status, trail>>
      PROVE  Uncut' /\ Saves
  <2>1. /\ DOMAIN chain' = DOMAIN chain \cup {Len(chain) + 1}
        /\ \A k \in DOMAIN chain : chain'[k] = chain[k]
        /\ \A g \in Frame : On(chain', g) = On(chain, g)
    BY <1>1, <1>7, ClonedIs
  <2>2. LET a == chain'[Len(chain) + 1] IN a.frame = f /\ a.clone /\ a.pc = "head"
    BY <1>1, <1>7, ClonedIs
  <2>3. Cloneless'
    <3>1. ~Uncloned
      <4>1. e.kind \in program.kinds
        BY <1>1 DEF Uncut, Cloneless, e
      <4> QED
        BY <1>7, <4>1 DEF Uncloned
    <3> QED
      BY <1>2, <3>1 DEF Uncut, Cloneless, Uncloned
  <2>4. \A g \in Frame : Tidy(g)
    BY <1>7, <2>1 DEF Tidy, Reworked
  <2>5. ~program.cuts => TagsTrue(Tags, chain, gone)'
    <3>1. \A g \in Frame :
            ~program.cuts =>
              /\ status'[g].tag \in {"run", "reent"} => On(chain', g) # {}
              /\ status'[g].tag = "exit" => g \in gone'
              /\ Uncloned' /\ g \in gone' => status'[g].tag = "exit"
      BY <1>2, <1>4, <1>7, <2>1 DEF Uncloned
    <3>2. \A k \in DOMAIN chain' :
            ~program.cuts /\ chain'[k].pc = "exit" /\ ~chain'[k].clone => status'[chain'[k].frame].tag = "exit"
      BY <1>4, <1>7, <2>1, <2>2
    <3> QED
      BY <3>1, <3>2, TruthIsNext
  <2> QED
    BY <1>2, <1>3, <1>4, <2>3, <2>4, <2>5, OnwardUncut DEF OwedLive
<1>8. ASSUME UNCHANGED <<status, chain, trail>> PROVE Uncut' /\ Saves
  BY <1>2, <1>8, QuietUncut DEF Uncut, Cloneless
<1> QED
  BY <1>1, <1>5, <1>6, <1>7, <1>8

\* What the running activation does goes on.
LEMMA RunningOnward ==
  ASSUME Core, UNCHANGED <<at, list, trail, choices>>,
         \A i \in DOMAIN choices : Begins(choices[i].chain, chain')
  PROVE  Onward
BY DEF Onward

\* The frame of a running activation that has no choice point of its own is on no saved chain.
LEMMA RunnerTrailed ==
  ASSUME Core, Trailed, chain # <<>>, ~Last(chain).clone, OwnChoices = {} \/ Running = "head",
         NEW i \in DOMAIN choices, Old(i, Last(chain).frame)
  PROVE  Pops(trail, choices[i].trail, Last(chain).frame) # {}
<1> DEFINE f == Last(chain).frame
<1>1. On(chain, f) = {Len(chain)} /\ f \in Frame /\ Len(chain) \in Nat
  BY LastIs
<1>2. On(choices[i].chain, f) \subseteq On(chain, f) /\ choices[i].chain \in Seq(Acts)
  BY <1>1, SavedIsOnChain, CoreNow
<1>3. Len(choices[i].chain) < Len(chain)
  BY SavedIsBelow, CoreNow
<1> HIDE DEF f
<1>4. On(choices[i].chain, f) = {}
  <2>1. \A k \in On(choices[i].chain, f) : k \in 1 .. Len(choices[i].chain)
    BY <1>2 DEF On
  <2> QED
    BY <1>1, <1>2, <1>3, <2>1
<1>5. On(chain, f) # {} /\ Old(i, f)
  BY <1>1 DEF f
<1>6. Pops(trail, choices[i].trail, f) # {}
  BY <1>1, <1>4, <1>5 DEF Trailed
<1> QED
  BY <1>6 DEF f

\* The truth, without cuts, one part at a time.
LEMMA TruthNow ==
  ASSUME Core, Uncut
  PROVE  /\ \A g \in Frame :
              /\ ~program.cuts /\ status[g].tag \in {"run", "reent"} => On(chain, g) # {}
              /\ ~program.cuts /\ status[g].tag = "exit" => g \in gone
              /\ ~program.cuts /\ Uncloned /\ g \in gone => status[g].tag = "exit"
         /\ \A k \in DOMAIN chain :
              ~program.cuts /\ chain[k].pc = "exit" /\ ~chain[k].clone => status[chain[k].frame].tag = "exit"
         /\ ~program.cuts => OwedLive(owed, gone) /\ Trailed /\ Truth
         /\ \A k \in DOMAIN chain : chain[k].frame \in Frame
         /\ Cloneless
<1>1. \A a \in Acts : a.frame \in Frame
  BY DEF Acts
<1>2. \A k \in DOMAIN chain : chain[k].frame \in Frame
  BY <1>1, CoreNow
<1> QED
  BY <1>2, TruthIs DEF Uncut, Truth

\* And the next, where no cuts are.
LEMMA RunningUncut ==
  ASSUME Core, Core', Uncut, UNCHANGED <<at, list, trail, choices, program>>,
         \A i \in DOMAIN choices : Begins(choices[i].chain, chain'),
         \A k \in DOMAIN queue' : queue'[k].kind \in program.kinds,
         Uncloned => \A k \in DOMAIN chain' : ~chain'[k].clone,
         \A g \in Frame :
           /\ ~program.cuts => Tidy(g)
           /\ ~program.cuts /\ status'[g].tag \in {"run", "reent"} => On(chain', g) # {}
           /\ ~program.cuts /\ status'[g].tag = "exit" => g \in gone'
           /\ ~program.cuts /\ Uncloned /\ g \in gone' => status'[g].tag = "exit",
         \A k \in DOMAIN chain' :
           ~program.cuts /\ chain'[k].pc = "exit" /\ ~chain'[k].clone => status'[chain'[k].frame].tag = "exit",
         ~program.cuts => \A d \in owed' : d.frame \notin gone'
  PROVE  Uncut' /\ Saves
<1>1. Onward
  BY RunningOnward
<1>2. Cloneless'
  BY DEF Cloneless, Uncloned
<1>3. ~program.cuts => TagsTrue(Tags, chain, gone)'
  BY TruthIsNext DEF Uncloned
<1> QED
  BY <1>1, <1>2, <1>3, OnwardUncut DEF OwedLive

\* A rule is selected.
LEMMA SelectActionUncut == ASSUME Core, Core', Uncut, SelectAction PROVE Uncut' /\ Saves
<1>1. AtHead /\ GoTo("body") /\ owed' \subseteq owed
      /\ UNCHANGED <<at, status, list, trail, choices, queue, triggering, cursor, posts, gone, program>>
  BY DEF SelectAction
<1>2. /\ \A i \in DOMAIN choices : Begins(choices[i].chain, chain')
      /\ \A f \in Frame : On(chain', f) = On(chain, f)
      /\ DOMAIN chain' = DOMAIN chain
      /\ \A k \in DOMAIN chain : k # Len(chain) => chain'[k] = chain[k]
      /\ chain'[Len(chain)] = [chain[Len(chain)] EXCEPT !.pc = "body"]
  BY <1>1, GoneTo
<1>3. chain # <<>> /\ chain[Len(chain)] \in Acts /\ Len(chain) \in DOMAIN chain
  BY <1>1, AtHeadIs, LastIs
<1>4. LET a == chain'[Len(chain)] IN a.pc = "body" /\ a.clone = chain[Len(chain)].clone
  BY <1>2, <1>3 DEF Acts
<1>5. \A k \in DOMAIN chain' : chain'[k].clone = chain[k].clone
  BY <1>2, <1>4
<1>6. \A g \in Frame : Tidy(g)
  BY <1>1, <1>2 DEF Tidy, Reworked
<1>7. \A k \in DOMAIN chain' :
        ~program.cuts /\ chain'[k].pc = "exit" /\ ~chain'[k].clone => status'[chain'[k].frame].tag = "exit"
  BY <1>1, <1>2, <1>4, TruthNow
<1>8. \A k \in DOMAIN queue' : queue'[k].kind \in program.kinds
  BY <1>1, TruthNow DEF Cloneless
<1>9. Uncloned => \A k \in DOMAIN chain' : ~chain'[k].clone
  BY <1>2, <1>5, TruthNow DEF Cloneless
<1>10. \A g \in Frame :
         /\ ~program.cuts => Tidy(g)
         /\ ~program.cuts /\ status'[g].tag \in {"run", "reent"} => On(chain', g) # {}
         /\ ~program.cuts /\ status'[g].tag = "exit" => g \in gone'
         /\ ~program.cuts /\ Uncloned /\ g \in gone' => status'[g].tag = "exit"
  BY <1>1, <1>2, <1>6, TruthNow
<1>11. ~program.cuts => \A d \in owed' : d.frame \notin gone'
  BY <1>1, TruthNow DEF OwedLive
<1> QED
  BY <1>1, <1>2, <1>7, <1>8, <1>9, <1>10, <1>11, RunningUncut

\* The running frame dies: no choice point holds its word.
LEMMA DyingTidy ==
  ASSUME Core, Trailed, chain # <<>>, ~Last(chain).clone, OwnChoices = {} \/ Running = "head",
         status' = [status EXCEPT ![Last(chain).frame] = Word("exit", 0)], trail' = trail,
         \A g \in Frame : On(chain', g) = On(chain, g)
  PROVE  \A g \in Frame : Tidy(g)
<1> DEFINE f == Last(chain).frame
<1>1. f \in Frame
  BY LastIs
<1>2. status'[f] = Word("exit", 0) /\ \A g \in Frame : g # f => status'[g] = status[g]
  BY <1>1, CoreNow
<1>3. status'[f].stamp = 0
  BY <1>2 DEF Word
<1>4. \A i \in DOMAIN choices : Old(i, f) => Pops(trail, choices[i].trail, f) # {}
  BY RunnerTrailed
<1> HIDE DEF f
<1> QED
  BY <1>2, <1>3, <1>4 DEF Tidy, Reworked

\* A normal rule is selected: only a clone's frame survives, and there are none.
LEMMA SelectNormalUncut == ASSUME Core, Core', Uncut, SelectNormal PROVE Uncut' /\ Saves
<1> DEFINE f == Last(chain).frame
<1>1. /\ AtHead /\ GoTo("exit") /\ gone' = gone \cup {f}
      /\ owed' = {o \in owed : o.frame # f}
      /\ status' = IF Last(chain).clone THEN status ELSE [status EXCEPT ![f] = Word("exit", 0)]
      /\ UNCHANGED <<at, list, trail, choices, queue, triggering, cursor, posts, program>>
  BY DEF SelectNormal
<1>2. /\ \A i \in DOMAIN choices : Begins(choices[i].chain, chain')
      /\ \A g \in Frame : On(chain', g) = On(chain, g)
      /\ DOMAIN chain' = DOMAIN chain
      /\ \A k \in DOMAIN chain : k # Len(chain) => chain'[k] = chain[k]
      /\ chain'[Len(chain)] = [chain[Len(chain)] EXCEPT !.pc = "exit"]
  BY <1>1, GoneTo
<1>3. /\ chain # <<>> /\ chain[Len(chain)] \in Acts /\ Len(chain) \in DOMAIN chain /\ f \in Frame
      /\ Last(chain) = chain[Len(chain)] /\ Running = "head"
  BY <1>1, AtHeadIs, LastIs
<1>4. LET a == chain'[Len(chain)] IN a.clone = Last(chain).clone /\ a.frame = f
  BY <1>2, <1>3 DEF Acts
<1>5. \A k \in DOMAIN chain' : chain'[k].clone = chain[k].clone /\ chain'[k].frame = chain[k].frame
  BY <1>2, <1>3, <1>4
<1> HIDE DEF f
<1>6. \A k \in DOMAIN queue' : queue'[k].kind \in program.kinds
  BY <1>1, TruthNow DEF Cloneless
<1>7. Uncloned => (\A k \in DOMAIN chain' : ~chain'[k].clone) /\ ~Last(chain).clone
  BY <1>2, <1>3, <1>5, TruthNow DEF Cloneless
<1>8. ~program.cuts => \A d \in owed' : d.frame \notin gone'
  BY <1>1, TruthNow DEF OwedLive
<1>9. \A g \in Frame : g # f => status'[g] = status[g]
  BY <1>1, CoreNow
<1>10. status'[f].tag = "exit" \/ (Last(chain).clone /\ status'[f] = status[f])
  BY <1>1, <1>3, CoreNow DEF Word
<1>11. ~program.cuts => \A g \in Frame : Tidy(g)
  <2>1. CASE Last(chain).clone
    BY <1>1, <1>2, <2>1 DEF Tidy, Reworked
  <2>2. CASE ~Last(chain).clone
    BY <1>1, <1>2, <1>3, <2>2, DyingTidy, TruthNow DEF f
  <2> QED
    BY <2>1, <2>2
<1>12. \A g \in Frame :
         /\ ~program.cuts => Tidy(g)
         /\ ~program.cuts /\ status'[g].tag \in {"run", "reent"} => On(chain', g) # {}
         /\ ~program.cuts /\ status'[g].tag = "exit" => g \in gone'
         /\ ~program.cuts /\ Uncloned /\ g \in gone' => status'[g].tag = "exit"
  BY <1>1, <1>2, <1>7, <1>9, <1>10, <1>11, TruthNow
<1>13. \A k \in DOMAIN chain' :
         ~program.cuts /\ chain'[k].pc = "exit" /\ ~chain'[k].clone => status'[chain'[k].frame].tag = "exit"
  BY <1>2, <1>3, <1>4, <1>5, <1>9, <1>10, TruthNow
<1> QED
  BY <1>1, <1>2, <1>6, <1>7, <1>8, <1>12, <1>13, RunningUncut

\* A propagator kills its frame.
LEMMA KillUncut == ASSUME Core, Core', Uncut, Kill PROVE Uncut' /\ Saves
<1>1. /\ OwnChoices = {} /\ Inline /\ Running = "body" /\ chain' = chain
      /\ UNCHANGED <<at, list, trail, choices, queue, triggering, cursor, posts, program>>
  BY DEF Kill
<1>2. chain # <<>>
  BY <1>1 DEF Running
<1> DEFINE f == Last(chain).frame
<1>3. /\ ~Last(chain).clone /\ f \in Frame
      /\ status' = [status EXCEPT ![f] = Word("exit", 0)]
      /\ gone' = gone \cup {f} /\ owed' = {o \in owed : o.frame # f}
  <2>1. PICK g \in RunningFrame : /\ status' = [status EXCEPT ![g] = Word("exit", 0)]
                                  /\ gone' = gone \cup {g} /\ owed' = {o \in owed : o.frame # g}
    BY DEF Kill
  <2>2. ~Last(chain).clone /\ g = f
    BY <1>2 DEF RunningFrame
  <2> QED
    BY <1>2, <2>1, <2>2, LastIs
<1>4. \A i \in DOMAIN choices : Begins(choices[i].chain, chain')
  BY <1>1, CoreNow
<1>5. ~program.cuts => \A g \in Frame : Tidy(g)
  BY <1>1, <1>2, <1>3, DyingTidy, TruthNow
<1> HIDE DEF f
<1>6. status'[f].tag = "exit" /\ \A g \in Frame : g # f => status'[g] = status[g]
  BY <1>3, CoreNow DEF Word
<1>7. \A k \in DOMAIN queue' : queue'[k].kind \in program.kinds
  BY <1>1, TruthNow DEF Cloneless
<1>8. Uncloned => \A k \in DOMAIN chain' : ~chain'[k].clone
  BY <1>1, TruthNow DEF Cloneless
<1>9. \A g \in Frame :
         /\ ~program.cuts => Tidy(g)
         /\ ~program.cuts /\ status'[g].tag \in {"run", "reent"} => On(chain', g) # {}
         /\ ~program.cuts /\ status'[g].tag = "exit" => g \in gone'
         /\ ~program.cuts /\ Uncloned /\ g \in gone' => status'[g].tag = "exit"
  BY <1>1, <1>3, <1>5, <1>6, TruthNow
<1>10. \A k \in DOMAIN chain' :
         ~program.cuts /\ chain'[k].pc = "exit" /\ ~chain'[k].clone => status'[chain'[k].frame].tag = "exit"
  BY <1>1, <1>6, TruthNow
<1>11. ~program.cuts => \A d \in owed' : d.frame \notin gone'
  BY <1>3, TruthNow DEF OwedLive
<1> QED
  BY <1>1, <1>4, <1>7, <1>8, <1>9, <1>10, <1>11, RunningUncut

\* An agent's body ends: it sleeps, or goes back to its head, or, if it is a clone or dead,
\* just leaves.
LEMMA ReturnIs ==
  ASSUME Core, ReturnDelay
  PROVE  LET a == Last(chain)
             f == a.frame
         IN  /\ chain # <<>> /\ OwnChoices = {} /\ cursor = Idle /\ a = chain[Len(chain)] /\ a.pc = "body"
             /\ f \in Frame /\ Len(chain) \in Nat \ {0} /\ DOMAIN chain = 1 .. Len(chain)
             /\ CatchWake /\ UNCHANGED <<at, list, trail, choices, queue, triggering, posts, owed, gone, program>>
             /\ \A g \in Frame : g # f => status'[g] = status[g]
             /\ \/ /\ ~a.clone /\ status[f].tag = "run" /\ chain' = Front(chain)
                   /\ status'[f].tag = "sleep" /\ status'[f].stamp = status[f].stamp
                \/ /\ ~a.clone /\ status[f].tag = "reent"
                   /\ chain' = Append(Front(chain), [a EXCEPT !.pc = "head", !.obj = 0])
                   /\ status'[f].tag = "run" /\ status'[f].stamp = status[f].stamp
                \/ /\ a.clone \/ status[f].tag = "exit"
                   /\ chain' = Front(chain) /\ status' = status
<1>1. /\ Inline /\ Running = "body" /\ OwnChoices = {} /\ CatchWake
      /\ UNCHANGED <<at, list, trail, choices, queue, triggering, posts, owed, gone, program>>
  BY DEF ReturnDelay, fixed
<1>2. chain # <<>> /\ cursor = Idle
  BY <1>1 DEF Running, Inline
<1> DEFINE a == Last(chain)
           f == a.frame
<1>3. /\ a = chain[Len(chain)] /\ a.pc = "body" /\ f \in Frame
      /\ Len(chain) \in Nat \ {0} /\ DOMAIN chain = 1 .. Len(chain)
  BY <1>1, <1>2, LastIs
<1>4. \/ /\ ~a.clone /\ status[f].tag = "run" /\ chain' = Front(chain) /\ status' = [status EXCEPT ![f].tag = "sleep"]
      \/ /\ ~a.clone /\ status[f].tag = "reent"
         /\ chain' = Append(Front(chain), [a EXCEPT !.pc = "head", !.obj = 0])
         /\ status' = [status EXCEPT ![f].tag = "run"]
      \/ /\ a.clone \/ status[f].tag = "exit"
         /\ chain' = Front(chain) /\ status' = status
  BY DEF ReturnDelay
<1> DEFINE b == [a EXCEPT !.pc = "head", !.obj = 0]
<1> HIDE DEF f, b
<1>5. ASSUME NEW tag \in {"sleep", "run"}, status' = [status EXCEPT ![f].tag = tag]
      PROVE  /\ status'[f].tag = tag /\ status'[f].stamp = status[f].stamp
             /\ \A g \in Frame : g # f => status'[g] = status[g]
  <2>1. status'[f] = [status[f] EXCEPT !.tag = tag] /\ status[f] \in Words
        /\ \A g \in Frame : g # f => status'[g] = status[g]
    BY <1>3, <1>5, CoreNow DEF f
  <2> QED
    BY <2>1 DEF Words
<1> HIDE DEF a
<1>6. CASE ~a.clone /\ status[f].tag = "run" /\ chain' = Front(chain) /\ status' = [status EXCEPT ![f].tag = "sleep"]
  <2>1. /\ status'[f].tag = "sleep" /\ status'[f].stamp = status[f].stamp
        /\ \A g \in Frame : g # f => status'[g] = status[g]
    BY <1>5, <1>6
  <2> QED
    BY <1>1, <1>2, <1>3, <1>6, <2>1 DEF a, f
<1>7. CASE ~a.clone /\ status[f].tag = "reent" /\ chain' = Append(Front(chain), b)
           /\ status' = [status EXCEPT ![f].tag = "run"]
  <2>1. /\ status'[f].tag = "run" /\ status'[f].stamp = status[f].stamp
        /\ \A g \in Frame : g # f => status'[g] = status[g]
    BY <1>5, <1>7
  <2> QED
    BY <1>1, <1>2, <1>3, <1>7, <2>1 DEF a, f, b
<1>8. CASE (a.clone \/ status[f].tag = "exit") /\ chain' = Front(chain) /\ status' = status
  BY <1>1, <1>2, <1>3, <1>8 DEF a, f
<1> QED
  BY <1>4, <1>6, <1>7, <1>8 DEF a, f, b

\* What is left of a chain.
LEMMA FrontAt ==
  ASSUME Core, chain # <<>>
  PROVE  /\ DOMAIN Front(chain) \subseteq DOMAIN chain /\ Len(chain) \notin DOMAIN Front(chain)
         /\ \A k \in DOMAIN Front(chain) : Front(chain)[k] = chain[k]
         /\ \A k \in DOMAIN chain : k # Len(chain) => k \in DOMAIN Front(chain)
<1>1. /\ Front(chain) \in Seq(Acts) /\ Len(Front(chain)) = Len(chain) - 1 /\ Len(chain) \in Nat \ {0}
      /\ DOMAIN chain = 1 .. Len(chain)
      /\ \A k \in 1 .. Len(chain) - 1 : Front(chain)[k] = chain[k]
  BY CoreNow, Dropped
<1> DEFINE d == Front(chain)
<1> HIDE DEF d
<1>2. DOMAIN d = 1 .. Len(chain) - 1
  BY <1>1 DEF d
<1> QED
  BY <1>1, <1>2 DEF d

\* The parts of RunningUncut that are about the chain, when an activation leaves.
LEMMA LeavingUncut ==
  ASSUME Core, Core', Uncut, chain # <<>>, OwnChoices = {}, chain' = Front(chain),
         UNCHANGED <<at, list, trail, choices, queue, owed, gone, program>>,
         \A g \in Frame : g # Last(chain).frame => status'[g] = status[g],
         LET f == Last(chain).frame
         IN  \/ status'[f] = status[f] /\ (~Last(chain).clone => (~program.cuts => status[f].tag = "exit"))
             \/ /\ ~Last(chain).clone /\ status[f].tag = "run"
                /\ status'[f].tag = "sleep" /\ status'[f].stamp = status[f].stamp
  PROVE  Uncut' /\ Saves
<1> DEFINE f == Last(chain).frame
<1>1. /\ \A i \in DOMAIN choices : Begins(choices[i].chain, chain')
      /\ \A g \in Frame : Last(chain).clone \/ g # f => On(chain', g) = On(chain, g)
      /\ ~Last(chain).clone => On(chain', f) = {}
  BY Returned
<1>2. /\ DOMAIN chain' \subseteq DOMAIN chain
      /\ \A k \in DOMAIN chain' : chain'[k] = chain[k] /\ k # Len(chain)
  BY FrontAt
<1>3. /\ f \in Frame /\ Last(chain) = chain[Len(chain)]
      /\ ~Last(chain).clone => On(chain, f) = {Len(chain)}
  BY LastIs
<1>4. \/ status'[f] = status[f] /\ (~Last(chain).clone => (~program.cuts => status[f].tag = "exit"))
      \/ /\ ~Last(chain).clone /\ status[f].tag = "run"
         /\ status'[f].tag = "sleep" /\ status'[f].stamp = status[f].stamp
  OBVIOUS
<1>5. ASSUME ~program.cuts PROVE \A g \in Frame : Tidy(g)
  <2>1. ASSUME NEW g \in Frame, g # f PROVE Tidy(g)
    BY <1>1, <1>3, <2>1 DEF Tidy, Reworked
  <2>2. CASE Last(chain).clone
    BY <1>1, <1>4, <2>1, <2>2 DEF Tidy, Reworked
  <2>3. CASE ~Last(chain).clone
    <3>1. \A i \in DOMAIN choices : Old(i, f) => Pops(trail, choices[i].trail, f) # {}
      BY <1>5, <2>3, RunnerTrailed, TruthNow
    <3>2. Tidy(f)
      BY <1>1, <1>4, <2>3, <3>1 DEF Tidy, Reworked
    <3> QED
      BY <2>1, <3>2
  <2> QED
    BY <2>2, <2>3
<1> HIDE DEF f
<1>6. \A g \in Frame : g # f => status'[g] = status[g]
  BY DEF f
<1>7. \A g \in Frame :
        /\ ~program.cuts => Tidy(g)
        /\ ~program.cuts /\ status'[g].tag \in {"run", "reent"} => On(chain', g) # {}
        /\ ~program.cuts /\ status'[g].tag = "exit" => g \in gone'
        /\ ~program.cuts /\ Uncloned /\ g \in gone' => status'[g].tag = "exit"
  BY <1>1, <1>3, <1>4, <1>5, <1>6, TruthNow
<1>8. ASSUME NEW k \in DOMAIN chain', ~program.cuts, chain'[k].pc = "exit", ~chain'[k].clone
      PROVE  status'[chain'[k].frame].tag = "exit"
  <2>1. k \in DOMAIN chain /\ chain'[k] = chain[k] /\ k # Len(chain) /\ chain[k].frame \in Frame
        /\ status[chain[k].frame].tag = "exit"
    BY <1>2, <1>8, TruthNow
  <2>2. CASE chain[k].frame = f
    BY <1>4, <2>1, <2>2
  <2>3. CASE chain[k].frame # f
    BY <1>6, <2>1, <2>3
  <2> QED
    BY <2>2, <2>3
<1>9. Uncloned => \A k \in DOMAIN chain' : ~chain'[k].clone
  BY <1>2, TruthNow DEF Cloneless
<1>10. \A k \in DOMAIN queue' : queue'[k].kind \in program.kinds
  BY TruthNow DEF Cloneless
<1>11. ~program.cuts => \A d \in owed' : d.frame \notin gone'
  BY TruthNow DEF OwedLive
<1> QED
  BY <1>1, <1>7, <1>8, <1>9, <1>10, <1>11, RunningUncut

\* An agent's body ends.
LEMMA ReturnDelayUncut == ASSUME Core, Core', Uncut, ReturnDelay PROVE Uncut' /\ Saves
<1> DEFINE a == Last(chain)
           f == a.frame
           b == [a EXCEPT !.pc = "head", !.obj = 0]
<1>1. /\ chain # <<>> /\ OwnChoices = {} /\ f \in Frame /\ Len(chain) \in Nat \ {0}
      /\ DOMAIN chain = 1 .. Len(chain) /\ a = chain[Len(chain)]
      /\ UNCHANGED <<at, list, trail, choices, queue, triggering, posts, owed, gone, program>>
      /\ \A g \in Frame : g # f => status'[g] = status[g]
      /\ \/ /\ ~a.clone /\ status[f].tag = "run" /\ chain' = Front(chain)
            /\ status'[f].tag = "sleep" /\ status'[f].stamp = status[f].stamp
         \/ /\ ~a.clone /\ status[f].tag = "reent" /\ chain' = Append(Front(chain), b)
            /\ status'[f].tag = "run" /\ status'[f].stamp = status[f].stamp
         \/ /\ a.clone \/ status[f].tag = "exit"
            /\ chain' = Front(chain) /\ status' = status
  BY ReturnIs
<1> HIDE DEF b
<1>2. CASE ~a.clone /\ status[f].tag = "run" /\ chain' = Front(chain)
           /\ status'[f].tag = "sleep" /\ status'[f].stamp = status[f].stamp
  BY <1>1, <1>2, LeavingUncut
<1>3. CASE (a.clone \/ status[f].tag = "exit") /\ chain' = Front(chain) /\ status' = status
  BY <1>1, <1>3, LeavingUncut
<1>4. CASE ~a.clone /\ status[f].tag = "reent" /\ chain' = Append(Front(chain), b)
           /\ status'[f].tag = "run" /\ status'[f].stamp = status[f].stamp
  <2>1. /\ chain' \in Seq(Acts) /\ Len(chain') = Len(chain)
        /\ \A k \in 1 .. Len(chain) - 1 : chain'[k] = chain[k]
        /\ chain'[Len(chain)].pc = "head" /\ ~chain'[Len(chain)].clone
        /\ \A i \in DOMAIN choices : Begins(choices[i].chain, chain')
        /\ \A g \in Frame : On(chain', g) = On(chain, g)
    BY <1>1, <1>4, Reentered DEF b
  <2>2. DOMAIN chain' = DOMAIN chain /\ \A k \in DOMAIN chain : k # Len(chain) => chain'[k] = chain[k]
    BY <1>1, <2>1
  <2>3. On(chain, f) = {Len(chain)}
    BY <1>1, <1>4, LastIs
  <2> HIDE DEF f, a
  <2>4. ASSUME ~program.cuts PROVE \A g \in Frame : Tidy(g)
    <3>1. \A i \in DOMAIN choices : Old(i, f) => Pops(trail, choices[i].trail, f) # {}
      BY <1>1, <1>4, <2>4, RunnerTrailed, TruthNow DEF f, a
    <3> QED
      BY <1>1, <1>4, <2>1, <3>1 DEF Tidy, Reworked
  <2>5. \A g \in Frame :
          /\ ~program.cuts => Tidy(g)
          /\ ~program.cuts /\ status'[g].tag \in {"run", "reent"} => On(chain', g) # {}
          /\ ~program.cuts /\ status'[g].tag = "exit" => g \in gone'
          /\ ~program.cuts /\ Uncloned /\ g \in gone' => status'[g].tag = "exit"
    BY <1>1, <1>4, <2>1, <2>3, <2>4, TruthNow
  <2>6. ASSUME NEW k \in DOMAIN chain', ~program.cuts, chain'[k].pc = "exit", ~chain'[k].clone
        PROVE  status'[chain'[k].frame].tag = "exit"
    <3>1. k \in DOMAIN chain /\ chain'[k] = chain[k] /\ chain[k].frame \in Frame
          /\ status[chain[k].frame].tag = "exit"
      BY <2>1, <2>2, <2>6, TruthNow
    <3> QED
      BY <1>1, <1>4, <3>1
  <2>7. Uncloned => \A k \in DOMAIN chain' : ~chain'[k].clone
    BY <2>1, <2>2, TruthNow DEF Cloneless
  <2>8. \A k \in DOMAIN queue' : queue'[k].kind \in program.kinds
    BY <1>1, TruthNow DEF Cloneless
  <2>9. ~program.cuts => \A d \in owed' : d.frame \notin gone'
    BY <1>1, TruthNow DEF OwedLive
  <2> QED
    BY <1>1, <2>1, <2>5, <2>6, <2>7, <2>8, <2>9, RunningUncut, SMTT(60)
<1> QED
  BY <1>1, <1>2, <1>3, <1>4

\* A normal rule's body ends: a frame, unless it is a clone's, is dead.
LEMMA ReturnCommitUncut == ASSUME Core, Core', Uncut, ReturnCommit PROVE Uncut' /\ Saves
<1>1. /\ Inline /\ Running = "exit" /\ OwnChoices = {} /\ chain' = Front(chain)
      /\ UNCHANGED <<at, status, list, trail, choices, queue, triggering, posts, owed, gone, program>>
  BY DEF ReturnCommit, fixed
<1>2. chain # <<>>
  BY <1>1 DEF Running
<1>3. Last(chain).pc = "exit" /\ Last(chain) = chain[Len(chain)] /\ Len(chain) \in DOMAIN chain
  BY <1>1, <1>2, LastIs
<1>4. ~Last(chain).clone => (~program.cuts => status[Last(chain).frame].tag = "exit")
  BY <1>3, TruthNow
<1> QED
  BY <1>1, <1>2, <1>4, LeavingUncut

-----------------------------------------------------------------------------
(* Choice points come and go.                                              *)

\* A new choice point saves the words as they are.
LEMMA ChoiceWas ==
  ASSUME Core, Choice, NEW n \in Nat, n = Len(choices), NEW f \in Frame
  PROVE  WasStatus(n + 1, f)' = status[f]
<1>1. at' = at /\ status' = status /\ trail' = trail /\ choices'[n + 1] \in Points /\ at[f] < choices'[n + 1].at
      /\ choices'[n + 1].trail = Len(trail)
  BY ChoiceIs
<1>2. at'[f] <= choices'[n + 1].at
  <2>1. choices'[n + 1].at \in Nat /\ at[f] \in Nat
    BY <1>1, CoreNow DEF Points, Stamps
  <2> QED
    BY <1>1, <2>1
<1>3. Back(trail', choices'[n + 1].trail, f, status'[f]) = status[f]
  BY <1>1, BackAtEnd, CoreNow
<1> QED
  BY <1>2, <1>3 DEF WasStatus, Old

\* What a new choice point saves is true because the present is.
LEMMA ChoiceUncut == ASSUME Core, Core', Uncut, Choice PROVE Uncut'
<1>0. PICK n \in Nat : n = Len(choices)
  BY PointTypes, CoreNow
<1>1. /\ UNCHANGED <<at, status, list, trail, chain, queue, triggering, cursor, posts, owed, gone, program>>
      /\ Len(choices') = n + 1 /\ n \in Nat /\ choices' \in Seq(Points)
      /\ \A i \in 1 .. n : choices'[i] = choices[i]
      /\ \A i \in 1 .. n, f \in Frame : (Old(i, f)' <=> Old(i, f)) /\ WasStatus(i, f)' = WasStatus(i, f)
  BY <1>0, ChoiceIs
<1>2. LET cp == choices'[n + 1]
      IN  /\ cp \in Points /\ cp.at > B /\ (\A f \in Frame : at[f] < cp.at)
          /\ cp.trail = Len(trail) /\ cp.chain = chain /\ cp.owed = owed /\ cp.gone = gone
  BY <1>0, ChoiceIs
<1>3. /\ DOMAIN choices = 1 .. n /\ DOMAIN choices' = 1 .. n + 1 /\ choices' # <<>>
      /\ choices = <<>> <=> n = 0
  BY <1>0, <1>1, PointTypes, CoreNow
<1>4. B' = choices'[n + 1].at
  BY LatestIsB, <1>1, <1>3 DEF B, Last
<1>5. \A i \in 1 .. n : Base(i)' = Base(i)
  BY <1>1, <1>3 DEF Base
<1>6. Base(n + 1)' = B
  <2>1. CASE n = 0
    BY <1>1, <1>3, <2>1 DEF Base, B
  <2>2. CASE n # 0
    <3>1. n \in 1 .. n /\ B = choices[n].at /\ (n + 1) - 1 = n /\ n + 1 # 1
      BY <1>0, <1>1, <1>3, <2>2, LatestIsB, CoreNow
    <3> QED
      BY <1>1, <3>1 DEF Base
  <2> QED
    BY <2>1, <2>2
<1>7. \A f \in Frame : WasStatus(n + 1, f)' = status[f]
  BY <1>0, ChoiceWas
<1>8. Cloneless'
  BY <1>1 DEF Uncut, Cloneless, Uncloned
<1>9. ASSUME ~program.cuts PROVE Trailed'
  <2>0. Trailed
    BY <1>9 DEF Uncut
  <2>1. (\A i \in DOMAIN choices, f \in Frame :
           On(chain, f) # {} /\ On(choices[i].chain, f) = {} /\ Old(i, f) => Pops(trail, choices[i].trail, f) # {})'
    <3> SUFFICES ASSUME NEW i \in 1 .. n + 1, NEW f \in Frame, On(chain, f) # {}, On(choices'[i].chain, f) = {}, Old(i, f)'
                 PROVE  Pops(trail, choices'[i].trail, f) # {}
      BY <1>1, <1>3
    <3>1. i # n + 1
      BY <1>2
    <3>2. i \in 1 .. n
      BY <1>1, <3>1
    <3> QED
      BY <1>1, <1>3, <2>0, <3>2 DEF Trailed
  <2>2. \A f \in Frame : status[f].stamp <= B /\ status[f].stamp < B' /\ status[f].stamp \in Nat
    <3>1. B \in Nat /\ choices'[n + 1].at \in Nat
      BY <1>2, LatestIsB, CoreNow DEF Stamps, Points
    <3>2. \A f \in Frame : status[f].stamp \in Nat
      BY CoreNow DEF Words, Stamps
    <3> QED
      BY <1>2, <1>4, <2>0, <3>1, <3>2 DEF Trailed
  <2>3. (\A f \in Frame : status[f].stamp <= B)'
    <3>1. B' \in Nat
      BY <1>2, <1>4 DEF Points
    <3> QED
      BY <1>1, <2>2, <3>1
  <2>4. (\A i \in DOMAIN choices, f \in Frame : WasStatus(i, f).stamp <= Base(i))'
    <3> SUFFICES ASSUME NEW i \in 1 .. n + 1, NEW f \in Frame PROVE WasStatus(i, f)'.stamp <= Base(i)'
      BY <1>3
    <3>1. CASE i = n + 1
      BY <1>6, <1>7, <2>2, <3>1
    <3>2. CASE i \in 1 .. n
      BY <1>1, <1>3, <1>5, <2>0, <3>2 DEF Trailed
    <3> QED
      BY <1>1, <3>1, <3>2
  <2>5. (choices # <<>> => \A f \in Frame :
           status[f].stamp = B => Pops(trail, choices[Len(choices)].trail, f) # {})'
    <3>1. \A f \in Frame : status'[f].stamp # B'
      <4>1. B' \in Nat
        BY <1>2, <1>4 DEF Points
      <4> QED
        BY <1>1, <2>2, <4>1
    <3> QED
      BY <3>1
  <2>6. (\A i \in DOMAIN choices, f \in Frame :
           i > 1 /\ WasStatus(i, f).stamp = Base(i) =>
             \E k \in choices[i - 1].trail + 1 .. choices[i].trail : trail[k].cell = f)'
    <3> SUFFICES ASSUME NEW i \in 1 .. n + 1, NEW f \in Frame, i > 1, WasStatus(i, f)'.stamp = Base(i)'
                 PROVE  \E k \in choices'[i - 1].trail + 1 .. choices'[i].trail : trail'[k].cell = f
      BY <1>3
    <3>1. CASE i = n + 1
      <4>1. n \in 1 .. n /\ i - 1 = n /\ choices # <<>> /\ choices'[n] = choices[n]
        BY <1>1, <1>3, <3>1
      <4>2. Pops(trail, choices[n].trail, f) # {}
        BY <1>6, <1>7, <1>0, <2>0, <3>1, <4>1 DEF Trailed
      <4> QED
        BY <1>1, <1>2, <3>1, <4>1, <4>2 DEF Pops
    <3>2. CASE i \in 1 .. n
      <4>1. i - 1 \in 1 .. n /\ choices'[i - 1] = choices[i - 1] /\ choices'[i] = choices[i]
        BY <1>1, <3>2
      <4>2. WasStatus(i, f).stamp = Base(i)
        BY <1>1, <1>5, <3>2
      <4> QED
        BY <1>1, <1>3, <2>0, <3>2, <4>1, <4>2 DEF Trailed
    <3> QED
      BY <1>1, <3>1, <3>2
  <2> QED
    BY <2>1, <2>3, <2>4, <2>5, <2>6 DEF Trailed
<1>10. ASSUME ~program.cuts PROVE Truth'
  <2>0. TagsTrue(Tags, chain, gone) /\ OwedLive(owed, gone) /\ Uncloned' = Uncloned
    BY <1>1, <1>10 DEF Uncut, Truth, Uncloned
  <2>1. TagsTrue(Tags, chain, gone)' /\ OwedLive(owed, gone)'
    BY <1>1, <2>0 DEF TagsTrue, Tags, OwedLive
  <2>2. ASSUME NEW i \in 1 .. n
        PROVE  (TagsTrue(WasTags(i), choices[i].chain, choices[i].gone) /\ OwedLive(choices[i].owed, choices[i].gone))'
    <3>1. TagsTrue(WasTags(i), choices[i].chain, choices[i].gone) /\ OwedLive(choices[i].owed, choices[i].gone)
      BY <1>3, <1>10 DEF Uncut, Truth
    <3>2. WasTags(i)' = WasTags(i)
      BY <1>1 DEF WasTags
    <3> QED
      BY <1>1, <2>0, <3>1, <3>2 DEF TagsTrue, OwedLive
  <2>3. (TagsTrue(WasTags(n + 1), choices[n + 1].chain, choices[n + 1].gone)
         /\ OwedLive(choices[n + 1].owed, choices[n + 1].gone))'
    <3>1. WasTags(n + 1)' = Tags
      BY <1>7 DEF WasTags, Tags
    <3> QED
      BY <1>1, <1>2, <2>0, <3>1 DEF TagsTrue, OwedLive
  <2>4. \A i \in 1 .. n + 1 : i \in 1 .. n \/ i = n + 1
    BY <1>1
  <2> QED
    BY <1>3, <2>1, <2>2, <2>3, <2>4 DEF Truth
<1> QED
  BY <1>1, <1>8, <1>9, <1>10, SMTT(60) DEF Uncut

\* What comes back is what was true then.
LEMMA FailUncut == ASSUME Core, Core', Uncut, Fail PROVE Uncut'
<1>0. PICK n \in Nat : n = Len(choices)
  BY PointTypes, CoreNow
<1>1. /\ n \in DOMAIN choices /\ queue' = <<>> /\ program' = program
      /\ \A f \in Frame : at'[f] = IF Old(n, f) THEN at[f] ELSE 0
      /\ \A f \in Frame : status'[f] = WasStatus(n, f)
      /\ chain' = choices[n].chain /\ owed' = choices[n].owed /\ gone' = choices[n].gone
      /\ choices' \in Seq(Points)
      /\ DOMAIN choices' \subseteq DOMAIN choices /\ (\A i \in DOMAIN choices' : choices'[i] = choices[i])
  BY <1>0, FailIs
<1>2. \A i \in DOMAIN choices', f \in Frame : WasStatus(i, f)' = WasStatus(i, f)
  BY FailKeeps
<1>3. /\ DOMAIN choices = 1 .. n /\ choices # <<>> /\ B = choices[n].at /\ n >= 1
      /\ \A i \in DOMAIN choices :
           /\ choices[i].at \in Nat /\ choices[i].at >= 1 /\ choices[i].trail \in Nat
           /\ choices[i].trail <= choices[n].trail /\ choices[i].trail <= Len(trail)
           /\ choices[i].at <= choices[n].at
           /\ i < n => choices[i].at < choices[n].at
  <2>1. choices # <<>>
    BY <1>1
  <2>2. \A i, j \in DOMAIN choices : i < j => choices[i].at < choices[j].at
    BY CoreNow DEF Stacked
  <2> QED
    BY <1>0, <1>1, <2>1, <2>2, LatestIs
<1>4. choices' = choices \/ choices' = Front(choices)
  BY DEF Fail
<1>5. PICK m \in Nat :
        /\ m = Len(choices') /\ DOMAIN choices' = 1 .. m /\ (m = n \/ m = n - 1)
        /\ choices' = <<>> <=> m = 0
  <2>1. choices \in Seq(Points) /\ Len(choices) = n /\ choices # <<>>
    BY <1>0, <1>3, PointTypes, CoreNow
  <2>2. Len(Front(choices)) = n - 1
    BY <2>1 DEF Front
  <2>3. PICK m \in Nat : m = Len(choices') /\ DOMAIN choices' = 1 .. m
    BY <1>1
  <2>4. m = n \/ m = n - 1
    BY <1>4, <2>1, <2>2, <2>3
  <2>5. choices' = <<>> <=> m = 0
    BY <1>1, <2>3
  <2> QED
    BY <2>3, <2>4, <2>5
<1>6. \A i \in DOMAIN choices' : Base(i)' = Base(i)
  <2> SUFFICES ASSUME NEW i \in DOMAIN choices' PROVE Base(i)' = Base(i)
    OBVIOUS
  <2>1. i # 1 => i - 1 \in DOMAIN choices'
    BY <1>5, i \in 1 .. m
  <2> QED
    BY <1>1, <2>1 DEF Base
<1>7. B' = (IF m = 0 THEN 0 ELSE choices[m].at) /\ (m # 0 => m \in DOMAIN choices')
  <2>1. Last(choices') = choices'[m] /\ (m # 0 => m \in DOMAIN choices')
    BY <1>5 DEF Last
  <2> QED
    BY <1>1, <1>5, <2>1 DEF B
<1>8. Cloneless'
  <2>1. Uncloned => \A k \in DOMAIN choices[n].chain : ~choices[n].chain[k].clone
    <3>1. Begins(choices[n].chain, chain) /\ choices[n].chain \in Seq(Acts) /\ chain \in Seq(Acts)
      BY <1>1, CoreNow, PointTypes
    <3>2. \A k \in DOMAIN choices[n].chain : k \in DOMAIN chain /\ choices[n].chain[k] = chain[k]
      BY <3>1 DEF Begins
    <3> QED
      BY <3>2, TruthNow DEF Cloneless
  <2> QED
    BY <1>1, <2>1 DEF Cloneless, Uncloned
<1>9. ASSUME ~program.cuts PROVE Truth'
  <2>0. Uncloned' = Uncloned /\ Truth
    BY <1>1, <1>9, TruthNow DEF Uncloned
  <2>1. TagsTrue(Tags, chain, gone)' /\ OwedLive(owed, gone)'
    <3>1. TagsTrue(WasTags(n), choices[n].chain, choices[n].gone) /\ OwedLive(choices[n].owed, choices[n].gone)
      BY <1>1, <2>0 DEF Truth
    <3>2. Tags' = WasTags(n)
      BY <1>1 DEF WasTags, Tags
    <3> QED
      BY <1>1, <2>0, <3>1, <3>2 DEF TagsTrue, OwedLive
  <2>2. ASSUME NEW i \in DOMAIN choices'
        PROVE  (TagsTrue(WasTags(i), choices[i].chain, choices[i].gone) /\ OwedLive(choices[i].owed, choices[i].gone))'
    <3>1. TagsTrue(WasTags(i), choices[i].chain, choices[i].gone) /\ OwedLive(choices[i].owed, choices[i].gone)
      BY <1>1, <2>0 DEF Truth
    <3>2. WasTags(i)' = WasTags(i)
      BY <1>2 DEF WasTags
    <3> QED
      BY <1>1, <2>0, <3>1, <3>2 DEF TagsTrue, OwedLive
  <2> QED
    BY <2>1, <2>2 DEF Truth
<1>10. ASSUME ~program.cuts PROVE Trailed'
  <2>0. Trailed
    BY <1>10, TruthNow
  <2>1. \A i \in DOMAIN choices, f \in Frame :
           Pops(trail', choices[i].trail, f) = {k \in Pops(trail, choices[i].trail, f) : k <= choices[n].trail}
    BY <1>0, FailBack
  <2>2. \A k \in 1 .. choices[n].trail : trail'[k] = trail[k]
    BY <1>0, <1>1, FailBack
  <2>3. (\A i \in DOMAIN choices, f \in Frame :
           On(chain, f) # {} /\ On(choices[i].chain, f) = {} /\ Old(i, f) => Pops(trail, choices[i].trail, f) # {})'
    <3> SUFFICES ASSUME NEW i \in DOMAIN choices', NEW f \in Frame,
                        On(choices[n].chain, f) # {}, On(choices'[i].chain, f) = {}, Old(i, f)'
                 PROVE  Pops(trail', choices'[i].trail, f) # {}
      BY <1>1
    <3>1. i \in DOMAIN choices /\ choices'[i] = choices[i]
      BY <1>1
    <3>2. Old(n, f) /\ Pops(trail, choices[n].trail, f) = {} /\ On(chain, f) # {}
      BY <1>1, SavedIsOnChain, CoreNow DEF ChainsKept
    <3>3. Old(i, f)
      BY <1>1, <3>1, <3>2 DEF Old
    <3>4. PICK k \in Pops(trail, choices[i].trail, f) : TRUE
      BY <2>0, <3>1, <3>2, <3>3 DEF Trailed
    <3>5. k <= choices[n].trail
      <4>1. k \in choices[i].trail + 1 .. Len(trail) /\ trail[k].cell = f
        BY <3>4 DEF Pops
      <4>2. k \notin choices[n].trail + 1 .. Len(trail)
        BY <3>2, <4>1 DEF Pops
      <4>3. choices[n].trail \in Nat /\ choices[i].trail \in Nat /\ Len(trail) \in Nat
        BY <1>1, <1>3, <3>1, CoreNow
      <4> QED
        BY <4>1, <4>2, <4>3
    <3> QED
      BY <2>1, <3>1, <3>4, <3>5
  <2>4. \A f \in Frame : status'[f].stamp <= Base(n) /\ status'[f].stamp \in Nat
    BY <1>1, <2>0, WasFacts DEF Trailed, Words, Stamps
  <2>5. /\ Base(n) \in Nat /\ Base(n) < choices[n].at
        /\ n # 1 => n - 1 \in DOMAIN choices /\ Base(n) = choices[n - 1].at
        /\ n = 1 => Base(n) = 0
    <3>1. n # 1 => n - 1 \in DOMAIN choices /\ n - 1 < n
      BY <1>1, <1>3
    <3> QED
      BY <1>1, <1>3, <3>1 DEF Base
  <2>6. \/ m = n /\ B' = choices[n].at
        \/ m = n - 1 /\ B' = Base(n)
    BY <1>3, <1>5, <1>7, <2>5
  <2>7. (\A f \in Frame : status[f].stamp <= B)'
    BY <1>1, <1>3, <2>4, <2>5, <2>6
  <2>8. (\A i \in DOMAIN choices, f \in Frame : WasStatus(i, f).stamp <= Base(i))'
    <3> SUFFICES ASSUME NEW i \in DOMAIN choices', NEW f \in Frame PROVE WasStatus(i, f)'.stamp <= Base(i)'
      OBVIOUS
    <3> QED
      BY <1>1, <1>2, <1>6, <2>0 DEF Trailed
  <2>9. ASSUME NEW i \in DOMAIN choices, NEW f \in Frame, i > 1, WasStatus(i, f).stamp = Base(i)
        PROVE  \E k \in choices[i - 1].trail + 1 .. choices[i].trail : trail'[k].cell = f /\ k \in 1 .. choices[n].trail
    <3>1. PICK k \in choices[i - 1].trail + 1 .. choices[i].trail : trail[k].cell = f
      BY <2>0, <2>9 DEF Trailed
    <3>2. i - 1 \in DOMAIN choices
      BY <1>3, <2>9
    <3>3. choices[i - 1].trail \in Nat /\ choices[i].trail \in Nat /\ choices[n].trail \in Nat
          /\ choices[i].trail <= choices[n].trail
      BY <1>1, <1>3, <3>2
    <3>4. k \in 1 .. choices[n].trail
      BY <3>1, <3>3
    <3> QED
      BY <2>2, <3>1, <3>4
  <2>10. (choices # <<>> => \A f \in Frame :
            status[f].stamp = B => Pops(trail, choices[Len(choices)].trail, f) # {})'
    <3> SUFFICES ASSUME choices' # <<>>, NEW f \in Frame, status'[f].stamp = B'
                 PROVE  Pops(trail', choices'[Len(choices')].trail, f) # {}
      OBVIOUS
    <3>1. m = n - 1 /\ B' = Base(n)
      BY <1>1, <1>3, <2>4, <2>5, <2>6
    <3>2. n > 1 /\ n - 1 \in DOMAIN choices /\ choices'[n - 1] = choices[n - 1]
      BY <1>1, <1>3, <1>5, <3>1
    <3>3. WasStatus(n, f).stamp = Base(n)
      BY <1>1, <3>1
    <3>4. PICK k \in choices[n - 1].trail + 1 .. choices[n].trail : trail'[k].cell = f
      BY <1>1, <2>9, <3>2, <3>3
    <3>5. Len(trail') = choices[n].trail
      BY <1>0, <1>1, FailBack
    <3>6. k \in Pops(trail', choices[n - 1].trail, f)
      BY <3>4, <3>5 DEF Pops
    <3> QED
      BY <1>5, <3>1, <3>2, <3>6
  <2>11. (\A i \in DOMAIN choices, f \in Frame :
            i > 1 /\ WasStatus(i, f).stamp = Base(i) =>
              \E k \in choices[i - 1].trail + 1 .. choices[i].trail : trail[k].cell = f)'
    <3> SUFFICES ASSUME NEW i \in DOMAIN choices', NEW f \in Frame, i > 1, WasStatus(i, f)'.stamp = Base(i)'
                 PROVE  \E k \in choices'[i - 1].trail + 1 .. choices'[i].trail : trail'[k].cell = f
      OBVIOUS
    <3>1. i \in DOMAIN choices /\ i - 1 \in DOMAIN choices'
      BY <1>1, <1>5
    <3>2. choices'[i] = choices[i] /\ choices'[i - 1] = choices[i - 1]
      BY <1>1, <3>1
    <3> QED
      BY <1>2, <1>6, <2>9, <3>1, <3>2
  <2> QED
    BY <2>3, <2>7, <2>8, <2>10, <2>11 DEF Trailed
<1> QED
  BY <1>1, <1>8, <1>9, <1>10, SMTT(60) DEF Uncut

\* At first there is nothing to be true of.
LEMMA UncutInit == ASSUME Init PROVE Uncut
<1>1. /\ choices = <<>> /\ chain = <<>> /\ queue = <<>> /\ owed = {} /\ gone = {} /\ trail = <<>>
      /\ status = [f \in Frame |-> Word("start", 0)]
  BY DEF Init
<1>2. \A f \in Frame : status[f].tag = "start" /\ status[f].stamp = 0
  BY <1>1 DEF Word
<1>3. B = 0 /\ \A f : On(chain, f) = {}
  BY <1>1 DEF B, On
<1>4. Trailed
  BY <1>1, <1>2, <1>3 DEF Trailed
<1>5. Truth
  BY <1>1, <1>2 DEF Truth, TagsTrue, Tags, OwedLive
<1> QED
  BY <1>1, <1>4, <1>5 DEF Uncut, Cloneless

\* Every step keeps it.
LEMMA UncutNext == ASSUME Core, Core', Uncut, [Next]_vars PROVE Uncut'
<1>1. ASSUME UNCHANGED vars PROVE Uncut'
  BY <1>1, QuietUncut DEF vars, Uncut, Cloneless
<1>2. ASSUME NEW c \in Channel, PostVarIns(c) \/ PostDvarIns(c) \/ PostMinmax(c) \/ PostGeneral(c) PROVE Uncut'
  BY <1>2, PostUncut DEF PostVarIns, PostDvarIns, PostMinmax, PostGeneral
<1>3. ASSUME NEW c \in Channel, NEW p \in {"dom", "outer_dom"}, PostDom(c, p) PROVE Uncut'
  BY <1>3, PostUncut DEF PostDom
<1>4. ASSUME Cut PROVE Uncut'
  BY <1>4, CutIs, TruthNow DEF Uncut, Cloneless, Uncloned
<1>5. CASE Next
  BY <1>2, <1>3, <1>4, <1>5, NewActorUncut, StillUncut, ConnectUncut, SelectActionUncut, SelectNormalUncut,
     KillUncut, ReturnDelayUncut, ReturnCommitUncut, ChoiceUncut, FailUncut DEF Next
<1> QED
  BY <1>1, <1>5

\* Where choice points are not cut, an agent is marked as running or to be re-entered only
\* while it is on the active chain; and where no frame is cloned either, it is marked as dead
\* exactly when a normal rule has been applied to it on the current branch, although words
\* are trailed only when a stamp says so and death is not trailed at all.
THEOREM StatusWordsAreTrue == Spec => []StatusIsTrue
<1>1. Init => Core /\ Uncut
  BY CoreInit, UncutInit
<1>2. Core /\ Uncut /\ [Next]_vars => (Core /\ Uncut)'
  BY CoreNext, UncutNext
<1>3. Core /\ Uncut => StatusIsTrue
  <2> SUFFICES ASSUME Core, Uncut PROVE StatusIsTrue
    OBVIOUS
  <2>1. UncutRunnersOnChain
    BY TruthNow DEF UncutRunnersOnChain, RunnersOnChain, OnChain, On
  <2>2. VanishedIsDead
    BY TruthNow DEF VanishedIsDead, Uncloned
  <2> QED
    BY <2>1, <2>2 DEF StatusIsTrue
<1> QED
  BY <1>1, <1>2, <1>3, PTL DEF Spec

-----------------------------------------------------------------------------
(* What is owed, without cuts: the inductive invariant.                    *)

\* The frames that the handler has still to come to with event k of the queue.
ToVisit(k) ==
  IF cursor = Idle \/ k < cursor.no THEN Range(list[queue[k].chan, queue[k].port])
  ELSE IF k = cursor.no THEN Range(cursor.rest) ELSE {}
Awaits(d) ==
  \E k \in DOMAIN queue : queue[k].obj = d.obj /\ queue[k].kind = d.kind /\ d.frame \in ToVisit(k)

\* The same, where the test of CONNECT_WOKEN_FRAME_min_max does not skip the frame, and the
\* agent is not inside its body.
Visits(d) ==
  /\ Awaits(d)
  /\ d.kind = "minmax" => ~InBody(d.frame) /\ at[d.frame] # triggering[Len(queue)]

\* Activation a will settle debt d, where t is the tag of the frame: it has the event of its
\* own, or the frame is at its head or will be when it returns.
Answers(a, t, d) ==
  /\ a.frame = d.frame
  /\ IF d.kind \in TermKinds THEN a.obj = d.obj /\ a.pc = "head"
     ELSE ~a.clone /\ (a.pc = "head" \/ t = "reent")

\* The debts that are kept track of.
Counts(d) ==
  \/ d.kind \in InsKinds
  \/ BoundsOnly /\ d.kind = "minmax" /\ ~d.own
  \/ TermsOnly /\ d.kind \in TermKinds

Served(d) == Visits(d) \/ \E k \in DOMAIN chain : Answers(chain[k], status[d.frame].tag, d)
WasServed(i) ==
  \A d \in choices[i].owed : Counts(d) =>
    \E k \in DOMAIN choices[i].chain : Answers(choices[i].chain[k], WasTags(i)[d.frame], d)
Markless == \A f \in Frame : status[f].tag # "reent"

Care ==
  ~program.cuts =>
    /\ \A d \in owed : Counts(d) => Served(d)
    /\ \A i \in DOMAIN choices : WasServed(i)
    /\ TermsOnly => Markless

-----------------------------------------------------------------------------
(* Steps that keep the choice points.                                      *)

\* What is owed, and to whom.
LEMMA DebtIs ==
  ASSUME Core, NEW d \in owed
  PROVE  d.frame \in Frame /\ d.obj \in 1 .. MaxPosts /\ d.kind \in AllKinds
<1>1. d \in Debts
  BY CoreNow, TypesAre
<1> QED
  BY <1>1 DEF Debts

\* What was owed at a choice point is answered on the chain that it has saved.
LEMMA SavedServed ==
  ASSUME Core, Saves, program' = program, ~program.cuts, NEW i \in DOMAIN choices, WasServed(i)
  PROVE  WasServed(i)'
<1>1. choices' = choices
  BY DEF Saves
<1> SUFFICES ASSUME NEW d \in choices[i].owed, Counts(d)
             PROVE  \E k \in DOMAIN choices[i].chain : Answers(choices[i].chain[k], WasTags(i)'[d.frame], d)
  BY <1>1 DEF WasServed, Counts, BoundsOnly, TermsOnly, Uncloned
<1>2. d.frame \in Frame
  <2>1. choices[i].owed \subseteq Debts
    BY PointTypes, CoreNow
  <2> QED
    BY <2>1 DEF Debts
<1>3. WasTags(i)'[d.frame] = WasTags(i)[d.frame] \/ WasTags(i)'[d.frame] = "reent"
  BY <1>2 DEF Saves
<1>4. PICK k \in DOMAIN choices[i].chain : Answers(choices[i].chain[k], WasTags(i)[d.frame], d)
  BY DEF WasServed
<1>5. Answers(choices[i].chain[k], WasTags(i)'[d.frame], d)
  BY <1>3, <1>4 DEF Answers
<1> QED
  BY <1>5

\* So the present is what remains to be shown.
LEMMA CareOn ==
  ASSUME Core, Care, Saves, program' = program,
         ~program.cuts => \A d \in owed' : Counts(d) => Served(d)',
         ~program.cuts /\ TermsOnly => Markless'
  PROVE  Care'
<1>1. ASSUME ~program.cuts PROVE \A i \in DOMAIN choices' : WasServed(i)'
  <2>1. choices' = choices
    BY DEF Saves
  <2> QED
    BY <1>1, <2>1, SavedServed DEF Care
<1>2. \A d : Counts(d)' = Counts(d)
  BY DEF Counts, BoundsOnly, TermsOnly, Uncloned
<1>3. TermsOnly' = TermsOnly
  BY DEF TermsOnly
<1> QED
  BY <1>1, <1>2, <1>3 DEF Care

\* An activation that stays on the chain answers what it did.
LEMMA StillAnswered ==
  ASSUME NEW d, NEW k \in DOMAIN chain, Answers(chain[k], status[d.frame].tag, d),
         k \in DOMAIN chain', chain'[k] = chain[k],
         status[d.frame].tag = "reent" => status'[d.frame].tag = "reent"
  PROVE  Served(d)'
<1>1. Answers(chain'[k], status'[d.frame].tag, d)
  BY DEF Answers
<1> QED
  BY <1>1 DEF Served

\* And without events the handler has nobody to visit.
LEMMA NoneVisited == ASSUME queue = <<>> PROVE \A d : ~Visits(d)
BY DEF Visits, Awaits

\* When the handler is entered, it has still to come to all.
LEMMA CaughtVisits ==
  ASSUME Core, cursor = Idle, CatchWake, UNCHANGED <<queue, list>>, NEW k \in DOMAIN queue
  PROVE  ToVisit(k)' = ToVisit(k)
<1>1. queue # <<>> /\ queue \in Seq(Events) /\ Len(queue) \in 1 .. Len(queue) /\ k \in 1 .. Len(queue)
  BY CoreNow
<1>2. cursor' = AtEvent(Len(queue))
  BY <1>1 DEF CatchWake
<1>3. cursor'.no = Len(queue) /\ cursor' # Idle
      /\ cursor'.rest = list[queue[Len(queue)].chan, queue[Len(queue)].port]
  BY <1>1, <1>2, EventIs DEF AtEvent, EventAt
<1>4. ToVisit(k) = Range(list[queue[k].chan, queue[k].port])
  BY DEF ToVisit
<1>5. k < Len(queue) \/ k = Len(queue)
  BY <1>1
<1>6. ToVisit(k)' = IF k < Len(queue) THEN Range(list[queue[k].chan, queue[k].port])
                    ELSE IF k = Len(queue) THEN Range(list[queue[Len(queue)].chan, queue[Len(queue)].port])
                    ELSE {}
  BY <1>3 DEF ToVisit
<1> QED
  BY <1>4, <1>5, <1>6

\* Steps that change nothing of this, and calls, which enter the handler.
LEMMA StillCare ==
  ASSUME Core, Core', Uncut, Care, UNCHANGED <<at, status, list, chain, queue, triggering, owed, program>>, Saves,
         cursor' = cursor \/ (cursor = Idle /\ CatchWake)
  PROVE  Care'
<1>1. ASSUME NEW d \in owed, Visits(d) PROVE Visits(d)'
  <2>1. PICK k \in DOMAIN queue : queue[k].obj = d.obj /\ queue[k].kind = d.kind /\ d.frame \in ToVisit(k)
    BY <1>1 DEF Visits, Awaits
  <2>2. ToVisit(k)' = ToVisit(k)
    <3>1. CASE cursor' = cursor
      BY <3>1 DEF ToVisit
    <3>2. CASE cursor = Idle /\ CatchWake
      BY <3>2, CaughtVisits
    <3> QED
      BY <3>1, <3>2
  <2>3. Awaits(d)'
    BY <2>1, <2>2 DEF Awaits
  <2> QED
    BY <1>1, <2>3 DEF Visits, InBody
<1>2. ASSUME NEW d \in owed, Served(d) PROVE Served(d)'
  BY <1>1, <1>2 DEF Served
<1>3. Markless => Markless'
  BY DEF Markless
<1> QED
  BY <1>2, <1>3, CareOn DEF Care

\* An event is posted, of a kind that names its triggering frame or none.
LEMMA PostCare ==
  ASSUME Core, Core', Uncut, Care, NEW c \in Channel, NEW p \in Port, NEW kind, NEW seeds, Post(c, p, kind, seeds),
         BoundsOnly => seeds \subseteq {0} \cup {at[f] : f \in RunningFrame}
  PROVE  Care'
<1> DEFINE e == [chan |-> c, port |-> p, kind |-> kind, obj |-> posts + 1]
<1>0. PICK n \in Nat : n = Len(queue)
  BY CoreNow
<1>1. /\ queue' = Append(queue, e) /\ Inline /\ cursor = Idle /\ Running # "head" /\ kind \in program.kinds
      /\ UNCHANGED <<at, status, list, trail, choices, chain, cursor, gone, program>>
      /\ HasRoom
  BY DEF Post, HasSlot, Inline
<1>2. PICK seed \in seeds : triggering' = [triggering EXCEPT ![n + 1] = seed]
  BY <1>0 DEF Post
<1>3. /\ e.chan = c /\ e.port = p /\ e.kind = kind /\ e.obj = posts + 1 /\ queue \in Seq(Events)
  BY CoreNow
<1> HIDE DEF e
<1>4. /\ DOMAIN queue' = DOMAIN queue \cup {n + 1} /\ Len(queue') = n + 1
      /\ \A k \in DOMAIN queue : queue'[k] = queue[k]
      /\ queue'[n + 1] = e
  <2> DEFINE q == Append(queue, e)
  <2>1. /\ Len(q) = n + 1 /\ DOMAIN q = 1 .. n + 1 /\ DOMAIN queue = 1 .. n
        /\ (\A k \in 1 .. n : q[k] = queue[k]) /\ q[n + 1] = e
    BY <1>0, <1>3
  <2>2. 1 .. n + 1 = (1 .. n) \cup {n + 1}
    BY <1>3
  <2>3. queue' = q
    BY <1>1
  <2> HIDE DEF q
  <2> QED
    BY <2>1, <2>2, <2>3
<1>5. triggering'[n + 1] = seed
  <2>1. triggering \in [1 .. MaxTriggers -> 0 .. MaxAddr] /\ n + 1 \in 1 .. MaxTriggers
    BY <1>0, <1>1, TypesAre, CoreNow, Bounds DEF HasRoom, Types, TypeOK
  <2> QED
    BY <1>2, <2>1
\* A frame in a list, of an agent that is not in its body, is not the one that was named.
<1>6. ASSUME BoundsOnly, NEW d, d.frame \in Frame, d.frame \notin gone, at[d.frame] # 0, ~InBody(d.frame)
      PROVE  at[d.frame] # seed
  <2> SUFFICES ASSUME NEW f \in RunningFrame, seed = at[f] PROVE at[d.frame] # seed
    BY <1>2, <1>6
  <2>1. chain # <<>>
    BY DEF RunningFrame
  <2>2. /\ f = Last(chain).frame /\ ~Last(chain).clone /\ f \in Frame
        /\ Last(chain) = chain[Len(chain)] /\ Len(chain) \in DOMAIN chain
        /\ Running = Last(chain).pc /\ Last(chain) \in Acts
    BY <2>1, LastIs
  <2>3. Last(chain).pc \in {"body", "exit"}
    BY <1>1, <2>2 DEF Acts
  <2>4. Last(chain).pc = "exit" => f \in gone
    BY <1>6, <2>2, TruthNow DEF BoundsOnly, Uncloned
  <2>5. f # d.frame
    BY <1>6, <2>2, <2>3, <2>4 DEF InBody
  <2> QED
    BY <1>6, <2>2, <2>5, CoreNow DEF Placed
<1>7. ASSUME ~program.cuts, NEW d \in owed', NEW k \in DOMAIN queue', queue'[k].obj = d.obj, queue'[k].kind = d.kind,
             d.frame \in ToVisit(k)', d.kind = "minmax" => BoundsOnly /\ ~InBody(d.frame)
      PROVE  Visits(d)'
  <2>1. d.frame \in Frame
    BY DebtIs, <1>7, TypesAreNext DEF Core, Debts
  <2>2. d.frame \notin gone
    BY <1>1, <1>7, TruthNow, PostedIs DEF OwedLive
  <2>3. at[d.frame] # 0
    <3>1. d.frame \in Range(list[queue'[k].chan, queue'[k].port])
      BY <1>1, <1>7 DEF ToVisit
    <3>2. queue'[k] \in Events
      BY <1>7, TypesAreNext DEF Core
    <3> DEFINE s == list[queue'[k].chan, queue'[k].port]
    <3>3. Watchers(s)
      BY <3>2, CoreNow DEF ListsNow, Events
    <3>4. PICK j \in DOMAIN s : d.frame = s[j]
      BY <3>1, RangeIs
    <3> HIDE DEF s
    <3> QED
      BY <3>3, <3>4 DEF Watchers
  <2>4. d.kind = "minmax" => at'[d.frame] # triggering'[Len(queue')] /\ ~InBody(d.frame)'
    BY <1>1, <1>4, <1>5, <1>6, <1>7, <2>1, <2>2, <2>3 DEF InBody
  <2>5. Awaits(d)'
    BY <1>7 DEF Awaits
  <2> QED
    BY <2>4, <2>5 DEF Visits
<1>8. ASSUME ~program.cuts, NEW d \in owed', Counts(d) PROVE Served(d)'
  <2>1. CASE d \in owed /\ Visits(d)
    <3>1. PICK k \in DOMAIN queue : queue[k].obj = d.obj /\ queue[k].kind = d.kind /\ d.frame \in ToVisit(k)
      BY <2>1 DEF Visits, Awaits
    <3>2. k \in DOMAIN queue' /\ queue'[k] = queue[k] /\ ToVisit(k)' = ToVisit(k)
      BY <1>1, <1>4, <3>1 DEF ToVisit
    <3>3. d.kind = "minmax" => BoundsOnly /\ ~InBody(d.frame)
      BY <1>8, <2>1 DEF Counts, Visits, InsKinds, TermKinds
    <3> QED
      BY <1>7, <1>8, <3>1, <3>2, <3>3 DEF Served
  <2>2. CASE d \in owed /\ ~Visits(d)
    BY <1>1, <1>8, <2>2 DEF Served, Care
  <2>3. CASE d \notin owed
    <3>1. d.frame \in Range(list[c, p]) /\ d.obj = posts + 1 /\ d.kind = kind /\ d.own = InBody(d.frame)
      BY <2>3, PostedIs, <1>8
    <3>2. ToVisit(n + 1)' = Range(list[c, p]) /\ n + 1 \in DOMAIN queue'
          /\ queue'[n + 1].obj = d.obj /\ queue'[n + 1].kind = d.kind
      BY <1>1, <1>3, <1>4, <3>1 DEF ToVisit
    <3>3. d.kind = "minmax" => BoundsOnly /\ ~InBody(d.frame)
      BY <1>8, <3>1 DEF Counts, InsKinds, TermKinds
    <3> QED
      BY <1>7, <1>8, <3>1, <3>2, <3>3 DEF Served
  <2> QED
    BY <2>1, <2>2, <2>3
<1>9. Saves
  BY PostUncut
<1>10. ~program.cuts /\ TermsOnly => Markless'
  BY <1>1 DEF Care, Markless
<1> QED
  BY <1>1, <1>8, <1>9, <1>10, CareOn

\* A new agent: nobody is waiting for the handler.
LEMMA NewActorCare == ASSUME Core, Core', Uncut, Care, NEW f \in Frame, NewActor(f) PROVE Care'
<1>1. /\ status[f].tag = "start" /\ status'[f] = Word("run", 0) /\ \A g \in Frame : g # f => status'[g] = status[g]
      /\ DOMAIN chain' = DOMAIN chain \cup {Len(chain) + 1}
      /\ \A k \in DOMAIN chain : chain'[k] = chain[k]
      /\ queue = <<>> /\ owed' = owed /\ program' = program
  BY NewActorIs
<1>2. Saves
  BY NewActorUncut
<1>3. status'[f].tag = "run"
  BY <1>1 DEF Word
<1>4. ASSUME NEW d \in owed, Served(d) PROVE Served(d)'
  <2>1. PICK k \in DOMAIN chain : Answers(chain[k], status[d.frame].tag, d)
    BY <1>1, <1>4, NoneVisited DEF Served
  <2>2. d.frame \in Frame
    BY DebtIs
  <2>3. status[d.frame].tag = "reent" => status'[d.frame].tag = "reent"
    BY <1>1, <2>2
  <2> QED
    BY <1>1, <2>1, <2>3, StillAnswered
<1>5. Markless => Markless'
  BY <1>1, <1>3 DEF Markless
<1> QED
  BY <1>1, <1>2, <1>4, <1>5, CareOn DEF Care

\* The handler has come to the end of a list.
LEMMA HandlerCare == ASSUME Core, Core', Uncut, Care, NextEvent \/ HandlerDone PROVE Care'
<1>1. cursor # Idle /\ cursor.no \in 1 .. Len(queue) /\ cursor.no \in Nat /\ cursor.rest = <<>>
  <2>1. cursor # Idle /\ cursor.rest = <<>>
    BY DEF NextEvent, HandlerDone, Idle
  <2> QED
    BY <2>1, HandlerIs
<1>2. PICK n \in Nat : n = cursor.no
  BY <1>1
<1>3. /\ UNCHANGED <<at, status, choices, chain, triggering, posts, owed, gone, program>>
      /\ Compact(queue[n]) /\ queue[n] \in Events
      /\ \/ n > 1 /\ cursor' = AtEvent(n - 1) /\ queue' = queue
         \/ n = 1 /\ queue' = <<>>
  BY <1>1, <1>2, HandlerIs DEF NextEvent, HandlerDone, EventAt, fixed
<1>4. \A w \in Channel \X Port : \A f \in Range(list[w]) : f \in Range(list'[w]) \/ status[f].tag = "exit"
  BY <1>3, CompactLists
<1>5. Range(<<>>) = {}
  BY RangeIs
\* Those whom it had still to come to are on the lists of earlier events, and are not dead.
<1>6. ASSUME ~program.cuts, NEW d \in owed, Visits(d) PROVE Visits(d)'
  <2>1. PICK k \in DOMAIN queue : queue[k].obj = d.obj /\ queue[k].kind = d.kind /\ d.frame \in ToVisit(k)
    BY <1>6 DEF Visits, Awaits
  <2>2. k < n /\ d.frame \in Range(list[queue[k].chan, queue[k].port])
    BY <1>1, <1>2, <1>5, <2>1 DEF ToVisit
  <2>3. k \in 1 .. n - 1 /\ n > 1 /\ n - 1 \in 1 .. Len(queue) /\ cursor' = AtEvent(n - 1) /\ queue' = queue
    <3>1. PICK m \in Nat : m = Len(queue) /\ DOMAIN queue = 1 .. m
      BY CoreNow
    <3>2. k \in 1 .. m /\ n \in 1 .. m /\ k < n
      BY <1>1, <1>2, <2>1, <2>2, <3>1
    <3>3. k \in 1 .. n - 1 /\ n > 1 /\ n # 1 /\ n - 1 \in 1 .. m
      BY <3>2
    <3> QED
      BY <1>3, <3>1, <3>3
  <2>4. cursor'.no = n - 1 /\ cursor' # Idle
        /\ cursor'.rest = list[queue[n - 1].chan, queue[n - 1].port]
    BY <2>3, EventIs DEF AtEvent, EventAt
  <2>5. d.frame \in Range(list'[queue[k].chan, queue[k].port])
    <3>1. queue[k] \in Events
      BY <2>1, CoreNow
    <3>2. status[d.frame].tag # "exit"
      BY <1>6, DebtIs, TruthNow DEF OwedLive
    <3> QED
      BY <1>4, <2>2, <3>1, <3>2 DEF Events
  <2>6. ToVisit(k)' = IF k < n - 1 THEN Range(list'[queue[k].chan, queue[k].port])
                      ELSE IF k = n - 1 THEN Range(list[queue[n - 1].chan, queue[n - 1].port]) ELSE {}
    BY <2>3, <2>4 DEF ToVisit
  <2>7. k < n - 1 \/ k = n - 1
    BY <2>3
  <2>8. d.frame \in ToVisit(k)'
    BY <2>2, <2>5, <2>6, <2>7
  <2>9. Awaits(d)'
    BY <2>1, <2>3, <2>8 DEF Awaits
  <2> QED
    BY <1>3, <1>6, <2>3, <2>9 DEF Visits, InBody
<1>7. ASSUME ~program.cuts, NEW d \in owed, Served(d) PROVE Served(d)'
  BY <1>3, <1>6, <1>7 DEF Served
<1>8. Saves
  BY StillUncut
<1>9. Markless => Markless'
  BY <1>3 DEF Markless
<1> QED
  BY <1>3, <1>7, <1>8, <1>9, CareOn DEF Care

-----------------------------------------------------------------------------
(* A frame is connected.                                                   *)

\* The frame that the handler has come to now has what the event owes it.
LEMMA ConnectServes ==
  ASSUME Core, Core', Uncut, Care, Connect, ~program.cuts,
         NEW d \in owed, Counts(d), Visits(d), d.frame = Head(cursor.rest),
         d.kind = queue[cursor.no].kind, d.obj = queue[cursor.no].obj
  PROVE  Served(d)'
<1> DEFINE e == queue[cursor.no]
<1>1. PICK f \in Frame : f = Head(cursor.rest)
  BY ConnectIs
<1>2. /\ at[f] # 0 /\ e.obj \in 0 .. MaxPosts /\ 0 \in 0 .. MaxPosts
      /\ \/ e.kind \in InsKinds /\ WakeSleeper(f, 0)
         \/ e.kind = "minmax" /\ WakeSleeper(f, 0)
         \/ e.kind \in TermKinds /\ WakeSleeper(f, e.obj)
         \/ /\ e.kind \in InsKinds /\ status[f].tag \in {"run", "reent"}
            /\ status' = [status EXCEPT ![f].tag = "reent"] /\ UNCHANGED <<chain, trail>>
         \/ /\ e.kind \in TermKinds /\ status[f].tag = "run"
            /\ chain' = Append(chain, Activation(f, TRUE, e.obj, WokenBatch)) /\ UNCHANGED <<status, trail>>
         \/ /\ UNCHANGED <<status, chain, trail>>
            /\ \/ status[f].tag = "exit"
               \/ e.kind = "minmax" /\ (at[f] = triggering[Len(queue)] \/ status[f].tag # "sleep")
               \/ e.kind \in TermKinds /\ status[f].tag = "reent"
  BY <1>1, ConnectIs
<1>3. d.frame = f /\ d.kind = e.kind /\ d.obj = e.obj /\ f \notin gone /\ status[f].tag # "exit" /\ f \in Frame
  BY <1>1, TruthNow DEF OwedLive
<1> HIDE DEF e
<1>4. d.kind \in InsKinds \/ d.kind = "minmax" => d.kind \notin TermKinds
  BY DEF InsKinds, TermKinds
<1>5. ASSUME NEW k \in DOMAIN chain', Answers(chain'[k], status'[f].tag, d) PROVE Served(d)'
  BY <1>3, <1>5 DEF Served
<1>6. ASSUME NEW obj \in 0 .. MaxPosts, WakeSleeper(f, obj), d.kind \in TermKinds => obj = d.obj PROVE Served(d)'
  <2>1. LET a == chain'[Len(chain) + 1] IN a.frame = f /\ ~a.clone /\ a.pc = "head" /\ a.obj = obj
    BY <1>6, WokenIs
  <2>2. Len(chain) + 1 \in DOMAIN chain'
    BY <1>6, WokenIs
  <2> QED
    BY <1>3, <1>5, <1>6, <2>1, <2>2 DEF Answers
<1>7. CASE e.kind \in InsKinds /\ status[f].tag \in {"run", "reent"}
           /\ status' = [status EXCEPT ![f].tag = "reent"] /\ UNCHANGED <<chain, trail>>
  <2>1. PICK k \in DOMAIN chain : chain[k].frame = f /\ ~chain[k].clone
    BY <1>7, TruthNow DEF On
  <2>2. status'[f].tag = "reent"
    BY <1>7, CoreNow DEF Words
  <2> QED
    BY <1>3, <1>4, <1>5, <1>7, <2>1, <2>2 DEF Answers
<1>8. CASE e.kind \in TermKinds /\ status[f].tag = "run"
           /\ chain' = Append(chain, Activation(f, TRUE, e.obj, WokenBatch)) /\ UNCHANGED <<status, trail>>
  <2>1. LET a == chain'[Len(chain) + 1] IN a.frame = f /\ a.clone /\ a.pc = "head" /\ a.obj = e.obj
    BY <1>2, <1>8, ClonedIs
  <2>2. Len(chain) + 1 \in DOMAIN chain'
    BY <1>2, <1>8, ClonedIs
  <2> QED
    BY <1>3, <1>5, <1>8, <2>1, <2>2 DEF Answers
<1>9. CASE UNCHANGED <<status, chain, trail>> /\ e.kind = "minmax"
           /\ (at[f] = triggering[Len(queue)] \/ status[f].tag # "sleep")
  <2>1. BoundsOnly /\ ~InBody(f) /\ status[f].tag # "sleep"
    BY <1>3, <1>9 DEF Visits, Counts, InsKinds, TermKinds
  <2>2. status[f].tag \in {"run", "reent"}
    BY <1>1, <1>2, <1>3, <2>1, CoreNow DEF Placed, Words
  <2>3. PICK k \in DOMAIN chain : chain[k].frame = f /\ ~chain[k].clone
    BY <2>2, TruthNow DEF On
  <2>4. chain[k] \in Acts /\ chain[k].pc # "exit" /\ chain[k].pc # "body"
    BY <1>3, <2>1, <2>3, TruthNow, CoreNow DEF InBody
  <2>5. chain[k].pc = "head"
    BY <2>4 DEF Acts
  <2> QED
    BY <1>3, <1>4, <1>5, <1>9, <2>3, <2>5 DEF Answers
<1>10. ~(e.kind \in TermKinds /\ status[f].tag = "reent")
  BY <1>3 DEF Counts, InsKinds, TermKinds, Care, Markless
<1> QED
  BY <1>2, <1>3, <1>4, <1>6, <1>7, <1>8, <1>9, <1>10

\* A frame is connected: only what waited for it at this event has been come to.
LEMMA ConnectCare == ASSUME Core, Core', Uncut, Care, Connect PROVE Care'
<1> DEFINE e == queue[cursor.no]
<1>1. PICK f \in Frame : f = Head(cursor.rest)
  BY ConnectIs
<1>2. /\ cursor # Idle /\ cursor.rest # <<>> /\ cursor' = [cursor EXCEPT !.rest = Tail(@)]
      /\ UNCHANGED <<at, list, choices, queue, triggering, posts, owed, gone, program>>
  BY DEF Connect, Idle, fixed
<1>3. /\ cursor.rest \in Seq(Frame) /\ Once(cursor.rest) /\ cursor.no \in Nat /\ cursor.no \in 1 .. Len(queue)
      /\ cursor \in [no : 0 .. MaxTriggers, rest : Seq(Frame)]
  BY <1>2, HandlerIs, CoreNow
<1>4. cursor'.no = cursor.no /\ cursor'.rest = Tail(cursor.rest) /\ cursor' # Idle
  BY <1>2, <1>3 DEF Idle
<1>5. Range(cursor'.rest) = Range(cursor.rest) \ {f}
  BY <1>1, <1>2, <1>3, <1>4, TailOnce
<1>6. /\ e.obj \in 0 .. MaxPosts /\ 0 \in 0 .. MaxPosts
      /\ \/ e.kind \in InsKinds /\ WakeSleeper(f, 0)
         \/ e.kind = "minmax" /\ WakeSleeper(f, 0)
         \/ e.kind \in TermKinds /\ WakeSleeper(f, e.obj)
         \/ /\ e.kind \in InsKinds /\ status[f].tag \in {"run", "reent"}
            /\ status' = [status EXCEPT ![f].tag = "reent"] /\ UNCHANGED <<chain, trail>>
         \/ /\ e.kind \in TermKinds /\ status[f].tag = "run"
            /\ chain' = Append(chain, Activation(f, TRUE, e.obj, WokenBatch)) /\ UNCHANGED <<status, trail>>
         \/ UNCHANGED <<status, chain, trail>>
  BY <1>1, ConnectIs
<1>7. e.kind \in program.kinds
  BY <1>3, TruthNow DEF Cloneless
<1> HIDE DEF e
\* What is on the chain stays as it is, what comes is at its head, and marks stay.
<1>8. /\ \A k \in DOMAIN chain : k \in DOMAIN chain' /\ chain'[k] = chain[k]
      /\ \A k \in DOMAIN chain' : k \in DOMAIN chain \/ chain'[k].pc = "head"
      /\ \A g \in Frame : status[g].tag = "reent" => status'[g].tag = "reent"
      /\ TermsOnly /\ Markless => Markless'
  <2>1. ASSUME NEW obj \in 0 .. MaxPosts, WakeSleeper(f, obj)
        PROVE  /\ \A k \in DOMAIN chain : k \in DOMAIN chain' /\ chain'[k] = chain[k]
               /\ \A k \in DOMAIN chain' : k \in DOMAIN chain \/ chain'[k].pc = "head"
               /\ \A g \in Frame : status[g].tag = "reent" => status'[g].tag = "reent"
               /\ Markless => Markless'
    <3>1. /\ status[f].tag = "sleep" /\ status'[f].tag = "run" /\ \A g \in Frame : g # f => status'[g] = status[g]
          /\ DOMAIN chain' = DOMAIN chain \cup {Len(chain) + 1}
          /\ \A k \in DOMAIN chain : chain'[k] = chain[k]
      BY <2>1, WokenIs
    <3>2. LET a == chain'[Len(chain) + 1] IN a.frame = f /\ ~a.clone /\ a.pc = "head" /\ a.obj = obj
      BY <2>1, WokenIs
    <3> QED
      BY <3>1, <3>2 DEF Markless
  <2>2. CASE e.kind \in InsKinds /\ status' = [status EXCEPT ![f].tag = "reent"] /\ UNCHANGED <<chain, trail>>
    <3>1. \A g \in Frame : status'[g].tag = "reent" \/ status'[g] = status[g]
      BY <2>2, CoreNow DEF Words
    <3>2. ~TermsOnly
      BY <1>7, <2>2 DEF TermsOnly, InsKinds, TermKinds
    <3> QED
      BY <2>2, <3>1, <3>2
  <2>3. CASE chain' = Append(chain, Activation(f, TRUE, e.obj, WokenBatch)) /\ UNCHANGED <<status, trail>>
    <3>1. /\ DOMAIN chain' = DOMAIN chain \cup {Len(chain) + 1}
          /\ \A k \in DOMAIN chain : chain'[k] = chain[k]
      BY <1>6, <2>3, ClonedIs
    <3>2. LET a == chain'[Len(chain) + 1] IN a.frame = f /\ a.clone /\ a.pc = "head" /\ a.obj = e.obj
      BY <1>6, <2>3, ClonedIs
    <3> QED
      BY <2>3, <3>1, <3>2 DEF Markless
  <2>4. CASE UNCHANGED <<status, chain, trail>>
    BY <2>4 DEF Markless
  <2> QED
    BY <1>6, <2>1, <2>2, <2>3, <2>4
<1>9. ASSUME ~program.cuts, NEW d \in owed, Counts(d), Served(d) PROVE Served(d)'
  <2>1. CASE Visits(d)
    <3>1. PICK k \in DOMAIN queue : queue[k].obj = d.obj /\ queue[k].kind = d.kind /\ d.frame \in ToVisit(k)
      BY <2>1 DEF Visits, Awaits
    <3>2. CASE k = cursor.no /\ d.frame = f
      BY <1>1, <1>9, <2>1, <3>1, <3>2, ConnectServes
    <3>3. CASE k # cursor.no \/ d.frame # f
      <4>1. ToVisit(k) = IF k < cursor.no THEN Range(list[queue[k].chan, queue[k].port])
                         ELSE IF k = cursor.no THEN Range(cursor.rest) ELSE {}
        BY <1>2 DEF ToVisit
      <4>2. ToVisit(k)' = IF k < cursor.no THEN Range(list[queue[k].chan, queue[k].port])
                          ELSE IF k = cursor.no THEN Range(cursor.rest) \ {f} ELSE {}
        BY <1>2, <1>4, <1>5 DEF ToVisit
      <4>3. Awaits(d)'
        BY <1>2, <3>1, <3>3, <4>1, <4>2 DEF Awaits
      <4>4. InBody(d.frame)' => InBody(d.frame)
        BY <1>8 DEF InBody
      <4> QED
        BY <1>2, <2>1, <4>3, <4>4 DEF Visits, Served
    <3> QED
      BY <3>2, <3>3
  <2>2. CASE ~Visits(d)
    BY <1>8, <1>9, <2>2, DebtIs, StillAnswered DEF Served
  <2> QED
    BY <2>1, <2>2
<1>10. Saves
  BY ConnectUncut
<1> QED
  BY <1>2, <1>8, <1>9, <1>10, CareOn DEF Care

-----------------------------------------------------------------------------
(* An activation goes on.                                                  *)

\* A rule is selected: the activation settles what it answers.
LEMMA SelectCare == ASSUME Core, Core', Uncut, Care, SelectAction \/ SelectNormal PROVE Care'
<1>1. /\ AtHead /\ UNCHANGED <<at, list, trail, choices, queue, triggering, cursor, posts, program>>
      /\ \E pc \in {"body", "exit"} : GoTo(pc)
      /\ \A d \in owed' : d \in owed
      /\ \/ status' = status /\ \A d \in owed' : ~Settles(d)
         \/ /\ \A d \in owed' : d.frame # Last(chain).frame
            /\ status' = status \/ status' = [status EXCEPT ![Last(chain).frame] = Word("exit", 0)]
  BY DEF SelectAction, SelectNormal
<1>2. /\ DOMAIN chain' = DOMAIN chain
      /\ \A k \in DOMAIN chain : k # Len(chain) => chain'[k] = chain[k]
  BY <1>1, GoneTo
<1>3. queue = <<>> /\ Last(chain).pc = "head" /\ Last(chain) = chain[Len(chain)] /\ Last(chain).frame \in Frame
  BY <1>1, AtHeadIs, LastIs
<1>4. ASSUME NEW d \in owed', Served(d) PROVE Served(d)'
  <2>1. d \in owed /\ d.frame \in Frame
    BY <1>1, DebtIs
  <2>2. PICK k \in DOMAIN chain : Answers(chain[k], status[d.frame].tag, d)
    BY <1>3, <1>4, NoneVisited DEF Served
  <2>3. status'[d.frame] = status[d.frame]
    BY <1>1, <2>1, CoreNow
  <2>4. k # Len(chain)
    BY <1>1, <1>3, <2>2 DEF Answers, Settles
  <2> QED
    BY <1>2, <2>2, <2>3, <2>4, StillAnswered
<1>5. Markless => Markless'
  BY <1>1, <1>3, CoreNow DEF Markless, Word
<1>6. Saves
  BY SelectActionUncut, SelectNormalUncut
<1> QED
  BY <1>1, <1>4, <1>5, <1>6, CareOn DEF Care

\* Nothing is owed to an agent that has killed itself.
LEMMA KillCare == ASSUME Core, Core', Uncut, Care, Kill PROVE Care'
<1>1. UNCHANGED <<at, list, trail, choices, chain, queue, triggering, cursor, posts, program>>
  BY DEF Kill
<1>2. PICK f \in RunningFrame : status' = [status EXCEPT ![f] = Word("exit", 0)] /\ owed' = {o \in owed : o.frame # f}
  BY DEF Kill
<1>3. ASSUME NEW d \in owed', Served(d) PROVE Served(d)'
  <2>1. d \in owed /\ d.frame \in Frame /\ d.frame # f
    BY <1>2, DebtIs
  <2>2. status'[d.frame] = status[d.frame]
    BY <1>2, <2>1, CoreNow
  <2>3. Visits(d) => Visits(d)'
    BY <1>1 DEF Visits, Awaits, ToVisit, InBody
  <2> QED
    BY <1>1, <1>3, <2>2, <2>3 DEF Served
<1>4. Markless => Markless'
  BY <1>2, CoreNow DEF Markless, Word
<1>5. Saves
  BY KillUncut
<1> QED
  BY <1>1, <1>2, <1>3, <1>4, <1>5, CareOn DEF Care

\* An activation returns. If its frame was marked, it is at its head again; otherwise it
\* answered nothing.
LEMMA ReturnCare == ASSUME Core, Core', Uncut, Care, ReturnDelay \/ ReturnCommit PROVE Care'
<1> DEFINE a == Last(chain)
           f == a.frame
           b == [a EXCEPT !.pc = "head", !.obj = 0]
<1>1. /\ cursor = Idle /\ CatchWake /\ UNCHANGED <<at, list, trail, choices, queue, triggering, posts, owed, gone, program>>
      /\ chain # <<>> /\ Running # "head"
      /\ \A g \in Frame : g # f => status'[g] = status[g]
      /\ \/ /\ ~a.clone /\ status[f].tag = "run" /\ chain' = Front(chain) /\ status'[f].tag = "sleep"
         \/ /\ ~a.clone /\ status[f].tag = "reent" /\ chain' = Append(Front(chain), b) /\ status'[f].tag = "run"
         \/ /\ chain' = Front(chain) /\ status' = status
            /\ a.clone \/ status[f].tag = "exit" \/ program.cuts
  <2>1. CASE ReturnDelay
    BY <2>1, ReturnIs DEF ReturnDelay, Inline
  <2>2. CASE ReturnCommit
    <3>1. /\ cursor = Idle /\ CatchWake /\ UNCHANGED <<at, status, list, trail, choices, queue, triggering, posts, owed, gone, program>>
          /\ Running = "exit" /\ chain' = Front(chain)
      BY <2>2 DEF ReturnCommit, Inline, fixed
    <3>2. chain # <<>>
      BY <3>1 DEF Running
    <3>3. a.clone \/ status[f].tag = "exit" \/ program.cuts
      BY <3>1, <3>2, LastIs, TruthNow
    <3> QED
      BY <3>1, <3>2, <3>3
  <2> QED
    BY <2>1, <2>2
<1>2. /\ a \in Acts /\ f \in Frame /\ a = chain[Len(chain)] /\ a.pc # "head"
      /\ Len(chain) \in DOMAIN chain /\ DOMAIN chain = 1 .. Len(chain) /\ Len(chain) \in Nat \ {0}
  BY <1>1, LastIs
<1>3. b.frame = f /\ b.clone = a.clone /\ b.pc = "head" /\ b \in Acts
  <2> HIDE DEF a
  <2>1. 0 \in 0 .. MaxPosts
    BY Bounds
  <2> QED
    BY <1>2, <2>1 DEF Acts
<1> HIDE DEF b
\* The rest of the chain stays, and no more bodies are on it.
<1>4. /\ \A k \in DOMAIN chain : k # Len(chain) => k \in DOMAIN chain' /\ chain'[k] = chain[k]
      /\ \A k \in DOMAIN chain' : k \in DOMAIN chain /\ (k # Len(chain) => chain'[k] = chain[k])
      /\ chain' = Append(Front(chain), b) => Len(chain) \in DOMAIN chain' /\ chain'[Len(chain)] = b
      /\ chain' = Front(chain) => Len(chain) \notin DOMAIN chain'
  <2> DEFINE d == Front(chain)
  <2>0. PICK m \in Nat : m = Len(chain) /\ m # 0 /\ DOMAIN chain = 1 .. m
    BY <1>2
  <2>1. d \in Seq(Acts) /\ Len(d) = m - 1 /\ \A k \in 1 .. m - 1 : d[k] = chain[k]
    BY <1>1, <2>0, CoreNow, Dropped
  <2> HIDE DEF d
  <2> DEFINE c == Append(d, b)
  <2>2. /\ DOMAIN d = 1 .. m - 1 /\ DOMAIN c = 1 .. m
        /\ (\A k \in 1 .. m - 1 : c[k] = chain[k]) /\ c[m] = b
    BY <1>3, <2>0, <2>1
  <2> HIDE DEF c
  <2>3. chain' = c \/ chain' = d
    BY <1>1 DEF c, d
  <2>4. m \in 1 .. m /\ m \notin 1 .. m - 1 /\ \A k \in 1 .. m : k # m <=> k \in 1 .. m - 1
    BY <2>0
  <2>5. /\ \A k \in 1 .. m : k # m => k \in DOMAIN chain' /\ chain'[k] = chain[k]
        /\ \A k \in DOMAIN chain' : k \in 1 .. m /\ (k # m => chain'[k] = chain[k])
        /\ chain' = c => m \in DOMAIN chain' /\ chain'[m] = b
        /\ chain' = d => m \notin DOMAIN chain'
    BY <2>1, <2>2, <2>3, <2>4
  <2> QED
    BY <2>0, <2>5 DEF c, d
<1>5. ASSUME NEW d \in owed, Visits(d) PROVE Visits(d)'
  <2>1. PICK k \in DOMAIN queue : queue[k].obj = d.obj /\ queue[k].kind = d.kind /\ d.frame \in ToVisit(k)
    BY <1>5 DEF Visits, Awaits
  <2>2. Awaits(d)'
    BY <1>1, <2>1, CaughtVisits DEF Awaits
  <2>3. InBody(d.frame)' => InBody(d.frame)
    BY <1>1, <1>3, <1>4 DEF InBody
  <2> QED
    BY <1>1, <1>5, <2>2, <2>3 DEF Visits
<1>6. ASSUME ~program.cuts, NEW d \in owed, Served(d) PROVE Served(d)'
  <2>1. CASE Visits(d)
    BY <1>5, <2>1 DEF Served
  <2>2. CASE ~Visits(d)
    <3>1. PICK k \in DOMAIN chain : Answers(chain[k], status[d.frame].tag, d)
      BY <1>6, <2>2 DEF Served
    <3>2. d.frame \in Frame
      BY DebtIs
    <3>3. CASE k = Len(chain)
      <4>1. d.frame = f /\ d.kind \notin TermKinds /\ ~a.clone /\ status[f].tag = "reent"
        BY <1>2, <3>1, <3>3 DEF Answers
      <4>2. chain' = Append(Front(chain), b)
        BY <1>1, <1>6, <4>1
      <4>3. Len(chain) \in DOMAIN chain' /\ Answers(chain'[Len(chain)], status'[d.frame].tag, d)
        BY <1>3, <1>4, <4>1, <4>2 DEF Answers
      <4> QED
        BY <4>3 DEF Served
    <3>4. CASE k # Len(chain)
      <4>1. k \in DOMAIN chain' /\ chain'[k] = chain[k]
        BY <1>4, <3>4
      <4>2. status[d.frame].tag = "reent" /\ d.kind \notin TermKinds => status'[d.frame].tag = "reent"
        <5>1. ASSUME d.frame = f, d.kind \notin TermKinds, ~a.clone PROVE FALSE
          <6>1. k \in On(chain, f) /\ On(chain, f) = {Len(chain)}
            BY <1>1, <3>1, <5>1, LastIs DEF Answers, On
          <6> QED
            BY <3>4, <6>1
        <5> QED
          BY <1>1, <3>2, <5>1
      <4>3. Answers(chain'[k], status'[d.frame].tag, d)
        BY <3>1, <4>1, <4>2 DEF Answers
      <4> QED
        BY <4>1, <4>3 DEF Served
    <3> QED
      BY <3>3, <3>4
  <2> QED
    BY <2>1, <2>2
<1>7. Markless => Markless'
  BY <1>1 DEF Markless
<1>8. Saves
  BY ReturnDelayUncut, ReturnCommitUncut
<1> QED
  BY <1>1, <1>6, <1>7, <1>8, CareOn DEF Care

-----------------------------------------------------------------------------
(* Choice points come and go.                                              *)

\* A choice point is made when no event is pending: what is owed is answered on the chain.
LEMMA ChoiceCare == ASSUME Core, Core', Uncut, Care, Choice PROVE Care'
<1>0. PICK n \in Nat : n = Len(choices)
  BY PointTypes, CoreNow
<1>1. /\ UNCHANGED <<at, status, list, trail, chain, queue, triggering, cursor, posts, owed, gone, program>>
      /\ DOMAIN choices = 1 .. n /\ DOMAIN choices' = 1 .. n + 1 /\ queue = <<>>
      /\ \A i \in 1 .. n : choices'[i] = choices[i]
      /\ \A i \in 1 .. n, f \in Frame : WasStatus(i, f)' = WasStatus(i, f)
      /\ choices'[n + 1].chain = chain /\ choices'[n + 1].owed = owed
  <2>1. /\ UNCHANGED <<at, status, list, trail, chain, queue, triggering, cursor, posts, owed, gone, program>>
        /\ Len(choices') = n + 1 /\ choices' \in Seq(Points) /\ queue = <<>>
        /\ \A i \in 1 .. n : choices'[i] = choices[i]
        /\ \A i \in 1 .. n, f \in Frame : WasStatus(i, f)' = WasStatus(i, f)
    BY <1>0, ChoiceIs
  <2>2. LET cp == choices'[n + 1] IN cp.chain = chain /\ cp.owed = owed
    BY <1>0, ChoiceIs
  <2>3. DOMAIN choices = 1 .. n /\ DOMAIN choices' = 1 .. n + 1
    BY <1>0, <2>1, PointTypes, CoreNow
  <2> QED
    BY <2>1, <2>2, <2>3
<1>2. \A d : Counts(d)' = Counts(d)
  BY <1>1 DEF Counts, BoundsOnly, TermsOnly, Uncloned
<1> SUFFICES ASSUME ~program.cuts PROVE Care'
  BY <1>1 DEF Care
<1>3. \A d \in owed : Counts(d)' => Served(d)'
  BY <1>1, <1>2 DEF Care, Served, Visits, Awaits, ToVisit, InBody
<1>4. ASSUME NEW i \in 1 .. n PROVE WasServed(i)'
  <2>1. WasTags(i)' = WasTags(i)
    BY <1>1 DEF WasTags
  <2>2. WasServed(i)
    BY <1>1 DEF Care
  <2> QED
    BY <1>1, <1>2, <2>1, <2>2 DEF WasServed
<1>5. WasServed(n + 1)'
  <2> SUFFICES ASSUME NEW d \in owed, Counts(d)
               PROVE  \E k \in DOMAIN chain : Answers(chain[k], WasTags(n + 1)'[d.frame], d)
    BY <1>1, <1>2 DEF WasServed
  <2>1. d.frame \in Frame
    BY DebtIs
  <2>2. WasTags(n + 1)'[d.frame] = status[d.frame].tag
    BY <1>0, <2>1, ChoiceWas DEF WasTags
  <2>3. Served(d)
    BY DEF Care
  <2> QED
    BY <1>1, <2>2, <2>3, NoneVisited DEF Served
<1>6. TermsOnly' => Markless'
  BY <1>1 DEF TermsOnly, Markless, Care
<1>7. \A i \in 1 .. n + 1 : i \in 1 .. n \/ i = n + 1
  BY <1>0
<1> QED
  BY <1>1, <1>3, <1>4, <1>5, <1>6, <1>7 DEF Care

\* What comes back was answered then.
LEMMA FailCare == ASSUME Core, Core', Uncut, Care, Fail PROVE Care'
<1>0. PICK n \in Nat : n = Len(choices)
  BY PointTypes, CoreNow
<1>1. /\ n \in DOMAIN choices /\ program' = program
      /\ \A f \in Frame : status'[f] = WasStatus(n, f)
      /\ chain' = choices[n].chain /\ owed' = choices[n].owed
      /\ DOMAIN choices' \subseteq DOMAIN choices /\ (\A i \in DOMAIN choices' : choices'[i] = choices[i])
  BY <1>0, FailIs
<1>2. \A d : Counts(d)' = Counts(d)
  BY <1>1 DEF Counts, BoundsOnly, TermsOnly, Uncloned
<1> SUFFICES ASSUME ~program.cuts PROVE Care'
  BY <1>1 DEF Care
<1>3. ASSUME NEW d \in owed', Counts(d) PROVE Served(d)'
  <2>1. d.frame \in Frame
    BY <1>3, TypesAreNext DEF Core, Debts
  <2>2. PICK k \in DOMAIN choices[n].chain : Answers(choices[n].chain[k], WasTags(n)[d.frame], d)
    BY <1>1, <1>3 DEF Care, WasServed
  <2>3. WasTags(n)[d.frame] = status'[d.frame].tag
    BY <1>1, <2>1 DEF WasTags
  <2> QED
    BY <1>1, <2>2, <2>3 DEF Served
<1>4. ASSUME NEW i \in DOMAIN choices' PROVE WasServed(i)'
  <2>1. WasTags(i)' = WasTags(i)
    BY <1>4, FailKeeps DEF WasTags
  <2>2. WasServed(i)
    BY <1>1, <1>4 DEF Care
  <2> QED
    BY <1>1, <1>2, <2>1, <2>2 DEF WasServed
<1>5. ASSUME TermsOnly, NEW f \in Frame PROVE status'[f].tag # "reent"
  <2>1. WasStatus(n, f) \in {status[f], Word("start", 0)} \/ WasStatus(n, f).tag = "sleep"
    BY <1>1, WasFacts
  <2>2. status[f].tag # "reent"
    BY <1>5 DEF Care, Markless
  <2> QED
    BY <1>1, <2>1, <2>2 DEF Word
<1>6. TermsOnly' => Markless'
  BY <1>1, <1>5 DEF TermsOnly, Markless
<1> QED
  BY <1>1, <1>2, <1>3, <1>4, <1>6 DEF Care

-----------------------------------------------------------------------------
(* The theorem.                                                            *)

\* At first nothing is owed.
LEMMA CareInit == ASSUME Init PROVE Care
<1>1. owed = {} /\ choices = <<>> /\ status = [f \in Frame |-> Word("start", 0)]
  BY DEF Init
<1> QED
  BY <1>1 DEF Care, Markless, Word

\* Every step keeps what is owed to agents.
LEMMA CareNext == ASSUME Core, Core', Uncut, Care, [Next]_vars PROVE Care'
<1>1. ASSUME UNCHANGED vars PROVE Care'
  <2>1. Saves
    BY <1>1, QuietUncut DEF vars, Uncut, Cloneless, OwedLive, Truth
  <2> QED
    BY <1>1, <2>1, StillCare DEF vars
<1>2. ASSUME NEW c \in Channel, PostVarIns(c) \/ PostDvarIns(c) \/ PostMinmax(c) \/ PostGeneral(c) PROVE Care'
  <2>1. CASE PostVarIns(c)
    <3>1. ~BoundsOnly
      BY <2>1 DEF PostVarIns, Post, BoundsOnly
    <3> QED
      BY <2>1, <3>1, PostCare DEF PostVarIns, Port
  <2>2. CASE PostDvarIns(c)
    BY <2>2, PostCare DEF PostDvarIns, Port
  <2>3. CASE PostMinmax(c)
    BY <2>3, PostCare DEF PostMinmax, Port
  <2>4. CASE PostGeneral(c)
    <3>1. ~BoundsOnly
      BY <2>4 DEF PostGeneral, Post, BoundsOnly, Uncloned, TermKinds
    <3> QED
      BY <2>4, <3>1, PostCare DEF PostGeneral, Port
  <2> QED
    BY <1>2, <2>1, <2>2, <2>3, <2>4
<1>3. ASSUME NEW c \in Channel, NEW p \in {"dom", "outer_dom"}, PostDom(c, p) PROVE Care'
  <2>1. ~BoundsOnly /\ p \in Port
    BY <1>3 DEF PostDom, Post, BoundsOnly, Uncloned, TermKinds, Port
  <2> QED
    BY <1>3, <2>1, PostCare DEF PostDom
<1>4. ASSUME NEW c \in Channel, NEW p \in {"dom", "outer_dom"}, IgnoreDom(c, p) PROVE Care'
  BY <1>4, StillUncut, StillCare DEF IgnoreDom, fixed
<1>5. ASSUME Call PROVE Care'
  BY <1>5, StillUncut, StillCare DEF Call, Inline, fixed
<1>6. ASSUME Cut PROVE Care'
  BY <1>6, CutIs DEF Care
<1>7. CASE Next
  BY <1>2, <1>3, <1>4, <1>5, <1>6, <1>7, NewActorCare, ConnectCare, HandlerCare, SelectCare, KillCare, ReturnCare,
     ChoiceCare, FailCare DEF Next
<1> QED
  BY <1>1, <1>7

\* Where choice points are not cut, no agent waits for something that has happened, through
\* nested handlers, re-entries and failures: a variable that is instantiated wakes it, the
\* bounds of one do where every event says which frame it is to skip, and each term posted to
\* a channel has an activation of its own.
THEOREM NothingIsLost == Spec => []NothingLost
<1>1. Init => Core /\ Uncut /\ Care
  BY CoreInit, UncutInit, CareInit
<1>2. Core /\ Uncut /\ Care /\ [Next]_vars => (Core /\ Uncut /\ Care)'
  BY CoreNext, UncutNext, CareNext
<1>3. Core /\ Uncut /\ Care => NothingLost
  <2> SUFFICES ASSUME Core, Uncut, Care, Settled PROVE NothingLost
    BY DEF NothingLost, NoLostWakeUp, NoLostIns, NoLostBoundOfDvars, NoLostBound, NoLostTermOfChannels, NoLostTerm
  <2>1. ASSUME ~program.cuts, NEW d \in owed, Counts(d)
        PROVE  \E k \in DOMAIN chain : Answers(chain[k], status[d.frame].tag, d)
    BY <2>1, NoneVisited DEF Care, Served, Settled
  <2>2. ASSUME ~program.cuts, NEW d \in owed, Counts(d), d.kind \notin TermKinds PROVE Pending(d.frame)
    BY <2>1, <2>2 DEF Answers, Pending, OnChain
  <2>3. NoLostIns
    BY <2>2 DEF NoLostIns, Counts, InsKinds, TermKinds
  <2>4. NoLostBoundOfDvars
    BY <2>2 DEF NoLostBoundOfDvars, NoLostBound, BoundsOnly, Uncloned, Counts, TermKinds
  <2>5. NoLostTermOfChannels
    BY <2>1 DEF NoLostTermOfChannels, NoLostTerm, TermsOnly, Counts, Answers
  <2> QED
    BY <2>3, <2>4, <2>5 DEF NothingLost, NoLostWakeUp
<1> QED
  BY <1>1, <1>2, <1>3, PTL DEF Spec
=============================================================================

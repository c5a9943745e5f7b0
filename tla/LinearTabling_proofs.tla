------------------------ MODULE LinearTabling_proofs ------------------------
(***************************************************************************)
(* For every program: the linear tabling machine is sound, and a subgoal   *)
(* under evaluation is marked with a frame of its own that is still there, *)
(* whatever the machine cuts, throws or is asked next.                     *)
(*                                                                         *)
(* Neither property is inductive.  An answer is sound because the answers  *)
(* that its clause has taken are, and those sit in saved continuations all *)
(* over the stack; so the invariant says of every place, saved or running, *)
(* that it is in a clause of a frame below it and has taken answers of the *)
(* model.  A frame that is dropped must not be the master of its subgoal,  *)
(* so the invariant says that one that only consumes is not.               *)
(***************************************************************************)
EXTENDS LinearTabling, SequenceTheorems, TLAPS

\* A place in a clause of one of the frames 1..n, or in the query.
PlaceOK(pl, n) ==
  /\ pl.ar \in 0 .. n
  /\ pl.ar /= QueryFrame => pl.clause \in 1 .. NClauses(stack[pl.ar].goal)
  /\ Len(pl.seen) <= Len(Body(pl))
  /\ \A i \in 1 .. Len(pl.seen) : pl.seen[i] \in prog.model[Body(pl)[i].goal]

FromOK(f) ==
  /\ PlaceOK(stack[f].from, f - 1)
  /\ Len(stack[f].from.seen) < Len(Body(stack[f].from))
  /\ Body(stack[f].from)[Len(stack[f].from.seen) + 1].goal = stack[f].goal

TypeInv == TypeOK /\ prog \in Programs

PlaceInv ==
  /\ pc = "idle" => stack = << >>
  /\ pc = "run" => PlaceOK(here, Len(stack))
  /\ \A f \in 1 .. Len(stack) : FromOK(f)

CursorInv ==
  \A f \in 1 .. Len(stack) : stack[f].curr <= Len(answers[stack[f].goal])

MasterInv ==
  /\ MasterIsOnStack
  /\ \A f \in 1 .. Len(stack) : stack[f].alt = 0 => top[stack[f].goal] /= f

IInv == TypeInv /\ PlaceInv /\ CursorInv /\ Sound /\ MasterInv

-----------------------------------------------------------------------------
(* The program.                                                            *)
LEMMA ProgramFacts ==
  ASSUME TypeInv
  PROVE  /\ prog.rules \in [Subgoals -> Seq(Clauses)]
         /\ prog.model \in Tables
         /\ IsModel(prog.rules, prog.model)
BY TabledProgramAssumption DEF TypeInv, ProgramAssumption, IsLeastModel

LEMMA ClauseFacts ==
  ASSUME TypeInv, NEW s \in Subgoals, NEW k \in 1 .. NClauses(s)
  PROVE  /\ prog.rules[s][k] \in Clauses
         /\ prog.rules[s][k].body \in Seq(Goals)
<1>1. prog.rules[s] \in Seq(Clauses)
  BY ProgramFacts
<1>2. prog.rules[s][k] \in Clauses
  BY <1>1 DEF NClauses
<1> QED
  BY <1>2, TabledProgramAssumption DEF ClauseAssumption

LEMMA ToSetEmpty == ToSet(<< >>) = {}
BY DEF ToSet

LEMMA ToSetAppend ==
  ASSUME NEW S, NEW q \in Seq(S), NEW e \in S
  PROVE  ToSet(Append(q, e)) \subseteq ToSet(q) \cup {e}
<1>1. /\ DOMAIN Append(q, e) = 1 .. Len(q) + 1
      /\ DOMAIN q = 1 .. Len(q)
      /\ \A i \in 1 .. Len(q) : Append(q, e)[i] = q[i]
      /\ Append(q, e)[Len(q) + 1] = e
  OBVIOUS
<1>2. \A i \in 1 .. Len(q) + 1 : i \in 1 .. Len(q) \/ i = Len(q) + 1
  OBVIOUS
<1> QED
  BY <1>1, <1>2 DEF ToSet

LEMMA FrameFacts ==
  ASSUME TypeInv, NEW f \in 1 .. Len(stack)
  PROVE  /\ stack[f].goal \in Subgoals /\ stack[f].from \in Places
         /\ stack[f].alt \in Nat /\ stack[f].curr \in Nat
<1>1. stack \in Seq(Frames)
  BY DEF TypeInv, TypeOK
<1>2. stack[f] \in Frames
  BY <1>1
<1> QED
  BY <1>2 DEF Frames

LEMMA TopFacts ==
  ASSUME TypeInv
  PROVE  \A t \in Subgoals : top[t] \in Int
<1>1. top \in [Subgoals -> Nat \cup {COMPLETE, TEMP_COMPLETE}]
  BY DEF TypeInv, TypeOK
<1> QED
  BY <1>1 DEF COMPLETE, TEMP_COMPLETE

(* Goals are called at valid places only, so the goal is one of the program.*)
LEMMA BodyFacts ==
  ASSUME TypeInv, NEW pl \in Places, NEW n \in 0 .. Len(stack), PlaceOK(pl, n)
  PROVE  Body(pl) \in Seq(Goals)
<1>1. CASE pl.ar = QueryFrame
  <2>1. query \in Goals
    BY BoundsAssumption DEF TypeInv, TypeOK, Goals, Modes
  <2> QED
    BY <1>1, <2>1 DEF Body
<1>2. CASE pl.ar /= QueryFrame
  <2>1. pl.ar \in 1 .. Len(stack)
    BY <1>2 DEF PlaceOK, QueryFrame
  <2>2. stack[pl.ar].goal \in Subgoals
    BY <2>1, FrameFacts
  <2>3. pl.clause \in 1 .. NClauses(stack[pl.ar].goal)
    BY <1>2 DEF PlaceOK
  <2> QED
    BY <1>2, <2>2, <2>3, ClauseFacts DEF Body
<1> QED
  BY <1>1, <1>2

-----------------------------------------------------------------------------
(* The stack: what the three ways of changing it leave as it was.          *)
SameBelow(n) ==
  /\ n \in 0 .. Len(stack) /\ n <= Len(stack')
  /\ \A f \in 1 .. n : /\ stack'[f].goal = stack[f].goal
                       /\ stack'[f].from = stack[f].from

LEMMA KeepFacts ==
  ASSUME stack \in Seq(Frames), NEW n \in 0 .. Len(stack)
  PROVE  /\ Keep(n) \in Seq(Frames)
         /\ Len(Keep(n)) = n
         /\ \A i \in 1 .. n : Keep(n)[i] = stack[i]
<1>1. \A i \in 1 .. n : stack[i] \in Frames
  OBVIOUS
<1> QED
  BY <1>1, SubSeqProperties DEF Keep

SetAlt(q, f, v) == [q EXCEPT ![f].alt = v]

LEMMA SetAltFacts ==
  ASSUME NEW q \in Seq(Frames), NEW f \in 1 .. Len(q), NEW v \in Nat
  PROVE  LET r == SetAlt(q, f, v)
         IN /\ r \in Seq(Frames)
            /\ Len(r) = Len(q)
            /\ \A i \in 1 .. Len(q) :
                 /\ r[i].goal = q[i].goal /\ r[i].from = q[i].from
                 /\ r[i].curr = q[i].curr
                 /\ r[i].alt = IF i = f THEN v ELSE q[i].alt
<1>1. q[f] \in Frames
  OBVIOUS
<1> DEFINE e == [q[f] EXCEPT !.alt = v]
<1>2. /\ e \in Frames /\ e.alt = v
      /\ e.goal = q[f].goal /\ e.from = q[f].from /\ e.curr = q[f].curr
  BY <1>1 DEF Frames
<1>3. SetAlt(q, f, v) = [q EXCEPT ![f] = e]
  BY DEF SetAlt
<1> HIDE DEF e
<1> QED
  BY <1>2, <1>3, ExceptSeq

SetCurr(q, f, v) == [q EXCEPT ![f].curr = v]

LEMMA SetCurrFacts ==
  ASSUME NEW q \in Seq(Frames), NEW f \in 1 .. Len(q), NEW v \in Nat
  PROVE  LET r == SetCurr(q, f, v)
         IN /\ r \in Seq(Frames)
            /\ Len(r) = Len(q)
            /\ \A i \in 1 .. Len(q) :
                 /\ r[i].goal = q[i].goal /\ r[i].from = q[i].from
                 /\ r[i].alt = q[i].alt
                 /\ r[i].curr = IF i = f THEN v ELSE q[i].curr
<1>1. q[f] \in Frames
  OBVIOUS
<1> DEFINE e == [q[f] EXCEPT !.curr = v]
<1>2. /\ e \in Frames /\ e.curr = v
      /\ e.goal = q[f].goal /\ e.from = q[f].from /\ e.alt = q[f].alt
  BY <1>1 DEF Frames
<1>3. SetCurr(q, f, v) = [q EXCEPT ![f] = e]
  BY DEF SetCurr
<1> HIDE DEF e
<1> QED
  BY <1>2, <1>3, ExceptSeq

(* A place stays valid while the frames below it keep goal and origin.     *)
LEMMA PlaceSurvives ==
  ASSUME NEW n \in Nat, SameBelow(n), NEW pl \in Places, PlaceOK(pl, n),
         prog' = prog, query' = query
  PROVE  PlaceOK(pl, n)' /\ Body(pl)' = Body(pl)
<1>1. pl.ar /= QueryFrame => stack'[pl.ar].goal = stack[pl.ar].goal
  BY DEF SameBelow, PlaceOK, QueryFrame
<1>2. Body(pl)' = Body(pl)
  BY <1>1 DEF Body
<1> QED
  BY <1>1, <1>2 DEF PlaceOK, NClauses

LEMMA FramesSurvive ==
  ASSUME TypeInv, PlaceInv, NEW n \in Nat, SameBelow(n),
         prog' = prog, query' = query
  PROVE  \A f \in 1 .. n : FromOK(f)'
<1> SUFFICES ASSUME NEW f \in 1 .. n PROVE FromOK(f)'
  OBVIOUS
<1>1. f \in 1 .. Len(stack)
  BY DEF SameBelow
<1>2. FromOK(f) /\ stack[f].from \in Places
  BY <1>1, FrameFacts DEF PlaceInv
<1>3. SameBelow(f - 1)
  BY DEF SameBelow
<1>4. /\ PlaceOK(stack[f].from, f - 1)'
      /\ Body(stack[f].from)' = Body(stack[f].from)
  <2> DEFINE pl == stack[f].from
  <2>1. pl \in Places /\ PlaceOK(pl, f - 1) /\ f - 1 \in Nat
    BY <1>2 DEF FromOK
  <2> QED
    BY <1>3, <2>1, PlaceSurvives DEF SameBelow
<1>5. stack'[f].from = stack[f].from /\ stack'[f].goal = stack[f].goal
  BY DEF SameBelow
<1> QED
  BY <1>2, <1>4, <1>5 DEF FromOK

-----------------------------------------------------------------------------
(* The actions, in the order of the module.                                *)
LEMMA InitIInv == Init => IInv
<1> SUFFICES ASSUME Init PROVE IInv
  OBVIOUS
<1>1. TypeInv
  <2>1. prog.model \in Tables
    BY TabledProgramAssumption DEF Init, ProgramAssumption
  <2>2. query \in [goal : Subgoals, mode : QueryModes]
    <3>1. [goal : Subgoals, mode : QueryModes] /= {}
      <4>1. PICK s \in Subgoals, mode \in QueryModes : TRUE
        BY BoundsAssumption
      <4>2. [goal |-> s, mode |-> mode] \in [goal : Subgoals, mode : QueryModes]
        OBVIOUS
      <4> QED
        BY <4>2
    <3> QED
      BY <3>1 DEF Init
  <2>3. here \in Places /\ stack \in Seq(Frames) /\ got \in Seq(Answers)
    BY DEF Init, Places, QueryFrame
  <2> QED
    BY <2>1, <2>2, <2>3, BoundsAssumption
    DEF Init, TypeInv, TypeOK, FreshTables, NULL, COMPLETE, TEMP_COMPLETE
<1>2. PlaceInv /\ CursorInv /\ MasterInv
  BY DEF Init, PlaceInv, CursorInv, MasterInv, MasterIsOnStack, FreshTables,
         NULL
<1>3. Sound
  BY ToSetEmpty DEF Init, Sound, FreshTables
<1> QED
  BY <1>1, <1>2, <1>3 DEF IInv

LEMMA QueryStep ==
  ASSUME IInv, NEW goal \in [goal : Subgoals, mode : QueryModes], Query(goal)
  PROVE  IInv'
<1> USE DEF Query, tableVars
<1>1. TypeInv'
  <2>1. here' \in Places /\ got' \in Seq(Answers)
    BY DEF Places, QueryFrame
  <2>2. queries' \in 0 .. MaxQueries
    BY BoundsAssumption DEF IInv, TypeInv, TypeOK
  <2> QED
    BY <2>1, <2>2 DEF IInv, TypeInv, TypeOK
<1>2. stack = << >> /\ stack' = << >>
  BY DEF IInv, PlaceInv
<1>3. PlaceInv'
  <2>1. PlaceOK(here, Len(stack))'
    BY <1>2 DEF PlaceOK, QueryFrame, Body
  <2> QED
    BY <1>2, <2>1 DEF PlaceInv
<1>4. CursorInv' /\ MasterInv' /\ Sound'
  BY <1>2 DEF IInv, CursorInv, MasterInv, MasterIsOnStack, Sound
<1> QED
  BY <1>1, <1>3, <1>4 DEF IInv

(* What the running clause may rely on.                                    *)
LEMMA RunningFacts ==
  ASSUME TypeInv, PlaceInv, pc = "run"
  PROVE  /\ here \in Places /\ PlaceOK(here, Len(stack))
         /\ Body(here) \in Seq(Goals)
<1>1. here \in Places /\ PlaceOK(here, Len(stack)) /\ stack \in Seq(Frames)
  BY DEF TypeInv, TypeOK, PlaceInv
<1> QED
  BY <1>1, BodyFacts

LEMMA PushFacts ==
  ASSUME TypeInv, PlaceInv, pc = "run", Len(here.seen) < Len(Body(here)),
         NEW alt \in Nat, Push(alt),
         prog' = prog, query' = query, here' = here, pc' = "back"
  PROVE  /\ NextGoal.goal \in Subgoals
         /\ stack' \in Seq(Frames) /\ Len(stack') = Len(stack) + 1
         /\ \A f \in 1 .. Len(stack) : stack'[f] = stack[f]
         /\ stack'[Len(stack) + 1].goal = NextGoal.goal
         /\ stack'[Len(stack) + 1].alt = alt
         /\ stack'[Len(stack) + 1].curr =
              IF answers[NextGoal.goal] = << >> THEN 0 ELSE 1
         /\ PlaceInv'
<1>0. stack \in Seq(Frames) /\ Len(stack) \in Nat
  BY DEF TypeInv, TypeOK
<1>1. /\ here \in Places /\ PlaceOK(here, Len(stack))
      /\ Body(here) \in Seq(Goals)
  BY RunningFacts
<1>2. Len(here.seen) + 1 \in 1 .. Len(Body(here))
  BY <1>1 DEF Places
<1>3. NextGoal \in Goals
  BY <1>1, <1>2 DEF NextGoal
<1>4. NextGoal.goal \in Subgoals
  BY <1>3 DEF Goals
<1>5. PICK n \in Nat, h \in Places, g \in Subgoals :
        n = Len(stack) /\ h = here /\ g = NextGoal.goal
  BY <1>0, <1>1, <1>4
<1>6. PICK e \in Frames :
        /\ e = [goal |-> NextGoal.goal, from |-> here, alt |-> alt,
                curr |-> IF answers[NextGoal.goal] = << >> THEN 0 ELSE 1]
        /\ e.goal = g /\ e.from = h /\ e.alt = alt
        /\ e.curr = IF answers[g] = << >> THEN 0 ELSE 1
  <2> DEFINE r == [goal |-> g, from |-> h, alt |-> alt,
                   curr |-> IF answers[g] = << >> THEN 0 ELSE 1]
  <2>1. r \in Frames
    BY DEF Frames
  <2>2. r = [goal |-> NextGoal.goal, from |-> here, alt |-> alt,
             curr |-> IF answers[NextGoal.goal] = << >> THEN 0 ELSE 1]
    BY <1>5
  <2>3. /\ r.goal = g /\ r.from = h /\ r.alt = alt
        /\ r.curr = IF answers[g] = << >> THEN 0 ELSE 1
    OBVIOUS
  <2> HIDE DEF r
  <2> QED
    BY <2>1, <2>2, <2>3
<1>7. /\ stack' \in Seq(Frames) /\ Len(stack') = n + 1
      /\ \A f \in 1 .. n : stack'[f] = stack[f]
      /\ stack'[n + 1] = e
  <2>1. stack' = Append(stack, e)
    BY <1>6 DEF Push
  <2> QED
    BY <1>0, <1>5, <2>1
<1>8. SameBelow(n)
  BY <1>5, <1>7 DEF SameBelow
<1>9. FromOK(n + 1)'
  <2>1. PlaceOK(h, n)' /\ Body(h)' = Body(h)
    BY <1>1, <1>5, <1>8, PlaceSurvives
  <2>2. Len(h.seen) < Len(Body(h)) /\ Body(h)[Len(h.seen) + 1].goal = g
    BY <1>5 DEF NextGoal
  <2>3. stack'[n + 1].from = h /\ stack'[n + 1].goal = g
    BY <1>6, <1>7
  <2>4. n + 1 - 1 = n
    BY <1>5
  <2> QED
    BY <2>1, <2>2, <2>3, <2>4 DEF FromOK
<1>10. PlaceInv'
  <2>1. \A f \in 1 .. n : FromOK(f)'
    BY <1>8, FramesSurvive
  <2>2. \A f \in 1 .. n + 1 : FromOK(f)'
    BY <1>5, <1>9, <2>1
  <2> QED
    BY <1>7, <2>2 DEF PlaceInv
<1> QED
  BY <1>4, <1>5, <1>6, <1>7, <1>10

LEMMA AllocateStep ==
  ASSUME IInv, table_allocate
  PROVE  IInv'
<1> DEFINE s == NextGoal.goal
<1>1. /\ pc = "run" /\ pc' = "back" /\ Len(here.seen) < Len(Body(here))
      /\ UNCHANGED <<answers, root, elms, here, prog, query, got, queries,
                     throws>>
  BY DEF table_allocate, queryVars
<1>2. TypeInv /\ PlaceInv /\ CursorInv /\ MasterInv /\ Sound
  BY DEF IInv
<1>3. ASSUME NEW alt \in Nat, Push(alt),
             top' \in [Subgoals -> Nat \cup {COMPLETE, TEMP_COMPLETE}],
             bits' \in [Subgoals -> SUBSET Bits],
             \A t \in Subgoals : top'[t] = top[t] \/ t = s,
             top'[s] = (IF alt = 0 THEN top[s] ELSE Len(stack) + 1)
      PROVE  IInv'
  <2>1. PICK n \in Nat, g \in Subgoals : n = Len(stack) /\ g = s
    BY <1>1, <1>2, <1>3, PushFacts DEF TypeInv, TypeOK
  <2>2. /\ stack' \in Seq(Frames) /\ Len(stack') = n + 1
        /\ \A f \in 1 .. n : stack'[f] = stack[f]
        /\ stack'[n + 1].goal = g
        /\ stack'[n + 1].alt = alt
        /\ stack'[n + 1].curr = IF answers[g] = << >> THEN 0 ELSE 1
        /\ PlaceInv'
    BY <1>1, <1>2, <1>3, <2>1, PushFacts
  <2>3. TypeInv'
    BY <1>1, <1>2, <1>3, <2>2 DEF TypeInv, TypeOK
  <2>4. CursorInv'
    <3>1. answers[g] \in Seq(Answers)
      BY <1>2 DEF TypeInv, TypeOK
    <3>2. stack'[n + 1].curr <= Len(answers[g])
      BY <2>2, <3>1
    <3>3. \A f \in 1 .. n : stack[f].curr <= Len(answers[stack[f].goal])
      BY <1>2, <2>1 DEF CursorInv
    <3>4. \A f \in 1 .. n + 1 : f \in 1 .. n \/ f = n + 1
      BY <2>1
    <3> QED
      BY <1>1, <2>2, <3>2, <3>3, <3>4 DEF CursorInv
  <2>5. \A t \in Subgoals : top[t] > 0 => top[t] <= n /\ stack[top[t]].goal = t
    <3>1. MasterIsOnStack
      BY <1>2 DEF MasterInv
    <3> HIDE DEF s
    <3> QED
      BY <2>1, <3>1 DEF MasterIsOnStack
  <2>6. \A t \in Subgoals : top[t] \in Int
    BY <1>2, TopFacts
  <2>7. MasterIsOnStack'
    <3> SUFFICES ASSUME NEW t \in Subgoals, top'[t] > 0
                 PROVE  top'[t] <= n + 1 /\ stack'[top'[t]].goal = t
      BY <2>2 DEF MasterIsOnStack
    <3>1. CASE top'[t] = top[t]
      BY <2>2, <2>5, <2>6, <3>1
    <3>2. CASE t = s /\ alt /= 0
      BY <1>3, <2>1, <2>2, <3>2
    <3> QED
      BY <1>3, <3>1, <3>2
  <2>8. ASSUME NEW f \in 1 .. Len(stack'), stack'[f].alt = 0
        PROVE  top'[stack'[f].goal] /= f
    <3>1. CASE f = n + 1
      BY <1>3, <2>1, <2>2, <2>5, <2>6, <2>8, <3>1
    <3>2. CASE f \in 1 .. n
      <4>1. stack'[f] = stack[f] /\ top[stack[f].goal] /= f
        BY <1>2, <2>1, <2>2, <2>8, <3>2 DEF MasterInv
      <4>2. stack[f].goal \in Subgoals
        BY <1>2, <2>1, <3>2, FrameFacts
      <4> QED
        BY <1>3, <2>1, <3>2, <4>1, <4>2
    <3> QED
      BY <2>1, <2>2, <3>1, <3>2
  <2>9. Sound'
    BY <1>1, <1>2 DEF Sound
  <2> QED
    BY <2>2, <2>3, <2>4, <2>7, <2>8, <2>9 DEF IInv, MasterInv
<1>4. s \in Subgoals
  <2>1. \E alt \in Nat : Push(alt)
    BY DEF table_allocate, BecomePioneer
  <2> QED
    BY <1>1, <1>2, <2>1, PushFacts
<1>5. ASSUME NEW start \in SUBSET Bits, BecomePioneer(s, start)
      PROVE  IInv'
  <2>1. Len(stack) + 1 \in Nat
    BY <1>2 DEF TypeInv, TypeOK
  <2>2. /\ top \in [Subgoals -> Nat \cup {COMPLETE, TEMP_COMPLETE}]
        /\ bits \in [Subgoals -> SUBSET Bits]
    BY <1>2 DEF TypeInv, TypeOK
  <2>3. /\ Push(1)
        /\ top' = [top EXCEPT ![s] = Len(stack) + 1]
        /\ bits' = [bits EXCEPT ![s] = start]
    BY <1>5 DEF BecomePioneer
  <2> HIDE DEF s
  <2>4. /\ top' \in [Subgoals -> Nat \cup {COMPLETE, TEMP_COMPLETE}]
        /\ bits' \in [Subgoals -> SUBSET Bits]
        /\ \A t \in Subgoals : top'[t] = top[t] \/ t = s
        /\ top'[s] = Len(stack) + 1
    BY <1>4, <2>1, <2>2, <2>3
  <2> QED
    BY <1>3, <2>3, <2>4
<1>6. ASSUME Push(0), UNCHANGED top, bits' \in [Subgoals -> SUBSET Bits]
      PROVE  IInv'
  BY <1>2, <1>3, <1>6 DEF TypeInv, TypeOK
<1>7. {"looping"} \subseteq Bits /\ {"iteration", "looping"} \subseteq Bits
  BY DEF Bits
<1>8. CASE BecomePioneer(s, {})
  BY <1>5, <1>8
<1>9. CASE BecomePioneer(s, {"iteration", "looping"})
  BY <1>5, <1>7, <1>9
<1>10. CASE Push(0) /\ UNCHANGED <<top, bits>>
  BY <1>2, <1>6, <1>10 DEF TypeInv, TypeOK
<1>11. CASE /\ bits' = [bits EXCEPT ![s] = @ \cup {"looping"}]
            /\ Push(0) /\ UNCHANGED top
  BY <1>2, <1>4, <1>6, <1>7, <1>11 DEF TypeInv, TypeOK
<1> QED
  BY <1>8, <1>9, <1>10, <1>11 DEF table_allocate

(* A step that leaves the frames 1..n and no mark of a frame above them.   *)
LEMMA StackStep ==
  ASSUME TypeInv, PlaceInv, MasterInv, NEW n \in 0 .. Len(stack),
         Len(stack') = n,
         \A f \in 1 .. n :
           /\ stack'[f].goal = stack[f].goal
           /\ stack'[f].from = stack[f].from
           /\ stack'[f].curr <= Len(answers'[stack[f].goal])
           /\ stack'[f].alt = 0 => top'[stack[f].goal] /= f,
         \A t \in Subgoals : top'[t] > 0 => top'[t] = top[t] /\ top[t] <= n,
         prog' = prog, query' = query
  PROVE  /\ \A f \in 1 .. n : FromOK(f)'
         /\ CursorInv' /\ MasterInv'
<1>0. Len(stack) \in Nat /\ n \in Nat
  BY DEF TypeInv, TypeOK
<1>1. SameBelow(n)
  BY <1>0 DEF SameBelow
<1>2. \A f \in 1 .. n : FromOK(f)'
  BY <1>0, <1>1, FramesSurvive
<1>3. CursorInv'
  BY DEF CursorInv
<1>4. MasterIsOnStack'
  <2> SUFFICES ASSUME NEW t \in Subgoals, top'[t] > 0
               PROVE  top'[t] <= n /\ stack'[top'[t]].goal = t
    BY DEF MasterIsOnStack
  <2>1. top'[t] = top[t] /\ top[t] <= n /\ top[t] \in Int
    BY TopFacts
  <2>2. MasterIsOnStack
    BY DEF MasterInv
  <2>3. stack[top[t]].goal = t
    BY <2>1, <2>2 DEF MasterIsOnStack
  <2> QED
    BY <1>0, <2>1, <2>3
<1>5. \A f \in 1 .. n : stack'[f].alt = 0 => top'[stack'[f].goal] /= f
  OBVIOUS
<1> QED
  BY <1>2, <1>3, <1>4, <1>5 DEF MasterInv

(* A clause that has taken answers of the model makes one of the model.    *)
LEMMA HeadOfModel ==
  ASSUME TypeInv, PlaceInv, pc = "run", here.ar /= QueryFrame,
         Len(here.seen) = Len(Body(here)),
         NEW s, s = stack[here.ar].goal,
         NEW a, a = HeadOf(prog.rules[s][here.clause], here.seen)
  PROVE  /\ here.ar \in 1 .. Len(stack) /\ s \in Subgoals
         /\ a \in prog.model[s] \cup {NoAnswer}
<1>1. here \in Places /\ PlaceOK(here, Len(stack)) /\ Len(stack) \in Nat
  BY RunningFacts DEF TypeInv, TypeOK
<1>2. here.ar \in 1 .. Len(stack)
  BY <1>1 DEF PlaceOK, QueryFrame
<1>3. s \in Subgoals
  BY <1>2, FrameFacts
<1>4. here.clause \in 1 .. NClauses(s)
  BY <1>1 DEF PlaceOK
<1>5. PICK c \in Clauses : c = prog.rules[s][here.clause]
  BY <1>3, <1>4, ClauseFacts
<1>6. Body(here) = c.body
  BY <1>5 DEF Body
<1>7. here.seen \in [1 .. Len(c.body) -> Answers]
  BY <1>1, <1>6, SMTT(60) DEF Places
<1>8. a \in Answers \cup {NoAnswer}
  BY <1>5, <1>7, TabledProgramAssumption DEF ClauseAssumption
<1>9. here.seen \in Joins(c, prog.model)
  BY <1>1, <1>6, <1>7, SMTT(60) DEF Joins, PlaceOK
<1>10. a \in Answers => a \in Consequences(prog.rules, prog.model, s)
  BY <1>4, <1>5, <1>9 DEF Consequences, NClauses
<1>11. Consequences(prog.rules, prog.model, s) \subseteq prog.model[s]
  BY <1>3, ProgramFacts DEF IsModel
<1> QED
  BY <1>2, <1>3, <1>8, <1>10, <1>11

LEMMA ProduceStep ==
  ASSUME IInv, table_produce
  PROVE  IInv'
<1> DEFINE s == stack[here.ar].goal
           a == HeadOf(prog.rules[s][here.clause], here.seen)
<1>1. /\ pc = "run" /\ here.ar /= QueryFrame
      /\ Len(here.seen) = Len(Body(here)) /\ pc' = "back"
      /\ UNCHANGED <<top, root, elms, here, prog, query, got, queries, throws>>
  BY DEF table_produce, queryVars
<1>2. TypeInv /\ PlaceInv /\ CursorInv /\ MasterInv /\ Sound
  BY DEF IInv
<1>3. PICK g \in Subgoals, f \in 1 .. Len(stack) : g = s /\ f = here.ar
  BY <1>1, <1>2, HeadOfModel
<1>4. PICK b : b = a
  OBVIOUS
<1>5. b \in prog.model[g] \cup {NoAnswer}
  BY <1>1, <1>2, <1>3, <1>4, HeadOfModel
<1>6. CASE /\ ~IsNew(g, b) /\ UNCHANGED <<answers, bits, stack>>
  <2>1. TypeInv' /\ Sound'
    BY <1>1, <1>2, <1>6 DEF TypeInv, TypeOK, Sound
  <2>2. Len(stack) \in 0 .. Len(stack)
    BY <1>2 DEF TypeInv, TypeOK
  <2>3. \A t \in Subgoals : top'[t] > 0 => top'[t] = top[t] /\ top[t] <= Len(stack)
    BY <1>1, <1>2 DEF MasterInv, MasterIsOnStack
  <2>4. \A i \in 1 .. Len(stack) :
          /\ stack[i].curr <= Len(answers'[stack[i].goal])
          /\ stack[i].alt = 0 => top'[stack[i].goal] /= i
    BY <1>1, <1>2, <1>6 DEF CursorInv, MasterInv
  <2>5. (\A i \in 1 .. Len(stack) : FromOK(i)') /\ CursorInv' /\ MasterInv'
    BY <1>1, <1>2, <1>6, <2>2, <2>3, <2>4, StackStep
  <2> QED
    BY <1>1, <1>6, <2>1, <2>5 DEF IInv, PlaceInv
<1>7. CASE /\ IsNew(g, b)
           /\ answers' = [answers EXCEPT ![g] = Append(@, b)]
           /\ bits' = [bits EXCEPT ![g] = @ \cup {"revised"}]
           /\ stack' = IF answers[g] = << >>
                         THEN [stack EXCEPT ![f].curr = 1] ELSE stack
  <2>1. b \in prog.model[g] /\ b \in Answers
    <3>1. prog.model[g] \subseteq Answers
      BY <1>2, ProgramFacts DEF Tables
    <3> QED
      BY <1>5, <1>7, <3>1 DEF IsNew
  <2>2. stack \in Seq(Frames) /\ answers \in [Subgoals -> Seq(Answers)]
        /\ bits \in [Subgoals -> SUBSET Bits] /\ Len(stack) \in Nat
    BY <1>2 DEF TypeInv, TypeOK
  <2>3. /\ answers' \in [Subgoals -> Seq(Answers)]
        /\ \A t \in Subgoals :
             answers'[t] = IF t = g THEN Append(answers[g], b) ELSE answers[t]
        /\ Len(Append(answers[g], b)) = Len(answers[g]) + 1
        /\ Len(answers[g]) \in Nat
    BY <1>7, <2>1, <2>2
  <2>4. bits' \in [Subgoals -> SUBSET Bits]
    BY <1>7, <2>2 DEF Bits
  <2>5. /\ stack' \in Seq(Frames) /\ Len(stack') = Len(stack)
        /\ \A i \in 1 .. Len(stack) :
             /\ stack'[i].goal = stack[i].goal
             /\ stack'[i].from = stack[i].from
             /\ stack'[i].alt = stack[i].alt
             /\ stack'[i].curr = IF answers[g] = << >> /\ i = f THEN 1
                                 ELSE stack[i].curr
    <3>1. CASE answers[g] = << >>
      <4>1. PICK v \in Nat : v = 1
        OBVIOUS
      <4>2. stack' = SetCurr(stack, f, v)
        BY <1>7, <3>1, <4>1 DEF SetCurr
      <4>3. /\ stack' \in Seq(Frames) /\ Len(stack') = Len(stack)
            /\ \A i \in 1 .. Len(stack) :
                 /\ stack'[i].goal = stack[i].goal
                 /\ stack'[i].from = stack[i].from
                 /\ stack'[i].alt = stack[i].alt
                 /\ stack'[i].curr = IF i = f THEN v ELSE stack[i].curr
        BY <2>2, <4>2, SetCurrFacts
      <4> QED
        BY <3>1, <4>1, <4>3
    <3>2. CASE answers[g] /= << >>
      BY <1>7, <2>2, <3>2
    <3> QED
      BY <3>1, <3>2
  <2>6. TypeInv'
    BY <1>1, <1>2, <2>3, <2>4, <2>5 DEF TypeInv, TypeOK
  <2>7. Sound'
    <3> SUFFICES ASSUME NEW t \in Subgoals
                 PROVE  ToSet(answers'[t]) \subseteq prog.model[t]
      BY <1>1 DEF Sound
    <3>1. ToSet(answers[t]) \subseteq prog.model[t]
      BY <1>2 DEF Sound
    <3>2. ToSet(Append(answers[g], b)) \subseteq ToSet(answers[g]) \cup {b}
      BY <2>1, <2>2, ToSetAppend
    <3> QED
      BY <2>1, <2>3, <3>1, <3>2
  <2>8. \A i \in 1 .. Len(stack) :
          stack'[i].curr <= Len(answers'[stack[i].goal])
    <3> SUFFICES ASSUME NEW i \in 1 .. Len(stack)
                 PROVE  stack'[i].curr <= Len(answers'[stack[i].goal])
      OBVIOUS
    <3>1. stack[i].goal \in Subgoals /\ stack[i].curr \in Nat
      BY <1>2, FrameFacts
    <3>2. stack[i].curr <= Len(answers[stack[i].goal])
      BY <1>2 DEF CursorInv
    <3>3. stack[f].goal = g
      BY <1>3
    <3>4. CASE stack[i].goal = g
      BY <2>3, <2>5, <3>1, <3>2, <3>4, SMTT(60)
    <3>5. CASE stack[i].goal /= g
      BY <2>3, <2>5, <3>1, <3>2, <3>3, <3>5
    <3> QED
      BY <3>4, <3>5
  <2>9. \A i \in 1 .. Len(stack) : stack'[i].alt = 0 => top'[stack[i].goal] /= i
    BY <1>1, <1>2, <2>5 DEF MasterInv
  <2>10. \A t \in Subgoals : top'[t] > 0 => top'[t] = top[t] /\ top[t] <= Len(stack)
    BY <1>1, <1>2 DEF MasterInv, MasterIsOnStack
  <2>11. PICK n \in 0 .. Len(stack) : n = Len(stack)
    BY <2>2
  <2>12. (\A i \in 1 .. n : FromOK(i)') /\ CursorInv' /\ MasterInv'
    BY <1>1, <1>2, <2>5, <2>8, <2>9, <2>10, <2>11, StackStep
  <2> QED
    BY <1>1, <2>5, <2>6, <2>7, <2>11, <2>12 DEF IInv, PlaceInv
<1> QED
  BY <1>3, <1>4, <1>6, <1>7 DEF table_produce

LEMMA SameStack ==
  ASSUME IInv, UNCHANGED <<prog, query, stack, top, answers>>
  PROVE  /\ \A i \in 1 .. Len(stack) : FromOK(i)'
         /\ CursorInv' /\ MasterInv' /\ Sound'
<1>1. TypeInv /\ PlaceInv /\ CursorInv /\ MasterInv /\ Sound
  BY DEF IInv
<1>2. PICK n \in 0 .. Len(stack) : n = Len(stack)
  BY <1>1 DEF TypeInv, TypeOK
<1>3. \A t \in Subgoals : top'[t] > 0 => top'[t] = top[t] /\ top[t] <= n
  BY <1>1, <1>2 DEF MasterInv, MasterIsOnStack
<1>4. \A i \in 1 .. n :
        /\ stack[i].curr <= Len(answers'[stack[i].goal])
        /\ stack[i].alt = 0 => top'[stack[i].goal] /= i
  BY <1>1, <1>2 DEF CursorInv, MasterInv
<1>5. (\A i \in 1 .. n : FromOK(i)') /\ CursorInv' /\ MasterInv'
  BY <1>1, <1>2, <1>3, <1>4, StackStep
<1> QED
  BY <1>1, <1>2, <1>5 DEF Sound

LEMMA DeliverStep ==
  ASSUME IInv, Deliver
  PROVE  IInv'
<1>1. got' \in Seq(Answers)
  <2>1. got \in Seq(Answers) /\ here \in Places
    BY DEF IInv, TypeInv, TypeOK
  <2>2. here.seen[1] \in Answers
    BY <2>1 DEF Deliver, Places
  <2> QED
    BY <2>1, <2>2 DEF Deliver
<1>2. TypeInv'
  BY <1>1 DEF IInv, TypeInv, TypeOK, Deliver, tableVars
<1>3. (\A i \in 1 .. Len(stack) : FromOK(i)') /\ CursorInv' /\ MasterInv' /\ Sound'
  BY SameStack DEF Deliver, tableVars
<1> QED
  BY <1>2, <1>3 DEF IInv, PlaceInv, Deliver

(* The frame that backtracking resumes.                                    *)
LEMMA TopFrameFacts ==
  ASSUME TypeInv, stack /= << >>
  PROVE  /\ Len(stack) \in 1 .. Len(stack) /\ Len(stack) \in Nat
         /\ TopFrame.goal \in Subgoals
         /\ stack \in Seq(Frames)
<1>1. stack \in Seq(Frames) /\ Len(stack) \in Nat
  BY DEF TypeInv, TypeOK
<1>2. Len(stack) \in 1 .. Len(stack)
  BY <1>1
<1> QED
  BY <1>1, <1>2, FrameFacts DEF TopFrame

(* Only the alternative of the top frame changes.                          *)
LEMMA SetAltStep ==
  ASSUME IInv, stack /= << >>, NEW v \in Nat,
         stack' = SetAlt(stack, Len(stack), v),
         UNCHANGED <<prog, query, answers>>,
         \A t \in Subgoals : top'[t] > 0 => top'[t] = top[t],
         v = 0 => top'[TopFrame.goal] /= Len(stack)
  PROVE  /\ stack' \in Seq(Frames) /\ Len(stack') = Len(stack)
         /\ \A i \in 1 .. Len(stack) : /\ stack'[i].goal = stack[i].goal
                                       /\ stack'[i].from = stack[i].from
         /\ \A i \in 1 .. Len(stack) : FromOK(i)'
         /\ CursorInv' /\ MasterInv' /\ Sound'
<1>1. TypeInv /\ PlaceInv /\ CursorInv /\ MasterInv /\ Sound
  BY DEF IInv
<1>2. PICK n \in 0 .. Len(stack) : n = Len(stack) /\ n \in 1 .. Len(stack)
  BY <1>1, TopFrameFacts
<1>3. stack' = SetAlt(stack, n, v)
  BY <1>2
<1>4. stack \in Seq(Frames)
  BY <1>1 DEF TypeInv, TypeOK
<1>5. /\ stack' \in Seq(Frames) /\ Len(stack') = n
      /\ \A i \in 1 .. n :
           /\ stack'[i].goal = stack[i].goal /\ stack'[i].from = stack[i].from
           /\ stack'[i].curr = stack[i].curr
           /\ stack'[i].alt = IF i = n THEN v ELSE stack[i].alt
  <2>1. PICK f \in 1 .. Len(stack) : f = n
    BY <1>2
  <2>2. stack' = SetAlt(stack, f, v)
    BY <1>3, <2>1
  <2>3. /\ stack' \in Seq(Frames) /\ Len(stack') = Len(stack)
        /\ \A i \in 1 .. Len(stack) :
             /\ stack'[i].goal = stack[i].goal /\ stack'[i].from = stack[i].from
             /\ stack'[i].curr = stack[i].curr
             /\ stack'[i].alt = IF i = f THEN v ELSE stack[i].alt
    BY <1>4, <2>2, SetAltFacts
  <2> QED
    BY <1>2, <2>1, <2>3
<1>6. \A t \in Subgoals : top'[t] > 0 => top'[t] = top[t] /\ top[t] <= n
  BY <1>1, <1>2 DEF MasterInv, MasterIsOnStack
<1>7. \A i \in 1 .. n :
        /\ stack'[i].curr <= Len(answers'[stack[i].goal])
        /\ stack'[i].alt = 0 => top'[stack[i].goal] /= i
  <2> SUFFICES ASSUME NEW i \in 1 .. n
               PROVE  /\ stack'[i].curr <= Len(answers'[stack[i].goal])
                      /\ stack'[i].alt = 0 => top'[stack[i].goal] /= i
    OBVIOUS
  <2>1. stack[i].curr <= Len(answers[stack[i].goal])
    BY <1>1, <1>2 DEF CursorInv
  <2>2. CASE i = n
    BY <1>2, <1>5, <2>1, <2>2 DEF TopFrame
  <2>3. CASE i /= n
    <3>1. stack[i].goal \in Subgoals /\ i > 0
      BY <1>1, <1>2, FrameFacts
    <3>2. stack[i].alt = 0 => top[stack[i].goal] /= i
      BY <1>1, <1>2 DEF MasterInv
    <3> QED
      BY <1>5, <2>1, <2>3, <3>1, <3>2
  <2> QED
    BY <2>2, <2>3
<1>8. (\A i \in 1 .. n : FromOK(i)') /\ CursorInv' /\ MasterInv'
  BY <1>1, <1>2, <1>5, <1>6, <1>7, StackStep
<1> QED
  BY <1>1, <1>2, <1>5, <1>8 DEF Sound

LEMMA TryClauseStep ==
  ASSUME IInv, TryClause
  PROVE  IInv'
<1>1. /\ pc = "back" /\ stack /= << >>
      /\ TopFrame.alt \in 1 .. NClauses(TopFrame.goal)
      /\ stack' = [stack EXCEPT ![Len(stack)].alt = @ + 1]
      /\ UNCHANGED <<answers, top, bits, root, elms, prog, query, got, queries,
                     throws>>
  BY DEF TryClause, Backtracks, tableVars, queryVars
<1>2. TypeInv /\ PlaceInv
  BY DEF IInv
<1>3. PICK n \in Nat, k \in Nat : n = Len(stack) /\ k = TopFrame.alt
  BY <1>1, <1>2, TopFrameFacts, FrameFacts DEF TopFrame
<1>4. stack' = SetAlt(stack, Len(stack), k + 1) /\ k + 1 \in Nat /\ k + 1 /= 0
  BY <1>1, <1>3 DEF TopFrame, SetAlt
<1>5. /\ stack' \in Seq(Frames) /\ Len(stack') = n
      /\ \A i \in 1 .. n : stack'[i].goal = stack[i].goal
      /\ \A i \in 1 .. n : FromOK(i)'
      /\ CursorInv' /\ MasterInv' /\ Sound'
  BY <1>1, <1>3, <1>4, SetAltStep
<1>6. CASE UNCHANGED <<here, pc>>
  <2>1. TypeInv'
    BY <1>1, <1>2, <1>5, <1>6 DEF TypeInv, TypeOK
  <2> QED
    BY <1>1, <1>5, <1>6, <2>1 DEF IInv, PlaceInv
<1>7. CASE /\ here' = [ar |-> Len(stack), clause |-> TopFrame.alt, seen |-> << >>]
           /\ pc' = "run"
  <2>1. here' \in Places
    BY <1>3, <1>7 DEF Places
  <2>2. TypeInv'
    BY <1>1, <1>2, <1>5, <1>7, <2>1 DEF TypeInv, TypeOK
  <2>3. n \in 1 .. n /\ stack'[n].goal = TopFrame.goal
    BY <1>1, <1>2, <1>3, <1>5, TopFrameFacts DEF TopFrame
  <2>4. PlaceOK(here, Len(stack))'
    <3>1. here'.ar = n /\ here'.clause = k /\ here'.seen = << >>
      BY <1>3, <1>7
    <3>2. PICK g \in Subgoals : g = TopFrame.goal /\ k \in 1 .. NClauses(g)
      BY <1>1, <1>2, <1>3, TopFrameFacts
    <3>3. PICK b \in Seq(Goals) : b = prog.rules[g][k].body
      BY <1>2, <3>2, ClauseFacts
    <3>4. Body(here)' = b
      BY <1>1, <2>3, <3>1, <3>2, <3>3 DEF Body, QueryFrame
    <3>5. k \in 1 .. Len(prog'.rules[stack'[n].goal])
      BY <1>1, <2>3, <3>2 DEF NClauses
    <3> QED
      BY <1>5, <2>3, <3>1, <3>4, <3>5 DEF PlaceOK, NClauses
  <2> QED
    BY <1>5, <1>7, <2>2, <2>4 DEF IInv, PlaceInv
<1> QED
  BY <1>6, <1>7 DEF TryClause

(* The clauses of the top frame are exhausted.                             *)
LEMMA WalkFacts ==
  ASSUME NEW s \in Subgoals, NEW marked, s \notin marked
  PROVE  s \in Walk(s, marked) /\ Walk(s, marked) \subseteq Subgoals
BY DEF Walk

LEMMA CheckCompletionStep ==
  ASSUME IInv, table_check_completion
  PROVE  IInv'
<1>1. /\ pc = "back" /\ stack /= << >>
      /\ UNCHANGED <<answers, root, elms, here, pc, prog, query, got, queries,
                     throws>>
  BY DEF table_check_completion, Backtracks, queryVars
<1>2. TypeInv /\ PlaceInv
  BY DEF IInv
<1>3. PICK s \in Subgoals, n \in Nat : s = TopFrame.goal /\ n = Len(stack)
  BY <1>1, <1>2, TopFrameFacts
<1>4. /\ top \in [Subgoals -> Nat \cup {COMPLETE, TEMP_COMPLETE}]
      /\ bits \in [Subgoals -> SUBSET Bits] /\ root \in [Subgoals -> Subgoals]
      /\ n > 0
  BY <1>1, <1>2, <1>3, TopFrameFacts DEF TypeInv, TypeOK
<1>5. ASSUME NEW v \in Nat, stack' = SetAlt(stack, Len(stack), v),
             top' \in [Subgoals -> Nat \cup {COMPLETE, TEMP_COMPLETE}],
             bits' \in [Subgoals -> SUBSET Bits],
             \A t \in Subgoals : top'[t] > 0 => top'[t] = top[t],
             v = 0 => top'[s] /= n
      PROVE  IInv'
  <2>1. /\ stack' \in Seq(Frames) /\ Len(stack') = Len(stack)
        /\ \A i \in 1 .. Len(stack) : FromOK(i)'
        /\ CursorInv' /\ MasterInv' /\ Sound'
    BY <1>1, <1>3, <1>5, SetAltStep
  <2>2. TypeInv'
    BY <1>1, <1>2, <1>5, <2>1 DEF TypeInv, TypeOK
  <2> QED
    BY <1>1, <2>1, <2>2 DEF IInv, PlaceInv
<1>6. CASE IsSccRoot(s) /\ CompleteScc(s)
  <2> DEFINE marked == {u \in Subgoals : top[u] = COMPLETE}
  <2>1. PICK W : W = Walk(s, marked)
    OBVIOUS
  <2>2. /\ top' = [t \in Subgoals |-> IF t \in W THEN COMPLETE ELSE top[t]]
        /\ stack' = SetAlt(stack, Len(stack), 0) /\ UNCHANGED bits
    BY <1>6, <2>1 DEF CompleteScc, SetAlt
  <2>3. /\ top' \in [Subgoals -> Nat \cup {COMPLETE, TEMP_COMPLETE}]
        /\ \A t \in Subgoals : top'[t] > 0 => top'[t] = top[t]
    BY <1>4, <2>2 DEF COMPLETE
  <2>4. top'[s] = COMPLETE
    <3>1. CASE top[s] = COMPLETE
      BY <2>2, <3>1
    <3>2. CASE top[s] /= COMPLETE
      <4>1. s \notin marked
        BY <3>2
      <4>2. s \in W
        BY <2>1, <4>1, WalkFacts
      <4> QED
        BY <2>2, <4>2
    <3> QED
      BY <3>1, <3>2
  <2>5. top'[s] /= n
    BY <1>4, <2>4 DEF COMPLETE
  <2> QED
    BY <1>4, <1>5, <2>2, <2>3, <2>5
<1>7. CASE IsSccRoot(s) /\ IterateScc(s)
  <2>1. PICK W : W = Walk(s, {u \in Subgoals : bits[u] = {}})
    OBVIOUS
  <2>2. /\ bits' = [t \in Subgoals |-> IF t = s THEN {"iteration", "looping"}
                                       ELSE IF t \in W THEN {} ELSE bits[t]]
        /\ stack' = SetAlt(stack, Len(stack), 1) /\ UNCHANGED top
    BY <1>7, <2>1 DEF IterateScc, SetAlt
  <2>3. bits' \in [Subgoals -> SUBSET Bits]
    <3>1. {"iteration", "looping"} \subseteq Bits
      BY DEF Bits
    <3> QED
      BY <1>4, <2>2, <3>1
  <2>4. /\ top' \in [Subgoals -> Nat \cup {COMPLETE, TEMP_COMPLETE}]
        /\ \A t \in Subgoals : top'[t] > 0 => top'[t] = top[t]
        /\ 1 \in Nat /\ 1 /= 0
    BY <1>4, <2>2
  <2> QED
    BY <1>5, <2>2, <2>3, <2>4
<1>8. CASE ~IsSccRoot(s) /\ LeaveToRoot(s)
  <2>1. /\ top' = IF root[s] /= s THEN [top EXCEPT ![s] = TEMP_COMPLETE] ELSE top
        /\ bits' = [bits EXCEPT ![s] = @ \cup {"evaluated"}]
        /\ stack' = SetAlt(stack, Len(stack), 0)
        /\ top[root[s]] /= n
    BY <1>3, <1>8 DEF LeaveToRoot, IsSccRoot, SetAlt
  <2>2. bits' \in [Subgoals -> SUBSET Bits]
    BY <1>4, <2>1 DEF Bits
  <2>3. /\ top' \in [Subgoals -> Nat \cup {COMPLETE, TEMP_COMPLETE}]
        /\ \A t \in Subgoals : top'[t] > 0 => top'[t] = top[t]
        /\ top'[s] /= n
    BY <1>4, <2>1 DEF TEMP_COMPLETE
  <2> QED
    BY <1>5, <2>1, <2>2, <2>3
<1> QED
  BY <1>3, <1>6, <1>7, <1>8 DEF table_check_completion

-----------------------------------------------------------------------------
(* A frame resumes its caller, and frames go.                              *)
LEMMA RollFacts ==
  ASSUME TypeInv, MasterInv, NEW m \in 0 .. Len(stack), top' = RollTop(m)
  PROVE  /\ top' \in [Subgoals -> Nat \cup {COMPLETE, TEMP_COMPLETE}]
         /\ \A t \in Subgoals : top'[t] = top[t] \/ top'[t] = NULL
         /\ \A t \in Subgoals : top'[t] > 0 => top'[t] = top[t] /\ top[t] <= m
<1>1. /\ top \in [Subgoals -> Nat \cup {COMPLETE, TEMP_COMPLETE}]
      /\ Len(stack) \in Nat
  BY DEF TypeInv, TypeOK
<1>2. \A t \in Subgoals : top'[t] = top[t] \/ top'[t] = NULL
  BY DEF RollTop
<1>3. top' \in [Subgoals -> Nat \cup {COMPLETE, TEMP_COMPLETE}]
  BY <1>1 DEF RollTop, NULL
<1>4. ASSUME NEW t \in Subgoals, top'[t] > 0
      PROVE  top'[t] = top[t] /\ top[t] <= m
  <2>1. top'[t] = top[t]
    BY <1>2, <1>4 DEF NULL
  <2>2. top[t] <= Len(stack) /\ stack[top[t]].goal = t
    BY <1>4, <2>1 DEF MasterInv, MasterIsOnStack
  <2>3. top[t] /= COMPLETE /\ top[t] \in Nat
    BY <1>1, <1>4, <2>1 DEF COMPLETE, TEMP_COMPLETE
  <2>4. ~ \E f \in m + 1 .. Len(stack) : stack[f].goal = t
    BY <1>4, <2>3, SMTT(60) DEF RollTop, NULL
  <2> QED
    BY <1>1, <2>1, <2>2, <2>3, <2>4
<1> QED
  BY <1>2, <1>3, <1>4

LEMMA ResumeFacts ==
  ASSUME IInv, Backtracks, TopFrame.alt = 0, TopFrame.curr /= 0
  PROVE  LET from == TopFrame.from
             h == Resume(from, answers[TopFrame.goal][TopFrame.curr])
         IN /\ from \in Places /\ from.ar \in 0 .. Len(stack) - 1
            /\ h \in Places /\ h.ar = from.ar
            /\ PlaceOK(h, h.ar)
<1>1. TypeInv /\ PlaceInv /\ CursorInv /\ Sound /\ stack /= << >>
  BY DEF IInv, Backtracks
<1>2. PICK n \in 1 .. Len(stack) : n = Len(stack)
  BY <1>1, TopFrameFacts
<1>3. PICK s \in Subgoals, from \in Places, c \in Nat :
        s = stack[n].goal /\ from = stack[n].from /\ c = stack[n].curr
  BY <1>1, FrameFacts
<1>4. c \in 1 .. Len(answers[s]) /\ answers[s] \in Seq(Answers)
  <2>1. answers[s] \in Seq(Answers)
    BY <1>1 DEF TypeInv, TypeOK
  <2>2. c /= 0 /\ c <= Len(answers[s])
    BY <1>1, <1>2, <1>3 DEF CursorInv, TopFrame
  <2> QED
    BY <1>3, <2>1, <2>2
<1>5. PICK a \in Answers : a = answers[s][c] /\ a \in prog.model[s]
  <2>1. answers[s][c] \in Answers /\ answers[s][c] \in ToSet(answers[s])
    BY <1>4 DEF ToSet
  <2> QED
    BY <1>1, <2>1 DEF Sound
<1>6. PICK h \in Places :
        /\ h = Resume(from, a)
        /\ h.ar = from.ar /\ h.clause = from.clause
        /\ h.seen = Append(from.seen, a)
  <2>1. from.seen \in Seq(Answers)
    BY DEF Places
  <2>2. Resume(from, a) \in Places
    BY <2>1, SMTT(60) DEF Resume, Places
  <2>3. /\ Resume(from, a).ar = from.ar /\ Resume(from, a).clause = from.clause
        /\ Resume(from, a).seen = Append(from.seen, a)
    BY DEF Resume, Places
  <2> QED
    BY <2>2, <2>3
<1>7. /\ PlaceOK(from, n - 1)
      /\ Len(from.seen) < Len(Body(from))
      /\ Body(from)[Len(from.seen) + 1].goal = s
  BY <1>1, <1>3 DEF PlaceInv, FromOK
<1>8. Body(h) = Body(from)
  BY <1>6 DEF Body
<1>9. PICK b \in Seq(Goals) : b = Body(from)
  <2>1. n - 1 \in 0 .. Len(stack)
    BY <1>2
  <2> QED
    BY <1>1, <1>7, <2>1, BodyFacts
<1>10. PlaceOK(h, h.ar)
  <2>1. h.ar \in 0 .. h.ar
    BY DEF Places
  <2>2. /\ from.seen \in Seq(Answers)
        /\ Len(h.seen) = Len(from.seen) + 1
        /\ \A i \in 1 .. Len(from.seen) : h.seen[i] = from.seen[i]
        /\ h.seen[Len(from.seen) + 1] = a
    BY <1>6 DEF Places
  <2>3. \A i \in 1 .. Len(from.seen) + 1 :
          i \in 1 .. Len(from.seen) \/ i = Len(from.seen) + 1
    BY <2>2
  <2>4. \A i \in 1 .. Len(h.seen) : h.seen[i] \in prog.model[Body(h)[i].goal]
    BY <1>5, <1>7, <1>8, <2>2, <2>3 DEF PlaceOK
  <2>5. Len(h.seen) <= Len(Body(h))
    BY <1>7, <1>8, <1>9, <2>2
  <2>6. h.ar /= QueryFrame => h.clause \in 1 .. NClauses(stack[h.ar].goal)
    BY <1>6, <1>7 DEF PlaceOK
  <2> QED
    BY <2>1, <2>4, <2>5, <2>6 DEF PlaceOK
<1>11. from.ar \in 0 .. n - 1
  BY <1>7 DEF PlaceOK
<1> QED
  BY <1>2, <1>3, <1>5, <1>6, <1>10, <1>11 DEF TopFrame

(* The caller runs on over a stack of m frames.                            *)
LEMMA ConsumeTo ==
  ASSUME IInv, NEW h \in Places, NEW m \in 0 .. Len(stack),
         PlaceOK(h, h.ar), h.ar <= m, here' = h, pc' = "run",
         stack' \in Seq(Frames), Len(stack') = m,
         \A f \in 1 .. m :
           /\ stack'[f].goal = stack[f].goal
           /\ stack'[f].from = stack[f].from
           /\ stack'[f].curr <= Len(answers[stack[f].goal])
           /\ stack'[f].alt = 0 => top'[stack[f].goal] /= f,
         top' \in [Subgoals -> Nat \cup {COMPLETE, TEMP_COMPLETE}],
         \A t \in Subgoals : top'[t] > 0 => top'[t] = top[t] /\ top[t] <= m,
         UNCHANGED <<answers, bits, root, elms, prog, query, got, queries,
                     throws>>
  PROVE  IInv'
<1>1. TypeInv /\ PlaceInv /\ MasterInv /\ Sound
  BY DEF IInv
<1>2. TypeInv'
  BY <1>1 DEF TypeInv, TypeOK
<1>3. (\A f \in 1 .. m : FromOK(f)') /\ CursorInv' /\ MasterInv'
  BY <1>1, StackStep
<1>4. Sound'
  BY <1>1 DEF Sound
<1>5. PICK k \in Nat : k = h.ar
  BY DEF Places
<1>6. PlaceOK(h, k)'
  <2>1. k \in 0 .. Len(stack) /\ k <= Len(stack') /\ \A f \in 1 .. k : f \in 1 .. m
    BY <1>1, <1>5, SMTT(60) DEF TypeInv, TypeOK
  <2>2. SameBelow(k)
    BY <2>1 DEF SameBelow
  <2> QED
    BY <1>5, <2>2, PlaceSurvives
<1>7. PlaceOK(here, Len(stack))'
  <2>1. h.ar \in 0 .. m
    BY <1>5
  <2> QED
    BY <1>6, <2>1 DEF PlaceOK, Body, NClauses
<1> QED
  BY <1>2, <1>3, <1>4, <1>7 DEF IInv, PlaceInv

LEMMA ConsumeStep ==
  ASSUME IInv, table_consume
  PROVE  IInv'
<1>1. /\ Backtracks /\ stack /= << >>
      /\ TopFrame.alt = 0 /\ TopFrame.curr /= 0 /\ pc' = "run"
      /\ UNCHANGED <<answers, bits, root, elms, prog, query, got, queries,
                     throws>>
  BY DEF table_consume, Backtracks, queryVars
<1>2. TypeInv /\ PlaceInv /\ CursorInv /\ MasterInv
  BY DEF IInv
<1>3. /\ stack \in Seq(Frames) /\ Len(stack) \in Nat
      /\ Len(stack) \in 1 .. Len(stack)
      /\ top \in [Subgoals -> Nat \cup {COMPLETE, TEMP_COMPLETE}]
  BY <1>1, <1>2, TopFrameFacts DEF TypeInv, TypeOK
<1>4. PICK s \in Subgoals, from \in Places, h \in Places :
        /\ s = TopFrame.goal /\ from = TopFrame.from
        /\ h = Resume(from, answers[s][TopFrame.curr])
        /\ from.ar \in 0 .. Len(stack) - 1
        /\ h.ar = from.ar /\ PlaceOK(h, h.ar)
  BY <1>1, <1>2, TopFrameFacts, ResumeFacts
<1>5. here' = h
  BY <1>4 DEF table_consume
<1>6. PICK n \in Nat : n = Len(stack) /\ n - 1 \in 0 .. n /\ from.ar <= n - 1
  BY <1>3, <1>4
<1>7. \A f \in 1 .. n : /\ stack[f].curr <= Len(answers[stack[f].goal])
                        /\ stack[f].alt = 0 => top[stack[f].goal] /= f
  BY <1>2, <1>6 DEF CursorInv, MasterInv
<1>8. ASSUME NEW m \in 0 .. n, from.ar <= m, stack' = Keep(m),
             top' \in [Subgoals -> Nat \cup {COMPLETE, TEMP_COMPLETE}],
             \A t \in Subgoals : top'[t] = top[t] \/ top'[t] = NULL,
             \A t \in Subgoals : top'[t] > 0 => top'[t] = top[t] /\ top[t] <= m
      PROVE  IInv'
  <2>1. /\ stack' \in Seq(Frames) /\ Len(stack') = m
        /\ \A i \in 1 .. m : stack'[i] = stack[i]
    BY <1>3, <1>6, <1>8, KeepFacts
  <2>2. ASSUME NEW f \in 1 .. m
        PROVE  /\ stack'[f].goal = stack[f].goal
               /\ stack'[f].from = stack[f].from
               /\ stack'[f].curr <= Len(answers[stack[f].goal])
               /\ stack'[f].alt = 0 => top'[stack[f].goal] /= f
    <3>1. stack'[f] = stack[f] /\ f \in 1 .. n /\ f /= NULL
      BY <1>6, <1>8, <2>1 DEF NULL
    <3>2. stack[f].goal \in Subgoals
      BY <1>2, <1>6, <3>1, FrameFacts
    <3> QED
      BY <1>7, <1>8, <3>1, <3>2
  <2>3. m \in 0 .. Len(stack) /\ h.ar <= m
    BY <1>4, <1>6, <1>8
  <2> QED
    BY <1>1, <1>4, <1>5, <1>8, <2>1, <2>2, <2>3, ConsumeTo
<1>9. CASE /\ top[s] = COMPLETE /\ NextAnswer(s, TopFrame.curr) = 0
           /\ stack' = Keep(Len(stack) - 1) /\ UNCHANGED top
  <2>1. \A t \in Subgoals : top[t] > 0 => top[t] <= n /\ stack[top[t]].goal = t
    BY <1>2, <1>6 DEF MasterInv, MasterIsOnStack
  <2>2. top[s] /= n
    BY <1>1, <1>4, <1>6, <1>7, <1>9 DEF COMPLETE
  <2>3. stack[n].goal = s
    BY <1>4, <1>6 DEF TopFrame
  <2>4. ASSUME NEW t \in Subgoals, top[t] > 0
        PROVE  top[t] <= n - 1
    <3>1. top[t] <= n /\ top[t] /= n /\ top[t] \in Int
      BY <1>2, <2>1, <2>2, <2>3, <2>4, TopFacts
    <3> QED
      BY <1>6, <3>1
  <2> QED
    BY <1>3, <1>6, <1>8, <1>9, <2>4
<1>10. CASE /\ stack' = [stack EXCEPT ![Len(stack)].curr =
                           NextAnswer(s, TopFrame.curr)]
            /\ UNCHANGED top
  <2>1. answers[s] \in Seq(Answers) /\ TopFrame.curr \in Nat
    BY <1>2, <1>3, <1>4, FrameFacts DEF TypeInv, TypeOK, TopFrame
  <2>2. PICK v \in Nat : v = NextAnswer(s, TopFrame.curr) /\ v <= Len(answers[s])
    BY <2>1 DEF NextAnswer
  <2>3. PICK f \in 1 .. Len(stack) : f = n
    BY <1>3, <1>6
  <2>4. stack' = SetCurr(stack, f, v)
    BY <1>6, <1>10, <2>2, <2>3 DEF SetCurr
  <2>5. /\ stack' \in Seq(Frames) /\ Len(stack') = Len(stack)
        /\ \A i \in 1 .. Len(stack) :
             /\ stack'[i].goal = stack[i].goal /\ stack'[i].from = stack[i].from
             /\ stack'[i].alt = stack[i].alt
             /\ stack'[i].curr = IF i = f THEN v ELSE stack[i].curr
    BY <1>3, <2>4, SetCurrFacts
  <2>6. ASSUME NEW i \in 1 .. Len(stack)
        PROVE  /\ stack'[i].curr <= Len(answers[stack[i].goal])
               /\ stack'[i].alt = 0 => top'[stack[i].goal] /= i
    <3>1. stack[n].goal = s
      BY <1>4, <1>6 DEF TopFrame
    <3>2. CASE i = n
      BY <1>6, <1>7, <1>10, <2>2, <2>3, <2>5, <3>1, <3>2
    <3>3. CASE i /= n
      BY <1>6, <1>7, <1>10, <2>3, <2>5, <3>3
    <3> QED
      BY <3>2, <3>3
  <2>7. \A t \in Subgoals : top'[t] > 0 => top'[t] = top[t] /\ top[t] <= Len(stack)
    BY <1>2, <1>10 DEF MasterInv, MasterIsOnStack
  <2>8. PICK m \in 0 .. Len(stack) : m = Len(stack) /\ h.ar <= m
    BY <1>3, <1>4, <1>6
  <2>9. /\ stack' \in Seq(Frames) /\ Len(stack') = m
        /\ \A i \in 1 .. m :
             /\ stack'[i].goal = stack[i].goal
             /\ stack'[i].from = stack[i].from
             /\ stack'[i].curr <= Len(answers[stack[i].goal])
             /\ stack'[i].alt = 0 => top'[stack[i].goal] /= i
    BY <2>5, <2>6, <2>8
  <2>10. /\ top' \in [Subgoals -> Nat \cup {COMPLETE, TEMP_COMPLETE}]
         /\ \A t \in Subgoals : top'[t] > 0 => top'[t] = top[t] /\ top[t] <= m
    BY <1>3, <1>10, <2>7, <2>8
  <2> QED
    BY <1>1, <1>4, <1>5, <2>8, <2>9, <2>10, ConsumeTo
<1>11. CASE top' = RollTop(Len(stack) - 1) /\ stack' = Keep(Len(stack) - 1)
  <2>1. Len(stack) - 1 \in 0 .. Len(stack)
    BY <1>6
  <2> QED
    BY <1>2, <1>6, <1>8, <1>11, <2>1, RollFacts
<1>12. CASE /\ Body(from)[Len(from.seen) + 1].mode = "commit"
            /\ top' = RollTop(from.ar)
            /\ stack' = [Keep(from.ar) EXCEPT ![from.ar].alt =
                           NClauses(stack[from.ar].goal) + 1]
  <2>1. from.ar /= QueryFrame
    <3> SUFFICES ASSUME from.ar = QueryFrame PROVE FALSE
      OBVIOUS
    <3>1. Body(from) = <<query>>
      BY DEF Body
    <3>2. PlaceOK(from, n - 1) /\ Len(from.seen) < Len(Body(from))
      BY <1>2, <1>3, <1>4, <1>6 DEF PlaceInv, FromOK, TopFrame
    <3>3. Len(from.seen) = 0
      BY <3>1, <3>2 DEF Places
    <3>4. query.mode = "commit" /\ query.mode \in QueryModes
      BY <1>2, <1>12, <3>1, <3>3 DEF TypeInv, TypeOK
    <3> QED
      BY <3>4, BoundsAssumption
  <2>2. PICK m \in 1 .. n : m = from.ar /\ m \in 0 .. Len(stack)
    BY <1>4, <1>6, <2>1 DEF QueryFrame
  <2>3. /\ Keep(m) \in Seq(Frames) /\ Len(Keep(m)) = m
        /\ \A i \in 1 .. m : Keep(m)[i] = stack[i]
    BY <1>3, <2>2, KeepFacts
  <2>4. PICK v \in Nat : v = NClauses(stack[m].goal) + 1 /\ v /= 0
    <3>1. stack[m].goal \in Subgoals
      BY <1>2, <1>6, <2>2, FrameFacts
    <3>2. prog.rules[stack[m].goal] \in Seq(Clauses)
      BY <1>2, <3>1, ProgramFacts
    <3> QED
      BY <3>2 DEF NClauses
  <2>5. PICK q \in Seq(Frames) : q = Keep(m)
    BY <2>3
  <2>6. PICK f \in 1 .. Len(q) : f = m
    BY <2>2, <2>3, <2>5
  <2>7. /\ stack' \in Seq(Frames) /\ Len(stack') = m
        /\ \A i \in 1 .. m :
             /\ stack'[i].goal = q[i].goal /\ stack'[i].from = q[i].from
             /\ stack'[i].curr = q[i].curr
             /\ stack'[i].alt = IF i = m THEN v ELSE q[i].alt
    <3>1. stack' = SetAlt(q, f, v)
      BY <1>12, <2>2, <2>4, <2>5, <2>6 DEF SetAlt
    <3> QED
      BY <2>3, <2>5, <2>6, <3>1, SetAltFacts
  <2>8. /\ top' \in [Subgoals -> Nat \cup {COMPLETE, TEMP_COMPLETE}]
        /\ \A t \in Subgoals : top'[t] = top[t] \/ top'[t] = NULL
        /\ \A t \in Subgoals : top'[t] > 0 => top'[t] = top[t] /\ top[t] <= m
    BY <1>2, <1>12, <2>2, RollFacts
  <2>9. ASSUME NEW i \in 1 .. m
        PROVE  /\ stack'[i].goal = stack[i].goal
               /\ stack'[i].from = stack[i].from
               /\ stack'[i].curr <= Len(answers[stack[i].goal])
               /\ stack'[i].alt = 0 => top'[stack[i].goal] /= i
    <3>1. /\ stack'[i].goal = stack[i].goal /\ stack'[i].from = stack[i].from
          /\ stack'[i].curr = stack[i].curr
          /\ stack'[i].alt = 0 => stack[i].alt = 0
      BY <2>3, <2>4, <2>5, <2>7
    <3>2. i \in 1 .. n /\ i /= NULL
      BY <2>2 DEF NULL
    <3>3. stack[i].goal \in Subgoals
      BY <1>2, <1>6, <3>2, FrameFacts
    <3> QED
      BY <1>7, <2>8, <3>1, <3>2, <3>3
  <2>10. Len(stack') = m /\ h.ar <= m
    BY <1>4, <2>2, <2>3, <2>5, <2>7
  <2> QED
    BY <1>1, <1>4, <1>5, <2>2, <2>7, <2>8, <2>9, <2>10, ConsumeTo
<1> QED
  BY <1>4, <1>9, <1>10, <1>11, <1>12 DEF table_consume

LEMMA PropagateFacts ==
  ASSUME TypeInv, NEW s \in Subgoals, NEW caller \in 0 .. Len(stack),
         NEW r \in Subgoals, propagate_scc_root(s, caller, r)
  PROVE  /\ bits' \in [Subgoals -> SUBSET Bits]
         /\ root' \in [Subgoals -> Subgoals]
         /\ elms' \in [Subgoals -> Seq(Subgoals)]
<1>1. /\ bits \in [Subgoals -> SUBSET Bits]
      /\ root \in [Subgoals -> Subgoals]
      /\ elms \in [Subgoals -> Seq(Subgoals)]
  BY DEF TypeInv, TypeOK
<1>2. CASE caller = QueryFrame
  BY <1>1, <1>2 DEF propagate_scc_root
<1>3. CASE caller /= QueryFrame
  <2>1. caller \in 1 .. Len(stack)
    BY <1>3 DEF QueryFrame
  <2>2. PICK s0 \in Subgoals : s0 = stack[caller].goal
    BY <2>1, FrameFacts
  <2>3. "revised" \in Bits
    BY DEF Bits
  <2>4. <<s0>> \o elms[r] \in Seq(Subgoals)
    BY <1>1
  <2>5. /\ \/ UNCHANGED bits
           \/ bits' = [bits EXCEPT ![s0] = @ \cup {"revised"}]
        /\ UNCHANGED elms \/ elms' = [elms EXCEPT ![r] = <<s0>> \o @]
        /\ UNCHANGED root \/ root' = [root EXCEPT ![s0] = r]
    BY <1>3, <2>2 DEF propagate_scc_root
  <2>6. bits' \in [Subgoals -> SUBSET Bits]
    <3>1. bits[s0] \cup {"revised"} \in SUBSET Bits
      BY <1>1, <2>3
    <3>2. CASE bits' = [bits EXCEPT ![s0] = @ \cup {"revised"}]
      BY <1>1, <3>1, <3>2
    <3> QED
      BY <1>1, <2>5, <3>2
  <2>7. root' \in [Subgoals -> Subgoals]
    BY <1>1, <2>5
  <2>8. elms' \in [Subgoals -> Seq(Subgoals)]
    <3>1. CASE elms' = [elms EXCEPT ![r] = <<s0>> \o @]
      BY <1>1, <2>4, <3>1
    <3> QED
      BY <1>1, <2>5, <3>1
  <2> QED
    BY <2>6, <2>7, <2>8
<1> QED
  BY <1>2, <1>3

LEMMA ConsumeFailStep ==
  ASSUME IInv, table_consume_fail
  PROVE  IInv'
<1>1. /\ pc = "back" /\ stack /= << >> /\ TopFrame.alt = 0
      /\ stack' = Keep(Len(stack) - 1)
      /\ UNCHANGED <<answers, top, here, pc, prog, query, got, queries, throws>>
  BY DEF table_consume_fail, Backtracks, queryVars
<1>2. TypeInv /\ PlaceInv /\ CursorInv /\ MasterInv /\ Sound
  BY DEF IInv
<1>3. PICK n \in Nat, s \in Subgoals :
        /\ n = Len(stack) /\ n \in 1 .. Len(stack) /\ s = TopFrame.goal
        /\ n - 1 \in 0 .. n /\ stack \in Seq(Frames)
  BY <1>1, <1>2, TopFrameFacts
<1>4. /\ bits' \in [Subgoals -> SUBSET Bits]
      /\ root' \in [Subgoals -> Subgoals]
      /\ elms' \in [Subgoals -> Seq(Subgoals)]
  <2>1. CASE UNCHANGED <<bits, root, elms>>
    BY <1>2, <2>1 DEF TypeInv, TypeOK
  <2>2. ASSUME NEW r \in LiveRoots(s),
               propagate_scc_root(s, TopFrame.from.ar, r)
        PROVE  /\ bits' \in [Subgoals -> SUBSET Bits]
               /\ root' \in [Subgoals -> Subgoals]
               /\ elms' \in [Subgoals -> Seq(Subgoals)]
    <3>1. r \in Subgoals
      BY DEF LiveRoots, RootChain
    <3>2. TopFrame.from.ar \in 0 .. n - 1
      BY <1>2, <1>3 DEF PlaceInv, FromOK, PlaceOK, TopFrame
    <3>3. PICK caller \in 0 .. Len(stack) : caller = TopFrame.from.ar
      BY <1>3, <3>2
    <3> QED
      BY <1>2, <2>2, <3>1, <3>3, PropagateFacts
  <2> QED
    BY <1>3, <2>1, <2>2 DEF table_consume_fail
<1>5. /\ stack' \in Seq(Frames) /\ Len(stack') = n - 1
      /\ \A i \in 1 .. n - 1 : stack'[i] = stack[i]
  BY <1>1, <1>3, KeepFacts
<1>6. TypeInv'
  BY <1>1, <1>2, <1>4, <1>5 DEF TypeInv, TypeOK
<1>7. \A f \in 1 .. n : /\ stack[f].curr <= Len(answers[stack[f].goal])
                        /\ stack[f].alt = 0 => top[stack[f].goal] /= f
  BY <1>2, <1>3 DEF CursorInv, MasterInv
<1>8. ASSUME NEW t \in Subgoals, top[t] > 0
      PROVE  top[t] <= n - 1
  <2>1. top[t] <= n /\ stack[top[t]].goal = t /\ top[t] \in Int
    BY <1>2, <1>3, <1>8, TopFacts DEF MasterInv, MasterIsOnStack
  <2>2. stack[n].goal = s /\ stack[n].alt = 0
    BY <1>1, <1>3 DEF TopFrame
  <2>3. top[t] /= n
    BY <1>3, <1>7, <2>1, <2>2
  <2> QED
    BY <1>3, <2>1, <2>3
<1>9. PICK m \in 0 .. Len(stack) : m = n - 1 /\ \A f \in 1 .. m : f \in 1 .. n
  BY <1>3
<1>10. (\A f \in 1 .. m : FromOK(f)') /\ CursorInv' /\ MasterInv'
  BY <1>1, <1>2, <1>5, <1>7, <1>8, <1>9, StackStep
<1>11. Sound'
  BY <1>1, <1>2 DEF Sound
<1> QED
  BY <1>1, <1>5, <1>6, <1>9, <1>10, <1>11 DEF IInv, PlaceInv

-----------------------------------------------------------------------------
(* The steps that empty the stack or find it empty.                        *)
LEMMA EmptyStack ==
  ASSUME TypeInv, PlaceInv, stack' = << >>, pc' /= "run",
         \A t \in Subgoals : ~ (top'[t] > 0)
  PROVE  PlaceInv' /\ CursorInv' /\ MasterInv'
<1>1. Len(stack') = 0 /\ \A f \in 1 .. Len(stack') : FALSE
  OBVIOUS
<1>2. PlaceInv' /\ CursorInv'
  BY <1>1 DEF PlaceInv, CursorInv
<1>3. MasterInv'
  BY <1>1 DEF MasterInv, MasterIsOnStack
<1> QED
  BY <1>2, <1>3

LEMMA NoFrameNoMaster ==
  ASSUME TypeInv, MasterInv, stack = << >>
  PROVE  \A t \in Subgoals : ~ (top[t] > 0)
<1> SUFFICES ASSUME NEW t \in Subgoals, top[t] > 0 PROVE FALSE
  OBVIOUS
<1>1. top[t] \in Int
  BY TopFacts
<1>2. top[t] <= Len(stack)
  BY DEF MasterInv, MasterIsOnStack
<1>3. Len(stack) = 0
  OBVIOUS
<1> QED
  BY <1>1, <1>2, <1>3

LEMMA EndQueryStep ==
  ASSUME IInv, EndQuery
  PROVE  IInv'
<1>1. TypeInv /\ PlaceInv /\ MasterInv /\ Sound
  BY DEF IInv
<1>2. TypeInv' /\ Sound'
  BY <1>1 DEF TypeInv, TypeOK, Sound, EndQuery, tableVars, queryVars
<1>3. PlaceInv' /\ CursorInv' /\ MasterInv'
  <2>1. \A t \in Subgoals : ~ (top'[t] > 0)
    BY <1>1, NoFrameNoMaster DEF EndQuery, tableVars
  <2> QED
    BY <1>1, <2>1, EmptyStack DEF EndQuery
<1> QED
  BY <1>2, <1>3 DEF IInv

LEMMA ThrowStep ==
  ASSUME IInv, Throw
  PROVE  IInv'
<1>1. TypeInv /\ PlaceInv /\ MasterInv /\ Sound
  BY DEF IInv
<1>2. /\ top' = RESET_SUBGOAL_AR /\ stack' = << >> /\ pc' = "idle"
      /\ throws' = throws + 1 /\ throws < MaxThrows
      /\ UNCHANGED <<answers, bits, root, elms, here, prog, query, got, queries>>
  BY DEF Throw
<1>3. /\ top \in [Subgoals -> Nat \cup {COMPLETE, TEMP_COMPLETE}]
      /\ stack \in Seq(Frames) /\ throws \in 0 .. MaxThrows
  BY <1>1 DEF TypeInv, TypeOK
<1>4. top' \in [Subgoals -> Nat \cup {COMPLETE, TEMP_COMPLETE}]
  BY <1>2, <1>3 DEF RESET_SUBGOAL_AR, UnwindMembers, NULL
<1>5. throws' \in 0 .. MaxThrows
  BY <1>2, <1>3, BoundsAssumption
<1>6. TypeInv' /\ Sound'
  <2>1. stack' \in Seq(Frames)
    BY <1>2
  <2> QED
    BY <1>1, <1>2, <1>4, <1>5, <2>1 DEF TypeInv, TypeOK, Sound
<1>7. ASSUME NEW t \in Subgoals
      PROVE  ~ (top'[t] > 0)
  <2>1. CASE t \in Unwound
    BY <1>2, <2>1 DEF RESET_SUBGOAL_AR, NULL
  <2>2. CASE t \notin Unwound
    <3>1. top'[t] = top[t] \/ top'[t] = NULL
      BY <1>2, <2>2 DEF RESET_SUBGOAL_AR, UnwindMembers
    <3>2. top[t] \in Int
      BY <1>1, TopFacts
    <3>3. ~ (top[t] > 0)
      <4> SUFFICES ASSUME top[t] > 0 PROVE FALSE
        OBVIOUS
      <4>1. top[t] <= Len(stack) /\ stack[top[t]].goal = t
        BY <1>1 DEF MasterInv, MasterIsOnStack
      <4>2. top[t] \in 1 .. Len(stack) /\ top[t] /= COMPLETE
        BY <1>3, <3>2, <4>1 DEF COMPLETE
      <4> QED
        BY <2>2, <4>1, <4>2 DEF Unwound
    <3> QED
      BY <3>1, <3>2, <3>3 DEF NULL
  <2> QED
    BY <2>1, <2>2
<1>8. PlaceInv' /\ CursorInv' /\ MasterInv'
  BY <1>1, <1>2, <1>7, EmptyStack
<1> QED
  BY <1>6, <1>8 DEF IInv

LEMMA InitializeStep ==
  ASSUME IInv, c_INITIALIZE_TABLE
  PROVE  IInv'
<1>1. TypeInv /\ PlaceInv
  BY DEF IInv
<1>2. /\ pc = "idle"
      /\ answers' = [s \in Subgoals |-> << >>]
      /\ top' = [s \in Subgoals |-> NULL]
      /\ bits' = [s \in Subgoals |-> {}]
      /\ root' = [s \in Subgoals |-> s]
      /\ elms' = [s \in Subgoals |-> << >>]
      /\ UNCHANGED <<stack, here, pc, prog, query, got, queries, throws>>
  BY DEF c_INITIALIZE_TABLE, queryVars
<1>3. TypeInv'
  BY <1>1, <1>2 DEF TypeInv, TypeOK, NULL
<1>4. Sound'
  BY <1>2, ToSetEmpty DEF Sound
<1>5. PlaceInv' /\ CursorInv' /\ MasterInv'
  <2>1. stack' = << >> /\ \A t \in Subgoals : ~ (top'[t] > 0)
    BY <1>1, <1>2, SMTT(60) DEF PlaceInv, NULL
  <2> QED
    BY <1>1, <1>2, <2>1, EmptyStack
<1> QED
  BY <1>3, <1>4, <1>5 DEF IInv

LEMMA StutterStep ==
  ASSUME IInv, UNCHANGED vars
  PROVE  IInv'
BY ZenonT(60) DEF vars, IInv, TypeInv, TypeOK, PlaceInv, PlaceOK, FromOK, Body, NClauses,
       CursorInv, Sound, MasterInv, MasterIsOnStack

-----------------------------------------------------------------------------
(* Every step of the machine preserves the invariant.                      *)
LEMMA NextStep == IInv /\ [Next]_vars => IInv'
<1> SUFFICES ASSUME IInv, [Next]_vars PROVE IInv'
  OBVIOUS
<1>1. ASSUME NEW goal \in [goal : Subgoals, mode : QueryModes], Query(goal)
      PROVE  IInv'
  BY <1>1, QueryStep
<1>2. CASE Evaluate
  BY <1>2, AllocateStep, ProduceStep, DeliverStep, TryClauseStep,
     CheckCompletionStep, ConsumeStep, ConsumeFailStep, EndQueryStep
  DEF Evaluate
<1>3. CASE Throw
  BY <1>3, ThrowStep
<1>4. CASE c_INITIALIZE_TABLE
  BY <1>4, InitializeStep
<1>5. CASE UNCHANGED vars
  BY <1>5, StutterStep
<1> QED
  BY <1>1, <1>2, <1>3, <1>4, <1>5 DEF Next

(* The strengthened invariant holds always: every place is in a clause of  *)
(* a frame below it and has taken answers of the model only.               *)
THEOREM Invariance == Spec => []IInv
<1>1. Init => IInv
  BY InitIInv
<1>2. IInv /\ [Next]_vars => IInv'
  BY NextStep
<1> QED
  BY <1>1, <1>2, PTL DEF Spec

(* The words of the table entries, frames and places stay of their types.  *)
THEOREM TypeCorrect == Spec => []TypeOK
<1>1. IInv => TypeOK
  BY DEF IInv, TypeInv
<1> QED
  BY <1>1, Invariance, PTL

(* table_produce never stores an answer that the program does not entail,  *)
(* whatever once/1 and committing rules cut, whatever is thrown, and       *)
(* however many rounds the root of the SCC runs.                           *)
THEOREM Soundness == Spec => []Sound
<1>1. IInv => Sound
  BY DEF IInv
<1> QED
  BY <1>1, Invariance, PTL

(* GT_TOP_AR never dangles: ROLL_CHOICE_POINTS and RESET_SUBGOAL_AR        *)
(* forget every pioneer that a cut or an exception takes off the stack,    *)
(* and table_consume drops no frame that is one.                           *)
THEOREM MastersStay == Spec => []MasterIsOnStack
<1>1. IInv => MasterIsOnStack
  BY DEF IInv, MasterInv
<1> QED
  BY <1>1, Invariance, PTL
=============================================================================

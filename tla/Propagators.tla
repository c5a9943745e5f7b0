----------------------------- MODULE Propagators -----------------------------
(***************************************************************************)
(* Linear constraints over domain variables: the agents that a constraint  *)
(* is compiled to, their bodies, and the events by which they wake each    *)
(* other until nothing changes (emu/clpfd_libs.c, clpfd.c, clpfd.h,        *)
(* emu_inst.h).                                                            *)
(*                                                                         *)
(* An equation of three or more unbound variables is one agent that keeps  *)
(* bounds; of two, four agents that keep each variable consistent with the *)
(* other, bounds first and inner values then.  An inequality is one agent. *)
(* A program posts its constraints in order; wherever nothing is left to   *)
(* do it may also label a variable or take a value out.  Failing ends the  *)
(* run: Agents and Domains are about backtracking.                         *)
(***************************************************************************)
EXTENDS Integers, Sequences, FiniteSets, SequencesExt, FiniteSetsExt, Subsequences

CONSTANTS
  Programs,     \* initial domains and constraints; an equation of boolean variables has
                \* coefficients 1 and -1, or of both signs
  MaxTriggers,  \* size of the arrays that hold the events (basic.h: MAXTRIGGERS); as slot 0
                \* is not used, they have room for one less
  Spare,        \* the ports whose events, written one past the arrays, hit nothing that the
                \* build has laid there
  MaxExcludes   \* bound: number of values that the program takes out

ASSUME PropagatorsAssumption ==
  /\ MaxTriggers \in Nat \ {0} /\ Spare \subseteq {"ins", "minmax", "dom"} /\ MaxExcludes \in Nat
  /\ \A p \in Programs :
       /\ p.dom \in [DOMAIN p.dom -> SUBSET Int]
       /\ \A x \in DOMAIN p.dom : IsFiniteSet(p.dom[x]) /\ Cardinality(p.dom[x]) > 1
       /\ p.posts \in Seq([rel : {"eq", "ge"}, c : Int,
                           terms : Seq([a : Int \ {0}, x : DOMAIN p.dom])])
       /\ \A k \in DOMAIN p.posts : LET terms == p.posts[k].terms IN
            \A i, j \in DOMAIN terms : terms[i].x = terms[j].x => i = j

VARIABLES
  program,   \* what is posted: c + a1*x1 + ... + an*xn = 0, or >= 0
  posted,    \* number of constraints posted
  store,     \* domains, attached agents, event queue
  jobs,      \* the agents, oldest first: what each propagates
  status,    \* their AR_STATUS
  chain,     \* the active chain, the running activation last
  excludes,  \* number of values that the program has taken out
  solutions  \* history: the assignments that satisfy what the program has posted and done

vars == <<program, posted, store, jobs, status, chain, excludes, solutions>>

Vars == DOMAIN program.dom
Ports == {"ins", "minmax", "dom"}
NoSeed == 0
NoElm == "none"

-----------------------------------------------------------------------------
(* Domains and events.                                                     *)

Bound(s, x) == Cardinality(s.dom[x]) = 1
Ascending(D) == [i \in 1 .. Max(D) - Min(D) + 1 |-> Min(D) + i - 1]
IsHoled(D) == D /= Min(D) .. Max(D)
Failed(s) == [s EXCEPT !.state = "failed"]

\* The slots are 1 .. MaxTriggers - 1; the code takes one event more.
HasSlot(n, port) == n < MaxTriggers \/ (n = MaxTriggers /\ port \in Spare)

\* An event that nobody listens to is not posted; when the test finds the queue full a dom
\* event is ignored and any other ends the program.  The event before that is written past
\* the arrays: unless what lies there is spare, the state that follows is not defined.  A dom
\* event leaves triggering_frame[] alone, whose last word, if it is not spare, is read all the
\* same; nothing that the build may have there is a frame's address.
Post(s, x, port, elm, seed) ==
  LET n == Len(s.queue) + 1
  IN IF s.cs[x, port] = <<>> THEN s
     ELSE IF n = MaxTriggers /\ port \notin Spare THEN [s EXCEPT !.state = "overrun"]
     ELSE IF HasSlot(n, port)
     THEN [s EXCEPT !.queue = Append(@, [var |-> x, port |-> port, elm |-> elm]),
                    !.seeds = IF port = "dom" THEN @ ELSE [@ EXCEPT ![n] = seed]]
     ELSE IF port = "dom" THEN s ELSE [s EXCEPT !.state = "quit"]

ASSIGN_DVAR(s, x, v) == Post([s EXCEPT !.dom[x] = {v}], x, "ins", NoElm, NoSeed)

\* Mutant: the events are posted also when the bounds stay.
RegionAlways(s, x, lo, hi, seed) ==
  LET left == {e \in s.dom[x] : lo <= e /\ e <= hi}
  IN IF left = {} THEN Failed(s)
     ELSE IF Bound(s, x) THEN s
     ELSE IF Cardinality(left) = 1 THEN ASSIGN_DVAR(s, x, Min(left))
     ELSE Post(Post([s EXCEPT !.dom[x] = left], x, "minmax", NoElm, NoSeed), x, "minmax", NoElm, seed)

\* CALL_DOMAIN_REGION, domain_region: the bounds move with two events, the second of which
\* names the propagator that moved them.
Region(s, x, lo, hi, seed) ==
  LET left == {e \in s.dom[x] : lo <= e /\ e <= hi}
  IN IF left = {} THEN Failed(s)
     ELSE IF left = s.dom[x] THEN s
     ELSE IF Cardinality(left) = 1 THEN ASSIGN_DVAR(s, x, Min(left))
     ELSE Post(Post([s EXCEPT !.dom[x] = left], x, "minmax", NoElm, NoSeed), x, "minmax", NoElm, seed)

\* domain_set_false: an inner value makes the interval a bit vector.
Exclude(s, x, v) ==
  LET left == s.dom[x] \ {v}
  IN IF left = s.dom[x] \/ Bound(s, x) THEN s
     ELSE IF Cardinality(left) = 1 THEN ASSIGN_DVAR(s, x, Min(left))
     ELSE IF v \in Min(left) .. Max(left)
     THEN Post([s EXCEPT !.dom[x] = left, !.bv = @ \cup {x}], x, "dom", v, NoSeed)
     ELSE Post([s EXCEPT !.dom[x] = left], x, "minmax", NoElm, NoSeed)

\* Steps of a loop over variables: one that is free is given a value, or loses one.
Assign(x, v) == [x |-> x, v |-> v, out |-> FALSE]
Drop(x, v) == [x |-> x, v |-> v, out |-> TRUE]

Do(s, step) ==
  IF Bound(s, step.x) THEN s
  ELSE IF ~step.out THEN ASSIGN_DVAR(s, step.x, step.v)
  ELSE IF s.state /= "ok" THEN s ELSE Exclude(s, step.x, step.v)

DoAll(s, steps) ==
  LET done[i \in 0 .. Len(steps)] == IF i = 0 THEN s ELSE Do(done[i - 1], steps[i])
  IN done[Len(steps)]

-----------------------------------------------------------------------------
(* Linear agents.  Every body gives the store, whether the agent kills its *)
(* frame, and what is posted in its place.                                 *)

Result(s, exit) == [s |-> s, exit |-> exit, todo |-> <<>>]

\* Mutant: an exact quotient is rounded up too.
UP_DIV_PAST(v, a) == v \div a + 1

UP_DIV(v, a) == -((-v) \div a)
LOW_DIV(v, a) == v \div a

Low(s, t) == IF t.a > 0 THEN t.a * Min(s.dom[t.x]) ELSE t.a * Max(s.dom[t.x])
Up(s, t) == IF t.a > 0 THEN t.a * Max(s.dom[t.x]) ELSE t.a * Min(s.dom[t.x])

\* c and the numbers of the sequence, added up
Total(c, numbers) ==
  LET sum[i \in 0 .. Len(numbers)] == IF i = 0 THEN c ELSE sum[i - 1] + numbers[i]
  IN sum[Len(numbers)]

\* COMPUTE_LOW_UPPER_BOUNDS: of c and the first i terms
LowTo(s, con, i) == Total(con.c, [j \in 1 .. i |-> Low(s, con.terms[j])])
UpTo(s, con, i) == Total(con.c, [j \in 1 .. i |-> Up(s, con.terms[j])])

\* first <= a*x <= last
Narrow(s, t, first, last, seed) ==
  IF t.a > 0 THEN Region(s, t.x, UP_DIV(first, t.a), LOW_DIV(last, t.a), seed)
  ELSE Region(s, t.x, UP_DIV(-last, -t.a), LOW_DIV(-first, -t.a), seed)

\* REDUCE_DOMAIN, from the last term to the first: acc.l..acc.u are the values of the sum of
\* the first i terms, which were l1..u1 without term i.  It stops early when that stays so.
ReduceEq(con, before, seed, acc, i) ==
  LET t == con.terms[i]
      l1 == LowTo(before, con, i - 1)
      u1 == UpTo(before, con, i - 1)
      s == Narrow(acc.s, t, acc.l - u1, acc.u - l1, seed)
      first == acc.l - Up(s, t)
      last == acc.u - Low(s, t)
      none == s.state = "ok" /\ Min({last, u1}) < Max({first, l1})
  IN IF acc.done THEN acc
     ELSE [s |-> IF none THEN Failed(s) ELSE s,
           l |-> Max({first, l1}), u |-> Min({last, u1}),
           done |-> s.state /= "ok" \/ none \/ (first <= l1 /\ u1 <= last)]

\* REDUCE_DOMAIN_GE: the sum of the first i terms is at least acc.l.
ReduceGe(con, before, seed, acc, i) ==
  LET t == con.terms[i]
      l1 == LowTo(before, con, i - 1)
      u1 == UpTo(before, con, i - 1)
      s == Narrow(acc.s, t, acc.l - u1, Up(acc.s, t), seed)
      first == acc.l - Up(s, t)
  IN IF acc.done THEN acc
     ELSE [s |-> s, l |-> first, done |-> s.state /= "ok" \/ first < l1]

\* nary_interval_consistent_eq, general case
IntervalEq(s, con, seed) ==
  LET n == Len(con.terms)
      acc[k \in 0 .. n] == IF k = 0 THEN [s |-> s, l |-> 0, u |-> 0, done |-> FALSE]
                           ELSE ReduceEq(con, s, seed, acc[k - 1], n + 1 - k)
  IN Result(acc[n].s, FALSE)

ReducedGe(s, con, seed) ==
  LET n == Len(con.terms)
      acc[k \in 0 .. n] == IF k = 0 THEN [s |-> s, l |-> 0, done |-> FALSE]
                           ELSE ReduceGe(con, s, seed, acc[k - 1], n + 1 - k)
  IN acc[n].s

\* Mutant: entailment is tested before the last term is added.
IntervalGeEarly(s, con, seed) ==
  LET n == Len(con.terms)
  IN IF LowTo(s, con, n - 1) >= 0 THEN Result(s, TRUE)
     ELSE IF UpTo(s, con, n) < 0 THEN Result(Failed(s), FALSE)
     ELSE Result(ReducedGe(s, con, seed), FALSE)

\* nary_interval_consistent_ge, general case
IntervalGe(s, con, seed) ==
  LET n == Len(con.terms)
  IN IF LowTo(s, con, n) >= 0 THEN Result(s, TRUE)
     ELSE IF UpTo(s, con, n) < 0 THEN Result(Failed(s), FALSE)
     ELSE Result(ReducedGe(s, con, seed), FALSE)

\* Sums of boolean variables: what the bound ones add up to, and the free ones by sign.
BoundSum(s, con) ==
  Total(con.c, [i \in DOMAIN con.terms |->
                  IF Bound(s, con.terms[i].x) THEN Low(s, con.terms[i]) ELSE 0])
Free(s, con) == {i \in DOMAIN con.terms : ~Bound(s, con.terms[i].x)}
Plus(s, con) == {i \in Free(s, con) : con.terms[i].a > 0}
Minus(s, con) == Free(s, con) \ Plus(s, con)

\* The free variables among ones become 1, the others 0.
BindAll(s, con, ones) ==
  DoAll(s, [i \in DOMAIN con.terms |-> Assign(con.terms[i].x, IF i \in ones THEN 1 ELSE 0)])

BooleanEq(s, con) ==
  LET v == BoundSum(s, con)
      plus == Plus(s, con)
      minus == Minus(s, con)
  IN IF v >= Cardinality(minus)
     THEN IF v > Cardinality(minus) THEN Result(Failed(s), FALSE)
          ELSE Result(BindAll(s, con, minus), TRUE)
     ELSE IF v <= -Cardinality(plus)
     THEN IF v < -Cardinality(plus) THEN Result(Failed(s), FALSE)
          ELSE Result(BindAll(s, con, plus), TRUE)
     ELSE Result(s, FALSE)

\* All coefficients are 1, or all are -1.
BooleanSumGe(s, con) ==
  LET least == BoundSum(s, con) - Cardinality(Minus(s, con))
      most == BoundSum(s, con) + Cardinality(Plus(s, con))
  IN IF least >= 0 THEN Result(s, TRUE)
     ELSE IF most < 0 THEN Result(Failed(s), FALSE)
     ELSE IF most = 0 THEN Result(BindAll(s, con, Plus(s, con)), TRUE)
     ELSE Result(s, FALSE)

\* All coefficients are negative: what would exceed the capacity becomes 0.
CapacityGe(s, con) ==
  LET v == BoundSum(s, con)
      over == Kept([i \in DOMAIN con.terms |-> i], {i \in Free(s, con) : v + con.terms[i].a < 0})
  IN IF v < 0 THEN Result(Failed(s), FALSE)
     ELSE Result(DoAll(s, [k \in DOMAIN over |-> Assign(con.terms[over[k]].x, 0)]), FALSE)

\* b_CONSTR_COES_TYPE, when the constraint is posted
CONSTR_COES_TYPE(s, con) ==
  LET coes == {con.terms[i].a : i \in DOMAIN con.terms}
      bool == \A i \in DOMAIN con.terms : s.dom[con.terms[i].x] = {0, 1}
  IN IF con.rel = "eq" THEN IF bool /\ coes \subseteq {1, -1} THEN "BooleanEq" ELSE "IntervalEq"
     ELSE IF bool /\ coes \in {{1}, {-1}} THEN "BooleanSumGe"
     ELSE IF bool /\ \A a \in coes : a < 0 THEN "CapacityGe"
     ELSE "IntervalGe"

-----------------------------------------------------------------------------
(* Binary equations, as a*x = c - b*y with a > 0.                          *)

Equation(a, x, c, b, y) == [a |-> a, x |-> x, c |-> c, b |-> b, y |-> y]
Mirror(e) == IF e.b > 0 THEN Equation(e.b, e.y, e.c, e.a, e.x) ELSE Equation(-e.b, e.y, -e.c, -e.a, e.x)
Supports(e, v, w) == e.a * v = e.c - e.b * w
IsUnit(e) == e.a = 1 /\ e.b \in {1, -1}

\* Mutant: a bound x is not compared with the value of y.
BoundsStepTrusting(s, e) ==
  LET y == s.dom[e.y]
      ends == {e.c - e.b * Min(y), e.c - e.b * Max(y)}
      values == {v \in s.dom[e.x] : Supports(e, v, Min(y))}
  IN IF ~Bound(s, e.y)
     THEN Result(Region(s, e.x, UP_DIV(Min(ends), e.a), LOW_DIV(Max(ends), e.a), NoSeed), FALSE)
     ELSE Result(IF Bound(s, e.x) THEN s
                 ELSE IF values = {} THEN Failed(s) ELSE ASSIGN_DVAR(s, e.x, Min(values)), TRUE)

\* v_in_cv_int, v_in_vc_int, u_in_cu_int, u_in_uc_int
BoundsStep(s, e) ==
  LET y == s.dom[e.y]
      ends == {e.c - e.b * Min(y), e.c - e.b * Max(y)}
      values == {v \in s.dom[e.x] : Supports(e, v, Min(y))}
  IN IF ~Bound(s, e.y)
     THEN Result(Region(s, e.x, UP_DIV(Min(ends), e.a), LOW_DIV(Max(ends), e.a), NoSeed), FALSE)
     ELSE Result(IF values = {} THEN Failed(s)
                 ELSE IF Bound(s, e.x) THEN s ELSE ASSIGN_DVAR(s, e.x, Min(values)), TRUE)

\* The elm of y is out, and with it the value of x that needs it: domain_set_false_yy when
\* the coefficients are 1 or -1, u_eq_cu_dom and u_eq_uc_dom otherwise.
ElementStep(s, e, elm) ==
  LET values == {v \in s.dom[e.x] : Supports(e, v, elm)}
  IN IF Bound(s, e.y) THEN Result(s, TRUE)
     ELSE IF values = {} THEN Result(s, FALSE)
     ELSE IF ~Bound(s, e.x) THEN Result(Exclude(s, e.x, Min(values)), FALSE)
     ELSE Result(IF IsUnit(e) THEN Failed(s) ELSE s, FALSE)

\* c_V_EQ_VC_CON_aux and the like: the values of x without support in y go, in ascending
\* order, until x is bound.
Support(s, e) ==
  LET lost == Kept(Ascending(s.dom[e.x]),
                   {v \in s.dom[e.x] : \A w \in s.dom[e.y] : ~Supports(e, v, w)})
  IN DoAll(s, [k \in DOMAIN lost |-> Drop(e.x, lost[k])])

\* c_VV_EQ_C_CON, c_V_EQ_VC_CON, c_UU_EQ_C_CON, c_U_EQ_UC_CON
SupportBoth(s, e) ==
  LET s1 == IF e.y \in s.bv \/ e.b \notin {1, -1} THEN Support(s, e) ELSE s
  IN IF Bound(s, e.x) \/ Bound(s, e.y) THEN s
     ELSE IF s1.state /= "ok" \/ Bound(s1, e.x) THEN s1
     ELSE IF e.x \in s1.bv \/ e.a /= 1 THEN Support(s1, Mirror(e)) ELSE s1

\* call_binary_constr_eq: with two unbound variables five calls are to be made.
BinaryEquation(s, con) ==
  LET free == Free(s, con)
      i == Min(free)
      j == Max(free)
      p == IF con.terms[i].a > 0 /\ con.terms[j].a < 0 THEN con.terms[j] ELSE con.terms[i]
      q == IF p = con.terms[i] THEN con.terms[j] ELSE con.terms[i]
      c == BoundSum(s, con)
      e == IF p.a > 0 THEN Equation(p.a, p.x, -c, q.a, q.x) ELSE Equation(-p.a, p.x, c, -q.a, q.x)
      values == {v \in s.dom[p.x] : p.a * v = -c}
      Step(call, eqn) == [call |-> call, eqn |-> eqn]
  IN IF free = {} THEN IF c = 0 THEN Result(s, TRUE) ELSE Result(Failed(s), TRUE)
     ELSE IF i = j
     THEN Result(IF values = {} THEN Failed(s) ELSE ASSIGN_DVAR(s, p.x, Min(values)), TRUE)
     ELSE [Result(s, TRUE) EXCEPT !.todo =
             <<Step("bounds", e), Step("bounds", Mirror(e)), Step("support", e),
               Step("element", e), Step("element", Mirror(e))>>]

\* The body of the agent f, woken with the event object elm.
Body(s, job, f, elm) ==
  LET con == program.posts[job.post]
  IN CASE job.kind = "bounds" -> BoundsStep(s, job.eqn)
       [] job.kind = "element" -> ElementStep(s, job.eqn, elm)
       [] job.kind = "IntervalEq" -> IF Cardinality(Free(s, con)) > 2 THEN IntervalEq(s, con, f)
                                     ELSE BinaryEquation(s, con)
       [] job.kind = "IntervalGe" -> IntervalGe(s, con, f)
       [] job.kind = "BooleanEq" -> BooleanEq(s, con)
       [] job.kind = "BooleanSumGe" -> BooleanSumGe(s, con)
       [] OTHER -> CapacityGe(s, con)

-----------------------------------------------------------------------------
(* The machine.                                                            *)

Activation(f, elm, clone) == [agent |-> f, elm |-> elm, clone |-> clone, post |-> 0, todo |-> <<>>]
Poster(k, todo) == [agent |-> 0, elm |-> NoElm, clone |-> FALSE, post |-> k, todo |-> todo]

Ok == store.state = "ok"
AtRest == Ok /\ chain = <<>> /\ store.queue = <<>>
MayRun == Ok /\ chain /= <<>> /\ store.queue = <<>>

Init ==
  /\ program \in Programs
  /\ posted = 0
  /\ store = [dom |-> program.dom, bv |-> {x \in Vars : IsHoled(program.dom[x])},
              cs |-> [w \in Vars \X Ports |-> <<>>], queue |-> <<>>,
              seeds |-> [i \in 1 .. MaxTriggers |-> NoSeed], state |-> "ok"]
  /\ jobs = <<>> /\ status = <<>> /\ chain = <<>>
  /\ excludes = 0
  /\ solutions = {sol \in [Vars -> UNION Range(program.dom)] : \A x \in Vars : sol[x] \in program.dom[x]}

\* The assignment sol satisfies the constraint.
Holds(con, sol) ==
  LET value == Total(con.c, [i \in DOMAIN con.terms |-> con.terms[i].a * sol[con.terms[i].x]])
  IN IF con.rel = "eq" THEN value = 0 ELSE value >= 0

\* What an agent watches of the variables that are not bound yet.
Watches(s, job) ==
  LET con == program.posts[job.post]
      ports == CASE job.kind = "bounds" -> {job.eqn.y} \X {"ins", "minmax"}
                 [] job.kind = "element" -> {job.eqn.y} \X {"dom"}
                 [] OTHER -> {con.terms[i].x : i \in DOMAIN con.terms} \X {"ins", "minmax"}
  IN {w \in ports : ~Bound(s, w[1])}

\* A call of an agent's predicate: it is attached and runs its body, unless it has none before
\* its first event; its own events may wake it again.
Create(job) ==
  LET f == Len(jobs) + 1
      attached == [store EXCEPT !.cs = [w \in DOMAIN @ |-> IF w \in Watches(store, job) THEN <<f>> \o @[w] ELSE @[w]]]
      r == IF job.kind = "element" THEN Result(attached, FALSE) ELSE Body(attached, job, f, NoElm)
  IN /\ store' = r.s
     /\ jobs' = Append(jobs, job)
     /\ status' = Append(status, IF r.exit THEN "exit" ELSE "sleep")

\* The program posts its next constraint.
PostConstraint ==
  LET k == posted + 1
      con == program.posts[k]
      kind == CONSTR_COES_TYPE(store, con)
      binary == Len(con.terms) = 2 \/ Cardinality(Free(store, con)) <= 2
      r == BinaryEquation(store, con)
  IN /\ AtRest /\ posted < Len(program.posts)
     /\ posted' = k
     /\ IF con.rel = "eq" /\ binary /\ kind /= "BooleanEq"
        THEN /\ store' = r.s
             /\ chain' = IF r.todo = <<>> THEN chain ELSE <<Poster(k, r.todo)>>
             /\ UNCHANGED <<jobs, status>>
        ELSE Create([kind |-> kind, post |-> k]) /\ UNCHANGED chain
     /\ solutions' = {sol \in solutions : Holds(con, sol)}
     /\ UNCHANGED <<program, excludes>>

\* A predicate that posts a binary equation makes its next call.
Call ==
  /\ MayRun /\ Last(chain).agent = 0
  /\ LET top == Last(chain)
         step == Head(top.todo)
         rest == Tail(top.todo)
     IN /\ chain' = IF rest = <<>> THEN Front(chain) ELSE Append(Front(chain), [top EXCEPT !.todo = rest])
        /\ IF step.call = "support"
           THEN store' = SupportBoth(store, step.eqn) /\ UNCHANGED <<jobs, status>>
           ELSE Create([kind |-> step.call, post |-> top.post, eqn |-> step.eqn])
  /\ UNCHANGED <<program, posted, excludes, solutions>>

\* A woken agent runs its body and returns; an agent marked for re-entry runs again.
Run ==
  /\ MayRun /\ Last(chain).agent /= 0
  /\ LET top == Last(chain)
         f == top.agent
         r == Body(store, jobs[f], f, top.elm)
         again == ~top.clone /\ ~r.exit /\ status[f] = "reent"
     IN /\ store' = r.s
        /\ status' = IF top.clone THEN status
                     ELSE [status EXCEPT ![f] = IF r.exit THEN "exit" ELSE IF again THEN "run" ELSE "sleep"]
        /\ chain' = Front(chain) \o (IF again THEN <<[top EXCEPT !.elm = NoElm]>>
                                     ELSE IF r.todo /= <<>> THEN <<Poster(jobs[f].post, r.todo)>> ELSE <<>>)
  /\ UNCHANGED <<program, posted, jobs, excludes, solutions>>

\* Mutant: bound events that a propagator posts wake nobody.
ConnectUnseeded(acc, event, f) ==
  LET word == acc.status[f]
      seeded == store.seeds[Len(store.queue)] /= NoSeed
      woken(clone) == [status |-> [acc.status EXCEPT ![f] = "run"],
                       chain |-> Append(acc.chain, Activation(f, event.elm, clone))]
  IN CASE event.port = "ins" /\ word = "sleep" -> woken(FALSE)
       [] event.port = "ins" /\ word \in {"run", "reent"} -> [acc EXCEPT !.status[f] = "reent"]
       [] event.port = "minmax" /\ word = "sleep" /\ ~seeded -> woken(FALSE)
       [] event.port = "dom" /\ word \in {"sleep", "run"} -> woken(word = "run")
       [] OTHER -> acc

\* Mutant: an instantiation wakes an agent that is awake.
ConnectAwake(acc, event, f) ==
  LET woken == [status |-> [acc.status EXCEPT ![f] = "run"],
                chain |-> Append(acc.chain, Activation(f, event.elm, FALSE))]
  IN IF event.port = "ins" /\ acc.status[f] /= "exit" THEN woken ELSE acc

\* CONNECT_WOKEN_FRAME_*
Connect(acc, event, f) ==
  LET word == acc.status[f]
      seeded == f = store.seeds[Len(store.queue)]
      woken(clone) == [status |-> [acc.status EXCEPT ![f] = "run"],
                       chain |-> Append(acc.chain, Activation(f, event.elm, clone))]
  IN CASE event.port = "ins" /\ word = "sleep" -> woken(FALSE)
       [] event.port = "ins" /\ word \in {"run", "reent"} -> [acc EXCEPT !.status[f] = "reent"]
       [] event.port = "minmax" /\ word = "sleep" /\ ~seeded -> woken(FALSE)
       [] event.port = "dom" /\ word \in {"sleep", "run"} -> woken(word = "run")
       [] OTHER -> acc

\* The listeners of an event are told, the latest first.
Told(acc, event) ==
  LET cs == store.cs[event.var, event.port]
      told[i \in 0 .. Len(cs)] == IF i = 0 THEN acc ELSE Connect(told[i - 1], event, cs[i])
  IN told[Len(cs)]

\* trigger_on_handler: the events from the last to the first
Handle ==
  /\ Ok /\ store.queue /= <<>>
  /\ LET n == Len(store.queue)
         all[i \in 0 .. n] == IF i = 0 THEN [status |-> status, chain |-> chain]
                              ELSE Told(all[i - 1], store.queue[n + 1 - i])
     IN status' = all[n].status /\ chain' = all[n].chain
  /\ store' = [store EXCEPT !.queue = <<>>]
  /\ UNCHANGED <<program, posted, jobs, excludes, solutions>>

\* The program labels a variable, or takes a value out of a domain.
Label(x, v) ==
  /\ AtRest /\ ~Bound(store, x) /\ v \in store.dom[x]
  /\ store' = ASSIGN_DVAR(store, x, v)
  /\ solutions' = {sol \in solutions : sol[x] = v}
  /\ UNCHANGED <<program, posted, jobs, status, chain, excludes>>

TakeOut(x, v) ==
  /\ AtRest /\ excludes < MaxExcludes /\ ~Bound(store, x) /\ v \in store.dom[x]
  /\ store' = Exclude(store, x, v)
  /\ excludes' = excludes + 1
  /\ solutions' = {sol \in solutions : sol[x] /= v}
  /\ UNCHANGED <<program, posted, jobs, status, chain>>

Propagate == Handle \/ Run \/ Call

Next ==
  \/ PostConstraint
  \/ Propagate
  \/ \E x \in Vars : \E v \in store.dom[x] : Label(x, v) \/ TakeOut(x, v)

Spec == Init /\ [][Next]_vars

\* An event or an activation is pending: Propagate is enabled exactly then.
Pending == Ok /\ (chain /= <<>> \/ store.queue /= <<>>)

\* The machine runs on while something is pending: WF_vars(Propagate) written out, for
\* TLC's ENABLED evaluates the folds of the bodies again for each use of their result.
FairSpec == Spec /\ ([]<>~Pending \/ []<><<Propagate>>_vars)

-----------------------------------------------------------------------------
(* Properties.                                                             *)

VarsOf(con) == {con.terms[i].x : i \in DOMAIN con.terms}

\* The arrays hold every event that trigger_no counts: they do not, for the last event that
\* passes the test has no slot.
EventsFit == store.state /= "overrun"

\* Domains only shrink and are never empty, agents on the chain are not asleep, and where the
\* run goes on every event has a slot, or a spare word behind the arrays.
TypeOK ==
  /\ program \in Programs /\ posted \in 0 .. Len(program.posts) /\ excludes \in 0 .. MaxExcludes
  /\ store.state \in {"ok", "failed", "quit", "overrun"}
  /\ \A x \in Vars : /\ store.dom[x] /= {} /\ store.dom[x] \subseteq program.dom[x]
                     /\ Ok /\ IsHoled(store.dom[x]) => x \in store.bv
  /\ store.cs \in [Vars \X Ports -> Seq(DOMAIN jobs)]
  /\ \A i \in DOMAIN store.queue : HasSlot(i, store.queue[i].port)
  /\ status \in [DOMAIN jobs -> {"sleep", "run", "reent", "exit"}]
  /\ \A f \in DOMAIN jobs :
       Cardinality({i \in DOMAIN chain : chain[i].agent = f /\ ~chain[i].clone}) = IF status[f] \in {"run", "reent"} THEN 1 ELSE 0

\* Whatever the order in which agents narrow the domains, no solution of what is posted
\* leaves them, and the run fails only if there is none.
NoSolutionLost ==
  /\ Ok => \A sol \in solutions : \A x \in Vars : sol[x] \in store.dom[x]
  /\ store.state = "failed" => solutions = {}

\* Once every variable has a value and nothing is pending, the constraints hold, although
\* bound events may have been passed over and dom events ignored.
LabelledIsSolution ==
  AtRest /\ (\A x \in Vars : Bound(store, x)) => [x \in Vars |-> Min(store.dom[x])] \in solutions

\* Propagation takes no solution away and accepts nothing else.
ExactlySolutions == NoSolutionLost /\ LabelledIsSolution

\* An agent that the instantiation of x will wake.
Listens(f, x) ==
  /\ status[f] = "sleep"
  /\ \E i \in DOMAIN store.cs[x, "ins"] : store.cs[x, "ins"][i] = f

\* When nothing is pending, a constraint that the domains do not entail yet has an agent
\* asleep on each of its unbound variables, although agents have killed themselves and been
\* replaced by others.
Watched ==
  AtRest => \A k \in 1 .. posted :
    LET con == program.posts[k]
        n == Len(con.terms)
    IN \/ LowTo(store, con, n) >= 0 /\ (con.rel = "eq" => UpTo(store, con, n) <= 0)
       \/ \A x \in VarsOf(con) : Bound(store, x) \/ \E f \in DOMAIN jobs : jobs[f].post = k /\ Listens(f, x)

\* When nothing is pending, running a live agent once more would change no domain, except
\* an equation of three or more variables, which is not woken by the bounds that it moves.
Fixpoint ==
  AtRest => \A f \in DOMAIN jobs :
    status[f] = "sleep" /\ jobs[f].kind \notin {"IntervalEq", "element"}
      => Body(store, jobs[f], f, NoElm).s.dom = store.dom

\* Agents wake each other only finitely often.
Settles == []<>~Pending
=============================================================================

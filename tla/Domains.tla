------------------------------- MODULE Domains -------------------------------
(***************************************************************************)
(* Two finite-domain variables in the heap (domain.c, clpfd.h, unify.c): a *)
(* domain is an interval until it gets a hole and then has a bit vector as *)
(* well, whose bits outside first..last are never looked at again; the     *)
(* words older than the latest choice point are trailed; every value taken *)
(* out and every bound moved is posted as an event.                        *)
(***************************************************************************)
EXTENDS Integers, SequencesExt

CONSTANTS
  Lo, Hi,         \* bound: the values of the domains
  NBITS_IN_LONG,  \* bits in a word
  Names,          \* the variables of the program
  Ports,          \* the ports of domain variables
  Watches,        \* which ports the agents of each variable may watch
  Operations,     \* operations with their arguments: [name, i, j, a, b, S]
  NoOp,           \* not an operation
  MaxChoices,     \* bound: how many choice points there are at once
  MaxOps,         \* bound: how many operations are executed
  HolesByUnify    \* may an interval with agents on its dom port, none on its outer_dom port,
                  \* be unified with a bit vector

ASSUME DomainsAssumption ==
  /\ Lo \in Int /\ Hi \in Int /\ Lo < Hi
  /\ NBITS_IN_LONG \in Nat \ {0} /\ MaxChoices \in Nat /\ MaxOps \in Nat
  /\ Watches \subseteq [Names -> SUBSET Ports] /\ Ports = {"ins", "minmax", "dom", "outer_dom"}
  /\ HolesByUnify \in BOOLEAN

VARIABLES
  store,    \* [heap, trail, hb, cell, events, ok]: the objects of the heap, the trail, the heap
            \* mark of the latest choice point, the cells of the program's variables, the events
            \* in the queue, and has nothing failed
  choices,  \* the choice points, oldest first: [trail, hb] and, to compare with, [sets, same]
  watch,    \* the ports that the agents of each variable watch
  op,       \* the operation that was executed last, until its events are handled
  before,   \* the sets that were there before it
  count     \* how many operations have been executed

vars == <<store, choices, watch, op, before, count>>

NULL == 0
UN_DOMAIN == 0
IT_DOMAIN == -1   \* other types are addresses of bit vectors

Free == [tag |-> "free", val |-> 0]
MAKEINT(e) == [tag |-> "int", val |-> e]
RefTo(at) == [tag |-> "ref", val |-> at]

-----------------------------------------------------------------------------
(* The heap and its trail.  An address is a place in the heap; what lies   *)
(* below the mark hb is older than the latest choice point.                *)

SetMin(S) == CHOOSE e \in S : \A f \in S : e <= f
SetMax(S) == CHOOSE e \in S : \A f \in S : e >= f
Ascending(S) == SetToSortSeq(S, <)

Trailed(s, at, field, old) ==
  IF at <= s.hb THEN [s EXCEPT !.trail = Append(@, [at |-> at, field |-> field, old |-> old])] ELSE s

Assign(s, at, field, val) ==
  [Trailed(s, at, field, s.heap[at][field]) EXCEPT !.heap[at][field] = val]

New(s, object) == [s EXCEPT !.heap = Append(@, object)]
Top(s) == Len(s.heap)

\* INSERT_TRIGGER_*
Post(s, at, port, elm) ==
  IF port \in s.heap[at].cs
  THEN [s EXCEPT !.events = Append(@, [at |-> at, port |-> port, elm |-> elm])] ELSE s

PostEach(s, at, port, elms) == FoldLeft(LAMBDA t, e : Post(t, at, port, e), s, Ascending(elms))

UPDATE(s, at, new) ==
  FoldLeft(LAMBDA t, f : IF f \in DOMAIN new THEN Assign(t, at, f, new[f]) ELSE t,
           s, <<"first", "last", "size">>)

UPDATE_BOUNDS(s, at, new) == Post(UPDATE(s, at, new), at, "minmax", 0)

ASSIGN_DVAR(s, at, e) == Post(Assign(s, at, "var", MAKEINT(e)), at, "ins", 0)

Failed(s) == [s EXCEPT !.ok = FALSE]

-----------------------------------------------------------------------------
(* Bit vectors.  The bits are the set of the values whose bit is 1.        *)

WORD_NUMBER(val) ==
  IF val >= 0 THEN val \div NBITS_IN_LONG ELSE -((-val + NBITS_IN_LONG - 1) \div NBITS_IN_LONG)

IsBV(d) == d.type \notin {UN_DOMAIN, IT_DOMAIN}
Bits(s, at) == s.heap[s.heap[at].type].bits

\* A word is trailed with the values of its bits that are 1.
WordOf(v, elm) == {e \in v.low .. v.up : (e - v.low) \div NBITS_IN_LONG = (elm - v.low) \div NBITS_IN_LONG}

\* MUTANT: the words of a vector are trailed only where there is one of them.
ClearBitsOfFirstWordTrailed(s, bv, gone) ==
  LET v == s.heap[bv]
      w == WordOf(v, SetMin(gone))
  IN [Trailed(s, bv, "word", [word |-> w, bits |-> v.bits \cap w]) EXCEPT !.heap[bv].bits = @ \ gone]

\* Each word that loses bits is trailed once.
ClearBits(s, bv, gone) ==
  LET v == s.heap[bv]
      firsts == {SetMin(gone \cap WordOf(v, e)) : e \in gone}
      t == FoldLeft(LAMBDA q, e : Trailed(q, bv, "word", [word |-> WordOf(v, e), bits |-> v.bits \cap WordOf(v, e)]),
                    s, Ascending(firsts))
  IN [t EXCEPT !.heap[bv].bits = @ \ gone]

\* Past the vector the scan ends at some later value of whatever is there.
domain_next_bv(s, at, elm) == SetMin({e \in Bits(s, at) : e >= elm} \cup {s.heap[s.heap[at].type].up + 1})
domain_prev_bv(s, at, elm) == SetMax({e \in Bits(s, at) : e <= elm} \cup {s.heap[s.heap[at].type].low - 1})

dm_true(s, at, elm) ==
  LET d == s.heap[at]
  IN CASE elm <= d.first -> elm = d.first
       [] elm > d.first /\ elm >= d.last -> elm = d.last
       [] elm > d.first /\ elm < d.last -> (IsBV(d) => elm \in Bits(s, at))

\* The values of a domain.
Elements(s, at) == {e \in s.heap[at].first .. s.heap[at].last : dm_true(s, at, e)}

\* A new vector of all ones, for an interval.
it_to_bv(s, at) ==
  LET d == s.heap[at]
      low == WORD_NUMBER(d.first) * NBITS_IN_LONG
      up == (WORD_NUMBER(d.last) + 1) * NBITS_IN_LONG - 1
  IN New(Assign(s, at, "type", Top(s) + 1), [low |-> low, up |-> up, bits |-> low .. up])

\* it_to_bv_with_hole is the case of from = to.
it_to_bv_with_interval_holes(s, at, from, to) ==
  LET q == it_to_bv(s, at)
      t == PostEach([q EXCEPT !.heap[Top(q)].bits = @ \ (from .. to)], at, "dom", from .. to)
  IN UPDATE(t, at, [size |-> s.heap[at].size - (to - from + 1)])

exclude_inner_interval_bv(s, at, from, to) ==
  LET gone == Bits(s, at) \cap (from .. to)
      t == PostEach(ClearBits(s, s.heap[at].type, gone), at, "dom", gone)
  IN IF gone = {} THEN s ELSE UPDATE(t, at, [size |-> s.heap[at].size - Cardinality(gone)])

exclude_inner_elm_bv(s, at, elm) == exclude_inner_interval_bv(s, at, elm, elm)

-----------------------------------------------------------------------------
(* Taking out one value.                                                   *)

ExcludeInner(s, at, from, to) ==
  IF IsBV(s.heap[at]) THEN exclude_inner_interval_bv(s, at, from, to)
  ELSE it_to_bv_with_interval_holes(s, at, from, to)

domain_set_false_noint(s, at, elm) ==
  LET d == s.heap[at]
      told == Post(s, at, "outer_dom", elm)
      next == IF IsBV(d) THEN domain_next_bv(s, at, elm + 1) ELSE elm + 1
      prev == IF IsBV(d) THEN domain_prev_bv(s, at, elm - 1) ELSE elm - 1
  IN CASE elm > d.first /\ elm < d.last -> ExcludeInner(s, at, elm, elm)
       [] elm = d.first /\ d.size = 2   -> ASSIGN_DVAR(s, at, d.last)
       [] elm = d.last /\ d.size = 2    -> ASSIGN_DVAR(s, at, d.first)
       [] elm = d.first /\ d.size /= 2  -> UPDATE_BOUNDS(told, at, [first |-> next, size |-> d.size - 1])
       [] elm = d.last /\ d.size /= 2   -> UPDATE_BOUNDS(told, at, [last |-> prev, size |-> d.size - 1])
       [] elm < d.first \/ elm > d.last -> s

IsInt(s, at) == s.heap[at].var.tag = "int"
Value(s, at) == s.heap[at].var.val

domain_set_false_aux(s, at, elm) ==
  IF IsInt(s, at) THEN (IF Value(s, at) = elm THEN Failed(s) ELSE s)
  ELSE domain_set_false_noint(s, at, elm)

-----------------------------------------------------------------------------
(* Moving the bounds.                                                      *)

\* MUTANT: the new bounds of a bit vector are not moved to values that are in the domain.
RegionOfBVToHole(s, at, lo, hi) ==
  LET d == s.heap[at]
      gone == {e \in Elements(s, at) : e \notin lo .. hi}
  IN IF Cardinality(gone) = d.size THEN Failed(s)
     ELSE UPDATE_BOUNDS(PostEach(s, at, "outer_dom", gone), at,
                        [first |-> lo, last |-> hi, size |-> d.size - Cardinality(gone)])

\* With agents on outer_dom the values counted are posted too.
RegionOfBV(s, at, lo, hi) ==
  LET d == s.heap[at]
      below == Bits(s, at) \cap (d.first + 1 .. lo - 1)
      above == Bits(s, at) \cap (hi + 1 .. d.last - 1)
      ends == (IF lo > d.first THEN {d.first} ELSE {}) \cup (IF hi < d.last THEN {d.last} ELSE {})
      size == d.size - Cardinality(below) - Cardinality(above) - Cardinality(ends)
      inner == PostEach(s, at, "outer_dom", below \cup above)
      told == IF size > 1 THEN PostEach(inner, at, "outer_dom", ends) ELSE inner
      first == [first |-> domain_next_bv(s, at, lo)]
      last == [last |-> domain_prev_bv(s, at, hi)]
      new == (IF lo > d.first THEN first ELSE <<>>) @@ (IF hi < d.last THEN last ELSE <<>>) @@ [size |-> size]
  IN CASE size = 0 -> Failed(told)
       [] size = 1 -> ASSIGN_DVAR(told, at, IF ends = {d.first} THEN d.last ELSE IF ends = {d.last} THEN d.first
                                            ELSE first.first)
       [] size > 1 -> Post(UPDATE_BOUNDS(told, at, new), at, "minmax", 0)

\* MUTANT: the loop over the values above the new bound ends one too early.
RegionOfITButLast(s, at, lo, hi) ==
  LET d == s.heap[at]
      told == PostEach(s, at, "outer_dom", (d.first .. lo - 1) \cup (hi + 1 .. d.last - 1))
      new == (IF lo > d.first THEN [first |-> lo] ELSE <<>>) @@ (IF hi < d.last THEN [last |-> hi] ELSE <<>>)
             @@ [size |-> hi - lo + 1]
  IN Post(UPDATE_BOUNDS(told, at, new), at, "minmax", 0)

RegionOfIT(s, at, lo, hi) ==
  LET d == s.heap[at]
      told == PostEach(s, at, "outer_dom", (d.first .. lo - 1) \cup (hi + 1 .. d.last))
      new == (IF lo > d.first THEN [first |-> lo] ELSE <<>>) @@ (IF hi < d.last THEN [last |-> hi] ELSE <<>>)
             @@ [size |-> hi - lo + 1]
  IN Post(UPDATE_BOUNDS(told, at, new), at, "minmax", 0)

domain_region_noint(s, at, min, max) ==
  LET d == s.heap[at]
      lo == IF min > d.first THEN min ELSE d.first
      hi == IF max < d.last THEN max ELSE d.last
  IN CASE min > max \/ lo > hi -> Failed(s)
       [] min <= max /\ lo = d.first /\ hi = d.last -> s
       [] lo = hi -> IF dm_true(s, at, lo) THEN ASSIGN_DVAR(s, at, lo) ELSE Failed(s)
       [] min <= max /\ lo < hi /\ (lo > d.first \/ hi < d.last) ->
            IF IsBV(d) THEN RegionOfBV(s, at, lo, hi) ELSE RegionOfIT(s, at, lo, hi)

\* domain_exclude_interval_noint, and _aux for a variable that may be bound.
domain_exclude_interval_noint(s, at, from, to) ==
  LET d == s.heap[at]
  IN CASE from <= d.first -> domain_region_noint(s, at, to + 1, d.last)
       [] from > d.first /\ to >= d.last -> domain_region_noint(s, at, d.first, from - 1)
       [] from > d.first /\ to < d.last -> ExcludeInner(s, at, from, to)

domain_exclude_interval_aux(s, at, from, to) ==
  IF IsInt(s, at) THEN (IF Value(s, at) \in from .. to THEN Failed(s) ELSE s)
  ELSE domain_exclude_interval_noint(s, at, from, to)

domain_region_aux(s, at, from, to) ==
  IF IsInt(s, at) THEN (IF Value(s, at) \in from .. to THEN s ELSE Failed(s))
  ELSE domain_region_noint(s, at, from, to)

\* Steps in a row; one that fails ends them.
Then(s, Step(_, _), seq) == FoldLeft(LAMBDA t, e : IF t.ok THEN Step(t, e) ELSE t, s, seq)

domain_reduce_to_two(s, at, val1, val2) ==
  domain_region_aux(Then(s, LAMBDA t, e : domain_set_false_aux(t, at, e), Ascending(val1 + 1 .. val2 - 1)),
                    at, val1, val2)

\* The value is in the domain, else the operation fails.
BindIfTrue(s, at, elm) == IF dm_true(s, at, elm) THEN ASSIGN_DVAR(s, at, elm) ELSE Failed(s)

b_DM_INTERSECT2(s, at, low, up) ==
  LET q == domain_region_noint(s, at, low, up)
  IN IF low = up THEN BindIfTrue(s, at, low)
     ELSE IF ~dm_true(s, at, low) THEN BindIfTrue(s, at, up)
     ELSE IF ~dm_true(s, at, up) THEN ASSIGN_DVAR(s, at, low)
     ELSE IF low + 1 <= up - 1 THEN domain_exclude_interval_aux(q, at, low + 1, up - 1) ELSE q

\* The values are in ascending order; what is greater than all of them stays.
b_VAR_IN_D(s, at, list) ==
  LET from(i) == IF i = 1 THEN s.heap[at].first ELSE SetMax({s.heap[at].first, list[i - 1] + 1})
  IN Then(s, LAMBDA t, i : IF from(i) < list[i]
                           THEN domain_exclude_interval_aux(t, at, from(i), list[i] - 1) ELSE t,
          Ascending(DOMAIN list))

b_VAR_NOTIN_D(s, at, list) == Then(s, LAMBDA t, e : domain_set_false_aux(t, at, e), list)

-----------------------------------------------------------------------------
(* Two variables.                                                          *)

\* The values of the domain of y, or outside it, are taken out of that of x.
exclude_dom_aux(s, y, x) ==
  Then(s, LAMBDA t, e : domain_set_false_aux(t, x, e),
       Ascending(Elements(s, y) \cap (s.heap[x].first .. s.heap[x].last)))

exclude_dom_comp_aux(s, y, x) ==
  Then(s, LAMBDA t, e : IF dm_true(t, y, e) THEN t ELSE domain_set_false_aux(t, x, e),
       Ascending(s.heap[x].first .. s.heap[x].last))

dm_intersect(s, x, y) ==
  LET first == SetMax({s.heap[x].first, s.heap[y].first})
      last == SetMin({s.heap[x].last, s.heap[y].last})
  IN IF ~IsBV(s.heap[y]) THEN domain_region_noint(s, x, s.heap[y].first, s.heap[y].last)
     ELSE IF first > last THEN Failed(s)
     ELSE Then(domain_region_noint(s, x, first, last),
               LAMBDA t, e : IF dm_true(t, y, e) THEN t ELSE domain_set_false_aux(t, x, e),
               Ascending(first .. last))

dm_disjoint(s, x, y) ==
  LET min == SetMax({s.heap[x].first, s.heap[y].first})
      max == SetMin({s.heap[x].last, s.heap[y].last})
  IN IF s.heap[x].first = s.heap[y].first \/ s.heap[x].last = s.heap[y].last \/ min = max THEN FALSE
     ELSE \A e \in min .. max : ~(dm_true(s, x, e) /\ dm_true(s, y, e))

\* Does the domain of x include that of y?  Where both are between the bounds the bits decide.
DOMAIN_INCLUDE(s, x, y) ==
  /\ s.heap[x].size >= s.heap[y].size
  /\ s.heap[x].first <= s.heap[y].first /\ s.heap[x].last >= s.heap[y].last
  /\ IsBV(s.heap[x]) =>
       \A e \in s.heap[y].first .. s.heap[y].last :
         (~IsBV(s.heap[y]) \/ e \in Bits(s, y)) => e \in Bits(s, x)

\* MUTANT: only a first that has moved is noticed.
UNIFY_UPDATE_FIRST(s, at, first, last, size) ==
  IF s.heap[at].first = first THEN UPDATE(s, at, [last |-> last, size |-> size])
  ELSE UPDATE_BOUNDS(s, at, [first |-> first, last |-> last, size |-> size])

UNIFY_UPDATE(s, at, first, last, size) ==
  LET new == (IF s.heap[at].first /= first THEN [first |-> first] ELSE <<>>)
             @@ (IF s.heap[at].last /= last THEN [last |-> last] ELSE <<>>)
  IN IF new = <<>> THEN s ELSE UPDATE_BOUNDS(s, at, new @@ [size |-> size])

\* merge_cs, for the lists of all ports.
bind_susp_susp(s, at, y) ==
  LET q == Assign(s, y, "var", RefTo(at))
      cs == s.heap[at].cs \cup s.heap[y].cs
  IN IF cs = s.heap[at].cs THEN q ELSE Assign(q, at, "cs", cs)

dm_clone(s, at) == New(s, [s.heap[at] EXCEPT !.cs = {}])

\* MUTANT: the event is posted before the agents of y are merged in.
MergeAfterPosting(s, x, y, original) ==
  LET q == dm_clone(s, original)
  IN bind_susp_susp(Post(bind_susp_susp(q, Top(q), x), x, "ins", 0), Top(q), y)

\* Both become the clone of one of them; the agents of both are woken.
Merge(s, x, y, original) ==
  LET q == dm_clone(s, original)
  IN Post(bind_susp_susp(bind_susp_susp(q, Top(q), x), Top(q), y), Top(q), "ins", 0)

Older(x, y) == IF x < y THEN x ELSE y

\* x is bound to what y is.
UNIFY_DVAR_SUSP(s, y, x) == Post(bind_susp_susp(s, y, x), y, "ins", 0)

\* Values taken out of x, or of y, because the other one does not have them.
ExcludeWatched(s, y, x) ==
  IF "outer_dom" \in s.heap[x].cs THEN exclude_dom_comp_aux(s, y, x) ELSE s

UnifyBoth(s, x, y) ==
  LET first == SetMin(Elements(s, x) \cap Elements(s, y))
      last == SetMax(Elements(s, x) \cap Elements(s, y))
      size == IF IsBV(s.heap[y]) THEN Cardinality(Elements(s, y) \cap Elements(s, x)) ELSE last - first + 1
      told == IF IsBV(s.heap[x]) THEN exclude_dom_comp_aux(exclude_dom_comp_aux(s, x, y), y, x)
              ELSE ExcludeWatched(ExcludeWatched(s, y, x), x, y)
      mixed == IsBV(s.heap[y]) /\ ~IsBV(s.heap[x])
      Updated(a, b) == UNIFY_UPDATE(UNIFY_UPDATE(told, a, first, last, size), b, first, last, size)
  IN IF Elements(s, x) \cap Elements(s, y) = {} THEN Failed(s)
     ELSE IF first = last THEN ASSIGN_DVAR(ASSIGN_DVAR(s, x, first), y, first)
     ELSE IF mixed THEN Merge(Updated(y, x), x, y, y) ELSE Merge(Updated(x, y), x, y, Older(x, y))

\* The interval is x, when there is one.
unify_dvar_dvar(s, x, y) ==
  IF IsBV(s.heap[x]) /\ ~IsBV(s.heap[y]) THEN UnifyBoth(s, y, x) ELSE UnifyBoth(s, x, y)

unify_suspvar_suspvar(s, x, y) ==
  LET un(at) == s.heap[at].type = UN_DOMAIN
  IN CASE x = y -> s
       [] x /= y /\ ~un(x) /\ ~un(y) -> unify_dvar_dvar(s, x, y)
       [] ~un(x) /\ un(y) -> UNIFY_DVAR_SUSP(s, x, y)
       [] un(x) /\ ~un(y) -> UNIFY_DVAR_SUSP(s, y, x)
       [] x /= y /\ un(x) /\ un(y) -> Merge(s, x, y, Older(x, y))

-----------------------------------------------------------------------------
(* The variables of the program.                                           *)

\* Where the references from an object end.
End(s, at) ==
  LET f[a \in 1 .. Top(s)] == IF s.heap[a].var.tag = "ref" THEN f[s.heap[a].var.val] ELSE a
  IN f[at]

\* A plain variable, an integer, or a reference to an unbound suspension variable.
DEREF(s, n) ==
  LET at == End(s, s.cell[n].val)
  IN IF s.cell[n].tag /= "ref" THEN s.cell[n] ELSE IF IsInt(s, at) THEN s.heap[at].var ELSE RefTo(at)

BindCell(s, n, val) ==
  [s EXCEPT !.cell[n] = val, !.trail = Append(@, [at |-> NULL, field |-> "cell", old |-> n])]

\* CREATE_SUSP_VAR: the agents that it is created for watch it.
CREATE_SUSP_VAR(s, n, d) ==
  BindCell(New(s, [var |-> Free, cs |-> watch[n]] @@ d), n, RefTo(Top(s) + 1))

Plain == [type |-> UN_DOMAIN, first |-> 0, last |-> 0, size |-> 0]
IntervalOf(a, b) == [type |-> IT_DOMAIN, first |-> a, last |-> b, size |-> b - a + 1]

\* aux_create_domain_var and aux_create_bv_domain_var.
aux_create_domain_var(s, n, from, to, bv) ==
  LET v == DEREF(s, n)
      typed == [s EXCEPT !.heap[v.val] = [IntervalOf(from, to) EXCEPT !.type = UN_DOMAIN] @@ @]
  IN CASE v.tag = "free" ->
            LET q == CREATE_SUSP_VAR(s, n, IntervalOf(from, to)) IN IF bv THEN it_to_bv(q, Top(q)) ELSE q
       [] v.tag = "int" -> IF v.val \in from .. to THEN s ELSE Failed(s)
       [] v.tag = "ref" /\ s.heap[v.val].type /= UN_DOMAIN -> domain_region_noint(s, v.val, from, to)
       [] v.tag = "ref" /\ s.heap[v.val].type = UN_DOMAIN ->
            IF bv THEN it_to_bv(typed, v.val) ELSE Assign(typed, v.val, "type", IT_DOMAIN)

\* Unification with an integer.
bind(s, n, e) ==
  LET v == DEREF(s, n)
  IN CASE v.tag = "free" -> BindCell(s, n, MAKEINT(e))
       [] v.tag = "int" -> IF v.val = e THEN s ELSE Failed(s)
       [] v.tag = "ref" -> IF s.heap[v.val].type = UN_DOMAIN THEN ASSIGN_DVAR(s, v.val, e) ELSE BindIfTrue(s, v.val, e)

unify(s, n, m) ==
  LET v == DEREF(s, n)
      w == DEREF(s, m)
  IN CASE v.tag = "free" -> BindCell(s, n, w)
       [] v.tag /= "free" /\ w.tag = "free" -> BindCell(s, m, v)
       [] v.tag = "int" /\ w.tag /= "free" -> bind(s, m, v.val)
       [] v.tag = "ref" /\ w.tag = "int" -> bind(s, n, w.val)
       [] v.tag = "ref" /\ w.tag = "ref" -> unify_suspvar_suspvar(s, v.val, w.val)

-----------------------------------------------------------------------------
(* The built-ins.                                                          *)

\* Of a variable that is an integer already.
CheckInt(e, o) ==
  CASE o.name = "region" -> e \in o.a .. o.b
    [] o.name = "exclude" -> e \notin o.a .. o.b
    [] o.name \in {"set_false", "inst_set_false"} -> e /= o.a
    [] o.name = "intersect2" -> e \in {o.a, o.b}
    [] o.name = "in" -> e \in o.S
    [] o.name = "notin" -> e \notin o.S

\* Of a domain variable.
Narrow(s, at, o) ==
  CASE o.name = "region"         -> domain_region_noint(s, at, o.a, o.b)
    [] o.name = "exclude"        -> domain_exclude_interval_noint(s, at, o.a, o.b)
    [] o.name = "set_false"      -> domain_set_false_aux(s, at, o.a)
    [] o.name = "inst_set_false" -> domain_set_false_noint(s, at, o.a)
    [] o.name = "intersect2"     -> b_DM_INTERSECT2(s, at, o.a, o.b)
    [] o.name = "in"             -> b_VAR_IN_D(s, at, Ascending(o.S))
    [] o.name = "notin"          -> b_VAR_NOTIN_D(s, at, Ascending(o.S))
    [] o.name = "two"            -> domain_reduce_to_two(s, at, o.a, o.b)

b_DM_INTERSECT(s, n, m) ==
  LET v == DEREF(s, n)
      w == DEREF(s, m)
  IN CASE v.tag = "int" /\ w.tag = "int" -> IF v = w THEN s ELSE Failed(s)
       [] v.tag = "int" /\ w.tag = "ref" -> IF dm_true(s, w.val, v.val) THEN s ELSE Failed(s)
       [] v.tag = "ref" /\ w.tag = "int" -> BindIfTrue(s, v.val, w.val)
       [] v.tag = "ref" /\ w.tag = "ref" -> dm_intersect(s, v.val, w.val)

Perform(s, o) ==
  LET v == DEREF(s, o.i)
  IN CASE o.name = "suspend"   -> CREATE_SUSP_VAR(s, o.i, Plain)
       [] o.name = "create"    -> IF o.a = o.b THEN bind(s, o.i, o.a) ELSE aux_create_domain_var(s, o.i, o.a, o.b, FALSE)
       [] o.name = "create_bv" -> aux_create_domain_var(s, o.i, o.a, o.b, TRUE)
       [] o.name = "bind"      -> bind(s, o.i, o.a)
       [] o.name = "unify"     -> unify(s, o.i, o.j)
       [] o.name = "intersect" -> b_DM_INTERSECT(s, o.i, o.j)
       [] o.name = "subtract"  -> exclude_dom_aux(s, DEREF(s, o.j).val, v.val)
       [] OTHER -> IF v.tag = "ref" THEN Narrow(s, v.val, o) ELSE IF CheckInt(v.val, o) THEN s ELSE Failed(s)

IsDvar(s, v) == v.tag = "ref" /\ s.heap[v.val].type /= UN_DOMAIN

\* What the callers of a built-in make sure of.
MayCall(s, o) ==
  LET v == DEREF(s, o.i)
      w == DEREF(s, o.j)
      dvars == IsDvar(s, v) /\ IsDvar(s, w) /\ v /= w
      number(u) == u.tag = "int" \/ IsDvar(s, u)
      mixed == IsBV(s.heap[v.val]) /= IsBV(s.heap[w.val])
      it == IF IsBV(s.heap[v.val]) THEN w.val ELSE v.val
  IN CASE o.name \in {"create", "create_bv", "bind"} -> TRUE
       [] o.name = "suspend"   -> v.tag = "free"
       [] o.name = "unify"     -> /\ v.tag /= "free" \/ w.tag /= "free"
                                  /\ dvars /\ mixed /\ ~HolesByUnify =>
                                       ("dom" \in s.heap[it].cs => "outer_dom" \in s.heap[it].cs)
       [] o.name = "intersect" -> number(v) /\ number(w) /\ (v.tag = "ref" => v /= w)
       [] o.name = "subtract"  -> dvars
       [] o.name = "two"       -> IsDvar(s, v) /\ o.a /= o.b /\ dm_true(s, v.val, o.a) /\ dm_true(s, v.val, o.b)
       [] o.name = "inst_set_false" -> IsDvar(s, v)
       [] o.name = "in"        -> number(v) /\ (v.tag = "ref" => SetMax(o.S) >= s.heap[v.val].last)
       [] o.name \in {"region", "exclude", "set_false", "intersect2", "notin"} -> number(v)

-----------------------------------------------------------------------------
(* The steps of the machine.                                               *)

\* The values that a variable may still take.
SetOf(s, n) ==
  LET v == DEREF(s, n)
  IN CASE v.tag = "int" -> {v.val}
       [] v.tag /= "int" /\ ~IsDvar(s, v) -> Lo - 1 .. Hi + 1
       [] v.tag /= "int" /\ IsDvar(s, v) -> Elements(s, v.val)

Sets(s) == [n \in Names |-> SetOf(s, n)]
AddressOf(s, n) == IF DEREF(s, n).tag = "ref" THEN DEREF(s, n).val ELSE NULL
Seen(s, same) == [sets |-> Sets(s), at |-> [n \in Names |-> AddressOf(s, n)], same |-> same]

Init ==
  /\ store = [heap |-> <<>>, trail |-> <<>>, hb |-> 0, cell |-> [n \in Names |-> Free],
              events |-> <<>>, ok |-> TRUE]
  /\ choices = <<>>
  /\ watch \in Watches
  /\ op = NoOp
  /\ before = Seen(store, FALSE)
  /\ count = 0

\* What is on the trail when there is no choice point is never looked at.
Trimmed(s, points) == IF points = <<>> THEN [s EXCEPT !.trail = <<>>] ELSE s

Execute(o) ==
  /\ op = NoOp /\ count < MaxOps /\ MayCall(store, o)
  /\ store' = Trimmed(Perform(store, o), choices)
  /\ op' = o
  /\ count' = count + 1
  /\ UNCHANGED <<choices, watch, before>>

Unified == before.same \/ (op /= NoOp /\ op.name = "unify" /\ store.ok)

\* The agents run before anything else does.
Handle ==
  /\ op /= NoOp /\ store.ok
  /\ store' = [store EXCEPT !.events = <<>>]
  /\ op' = NoOp
  /\ before' = Seen(store', Unified)
  /\ UNCHANGED <<choices, watch, count>>

Choice ==
  /\ op = NoOp /\ Len(choices) < MaxChoices
  /\ choices' = Append(choices, [trail |-> Len(store.trail), hb |-> Top(store), seen |-> before])
  /\ store' = [store EXCEPT !.hb = Top(store)]
  /\ UNCHANGED <<watch, op, before, count>>

OlderMark == IF Len(choices) > 1 THEN Last(Front(choices)).hb ELSE 0

Cut ==
  /\ op = NoOp /\ choices /= <<>>
  /\ choices' = Front(choices)
  /\ store' = Trimmed([store EXCEPT !.hb = OlderMark], choices')
  /\ UNCHANGED <<watch, op, before, count>>

\* MUTANT: the cells of the program's variables are not reset.
UndoObjects(s, entry) ==
  IF entry.field = "word" THEN [s EXCEPT !.heap[entry.at].bits = (@ \ entry.old.word) \cup entry.old.bits]
  ELSE IF entry.field = "cell" THEN s ELSE [s EXCEPT !.heap[entry.at][entry.field] = entry.old]

\* POPTRAIL
Undo(s, entry) ==
  CASE entry.field = "cell" -> [s EXCEPT !.cell[entry.old] = Free]
    [] entry.field = "word" -> [s EXCEPT !.heap[entry.at].bits = (@ \ entry.old.word) \cup entry.old.bits]
    [] OTHER -> [s EXCEPT !.heap[entry.at][entry.field] = entry.old]

\* The newest choice point has no more alternatives.
Fail ==
  /\ choices /= <<>>
  /\ LET c == Last(choices)
         s == FoldRight(LAMBDA entry, q : Undo(q, entry),
                        SubSeq(store.trail, c.trail + 1, Len(store.trail)), store)
     IN /\ store' = [s EXCEPT !.heap = SubSeq(@, 1, c.hb), !.trail = SubSeq(@, 1, c.trail),
                              !.hb = OlderMark, !.events = <<>>, !.ok = TRUE]
        /\ before' = c.seen
  /\ choices' = Front(choices)
  /\ op' = NoOp
  /\ UNCHANGED <<watch, count>>

Next == (\E o \in Operations : Execute(o)) \/ Handle \/ Choice \/ Cut \/ Fail

Spec == Init /\ [][Next]_vars

-----------------------------------------------------------------------------
(* The queries.                                                            *)

\* The answer, if there is one.
b_DM_NEXT(s, at, e) ==
  LET d == s.heap[at]
  IN CASE e < d.first -> {d.first}
       [] e >= d.first /\ e >= d.last -> {}
       [] e >= d.first /\ e < d.last -> {IF IsBV(d) THEN domain_next_bv(s, at, e + 1) ELSE e + 1}

b_DM_PREV(s, at, e) ==
  LET d == s.heap[at]
  IN CASE e > d.last -> {d.last}
       [] e <= d.last /\ e <= d.first -> {}
       [] e <= d.last /\ e > d.first -> {IF IsBV(d) THEN domain_prev_bv(s, at, e - 1) ELSE e - 1}

\* MUTANT: the bits of the vector are counted.
b_DM_COUNT_bits(s, at) == IF IsBV(s.heap[at]) THEN Cardinality(Bits(s, at)) ELSE s.heap[at].size

b_DM_COUNT(s, at) == s.heap[at].size

-----------------------------------------------------------------------------
(* Properties.                                                             *)

TypeOK ==
  /\ \A at \in 1 .. Top(store) :
       \/ DOMAIN store.heap[at] = {"low", "up", "bits"}
       \/ DOMAIN store.heap[at] = {"var", "cs", "type", "first", "last", "size"}
  /\ \A n \in Names : store.cell[n].tag = "ref" => store.cell[n].val \in 1 .. Top(store)
  /\ store.hb \in 0 .. Top(store) /\ Len(choices) <= MaxChoices
  /\ \A k \in DOMAIN store.trail : store.trail[k].at \in 0 .. Top(store)
  /\ watch \in Watches /\ op \in Operations \cup {NoOp}

Dvars(s) == {AddressOf(s, n) : n \in {m \in Names : IsDvar(s, DEREF(s, m))}}

Least(S) == IF S = {} THEN {} ELSE {SetMin(S)}
Greatest(S) == IF S = {} THEN {} ELSE {SetMax(S)}

\* The queries of the two domains read no bit that is left over outside first..last, and
\* agree with the sets whatever the representations are.
QueriesAgree ==
  store.ok => \A at \in Dvars(store) :
    LET S == Elements(store, at)
    IN /\ b_DM_COUNT(store, at) = Cardinality(S)
       /\ \A e \in Lo - 1 .. Hi + 1 :
            /\ b_DM_NEXT(store, at, e) = Least({f \in S : f > e})
            /\ b_DM_PREV(store, at, e) = Greatest({f \in S : f < e})
       /\ \A other \in Dvars(store) \ {at} :
            /\ dm_disjoint(store, at, other) = (S \cap Elements(store, other) = {})
            /\ DOMAIN_INCLUDE(store, at, other) = (Elements(store, other) \subseteq S)

\* An unbound domain variable has at least two values, first and last are the least and the
\* greatest of them, size is their number although bits outside first..last stay behind, and
\* its vector has a word for each of them: nothing that reads between the bounds leaves it,
\* and the queries, which rely on all this, answer as the sets would.
WellFormed ==
  /\ TypeOK
  /\ store.ok => \A at \in Dvars(store) :
       LET d == store.heap[at] IN
       /\ d.first < d.last /\ d.size = Cardinality(Elements(store, at))
       /\ IsBV(d) => /\ {d.first, d.last} \subseteq Bits(store, at)
                     /\ d.first .. d.last \subseteq store.heap[d.type].low .. store.heap[d.type].up
  /\ QueriesAgree

\* Whatever path brought the representation there, the domains are the sets that the
\* operations say, an operation fails exactly when it leaves nothing, and failing back to a
\* choice point brings back the sets that were there.
Sets0 == INSTANCE DomainSets
  WITH dom <- IF store.ok THEN Sets(store) ELSE [n \in Names |-> {}],
       same <- Unified,
       saved <- [k \in DOMAIN choices |-> [dom |-> choices[k].seen.sets, same |-> choices[k].seen.same]],
       failed <- ~store.ok

RefinesSets == Sets0!Spec

\* What an operation did to the variable n, which was a domain variable before it.
WasDvar(n) == before.at[n] /= NULL /\ store.heap[before.at[n]].type /= UN_DOMAIN /\ op.name \notin {"create", "create_bv"}
Gone(n) == before.sets[n] \ SetOf(store, n)
Bound(n) == DEREF(store, n).tag = "int"
Heard(n, port) == port \in store.heap[before.at[n]].cs
Told(n, ports, e) ==
  Cardinality({k \in DOMAIN store.events : store.events[k].at = before.at[n] /\ store.events[k].port \in ports
                                          /\ store.events[k].elm = e})

Settled == op /= NoOp /\ store.ok

\* The agents of a variable that is still unbound hear of every value that has left it: of the
\* inner ones those that watch dom, of all of them those that watch outer_dom as well, of
\* each exactly once, and never of a value that is still there.
ToldOnce ==
  Settled => \A n \in Names : WasDvar(n) /\ Heard(n, "dom") /\ ~Bound(n) =>
    LET inner == {e \in Gone(n) : SetMin(SetOf(store, n)) < e /\ e < SetMax(SetOf(store, n))}
        due == IF Heard(n, "outer_dom") THEN Gone(n) ELSE inner
    IN /\ \A e \in due : Told(n, {"dom", "outer_dom"}, e) = 1
       /\ \A e \in before.sets[n] : Told(n, {"dom", "outer_dom"}, e) <= IF e \in Gone(n) THEN 1 ELSE 0

\* The agents that watch the bounds of a variable that is still unbound are woken exactly
\* when a bound has moved.
BoundsTold ==
  Settled => \A n \in Names : WasDvar(n) /\ Heard(n, "minmax") /\ ~Bound(n) =>
    ((SetMin(SetOf(store, n)) /= SetMin(before.sets[n]) \/ SetMax(SetOf(store, n)) /= SetMax(before.sets[n]))
       <=> Told(n, {"minmax"}, 0) > 0)

\* The agents that wait for a variable to be bound are woken exactly once, when it is bound or
\* becomes the same as another one.
InsTold ==
  Settled => \A n \in Names : before.at[n] /= NULL /\ Heard(n, "ins") =>
    LET joined == op.name = "unify" /\ NULL \notin {before.at[op.i], before.at[op.j]} /\ before.at[op.i] /= before.at[op.j]
        woken == {k \in DOMAIN store.events : store.events[k].port = "ins"
                                              /\ store.events[k].at \in {before.at[n], AddressOf(store, n)}}
    IN Cardinality(woken) = IF Bound(n) \/ joined THEN 1 ELSE 0

\* Agents learn of an operation exactly what it changed.
AgentsTold == ToldOnce /\ BoundsTold /\ InsTold
=============================================================================

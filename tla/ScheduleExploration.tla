-------------------------- MODULE ScheduleExploration --------------------------
(***************************************************************************)
(* exploreInterleavings and enumerateSchedules (packages/core/src          *)
(* /schedule.ts): the orders of the actors' suspension points are          *)
(* enumerated and replayed, and an invariant is checked after each run.    *)
(* What a run does is what InterleavingRun says of one that ends: the      *)
(* planned actor is released if it is parked, else the first that is.      *)
(***************************************************************************)
EXTENDS Naturals, Sequences, FiniteSets, SequencesExt

CONSTANTS Actors,       \* 1 .. Actors, in the order of the array
          Systems,      \* actors whose suspension points may depend on the order
          Limits        \* maxSchedules

VARIABLES system, bad,      \* the actors, and the order that breaks the invariant
          options,          \* yieldPoints (or None), maxSchedules, stopOnFirstFailure
          yieldPoints, schedules,
          outcomes, failures, divergent,  \* orders, orders, numbers of schedules
          phase

vars == <<system, bad, options, yieldPoints, schedules, outcomes, failures, divergent, phase>>

None == <<>>
Actor == 1 .. Actors
Count(order, a) == Cardinality({i \in DOMAIN order : order[i] = a})

---------------------------------------------------------------------------
(* A run *)

\* A system gives each actor its points, and one actor another one if it is released
\* first; that is how points depend on what an actor observes.
Points(a, order) ==
    system.points[a] + (IF a = system.late /\ order # <<>> /\ order[1] = a THEN 1 ELSE 0)

Parked(order) == {a \in Actor : Count(order, a) < Points(a, order)}

ToRelease(schedule, order) ==
    IF Len(order) < Len(schedule) /\ schedule[Len(order) + 1] \in Parked(order)
    THEN schedule[Len(order) + 1]
    ELSE CHOOSE a \in Parked(order) : \A b \in Parked(order) : a <= b

RECURSIVE RunFrom(_, _)
RunFrom(schedule, order) ==
    IF Parked(order) = {} THEN order
    ELSE RunFrom(schedule, Append(order, ToRelease(schedule, order)))

Observed(schedule) == RunFrom(schedule, <<>>)

\* Mutant: only releases beyond the plan count.
DivergesIfLonger(schedule) == Len(Observed(schedule)) > Len(schedule)

Diverges(schedule) ==
    \E i \in DOMAIN Observed(schedule) :
        i > Len(schedule) \/ Observed(schedule)[i] # schedule[i]

---------------------------------------------------------------------------
(* The enumeration *)

\* walk: depth first, the actors in their order.
RECURSIVE Walk(_, _)
Walk(counts, prefix) ==
    LET available == {a \in Actor : counts[a] > 0}
        names == SetToSortSeq(available, <)
    IN  IF available = {} THEN <<prefix>>
        ELSE FlattenSeq([i \in DOMAIN names |->
                Walk([counts EXCEPT ![names[i]] = @ - 1], Append(prefix, names[i]))])

AtLeastOne(limit) == IF limit < 1 THEN 1 ELSE limit
Enumerated(counts) ==
    SubSeq(Walk(counts, <<>>), 1,
           IF Len(Walk(counts, <<>>)) < AtLeastOne(options.limit)
           THEN Len(Walk(counts, <<>>)) ELSE AtLeastOne(options.limit))

Sum(counts, to) == FoldLeft(LAMBDA s, a : s + counts[a], 0, [i \in 1 .. to |-> i])

\* multinomial: the product of C(assigned, count), each computed incrementally.
Choose(assigned, count) ==
    FoldLeft(LAMBDA c, i : (c * (assigned - (i - 1))) \div i, 1, [i \in 1 .. count |-> i])
Multinomial(counts) ==
    FoldLeft(LAMBDA p, a : p * Choose(Sum(counts, a), counts[a]), 1, [i \in Actor |-> i])

\* Mutant: an enumeration that reaches its limit exactly is taken for a complete one.
TruncatedOverLimit == Len(schedules) > AtLeastOne(options.limit)

Truncated == Len(schedules) < Multinomial(yieldPoints)

---------------------------------------------------------------------------
(* The exploration *)

Enumerate(counts) ==
    /\ yieldPoints' = counts
    /\ schedules' = Enumerated(counts)
    /\ phase' = "explore"
    /\ UNCHANGED <<system, bad, options, outcomes, failures, divergent>>

Declared == phase = "start" /\ options.yieldPoints # None /\ Enumerate(options.yieldPoints)

\* One run with no plan counts the points of each actor.
Probe ==
    /\ phase = "start" /\ options.yieldPoints = None
    /\ Enumerate([a \in Actor |-> Count(Observed(<<>>), a)])

Explore ==
    /\ phase = "explore" /\ Len(outcomes) < Len(schedules)
    /\ LET schedule == schedules[Len(outcomes) + 1]
           fails == Observed(schedule) = bad
       IN  /\ outcomes' = Append(outcomes, Observed(schedule))
           /\ divergent' = IF Diverges(schedule) THEN divergent \cup {Len(outcomes) + 1}
                           ELSE divergent
           /\ failures' = IF fails THEN Append(failures, Observed(schedule)) ELSE failures
           /\ phase' = IF fails /\ options.stop THEN "done" ELSE "explore"
    /\ UNCHANGED <<system, bad, options, yieldPoints, schedules>>

Finish ==
    /\ phase = "explore" /\ Len(outcomes) = Len(schedules)
    /\ phase' = "done"
    /\ UNCHANGED <<system, bad, options, yieldPoints, schedules, outcomes, failures, divergent>>

\* Every order the system's points can have.
RECURSIVE OrdersFrom(_)
OrdersFrom(order) ==
    IF Parked(order) = {} THEN {order}
    ELSE UNION {OrdersFrom(Append(order, a)) : a \in Parked(order)}
Orders == OrdersFrom(<<>>)

Init ==
    /\ system \in Systems
    /\ bad \in Orders
    /\ options \in [yieldPoints : {None} \cup [Actor -> 0 .. 1], limit : Limits, stop : BOOLEAN]
    /\ yieldPoints = None /\ schedules = <<>> /\ phase = "start"
    /\ outcomes = <<>> /\ failures = <<>> /\ divergent = {}

Next == Declared \/ Probe \/ Explore \/ Finish

---------------------------------------------------------------------------
(* Properties *)

\* "No failure across a complete (non-truncated, non-divergent) enumeration is a real
\* statement: no ordering of the points you declared breaks this" (schedule.ts:373): the
\* order that breaks the invariant is found, even when the points that were counted or
\* declared are not those the actors have.  A failure is one: replaying what was observed
\* is the same run.
CompleteMeansEveryOrder ==
    phase = "done" =>
        /\ failures = <<>> => Truncated \/ divergent # {}
        /\ \A i \in DOMAIN failures : failures[i] = bad /\ Observed(failures[i]) = bad
===============================================================================

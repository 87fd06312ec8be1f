---------------------------- MODULE InterleavingRun ----------------------------
(***************************************************************************)
(* runInterleaving and its Scheduler (packages/core/src/schedule.ts): a    *)
(* main loop releases cooperating actors one at a time, in the order of a  *)
(* schedule; an actor parks at each `yield' it declares.                   *)
(*                                                                         *)
(* JavaScript interleaves only at awaits.  An actor that awaits something  *)
(* else than its `yield' is "working": suspended in the middle of a        *)
(* segment, and resumed by whatever it awaits.  Actors are 1..Actors in    *)
(* the order of the array.                                                 *)
(***************************************************************************)
EXTENDS Naturals, Sequences, FiniteSets

CONSTANTS
  Actors,        \* how many actors
  MaxPoints,     \* bound: suspension points of one actor
  Schedules,     \* the schedules asked for
  Blocking       \* whom an actor may await before it returns, 0: nobody

ASSUME ActorAssumption == Actors \in Nat \ {0}
ASSUME PointAssumption == MaxPoints \in Nat
ASSUME ScheduleAssumption == Schedules \subseteq Seq(1..Actors)
ASSUME BlockingAssumption == Blocking \subseteq 0..Actors

Actor == 1..Actors

VARIABLES
  schedule,    \* the argument
  blockedOn,   \* actor -> the actor whose end it awaits before it returns, or 0
  left,        \* actor -> yields it will still reach
  state,       \* actor -> "new", "working", "parked", "returned" or "done"
  loop,        \* "start", "check", "wait", "release", "ended" or "threw"
  wake,        \* Scheduler.#wake is set
  expired,     \* the deadline of the current quiesce has passed
  observed,
  divergent

given == <<schedule, blockedOn>>
vars == <<given, left, state, loop, wake, expired, observed, divergent>>

Init ==
  /\ schedule \in Schedules
  /\ blockedOn \in [Actor -> Blocking]
  /\ \A a \in Actor : blockedOn[a] # a
  /\ left \in [Actor -> 0..MaxPoints]
  /\ state = [a \in Actor |-> "new"]
  /\ loop = "start"
  /\ wake = FALSE
  /\ expired = FALSE
  /\ observed = <<>>
  /\ divergent = FALSE

-------------------------------------------------------------------------------
\* Variants a slip in the scheduler would produce; no action below uses them.

SomeoneParked == \E a \in Actor : state[a] = "parked"   \* does not wait for all
DivergesIfUnplanned(a) == Len(observed) >= Len(schedule)
NeverExpires == loop = "wait" /\ UNCHANGED vars         \* the timer only wakes
-------------------------------------------------------------------------------

\* #signal: the waiter of quiesce, if there is one, runs again.
Signal ==
  /\ wake' = FALSE
  /\ loop' = IF wake /\ loop = "wait" THEN "check" ELSE loop

Resting(a) == state[a] \in {"parked", "done"}
Quiesced == \A a \in Actor : Resting(a)

MayReturn(a) ==
  left[a] = 0 /\ (blockedOn[a] # 0 => state[blockedOn[a]] = "done")

Becomes(a, s) == state' = [state EXCEPT ![a] = s]

\* actors.map: the actors are started in order, each runs up to its first await.
Start(a) ==
  /\ loop = "start"
  /\ state[a] = "new"
  /\ \A b \in Actor : b < a => state[b] # "new"
  /\ \/ Becomes(a, "working") /\ UNCHANGED left
     \/ left[a] > 0 /\ Becomes(a, "parked") /\ left' = [left EXCEPT ![a] = @ - 1]
     \/ MayReturn(a) /\ Becomes(a, "returned") /\ UNCHANGED left
  /\ loop' = IF a = Actors THEN "check" ELSE "start"
  /\ UNCHANGED <<given, wake, expired, observed, divergent>>

\* An actor reaches its next yield: park, and signal.
Park(a) ==
  /\ loop # "start"
  /\ state[a] = "working"
  /\ left[a] > 0
  /\ Becomes(a, "parked")
  /\ left' = [left EXCEPT ![a] = @ - 1]
  /\ Signal
  /\ UNCHANGED <<given, expired, observed, divergent>>

\* run() returns or throws ...
Return(a) ==
  /\ loop # "start"
  /\ state[a] = "working"
  /\ MayReturn(a)
  /\ Becomes(a, "returned")
  /\ UNCHANGED <<given, left, loop, wake, expired, observed, divergent>>

\* ... and the finally block finishes the actor, and signals.
Done(a) ==
  /\ loop # "start"
  /\ state[a] = "returned"
  /\ Becomes(a, "done")
  /\ Signal
  /\ UNCHANGED <<given, left, expired, observed, divergent>>

\* quiesce, from the test of its loop to the next await
Check ==
  /\ loop = "check"
  /\ \/ /\ Quiesced
        /\ loop' = "release"
        /\ UNCHANGED wake
     \/ /\ ~ Quiesced
        /\ ~ expired
        /\ loop' = "wait"
        /\ wake' = TRUE
     \/ /\ ~ Quiesced
        /\ expired
        /\ loop' = "threw"
        /\ UNCHANGED wake
  /\ UNCHANGED <<given, left, state, expired, observed, divergent>>

\* The deadline passes; a quiesce that waits is woken by its timer.
Timeout ==
  /\ loop \in {"wait", "check"}
  /\ ~ expired
  /\ expired' = TRUE
  /\ loop' = "check"
  /\ UNCHANGED <<given, left, state, wake, observed, divergent>>

FirstReady(a) == state[a] = "parked" /\ \A b \in Actor : state[b] = "parked" => a <= b
Planned(a) == Len(observed) < Len(schedule) /\ schedule[Len(observed) + 1] = a
Diverges(chosen) == ~ Planned(chosen)

\* The planned actor if it is parked, else the first one that is.  The next
\* quiesce has a deadline of its own.
Release(a) ==
  /\ loop = "release"
  /\ state[a] = "parked"
  /\ Planned(a) \/ (FirstReady(a) /\ ~ \E b \in Actor : Planned(b) /\ state[b] = "parked")
  /\ divergent' = (divergent \/ Diverges(a))
  /\ observed' = Append(observed, a)
  /\ Becomes(a, "working")
  /\ loop' = "check"
  /\ expired' = FALSE
  /\ UNCHANGED <<given, left, wake>>

\* No actor is parked: all are done.
Finish ==
  /\ loop = "release"
  /\ \A a \in Actor : state[a] # "parked"
  /\ loop' = "ended"
  /\ UNCHANGED <<given, left, state, wake, expired, observed, divergent>>

Ended ==
  /\ loop \in {"ended", "threw"}
  /\ UNCHANGED vars

ActorStep(a) == Start(a) \/ Park(a) \/ Return(a) \/ Done(a)

Next ==
  \/ \E a \in Actor : ActorStep(a) \/ Release(a)
  \/ Check
  \/ Timeout
  \/ Finish
  \/ Ended

Spec == Init /\ [][Next]_vars

\* Weak fairness: what an actor awaits settles, unless it is another actor, the
\* main loop runs when it can, and its timer fires.
Fairness ==
  /\ \A a \in Actor : WF_vars(ActorStep(a))
  /\ WF_vars(Check \/ (\E a \in Actor : Release(a)) \/ Finish)
  /\ WF_vars(Timeout)
FairSpec == Spec /\ Fairness

-------------------------------------------------------------------------------

TypeOK ==
  /\ schedule \in Schedules
  /\ blockedOn \in [Actor -> Blocking]
  /\ left \in [Actor -> 0..MaxPoints]
  /\ state \in [Actor -> {"new", "working", "parked", "returned", "done"}]
  /\ loop \in {"start", "check", "wait", "release", "ended", "threw"}
  /\ wake \in BOOLEAN
  /\ expired \in BOOLEAN
  /\ observed \in Seq(Actor)
  /\ divergent \in BOOLEAN

\* "the code between two yield() calls is atomic with respect to the other
\* actors" (schedule.ts:174): once the first actor was released, nobody else is
\* in the middle of a segment, whatever real awaits the segments contain.
ReleasedSegmentsAreAtomic ==
  observed # <<>> => \A a, b \in Actor : Resting(a) \/ Resting(b) \/ a = b

\* quiesce never sleeps while everybody rests, nor without being on call.
NoLostWakeup == loop = "wait" => wake /\ ~ Quiesced

\* What a run that is not reported divergent did is what it was asked to do, as
\* far as it got.
UndivergedRunFollowsPlan ==
  ~ divergent =>
    /\ Len(observed) <= Len(schedule)
    /\ \A i \in 1..Len(observed) : observed[i] = schedule[i]

\* Runs end: by the last actor or by the deadline.
RunEnds == <>(loop \in {"ended", "threw"})

===============================================================================

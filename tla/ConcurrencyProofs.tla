-------------------------- MODULE ConcurrencyProofs --------------------------
(***************************************************************************)
(* Theorems about what runs beside one another: the actors of an           *)
(* InterleavingRun, for any number of actors, suspension points and        *)
(* schedules, the clients of a ConcurrentWorkload, for any number of       *)
(* clients and steps, the events of an EventDelivery that arrive           *)
(* repeatedly and out of order, for any events and perturbations, and the  *)
(* messages of a QueueLifecycle, for any consumer and number of rounds.    *)
(***************************************************************************)
EXTENDS InterleavingRun, ConcurrentWorkload, EventDelivery, QueueLifecycle, SequenceTheorems,
        FiniteSetTheorems, WellFoundedInduction, NaturalsInduction, TLAPS

(* The actors of a run *)

\* The inductive invariant: the main loop releases only when everybody rests,
\* and sleeps only on call while somebody does not.
RunInv ==
  /\ TypeOK
  /\ NoLostWakeup
  /\ ReleasedSegmentsAreAtomic
  /\ UndivergedRunFollowsPlan
  /\ loop = "release" => Quiesced
  /\ loop = "start" => observed = <<>>

LEMMA InitEstablishesRunInv == Init => RunInv
<1> SUFFICES ASSUME Init PROVE RunInv
    OBVIOUS
<1>1. TypeOK
  <2>1. /\ state \in [Actor -> {"new", "working", "parked", "returned", "done"}]
        /\ loop \in {"start", "check", "wait", "release", "ended", "threw"}
      BY DEF Init
  <2>2. observed \in Seq(Actor)
      BY DEF Init
  <2> QED BY <2>1, <2>2 DEF Init, TypeOK
<1>2. UndivergedRunFollowsPlan
  <2>1. Len(observed) = 0 /\ schedule \in Seq(1..Actors)
      BY ScheduleAssumption DEF Init
  <2>2. Len(schedule) \in Nat
      BY <2>1, LenProperties
  <2> QED BY <2>1, <2>2 DEF UndivergedRunFollowsPlan
<1>3. NoLostWakeup /\ ReleasedSegmentsAreAtomic
    BY DEF Init, NoLostWakeup, ReleasedSegmentsAreAtomic
<1> QED BY <1>1, <1>2, <1>3 DEF RunInv, Init

\* A step of an actor that is in the middle of a segment, after which it rests
\* or goes on: the main loop, if it sleeps, is woken by the former.
LEMMA SegmentStep ==
  ASSUME RunInv, NEW a \in Actor, NEW s \in {"parked", "returned", "done"},
         loop # "start", ~ Resting(a), Becomes(a, s),
         UNCHANGED <<given, expired, observed, divergent>>,
         left' \in [Actor -> 0..MaxPoints],
         IF s = "returned" THEN UNCHANGED <<loop, wake>> ELSE Signal
  PROVE  RunInv'
<1>1. TypeOK /\ state \in [Actor -> {"new", "working", "parked", "returned", "done"}]
    BY DEF RunInv, TypeOK
<1>2. \A b \in Actor : state'[b] = IF b = a THEN s ELSE state[b]
    BY <1>1 DEF Becomes
<1>3. \A b \in Actor : Resting(b) => Resting(b)'
    BY <1>2 DEF Resting
<1>4. loop # "release"
    BY DEF RunInv, Quiesced
<1>5. TypeOK'
  <2>1. loop' \in {"start", "check", "wait", "release", "ended", "threw"} /\ wake' \in BOOLEAN
      BY <1>1 DEF TypeOK, Signal
  <2>2. state' \in [Actor -> {"new", "working", "parked", "returned", "done"}]
      BY <1>1 DEF Becomes
  <2> QED BY <1>1, <2>1, <2>2 DEF TypeOK, given
<1>6. loop' # "release" /\ loop' # "start"
    BY <1>4 DEF Signal
<1>7. NoLostWakeup'
  <2>1. CASE s = "returned"
    <3>1. ~ Resting(a)'
        BY <1>2, <2>1 DEF Resting
    <3> QED BY <2>1, <3>1 DEF NoLostWakeup, Quiesced, RunInv
  <2>2. CASE s # "returned"
      BY <2>2 DEF NoLostWakeup, Signal, RunInv
  <2> QED BY <2>1, <2>2
<1>8. ReleasedSegmentsAreAtomic'
    BY <1>3 DEF ReleasedSegmentsAreAtomic, RunInv
<1>9. UndivergedRunFollowsPlan'
    BY DEF UndivergedRunFollowsPlan, RunInv, given
<1> QED BY <1>5, <1>6, <1>7, <1>8, <1>9 DEF RunInv

LEMMA StartPreserves ==
  ASSUME RunInv, NEW a \in Actor, Start(a)
  PROVE  RunInv'
<1>1. /\ observed' = <<>> /\ divergent' = divergent /\ schedule' = schedule
      /\ loop' \in {"start", "check"}
    BY DEF Start, RunInv, given
<1>2. TypeOK'
  <2>1. left' \in [Actor -> 0..MaxPoints]
      BY PointAssumption DEF Start, RunInv, TypeOK
  <2>2. state' \in [Actor -> {"new", "working", "parked", "returned", "done"}]
      BY DEF Start, RunInv, TypeOK, Becomes
  <2> QED BY <1>1, <2>1, <2>2 DEF TypeOK, RunInv, Start, given
<1>3. UndivergedRunFollowsPlan'
  <2>1. observed = <<>>
      BY DEF Start, RunInv
  <2> QED BY <1>1, <2>1 DEF UndivergedRunFollowsPlan, RunInv
<1> QED BY <1>1, <1>2, <1>3 DEF RunInv, NoLostWakeup, ReleasedSegmentsAreAtomic

LEMMA ParkPreserves ==
  ASSUME RunInv, NEW a \in Actor, Park(a)
  PROVE  RunInv'
<1>1. left' \in [Actor -> 0..MaxPoints]
    BY PointAssumption DEF Park, RunInv, TypeOK
<1>2. ~ Resting(a)
    BY DEF Park, Resting
<1> QED BY <1>1, <1>2, SegmentStep DEF Park

LEMMA ReturnPreserves ==
  ASSUME RunInv, NEW a \in Actor, Return(a) \/ Done(a)
  PROVE  RunInv'
<1>1. left' \in [Actor -> 0..MaxPoints]
    BY DEF Return, Done, RunInv, TypeOK
<1>2. ~ Resting(a)
    BY DEF Return, Done, Resting
<1>3. CASE Return(a)
    BY <1>1, <1>2, <1>3, SegmentStep DEF Return
<1>4. CASE Done(a)
    BY <1>1, <1>2, <1>4, SegmentStep DEF Done
<1> QED BY <1>3, <1>4

\* The main loop's own steps move no actor.
LEMMA LoopPreserves ==
  ASSUME RunInv, Check \/ Timeout \/ Finish \/ UNCHANGED vars
  PROVE  RunInv'
<1>1. /\ UNCHANGED <<given, left, state, observed, divergent>>
      /\ expired' \in BOOLEAN /\ wake' \in BOOLEAN
      /\ loop' \in {"start", "check", "wait", "release", "ended", "threw"}
    BY DEF Check, Timeout, Finish, vars, RunInv, TypeOK
<1>2. Quiesced' = Quiesced /\ \A a \in Actor : Resting(a)' = Resting(a)
    BY <1>1 DEF Quiesced, Resting
<1>3. TypeOK'
    BY <1>1 DEF TypeOK, RunInv, given
<1>4. NoLostWakeup' /\ (loop' = "release" => Quiesced') /\ (loop' = "start" => observed' = <<>>)
    BY <1>1, <1>2 DEF Check, Timeout, Finish, vars, RunInv, NoLostWakeup
<1>5. ReleasedSegmentsAreAtomic'
    BY <1>1, <1>2 DEF ReleasedSegmentsAreAtomic, RunInv
<1>6. UndivergedRunFollowsPlan'
    BY <1>1 DEF UndivergedRunFollowsPlan, RunInv, given
<1> QED BY <1>3, <1>4, <1>5, <1>6 DEF RunInv

LEMMA ReleasePreserves ==
  ASSUME RunInv, NEW a \in Actor, Release(a)
  PROVE  RunInv'
<1>1. /\ TypeOK /\ Quiesced /\ UndivergedRunFollowsPlan
      /\ observed \in Seq(Actor) /\ schedule \in Seq(Actor)
      /\ state \in [Actor -> {"new", "working", "parked", "returned", "done"}]
    BY ScheduleAssumption DEF RunInv, TypeOK, Release, Actor
<1>2. /\ observed' = Append(observed, a) /\ schedule' = schedule
      /\ loop' = "check"
      /\ state' = [state EXCEPT ![a] = "working"]
      /\ divergent' = (divergent \/ ~ Planned(a))
    BY DEF Release, Becomes, Diverges, given
<1>3. TypeOK'
  <2>1. /\ observed' \in Seq(Actor)
        /\ state' \in [Actor -> {"new", "working", "parked", "returned", "done"}]
        /\ loop' \in {"start", "check", "wait", "release", "ended", "threw"}
      BY <1>1, <1>2
  <2>2. UNCHANGED <<schedule, blockedOn, left, wake>> /\ expired' = FALSE
      BY DEF Release, given
  <2>3. divergent' \in BOOLEAN
      BY <1>1, <1>2 DEF TypeOK
  <2> QED BY <1>1, <2>1, <2>2, <2>3 DEF TypeOK
<1>4. \A b \in Actor : b # a => Resting(b)'
    BY <1>1, <1>2 DEF Quiesced, Resting
<1>5. ReleasedSegmentsAreAtomic'
    BY <1>4 DEF ReleasedSegmentsAreAtomic
<1>6. UndivergedRunFollowsPlan'
  <2> SUFFICES ASSUME ~ divergent'
               PROVE  /\ Len(observed') <= Len(schedule)
                      /\ \A i \in 1..Len(observed') : observed'[i] = schedule[i]
      BY <1>2 DEF UndivergedRunFollowsPlan
  <2>1. ~ divergent /\ Planned(a)
      BY <1>2
  <2>2. /\ Len(observed) \in Nat /\ Len(schedule) \in Nat
        /\ Len(observed') = Len(observed) + 1
        /\ \A i \in 1..Len(observed) : observed'[i] = observed[i]
        /\ observed'[Len(observed) + 1] = a
      BY <1>1, <1>2
  <2>3. \A i \in 1..Len(observed) : observed[i] = schedule[i]
      BY <1>1, <2>1 DEF UndivergedRunFollowsPlan
  <2>4. Len(observed) < Len(schedule) /\ schedule[Len(observed) + 1] = a
      BY <2>1 DEF Planned
  <2> QED BY <2>2, <2>3, <2>4
<1> QED BY <1>2, <1>3, <1>5, <1>6 DEF RunInv, NoLostWakeup

LEMMA StepPreserves == RunInv /\ [Next]_vars => RunInv'
<1> SUFFICES ASSUME RunInv, [Next]_vars
             PROVE  RunInv'
    OBVIOUS
<1>1. ASSUME NEW a \in Actor, ActorStep(a)
      PROVE  RunInv'
    BY <1>1, StartPreserves, ParkPreserves, ReturnPreserves DEF ActorStep
<1>2. ASSUME NEW a \in Actor, Release(a)
      PROVE  RunInv'
    BY <1>2, ReleasePreserves
<1>3. CASE Check \/ Timeout \/ Finish \/ Ended \/ UNCHANGED vars
    BY <1>3, LoopPreserves DEF Ended
<1> QED BY <1>1, <1>2, <1>3 DEF Next

-------------------------------------------------------------------------------

\* The scheduler's invariant, whatever the actors do and the clock says.
THEOREM RunInvariant == Spec => []RunInv
<1>1. RunInv /\ [Next]_vars => RunInv'
    BY StepPreserves
<1> QED BY <1>1, InitEstablishesRunInv, PTL DEF Spec

\* Between two yields an actor that was released is never interleaved with
\* another one, whatever real awaits its code contains.
THEOREM SegmentsAreAtomic == Spec => []ReleasedSegmentsAreAtomic
<1>1. RunInv => ReleasedSegmentsAreAtomic
    BY DEF RunInv
<1> QED BY <1>1, RunInvariant, PTL

\* The main loop never sleeps through the last actor that comes to rest.
THEOREM WakeupsAreNotLost == Spec => []NoLostWakeup
<1>1. RunInv => NoLostWakeup
    BY DEF RunInv
<1> QED BY <1>1, RunInvariant, PTL

\* A run that is not reported divergent released the actors its schedule names,
\* in that order, as far as it got.
THEOREM UndivergedRunsFollowTheirPlan == Spec => []UndivergedRunFollowsPlan
<1>1. RunInv => UndivergedRunFollowsPlan
    BY DEF RunInv
<1> QED BY <1>1, RunInvariant, PTL

-------------------------------------------------------------------------------
(* The clients of a workload *)

\* <<c, n>> names what client c began in its n-th turn.
Named == Nat \X Nat
Recorded == [type : {"invoke", "ok", "fail"}, id : Named, parent : Named \cup {NoOperation}]
Settled == [id : Named, status : {"ok", "fail"}]
InTheLoop == {"beforeStep", "next", "command", "afterStep"}

WorkloadTypes ==
  /\ options \in Workloads
  /\ step \in [Clients -> 0 .. options.stepsPerClient]
  /\ awaits \in [Clients -> InTheLoop \cup {"returned", "thrown"}]
  /\ latest \in [Clients -> Named \cup {NoOperation}]
  /\ history \in Seq(Recorded)
  /\ results \in Seq(Settled)
  /\ \A c \in Clients : awaits[c] \in InTheLoop => step[c] < options.stepsPerClient
  /\ outcome = "resolved" => AllReturned

Invoked(i) == history[i].type = "invoke"
Client(i) == history[i].id[1]
Turn(i) == history[i].id[2]

\* An operation begins once, completes at most once, and begins before it completes.
BegunOnce ==
  \A i, j \in DOMAIN history :
    history[i].id = history[j].id /\ (Invoked(i) <=> Invoked(j)) => i = j
BegunFirst ==
  \A i \in DOMAIN history : ~Invoked(i) =>
    \E j \in DOMAIN history : j < i /\ Invoked(j) /\ history[j].id = history[i].id

\* No client has begun what it has not come to, ...
InTurn ==
  \A i \in DOMAIN history :
    /\ Client(i) \in Clients /\ Turn(i) < options.stepsPerClient
    /\ Turn(i) <= step[Client(i)]
    /\ Turn(i) = step[Client(i)] => awaits[Client(i)] \in {"command", "afterStep", "thrown"}

\* ... a client whose command runs has begun it, and not completed it, ...
UnderWay ==
  \A c \in Clients : awaits[c] = "command" =>
    /\ \E i \in DOMAIN history : history[i].id = <<c, step[c]>>
    /\ \A i \in DOMAIN history : history[i].id = <<c, step[c]>> => Invoked(i)

\* ... and no other operation is open.
OthersComplete ==
  \A i \in DOMAIN history : Invoked(i) =>
    \/ awaits[Client(i)] = "command" /\ Turn(i) = step[Client(i)]
    \/ \E j \in DOMAIN history : ~Invoked(j) /\ history[j].id = history[i].id

\* p is what client c began last before its n-th turn.
IsLast(p, c, n) ==
  \/ p = NoOperation /\ \A j \in DOMAIN history : Client(j) = c => ~(Turn(j) < n)
  \/ /\ \E k \in DOMAIN history : history[k].id = p
     /\ p \in Named /\ p[1] = c /\ p[2] < n
     /\ \A j \in DOMAIN history : Client(j) = c /\ Turn(j) < n => Turn(j) <= p[2]

ParentsAreLast ==
  \A i \in DOMAIN history : Invoked(i) => IsLast(history[i].parent, Client(i), Turn(i))
LatestIsLast == \A c \in Clients : IsLast(latest[c], c, options.stepsPerClient)

EarlierAreComplete ==
  \A i, j \in DOMAIN history :
    Invoked(i) /\ Invoked(j) /\ Client(j) = Client(i) /\ Turn(j) < Turn(i) =>
      \E k \in DOMAIN history : k < i /\ ~Invoked(k) /\ history[k].id = history[j].id

\* The results are the completions on record.
ResultsOf(i) == [id |-> history[i].id, status |-> history[i].type]
ResultsAreCompletions ==
  /\ \A i \in DOMAIN history : ~Invoked(i) => \E k \in DOMAIN results : results[k] = ResultsOf(i)
  /\ \A k \in DOMAIN results : \E i \in DOMAIN history : ~Invoked(i) /\ results[k] = ResultsOf(i)
  /\ \A k, l \in DOMAIN results : results[k].id = results[l].id => k = l

WorkloadInv ==
  /\ WorkloadTypes
  /\ BegunOnce /\ BegunFirst
  /\ InTurn /\ UnderWay /\ OthersComplete
  /\ ParentsAreLast /\ LatestIsLast /\ EarlierAreComplete
  /\ ResultsAreCompletions

\* The names of operations are pairs of numbers.
LEMMA ClientsAreNumbers ==
    ASSUME WorkloadTypes
    PROVE  /\ options.clients \in Nat /\ options.stepsPerClient \in Nat
           /\ \A c \in Clients : c \in Nat /\ step[c] \in Nat /\ <<c, step[c]>> \in Named
<1>1. options.clients \in Nat /\ options.stepsPerClient \in Nat
  BY WorkloadAssumption DEF WorkloadTypes
<1>2. \A c \in Clients : step[c] \in 0 .. options.stepsPerClient
  BY DEF WorkloadTypes
<1>3. \A c \in Clients : c \in Nat
  BY <1>1 DEF Clients
<1> QED BY <1>1, <1>2, <1>3 DEF Named

LEMMA RecordedEvents ==
    ASSUME WorkloadTypes, NEW i \in DOMAIN history
    PROVE  /\ history[i] \in Recorded /\ history[i].id \in Named
           /\ Client(i) \in Nat /\ Turn(i) \in Nat /\ history[i].id = <<Client(i), Turn(i)>>
           /\ history[i].parent \in Named \cup {NoOperation}
<1>1. history[i] \in Recorded
  <2> HIDE DEF Recorded
  <2> QED BY DEF WorkloadTypes
<1> QED BY <1>1 DEF Recorded, Named, Client, Turn

LEMMA WorkloadStarts == WorkloadInit => WorkloadInv
<1> SUFFICES ASSUME WorkloadInit PROVE WorkloadInv
  OBVIOUS
<1>1. options \in Workloads /\ options.clients \in Nat /\ options.stepsPerClient \in Nat
  BY WorkloadAssumption DEF WorkloadInit
<1>2. /\ history = <<>> /\ DOMAIN history = {} /\ results = <<>> /\ DOMAIN results = {}
      /\ outcome # "resolved"
  BY DEF WorkloadInit
<1>3. \A c \in Clients :
        /\ step[c] = 0 /\ awaits[c] = AtHead(0) /\ latest[c] = NoOperation
        /\ AtHead(0) \in {"returned", "thrown", "beforeStep"}
        /\ AtHead(0) = "beforeStep" => 0 < options.stepsPerClient
  BY <1>1 DEF WorkloadInit, AtHead
<1>4. WorkloadTypes
  <2>1. step \in [Clients -> 0 .. options.stepsPerClient]
    BY <1>1 DEF WorkloadInit
  <2>2. awaits \in [Clients -> InTheLoop \cup {"returned", "thrown"}]
    BY <1>3 DEF WorkloadInit, InTheLoop
  <2>3. latest \in [Clients -> Named \cup {NoOperation}]
    BY DEF WorkloadInit
  <2>4. history \in Seq(Recorded) /\ results \in Seq(Settled)
    BY <1>2
  <2>5. \A c \in Clients : awaits[c] \in InTheLoop => step[c] < options.stepsPerClient
    BY <1>3 DEF InTheLoop
  <2> QED BY <1>1, <1>2, <2>1, <2>2, <2>3, <2>4, <2>5 DEF WorkloadTypes
<1>5. BegunOnce /\ BegunFirst /\ InTurn /\ OthersComplete /\ ParentsAreLast /\ EarlierAreComplete
  BY <1>2 DEF BegunOnce, BegunFirst, InTurn, OthersComplete, ParentsAreLast, EarlierAreComplete
<1>6. UnderWay
  BY <1>3 DEF UnderWay
<1>7. LatestIsLast
  BY <1>2, <1>3 DEF LatestIsLast, IsLast
<1>8. ResultsAreCompletions
  BY <1>2 DEF ResultsAreCompletions
<1> QED BY <1>4, <1>5, <1>6, <1>7, <1>8 DEF WorkloadInv

\* What every step does that neither begins an operation nor completes one.
Quiet ==
  /\ UNCHANGED <<options, latest, history, results>>
  /\ step' \in [Clients -> 0 .. options.stepsPerClient]
  /\ awaits' \in [Clients -> InTheLoop \cup {"returned", "thrown"}]
  /\ \A c \in Clients :
        /\ step[c] <= step'[c]
        /\ awaits[c] = "command" <=> awaits'[c] = "command"
        /\ awaits[c] = "command" => step'[c] = step[c]
        /\ awaits'[c] \in InTheLoop => step'[c] < options.stepsPerClient
        /\ step'[c] = step[c] /\ awaits[c] \in {"command", "afterStep", "thrown"} =>
              awaits'[c] \in {"command", "afterStep", "thrown"}
  /\ outcome' = "resolved" => AllReturned'

LEMMA QuietPreserves ==
    ASSUME WorkloadInv, Quiet
    PROVE  WorkloadInv'
<1>1. WorkloadTypes' /\ Clients' = Clients
  BY DEF WorkloadInv, WorkloadTypes, Quiet, Clients
<1>2. UNCHANGED <<options, latest, history, results, Clients>>
  BY DEF Quiet, Clients
<1>3. \A c \in Clients : step[c] \in Nat /\ step'[c] \in Nat
  <2>1. options.stepsPerClient \in Nat
    BY ClientsAreNumbers DEF WorkloadInv
  <2>2. \A c \in Clients : step'[c] \in 0 .. options.stepsPerClient
    BY DEF Quiet
  <2>3. \A c \in Clients : step'[c] \in Nat
    BY <2>1, <2>2
  <2>4. \A c \in Clients : step[c] \in Nat
    BY ClientsAreNumbers DEF WorkloadInv
  <2> QED BY <2>3, <2>4
<1>4. BegunOnce' /\ BegunFirst' /\ ParentsAreLast' /\ LatestIsLast' /\ EarlierAreComplete'
  BY <1>2 DEF WorkloadInv, BegunOnce, BegunFirst, ParentsAreLast, LatestIsLast, IsLast,
              EarlierAreComplete, Invoked, Client, Turn
<1>5. ResultsAreCompletions'
  BY <1>2 DEF WorkloadInv, ResultsAreCompletions, ResultsOf, Invoked
<1>6. \A i \in DOMAIN history : Turn(i) \in Nat
  BY RecordedEvents DEF WorkloadInv
<1>7. InTurn'
  BY <1>2, <1>3, <1>6 DEF WorkloadInv, InTurn, Client, Turn, Quiet
<1>8. UnderWay'
  BY <1>2 DEF WorkloadInv, UnderWay, Invoked, Quiet
<1>9. OthersComplete'
  BY <1>2 DEF WorkloadInv, OthersComplete, InTurn, Invoked, Client, Turn, Quiet
<1> QED BY <1>1, <1>4, <1>5, <1>7, <1>8, <1>9 DEF WorkloadInv

\* Where a client is when it goes on to its next step.
LEMMA HeadOfTheLoop ==
    ASSUME WorkloadTypes, NEW c \in Clients, awaits[c] \in InTheLoop
    PROVE  /\ step[c] + 1 \in 0 .. options.stepsPerClient
           /\ AtHead(step[c] + 1) \in {"returned", "thrown", "beforeStep"}
           /\ AtHead(step[c] + 1) = "beforeStep" => step[c] + 1 < options.stepsPerClient
<1>1. step[c] \in Nat /\ options.stepsPerClient \in Nat /\ step[c] < options.stepsPerClient
  BY ClientsAreNumbers DEF WorkloadTypes
<1> QED BY <1>1 DEF AtHead

LEMMA QuietSteps ==
    ASSUME WorkloadInv, [WorkloadNext]_workloadVars,
           ~ \E c \in Clients : Begin(c) \/ CommandSettles(c)
    PROVE  Quiet
<1> USE DEF WorkloadInv, WorkloadTypes
<1>0. \A c \in Clients : step[c] \in Nat /\ step[c] <= step[c]
  BY ClientsAreNumbers
<1>1. ASSUME UNCHANGED <<options, latest, history, results, awaits, step>>,
             outcome' = "resolved" => AllReturned
      PROVE  Quiet
  <2>1. AllReturned' <=> AllReturned
    BY <1>1 DEF AllReturned, Clients
  <2> QED BY <1>0, <1>1, <2>1 DEF Quiet
<1>2. CASE Abort
  BY <1>1, <1>2 DEF Abort
<1>3. CASE Settle
  BY <1>1, <1>3 DEF Settle
<1>4. CASE UNCHANGED workloadVars
  BY <1>1, <1>4 DEF workloadVars
<1>5. ASSUME NEW c \in Clients, BeforeStep(c) \/ Skip(c) \/ AfterStep(c) \/ Throw(c)
      PROVE  Quiet
  <2>1. /\ UNCHANGED <<options, latest, history, results, outcome, Clients>>
        /\ awaits[c] \in {"beforeStep", "next", "afterStep"}
    BY <1>5 DEF BeforeStep, Skip, AfterStep, Throw, Clients
  <2>2. outcome' # "resolved"
    BY <2>1 DEF AllReturned
  <2>3. CASE UNCHANGED step /\ \E to \in {"next", "thrown"} : Go(c, to) /\ (awaits[c] = "afterStep" => to = "thrown")
    BY <1>0, <2>1, <2>2, <2>3 DEF Go, InTheLoop, Quiet
  <2>4. CASE NextStep(c)
    <3>1. /\ step[c] + 1 \in 0 .. options.stepsPerClient
          /\ AtHead(step[c] + 1) \in {"returned", "thrown", "beforeStep"}
          /\ AtHead(step[c] + 1) = "beforeStep" => step[c] + 1 < options.stepsPerClient
      BY <2>1, HeadOfTheLoop DEF InTheLoop
    <3>2. /\ step' = [step EXCEPT ![c] = step[c] + 1]
          /\ awaits' = [awaits EXCEPT ![c] = AtHead(step[c] + 1)]
      BY <2>4 DEF NextStep, Go
    <3> QED BY <1>0, <2>1, <2>2, <3>1, <3>2 DEF InTheLoop, Quiet
  <2> QED BY <1>5, <2>3, <2>4 DEF BeforeStep, Skip, AfterStep, Throw
<1> QED BY <1>2, <1>3, <1>4, <1>5 DEF WorkloadNext

\* The history, one event longer.
LEMMA OneMoreEvent ==
    ASSUME NEW h \in Seq(Recorded), NEW e \in Recorded
    PROVE  /\ Len(h) \in Nat /\ DOMAIN h = 1 .. Len(h)
           /\ Append(h, e) \in Seq(Recorded)
           /\ DOMAIN Append(h, e) = DOMAIN h \cup {Len(h) + 1}
           /\ \A i \in DOMAIN h : i \in Nat /\ i < Len(h) + 1 /\ Append(h, e)[i] = h[i]
           /\ Append(h, e)[Len(h) + 1] = e
<1> HIDE DEF Recorded
<1> QED BY AppendProperties

\* The history h with e behind it is the next history.
Written(e) ==
  /\ history' = Append(history, e) /\ e \in Recorded
  /\ UNCHANGED <<options, step>>

\* The next history has one more place, for the event just written.
LEMMA WrittenFacts ==
    ASSUME WorkloadTypes, NEW e, Written(e)
    PROVE  /\ history' \in Seq(Recorded) /\ Clients' = Clients
           /\ \E new \in Nat :
                /\ DOMAIN history' = DOMAIN history \cup {new} /\ ~(new \in DOMAIN history)
                /\ \A i \in DOMAIN history : i \in Nat /\ i < new /\ history'[i] = history[i]
                /\ history'[new] = e
<1>1. history \in Seq(Recorded) /\ e \in Recorded
  BY DEF WorkloadTypes, Written
<1>2. Clients' = Clients
  BY DEF Written, Clients
<1> HIDE DEF Recorded
<1>3. Len(history) + 1 \in Nat /\ ~(Len(history) + 1 \in DOMAIN history)
  BY <1>1, OneMoreEvent
<1> QED BY <1>1, <1>2, <1>3, OneMoreEvent DEF Written

LEMMA BeginPreserves ==
    ASSUME WorkloadInv, NEW c \in Clients, Begin(c)
    PROVE  WorkloadInv'
<1> DEFINE n == step[c]
           e == Event("invoke", <<c, n>>, latest[c])
<1> USE DEF WorkloadInv, Invoked, Client, Turn, ResultsOf
<1>1. c \in Nat /\ n \in Nat /\ n < options.stepsPerClient
  BY ClientsAreNumbers DEF WorkloadTypes, InTheLoop, Begin
<1>2. /\ latest' = [latest EXCEPT ![c] = <<c, n>>] /\ awaits[c] = "next"
      /\ awaits' = [awaits EXCEPT ![c] = "command"]
      /\ UNCHANGED <<options, step, results, outcome>> /\ history' = Append(history, e)
  BY DEF Begin, Go, ParentOf
<1>3. Written(e)
  BY <1>1, <1>2 DEF Written, Recorded, Event, Named, WorkloadTypes
<1>4. history' \in Seq(Recorded) /\ Clients' = Clients
  <2> HIDE DEF e
  <2> QED BY <1>3, WrittenFacts
<1>0. PICK new \in Nat :
        /\ DOMAIN history' = DOMAIN history \cup {new} /\ ~(new \in DOMAIN history)
        /\ \A i \in DOMAIN history : i \in Nat /\ i < new /\ history'[i] = history[i]
        /\ history'[new] = e
  <2> HIDE DEF e
  <2> QED BY <1>3, WrittenFacts
<1>5. /\ \A i \in DOMAIN history :
            /\ Invoked(i)' = Invoked(i) /\ Client(i)' = Client(i) /\ Turn(i)' = Turn(i)
            /\ ResultsOf(i)' = ResultsOf(i)
      /\ Invoked(new)' /\ Client(new)' = c /\ Turn(new)' = n
      /\ history'[new].id = <<c, n>> /\ history'[new].parent = latest[c]
  <2>1. /\ e.type = "invoke" /\ e.id = <<c, n>> /\ e.parent = latest[c]
        /\ <<c, n>>[1] = c /\ <<c, n>>[2] = n
    BY DEF Event
  <2> HIDE DEF e, n
  <2> QED BY <1>4, <1>0, <2>1
<1>6. \A i \in DOMAIN history :
         /\ Client(i) \in Nat /\ Turn(i) \in Nat /\ history[i].id = <<Client(i), Turn(i)>>
  BY RecordedEvents
\* The client has not come to its n-th operation before.
<1>7. ASSUME NEW i \in DOMAIN history, Client(i) = c PROVE Turn(i) < n
  <2>1. Turn(i) \in Nat /\ n \in Nat /\ Turn(i) <= n
    BY <1>1, <1>6, <1>7 DEF InTurn
  <2>2. Turn(i) # n
    BY <1>1, <1>2, <1>7 DEF InTurn
  <2> QED BY <2>1, <2>2
<1>8. \A i \in DOMAIN history : history[i].id # <<c, n>>
  BY <1>1, <1>6, <1>7
<1> HIDE DEF n, e
<1>9. WorkloadTypes'
  <2>1. \A d \in Clients : awaits'[d] \in InTheLoop => step[d] < options.stepsPerClient
    BY <1>1, <1>2 DEF WorkloadTypes, n
  <2>2. outcome' # "resolved"
    BY <1>2 DEF WorkloadTypes, AllReturned
  <2>3. latest' \in [Clients -> Named \cup {NoOperation}]
    BY <1>1, <1>2 DEF WorkloadTypes, Named
  <2>4. awaits' \in [Clients -> InTheLoop \cup {"returned", "thrown"}]
    BY <1>2 DEF WorkloadTypes, InTheLoop
  <2> QED BY <1>2, <1>4, <2>1, <2>2, <2>3, <2>4 DEF WorkloadTypes
<1>10. BegunOnce'
  BY <1>4, <1>0, <1>5, <1>8 DEF BegunOnce
<1>11. BegunFirst'
  <2>1. ASSUME NEW i \in DOMAIN history', ~Invoked(i)'
        PROVE  \E j \in DOMAIN history' : j < i /\ Invoked(j)' /\ history'[j].id = history'[i].id
    <3>1. i \in DOMAIN history /\ ~Invoked(i)
      BY <1>4, <1>0, <1>5, <2>1
    <3>2. PICK j \in DOMAIN history : j < i /\ Invoked(j) /\ history[j].id = history[i].id
      BY <3>1 DEF BegunFirst
    <3> QED BY <1>4, <1>0, <3>1, <3>2
  <2> QED BY <2>1 DEF BegunFirst
<1>12. InTurn'
  <2>1. \A i \in DOMAIN history : Client(i) \in Clients
    BY DEF InTurn
  <2> QED BY <1>1, <1>2, <1>4, <1>0, <1>5, <1>6, <1>7, <2>1 DEF InTurn, n, WorkloadTypes
<1>13. UnderWay'
  <2> SUFFICES ASSUME NEW d \in Clients, awaits'[d] = "command"
               PROVE  /\ \E i \in DOMAIN history' : history'[i].id = <<d, step[d]>>
                      /\ \A i \in DOMAIN history' : history'[i].id = <<d, step[d]>> => Invoked(i)'
    BY <1>2, <1>4 DEF UnderWay
  <2>1. CASE d = c
    <3>1. <<d, step[d]>> = <<c, n>>
      BY <2>1 DEF n
    <3> HIDE DEF Invoked
    <3> QED BY <1>4, <1>0, <1>5, <1>8, <3>1
  <2>2. CASE d # c
    <3>1. awaits[d] = "command" /\ <<d, step[d]>> # <<c, n>>
      BY <1>2, <2>2 DEF WorkloadTypes
    <3>2. PICK i \in DOMAIN history : history[i].id = <<d, step[d]>>
      BY <3>1 DEF UnderWay
    <3>3. \A j \in DOMAIN history : history[j].id = <<d, step[d]>> => Invoked(j)
      BY <3>1 DEF UnderWay
    <3> QED BY <1>4, <1>0, <1>5, <3>1, <3>2, <3>3
  <2> QED BY <2>1, <2>2
<1>14. OthersComplete'
  <2>1. awaits'[c] = "command" /\ step'[c] = n
    BY <1>2 DEF WorkloadTypes, n
  <2>2. \A d \in Clients : awaits[d] = "command" => awaits'[d] = "command"
    BY <1>2 DEF WorkloadTypes
  <2>3. \A i \in DOMAIN history : Client(i) \in Clients
    BY DEF InTurn
  <2>4. ASSUME NEW i \in DOMAIN history, Invoked(i)
        PROVE  \/ awaits'[Client(i)] = "command" /\ Turn(i) = step[Client(i)]
               \/ \E j \in DOMAIN history' : ~Invoked(j)' /\ history'[j].id = history[i].id
    <3>1. CASE awaits[Client(i)] = "command" /\ Turn(i) = step[Client(i)]
      BY <2>2, <2>3, <3>1
    <3>2. CASE \E j \in DOMAIN history : ~Invoked(j) /\ history[j].id = history[i].id
      BY <1>4, <1>0, <3>2
    <3> QED BY <2>4, <3>1, <3>2 DEF OthersComplete
  <2>5. ASSUME NEW i \in DOMAIN history', Invoked(i)'
        PROVE  \/ awaits'[Client(i)'] = "command" /\ Turn(i)' = step'[Client(i)']
               \/ \E j \in DOMAIN history' : ~Invoked(j)' /\ history'[j].id = history'[i].id
    <3>1. CASE i = new
      BY <1>5, <2>1, <3>1
    <3>2. CASE i \in DOMAIN history
      <4>1. history'[i] = history[i] /\ step' = step
        BY <1>2, <1>0, <3>2
      <4>2. Invoked(i) /\ Client(i)' = Client(i) /\ Turn(i)' = Turn(i)
        BY <1>5, <2>5, <3>2
      <4> QED BY <2>4, <3>2, <4>1, <4>2
    <3> QED BY <1>0, <3>1, <3>2
  <2> QED BY <2>5 DEF OthersComplete
<1>15. ParentsAreLast'
  <2>1. ASSUME NEW i \in DOMAIN history, Invoked(i)
        PROVE  IsLast(history[i].parent, Client(i), Turn(i))'
    <3>1. IsLast(history[i].parent, Client(i), Turn(i))
      BY <2>1 DEF ParentsAreLast
    <3>2. Client(i) = c => ~(n < Turn(i))
      BY <1>1, <1>6, <1>7
    <3> QED BY <1>4, <1>0, <1>5, <3>1, <3>2 DEF IsLast
  <2>2. IsLast(history[new].parent, Client(new), Turn(new))'
    <3>1. IsLast(latest[c], c, options.stepsPerClient)
      BY DEF LatestIsLast
    <3>2. \A i \in DOMAIN history : Turn(i) < options.stepsPerClient
      BY DEF InTurn
    <3>3. CASE latest[c] = NoOperation /\ \A j \in DOMAIN history : Client(j) = c => ~(Turn(j) < n)
      <4>1. \A j \in DOMAIN history' : Client(j)' = c => ~(Turn(j)' < n)
        BY <1>1, <1>4, <1>0, <1>5, <3>3
      <4>2. history'[new].parent = NoOperation /\ Client(new)' = c /\ Turn(new)' = n
        BY <1>5, <3>3
      <4> HIDE DEF Client, Turn
      <4> QED BY <3>3, <4>1, <4>2 DEF IsLast
    <3>4. CASE latest[c] # NoOperation \/ \E j \in DOMAIN history : Client(j) = c /\ Turn(j) < n
      <4>1. PICK k \in DOMAIN history : history[k].id = latest[c]
        BY <3>1, <3>2, <3>4 DEF IsLast
      <4>2. /\ latest[c] \in Named /\ latest[c][1] = c
            /\ \A j \in DOMAIN history : Client(j) = c => Turn(j) <= latest[c][2]
        BY <3>1, <3>2, <3>4 DEF IsLast
      <4>3. latest[c][2] < n
        BY <1>7, <4>1, <4>2 DEF Client, Turn
      <4>4. \E m \in DOMAIN history' : history'[m].id = latest[c]
        BY <1>4, <1>0, <4>1
      <4>5. \A j \in DOMAIN history' : Client(j)' = c /\ Turn(j)' < n => Turn(j)' <= latest[c][2]
        BY <1>1, <1>4, <1>0, <1>5, <4>2
      <4>6. history'[new].parent = latest[c] /\ Client(new)' = c /\ Turn(new)' = n
        BY <1>5
      <4> QED BY <4>2, <4>3, <4>4, <4>5, <4>6 DEF IsLast
    <3> QED BY <3>3, <3>4
  <2> QED BY <1>4, <1>0, <1>5, <2>1, <2>2 DEF ParentsAreLast
<1>16. LatestIsLast'
  <2> SUFFICES ASSUME NEW d \in Clients PROVE IsLast(latest[d], d, options.stepsPerClient)'
    BY <1>2, <1>4 DEF LatestIsLast
  <2>1. CASE d = c
    <3>1. latest'[d] = <<c, n>> /\ <<c, n>> \in Named
      BY <1>1, <1>2, <2>1 DEF WorkloadTypes, Named
    <3>2. \A j \in DOMAIN history' : Client(j)' = c => Turn(j)' <= n
      BY <1>1, <1>4, <1>0, <1>5, <1>6, <1>7
    <3>3. <<c, n>>[1] = c /\ <<c, n>>[2] = n /\ n < options'.stepsPerClient
      BY <1>1, <1>2 DEF n
    <3> QED BY <1>4, <1>0, <1>5, <2>1, <3>1, <3>2, <3>3 DEF IsLast
  <2>2. CASE d # c
    <3>1. latest'[d] = latest[d] /\ IsLast(latest[d], d, options.stepsPerClient)
      BY <1>2, <2>2 DEF WorkloadTypes, LatestIsLast
    <3>2. \A j \in DOMAIN history' : Client(j)' = d => j \in DOMAIN history
      BY <1>0, <1>5, <2>2
    <3>3. \A j \in DOMAIN history :
             /\ Client(j)' = Client(j) /\ Turn(j)' = Turn(j) /\ j \in DOMAIN history'
             /\ history'[j].id = history[j].id
      BY <1>0, <1>5
    <3> HIDE DEF Client, Turn
    <3>4. CASE /\ latest[d] = NoOperation
               /\ \A j \in DOMAIN history : Client(j) = d => ~(Turn(j) < options.stepsPerClient)
      BY <1>2, <3>1, <3>2, <3>3, <3>4 DEF IsLast
    <3>5. CASE /\ \E k \in DOMAIN history : history[k].id = latest[d]
               /\ latest[d] \in Named /\ latest[d][1] = d /\ latest[d][2] < options.stepsPerClient
               /\ \A j \in DOMAIN history :
                     Client(j) = d /\ Turn(j) < options.stepsPerClient => Turn(j) <= latest[d][2]
      BY <1>2, <3>1, <3>2, <3>3, <3>5 DEF IsLast
    <3> QED BY <3>1, <3>4, <3>5 DEF IsLast
  <2> QED BY <2>1, <2>2
<1>17. EarlierAreComplete'
  <2> SUFFICES ASSUME NEW i \in DOMAIN history', NEW j \in DOMAIN history',
                      Invoked(i)', Invoked(j)', Client(j)' = Client(i)', Turn(j)' < Turn(i)'
               PROVE  \E k \in DOMAIN history' :
                        k < i /\ ~Invoked(k)' /\ history'[k].id = history'[j].id
    BY DEF EarlierAreComplete
  <2>1. j # new
    BY <1>1, <1>4, <1>0, <1>5, <1>6, <1>7
  <2>2. CASE i # new
    <3>1. i \in DOMAIN history /\ j \in DOMAIN history
      BY <1>4, <1>0, <2>1, <2>2
    <3>2. PICK k \in DOMAIN history : k < i /\ ~Invoked(k) /\ history[k].id = history[j].id
      BY <1>4, <1>0, <3>1 DEF EarlierAreComplete
    <3> QED BY <1>4, <1>0, <1>5, <3>1, <3>2
  <2>3. CASE i = new
    <3>1. j \in DOMAIN history /\ Invoked(j) /\ Client(j) = c
      BY <1>4, <1>0, <1>5, <2>1, <2>3
    <3>2. PICK k \in DOMAIN history : ~Invoked(k) /\ history[k].id = history[j].id
      BY <1>2, <3>1 DEF OthersComplete
    <3> QED BY <1>4, <1>0, <1>5, <2>3, <3>1, <3>2
  <2> QED BY <2>2, <2>3
<1>18. ResultsAreCompletions'
  <2>1. \A i \in DOMAIN history' : ~Invoked(i)' => i \in DOMAIN history /\ ~Invoked(i) /\ ResultsOf(i)' = ResultsOf(i)
    BY <1>4, <1>0, <1>5
  <2>2. \A i \in DOMAIN history : ~Invoked(i) => i \in DOMAIN history' /\ ~Invoked(i)' /\ ResultsOf(i)' = ResultsOf(i)
    BY <1>4, <1>0, <1>5
  <2>3. ASSUME NEW i \in DOMAIN history', ~Invoked(i)'
        PROVE  \E k \in DOMAIN results : results[k] = ResultsOf(i)'
    <3>1. PICK k \in DOMAIN results : results[k] = ResultsOf(i)
      BY <2>1, <2>3 DEF ResultsAreCompletions
    <3> QED BY <2>1, <2>3, <3>1
  <2>4. ASSUME NEW k \in DOMAIN results
        PROVE  \E i \in DOMAIN history' : ~Invoked(i)' /\ results[k] = ResultsOf(i)'
    <3>1. PICK i \in DOMAIN history : ~Invoked(i) /\ results[k] = ResultsOf(i)
      BY DEF ResultsAreCompletions
    <3> QED BY <2>2, <3>1
  <2>5. \A k, l \in DOMAIN results : results[k].id = results[l].id => k = l
    BY DEF ResultsAreCompletions
  <2> QED BY <1>2, <2>3, <2>4, <2>5 DEF ResultsAreCompletions
<1> QED BY <1>9, <1>10, <1>11, <1>12, <1>13, <1>14, <1>15, <1>16, <1>17, <1>18

\* In the model an operation that completes repeats what its invocation wrote.
LEMMA SettlingOperation ==
    ASSUME WorkloadInv, NEW c \in Clients, CommandSettles(c)
    PROVE  \E k \in DOMAIN history, status \in {"ok", "fail"} :
             /\ Invoked(k) /\ history[k].id = <<c, step[c]>>
             /\ \A i \in DOMAIN history : history[i].id = <<c, step[c]>> => i = k
             /\ history' = Append(history, Event(status, <<c, step[c]>>, history[k].parent))
             /\ results' = Append(results, [id |-> <<c, step[c]>>, status |-> status])
<1> DEFINE id == <<c, step[c]>>
           k == CHOOSE i \in DOMAIN history : history[i].id = id
<1>1. awaits[c] = "command"
  BY DEF CommandSettles
<1>2. /\ \E i \in DOMAIN history : history[i].id = id
      /\ \A i \in DOMAIN history : history[i].id = id => Invoked(i)
  BY <1>1 DEF WorkloadInv, UnderWay
<1>3. k \in DOMAIN history /\ history[k].id = id
  BY <1>2
<1>4. Invoked(k) /\ \A i \in DOMAIN history : history[i].id = id => i = k
  <2> HIDE DEF k
  <2> QED BY <1>2, <1>3 DEF WorkloadInv, BegunOnce
<1> QED BY <1>3, <1>4 DEF CommandSettles

LEMMA SettlesPreserves ==
    ASSUME WorkloadInv, NEW c \in Clients, CommandSettles(c)
    PROVE  WorkloadInv'
<1> DEFINE n == step[c]
<1> USE DEF WorkloadInv, Invoked, Client, Turn, ResultsOf
<1>1. c \in Nat /\ n \in Nat /\ n < options.stepsPerClient
  BY ClientsAreNumbers DEF WorkloadTypes, InTheLoop, CommandSettles
<1>2. /\ awaits[c] = "command" /\ awaits' = [awaits EXCEPT ![c] = "afterStep"]
      /\ UNCHANGED <<options, step, latest, outcome>>
  BY DEF CommandSettles, Go
<1>3. PICK k \in DOMAIN history, status \in {"ok", "fail"} :
        /\ Invoked(k) /\ history[k].id = <<c, n>>
        /\ \A i \in DOMAIN history : history[i].id = <<c, n>> => i = k
        /\ history' = Append(history, Event(status, <<c, n>>, history[k].parent))
        /\ results' = Append(results, [id |-> <<c, n>>, status |-> status])
  BY SettlingOperation
<1> DEFINE e == Event(status, <<c, n>>, history[k].parent)
           r == [id |-> <<c, n>>, status |-> status]
<1>4. Written(e)
  <2>1. history[k].parent \in Named \cup {NoOperation} /\ <<c, n>> \in Named
    BY <1>1, RecordedEvents DEF Named
  <2> QED BY <1>2, <1>3, <2>1 DEF Written, Recorded, Event
<1>5. history' \in Seq(Recorded) /\ Clients' = Clients
  <2> HIDE DEF e
  <2> QED BY <1>4, WrittenFacts
<1>6. PICK new \in Nat :
        /\ DOMAIN history' = DOMAIN history \cup {new} /\ ~(new \in DOMAIN history)
        /\ \A i \in DOMAIN history : i \in Nat /\ i < new /\ history'[i] = history[i]
        /\ history'[new] = e
  <2> HIDE DEF e
  <2> QED BY <1>4, WrittenFacts
<1>7. /\ \A i \in DOMAIN history :
            /\ Invoked(i)' = Invoked(i) /\ Client(i)' = Client(i) /\ Turn(i)' = Turn(i)
            /\ ResultsOf(i)' = ResultsOf(i)
      /\ ~Invoked(new)' /\ Client(new)' = c /\ Turn(new)' = n
      /\ history'[new].id = <<c, n>> /\ ResultsOf(new)' = r
  <2>1. /\ e.type = status /\ status # "invoke" /\ e.id = <<c, n>>
        /\ <<c, n>>[1] = c /\ <<c, n>>[2] = n
    BY DEF Event
  <2> HIDE DEF e, n
  <2> QED BY <1>6, <2>1
<1>8. \A i \in DOMAIN history :
         /\ Client(i) \in Nat /\ Turn(i) \in Nat /\ history[i].id = <<Client(i), Turn(i)>>
  BY RecordedEvents
<1>9. Client(k) = c /\ Turn(k) = n
  BY <1>3
<1>10. PICK m \in Nat :
        /\ DOMAIN results' = DOMAIN results \cup {m} /\ ~(m \in DOMAIN results)
        /\ \A i \in DOMAIN results : results'[i] = results[i]
        /\ results'[m] = r /\ results' \in Seq(Settled)
  <2>1. results \in Seq(Settled) /\ r \in Settled
    BY <1>1 DEF WorkloadTypes, Settled, Named
  <2>2. results' = Append(results, r)
    BY <1>3
  <2> HIDE DEF r, Settled
  <2>3. /\ Len(results) \in Nat /\ DOMAIN results = 1 .. Len(results)
        /\ Len(results) + 1 \in Nat /\ ~(Len(results) + 1 \in DOMAIN results)
    BY <2>1
  <2>4. /\ results' \in Seq(Settled) /\ Len(results') = Len(results) + 1
        /\ \A i \in 1 .. Len(results) : results'[i] = results[i]
        /\ results'[Len(results) + 1] = r
    BY <2>1, <2>2, AppendProperties
  <2>5. DOMAIN results' = DOMAIN results \cup {Len(results) + 1}
    BY <2>3, <2>4
  <2> QED BY <2>3, <2>4, <2>5
<1> HIDE DEF n, e, r
<1>11. WorkloadTypes'
  <2>1. \A d \in Clients : awaits'[d] \in InTheLoop => step[d] < options.stepsPerClient
    BY <1>1, <1>2 DEF WorkloadTypes, n
  <2>2. outcome' # "resolved"
    BY <1>2 DEF WorkloadTypes, AllReturned
  <2>3. awaits' \in [Clients -> InTheLoop \cup {"returned", "thrown"}]
    BY <1>2 DEF WorkloadTypes, InTheLoop
  <2> QED BY <1>2, <1>5, <1>10, <2>1, <2>2, <2>3 DEF WorkloadTypes
\* The operation has not completed before.
<1>12. \A i \in DOMAIN history : ~Invoked(i) => history[i].id # <<c, n>>
  BY <1>3
<1>13. BegunOnce'
  BY <1>5, <1>6, <1>7, <1>12 DEF BegunOnce
<1>14. BegunFirst'
  <2>1. ASSUME NEW i \in DOMAIN history', ~Invoked(i)'
        PROVE  \E j \in DOMAIN history' : j < i /\ Invoked(j)' /\ history'[j].id = history'[i].id
    <3>1. CASE i = new
      <4>1. k \in DOMAIN history' /\ k < new /\ Invoked(k)' /\ history'[k].id = <<c, n>>
        BY <1>3, <1>6, <1>7
      <4>2. history'[i].id = <<c, n>>
        BY <1>7, <3>1
      <4> QED BY <3>1, <4>1, <4>2
    <3>2. CASE i # new
      <4>1. i \in DOMAIN history /\ ~Invoked(i)
        BY <1>6, <1>7, <2>1, <3>2
      <4>2. PICK j \in DOMAIN history : j < i /\ Invoked(j) /\ history[j].id = history[i].id
        BY <4>1 DEF BegunFirst
      <4> QED BY <1>6, <1>7, <4>1, <4>2
    <3> QED BY <3>1, <3>2
  <2> QED BY <2>1 DEF BegunFirst
<1>15. InTurn'
  <2>1. \A i \in DOMAIN history : Client(i) \in Clients
    BY DEF InTurn
  <2> QED BY <1>1, <1>2, <1>5, <1>6, <1>7, <1>8, <2>1 DEF InTurn, n, WorkloadTypes
<1>16. UnderWay'
  <2> SUFFICES ASSUME NEW d \in Clients, awaits'[d] = "command"
               PROVE  /\ \E i \in DOMAIN history' : history'[i].id = <<d, step[d]>>
                      /\ \A i \in DOMAIN history' : history'[i].id = <<d, step[d]>> => Invoked(i)'
    BY <1>2, <1>5 DEF UnderWay
  <2>1. d # c /\ awaits[d] = "command" /\ <<d, step[d]>> # <<c, n>>
    BY <1>2 DEF WorkloadTypes
  <2>2. PICK i \in DOMAIN history : history[i].id = <<d, step[d]>>
    BY <2>1 DEF UnderWay
  <2>3. \A j \in DOMAIN history : history[j].id = <<d, step[d]>> => Invoked(j)
    BY <2>1 DEF UnderWay
  <2> QED BY <1>6, <1>7, <2>1, <2>2, <2>3
<1>17. OthersComplete'
  <2>1. \A i \in DOMAIN history : Client(i) \in Clients
    BY DEF InTurn
  <2>2. ASSUME NEW i \in DOMAIN history, Invoked(i)
        PROVE  \/ awaits'[Client(i)] = "command" /\ Turn(i) = step[Client(i)]
               \/ \E j \in DOMAIN history' : ~Invoked(j)' /\ history'[j].id = history[i].id
    <3>1. CASE awaits[Client(i)] = "command" /\ Turn(i) = step[Client(i)]
      <4>1. CASE Client(i) = c
        <5>1. history[i].id = <<c, n>>
          BY <1>8, <3>1, <4>1 DEF n
        <5> QED BY <1>6, <1>7, <5>1
      <4>2. CASE Client(i) # c
        BY <1>2, <2>1, <3>1, <4>2 DEF WorkloadTypes
      <4> QED BY <4>1, <4>2
    <3>2. CASE \E j \in DOMAIN history : ~Invoked(j) /\ history[j].id = history[i].id
      BY <1>6, <1>7, <3>2
    <3> QED BY <2>2, <3>1, <3>2 DEF OthersComplete
  <2> QED BY <1>2, <1>6, <1>7, <2>2 DEF OthersComplete
<1>18. \A p, d, l : IsLast(p, d, l) => IsLast(p, d, l)'
  <2> SUFFICES ASSUME NEW p, NEW d, NEW l, IsLast(p, d, l) PROVE IsLast(p, d, l)'
    OBVIOUS
  <2>1. \A j \in DOMAIN history' :
           \E i \in DOMAIN history : Client(j)' = Client(i) /\ Turn(j)' = Turn(i)
    BY <1>6, <1>7, <1>9
  <2>2. \A i \in DOMAIN history : i \in DOMAIN history' /\ history'[i].id = history[i].id
    BY <1>6
  <2> QED BY <2>1, <2>2 DEF IsLast
<1>19. ParentsAreLast' /\ LatestIsLast'
  BY <1>2, <1>5, <1>6, <1>7, <1>18 DEF ParentsAreLast, LatestIsLast
<1>20. EarlierAreComplete'
  <2> SUFFICES ASSUME NEW i \in DOMAIN history', NEW j \in DOMAIN history',
                      Invoked(i)', Invoked(j)', Client(j)' = Client(i)', Turn(j)' < Turn(i)'
               PROVE  \E q \in DOMAIN history' :
                        q < i /\ ~Invoked(q)' /\ history'[q].id = history'[j].id
    BY DEF EarlierAreComplete
  <2>1. i \in DOMAIN history /\ j \in DOMAIN history
    BY <1>6, <1>7
  <2>2. PICK q \in DOMAIN history : q < i /\ ~Invoked(q) /\ history[q].id = history[j].id
    BY <1>6, <2>1 DEF EarlierAreComplete
  <2> QED BY <1>6, <1>7, <2>1, <2>2
<1>21. ResultsAreCompletions'
  <2>1. \A i \in DOMAIN history' :
           ~Invoked(i)' /\ i # new =>
              i \in DOMAIN history /\ ~Invoked(i) /\ ResultsOf(i)' = ResultsOf(i)
    BY <1>6, <1>7
  <2>2. \A i \in DOMAIN history : ~Invoked(i) => i \in DOMAIN history' /\ ~Invoked(i)' /\ ResultsOf(i)' = ResultsOf(i)
    BY <1>6, <1>7
  <2>3. \A k1 \in DOMAIN results : results[k1].id # <<c, n>>
    BY <1>12 DEF ResultsAreCompletions
  <2>4. ASSUME NEW i \in DOMAIN history', ~Invoked(i)'
        PROVE  \E q \in DOMAIN results' : results'[q] = ResultsOf(i)'
    <3>1. CASE i = new
      BY <1>7, <1>10, <3>1
    <3>2. CASE i # new
      <4>1. i \in DOMAIN history /\ ~Invoked(i) /\ ResultsOf(i)' = ResultsOf(i)
        BY <2>1, <2>4, <3>2
      <4>2. PICK q \in DOMAIN results : results[q] = ResultsOf(i)
        BY <4>1 DEF ResultsAreCompletions
      <4> HIDE DEF ResultsOf
      <4> QED BY <1>10, <4>1, <4>2
    <3> QED BY <3>1, <3>2
  <2>5. ASSUME NEW q \in DOMAIN results'
        PROVE  \E i \in DOMAIN history' : ~Invoked(i)' /\ results'[q] = ResultsOf(i)'
    <3>1. CASE q = m
      BY <1>6, <1>7, <1>10, <3>1
    <3>2. CASE q # m
      <4>1. q \in DOMAIN results /\ results'[q] = results[q]
        BY <1>10, <3>2
      <4>2. PICK i \in DOMAIN history : ~Invoked(i) /\ results[q] = ResultsOf(i)
        BY <4>1 DEF ResultsAreCompletions
      <4> QED BY <2>2, <4>1, <4>2
    <3> QED BY <3>1, <3>2
  <2>6. \A q, l \in DOMAIN results' : results'[q].id = results'[l].id => q = l
    <3>1. r.id = <<c, n>>
      BY DEF r
    <3> QED BY <1>10, <2>3, <3>1 DEF ResultsAreCompletions
  <2> QED BY <2>4, <2>5, <2>6 DEF ResultsAreCompletions
<1> QED BY <1>11, <1>13, <1>14, <1>15, <1>16, <1>17, <1>19, <1>20, <1>21

\* The inductive invariant of a workload holds however its clients interleave: what each
\* has begun and completed so far, and under which parent.
THEOREM WorkloadInvariant == WorkloadSpec => []WorkloadInv
<1>1. WorkloadInv /\ [WorkloadNext]_workloadVars => WorkloadInv'
  BY QuietSteps, QuietPreserves, BeginPreserves, SettlesPreserves
<1> QED BY WorkloadStarts, <1>1, PTL DEF WorkloadSpec

(* The lineage read off a history *)

\* Induction over the numbers, for a property given as the set of what has it.
LEMMA NumbersByInduction ==
    ASSUME NEW S, 0 \in S, \A i \in Nat : i \in S => i + 1 \in S
    PROVE  Nat \subseteq S
<1> DEFINE Below == {pair \in Nat \X Nat : pair[1] < pair[2]}
           Rest == Nat \ S
<1>1. SUFFICES ASSUME Rest # {} PROVE FALSE
  OBVIOUS
<1>2. IsWellFoundedOn(Below, Nat)
  BY NatLessThanWellFounded DEF OpToRel
<1>3. PICK i \in Rest : \A j \in Rest : ~(<<j, i>> \in Below)
  <2> HIDE DEF Below
  <2> QED BY <1>1, <1>2, WFMin
<1>4. i \in Nat /\ i # 0 /\ i - 1 \in Nat /\ (i - 1) + 1 = i
  BY <1>3
<1>5. <<i - 1, i>> \in Below
  BY <1>4
<1>6. i - 1 \in S
  BY <1>3, <1>4, <1>5
<1> QED BY <1>3, <1>4, <1>6

\* Operations that form lines: a parent, when it is one, is the last before its child.
IsLineage(ids, parent, bound) ==
  /\ ids \subseteq Named /\ bound \in Nat
  /\ \A id \in ids :
       /\ id[2] < bound
       /\ IF parent[id] \in ids
          THEN /\ parent[id][1] = id[1] /\ parent[id][2] < id[2]
               /\ \A other \in ids : other[1] = id[1] /\ other[2] < id[2] => other[2] <= parent[id][2]
          ELSE \A other \in ids : other[1] = id[1] => ~(other[2] < id[2])

Up(ids, parent, above, id) ==
  IF parent[id] \notin ids THEN <<>> ELSE <<parent[id]>> \o above[parent[id]]

\* There is a function that satisfies the equation of Ancestors.
LEMMA LinesExist ==
    ASSUME NEW ids, NEW parent, NEW bound, IsLineage(ids, parent, bound)
    PROVE  \E above : above = [id \in ids |-> Up(ids, parent, above, id)]
<1> DEFINE Solves(g, m) == /\ g = [id \in ids |-> g[id]]
                           /\ \A id \in ids : id[2] < m => g[id] = Up(ids, parent, g, id)
           Solved == {m \in Nat : \E g : Solves(g, m)}
<1>0. \A id \in ids : id[2] \in Nat /\ id[2] < bound /\ (parent[id] \in ids => parent[id][2] < id[2])
  BY DEF IsLineage, Named
<1>1. 0 \in Solved
  <2>1. Solves([id \in ids |-> <<>>], 0)
    BY <1>0
  <2> QED BY <2>1
<1>2. ASSUME NEW m \in Nat, m \in Solved PROVE m + 1 \in Solved
  <2>1. PICK g : Solves(g, m)
    BY <1>2
  <2> DEFINE h == [id \in ids |-> IF id[2] = m THEN Up(ids, parent, g, id) ELSE g[id]]
  <2>2. h = [id \in ids |-> h[id]]
    OBVIOUS
  <2>3. ASSUME NEW id \in ids, id[2] < m + 1
        PROVE  h[id] = Up(ids, parent, h, id)
    <3>1. parent[id] \in ids => h[parent[id]] = g[parent[id]]
      BY <1>0, <2>3
    <3>2. Up(ids, parent, h, id) = Up(ids, parent, g, id)
      BY <3>1 DEF Up
    <3>3. h[id] = Up(ids, parent, g, id)
      BY <1>0, <2>1, <2>3
    <3> QED BY <3>2, <3>3
  <2>4. Solves(h, m + 1)
    <3> HIDE DEF h
    <3> QED BY <2>2, <2>3
  <2> HIDE DEF h, Solves
  <2> QED BY <2>4
<1> HIDE DEF Solved
<1>3. bound \in Solved
  BY <1>1, <1>2, NumbersByInduction DEF IsLineage
<1>4. PICK g : Solves(g, bound)
  BY <1>3 DEF Solved
<1>5. g = [id \in ids |-> g[id]]
  BY <1>4
<1>6. \A id \in ids : g[id] = Up(ids, parent, g, id)
  BY <1>0, <1>4
<1> QED BY <1>5, <1>6

Earlier(ids, id) == {other \in ids : other[1] = id[1] /\ other[2] < id[2]}
Later(ids, id) == {other \in ids : other[1] = id[1] /\ id[2] < other[2]}

\* Who is met on the way up: the earlier operations of the client, the latest first.
LEMMA LinesAreEarlier ==
    ASSUME NEW ids, NEW parent, NEW bound, IsLineage(ids, parent, bound),
           NEW above, above = [id \in ids |-> Up(ids, parent, above, id)]
    PROVE  \A id \in ids :
             /\ above[id] \in Seq(ids) /\ ToSet(above[id]) = Earlier(ids, id)
             /\ \A i, j \in DOMAIN above[id] : i < j => above[id][j][2] < above[id][i][2]
<1> DEFINE Line(id) == /\ above[id] \in Seq(ids) /\ ToSet(above[id]) = Earlier(ids, id)
                       /\ \A i, j \in DOMAIN above[id] : i < j => above[id][j][2] < above[id][i][2]
           Shown == {m \in Nat : \A id \in ids : id[2] < m => Line(id)}
<1>0. \A id \in ids : id[1] \in Nat /\ id[2] \in Nat /\ id[2] < bound /\ id = <<id[1], id[2]>>
  BY DEF IsLineage, Named
<1>1. 0 \in Shown
  BY <1>0
<1>2. ASSUME NEW m \in Nat, m \in Shown PROVE m + 1 \in Shown
  <2> SUFFICES ASSUME NEW id \in ids, id[2] < m + 1 PROVE Line(id)
    OBVIOUS
  <2>1. above[id] = Up(ids, parent, above, id)
    OBVIOUS
  <2>2. CASE parent[id] \notin ids
    <3>1. above[id] = <<>>
      BY <2>1, <2>2 DEF Up
    <3>2. Earlier(ids, id) = {}
      BY <2>2 DEF Earlier, IsLineage
    <3>3. above[id] \in Seq(ids) /\ DOMAIN above[id] = {}
      BY <3>1
    <3> QED BY <3>2, <3>3 DEF ToSet
  <2>3. CASE parent[id] \in ids
    <3> DEFINE p == parent[id]
               rest == above[p]
    <3>1. /\ p \in ids /\ p[1] = id[1] /\ p[2] < id[2]
          /\ \A other \in ids : other[1] = id[1] /\ other[2] < id[2] => other[2] <= p[2]
      BY <2>3 DEF IsLineage
    <3>2. p[2] \in Nat /\ p[2] < m
      BY <1>0, <3>1
    <3>3. Line(p)
      <4> HIDE DEF p, Line
      <4> QED BY <1>2, <3>1, <3>2
    <3>4. above[id] = <<p>> \o rest
      BY <2>1, <2>3 DEF Up
    <3> HIDE DEF p
    <3>5. <<p>> \in Seq(ids) /\ Len(<<p>>) = 1 /\ <<p>>[1] = p /\ rest \in Seq(ids) /\ Len(rest) \in Nat
      BY <3>1, <3>3
    <3> HIDE DEF rest
    <3>6. /\ above[id] \in Seq(ids) /\ Len(above[id]) = 1 + Len(rest) /\ DOMAIN above[id] = 1 .. 1 + Len(rest)
          /\ above[id][1] = p /\ DOMAIN rest = 1 .. Len(rest)
          /\ \A i \in 1 .. Len(rest) : above[id][1 + i] = rest[i]
      <4> DEFINE both == <<p>> \o rest
      <4>1. /\ both \in Seq(ids) /\ Len(both) = Len(<<p>>) + Len(rest)
            /\ \A i \in 1 .. Len(<<p>>) + Len(rest) :
                  both[i] = IF i <= Len(<<p>>) THEN <<p>>[i] ELSE rest[i - Len(<<p>>)]
        BY <3>5, ConcatProperties, Zenon
      <4> HIDE DEF both
      <4>2. Len(both) = 1 + Len(rest) /\ DOMAIN both = 1 .. 1 + Len(rest) /\ DOMAIN rest = 1 .. Len(rest)
        BY <3>5, <4>1
      <4>3. both[1] = p
        BY <3>5, <4>1
      <4>4. \A i \in 1 .. Len(rest) : both[1 + i] = rest[i]
        BY <3>5, <4>1
      <4>5. above[id] = both
        BY <3>4 DEF both
      <4> QED BY <4>1, <4>2, <4>3, <4>4, <4>5
    <3>7. \A i \in DOMAIN above[id] \ {1} : i - 1 \in DOMAIN rest /\ above[id][i] = rest[i - 1]
      <4>1. \A i \in DOMAIN above[id] \ {1} : i - 1 \in 1 .. Len(rest) /\ 1 + (i - 1) = i
        BY <3>5, <3>6
      <4> QED BY <3>6, <4>1
    <3>8. \A i \in DOMAIN rest : rest[i] \in Earlier(ids, p)
      BY <3>3 DEF ToSet, rest
    <3>9. ToSet(above[id]) = {p} \cup ToSet(rest)
      <4>1. 1 \in DOMAIN above[id] /\ \A i \in DOMAIN rest : 1 + i \in DOMAIN above[id]
        BY <3>5, <3>6
      <4>2. \A i \in DOMAIN rest : rest[i] \in ToSet(above[id])
        BY <3>6, <4>1 DEF ToSet
      <4>3. \A i \in DOMAIN above[id] : above[id][i] \in {p} \cup ToSet(rest)
        BY <3>6, <3>7 DEF ToSet
      <4>4. p \in ToSet(above[id])
        BY <3>6, <4>1 DEF ToSet
      <4> QED BY <4>2, <4>3, <4>4 DEF ToSet
    <3>10. Earlier(ids, id) = {p} \cup Earlier(ids, p)
      BY <1>0, <3>1 DEF Earlier
    <3>11. ASSUME NEW i \in DOMAIN above[id], NEW j \in DOMAIN above[id], i < j
           PROVE  above[id][j][2] < above[id][i][2]
      <4>1. j - 1 \in DOMAIN rest /\ above[id][j] = rest[j - 1]
        BY <3>6, <3>7, <3>11
      <4>2. CASE i = 1
        BY <3>6, <3>8, <4>1, <4>2 DEF Earlier
      <4>3. CASE i # 1
        <5>1. i - 1 \in DOMAIN rest /\ above[id][i] = rest[i - 1] /\ i - 1 < j - 1
          BY <3>5, <3>6, <3>7, <3>11, <4>3
        <5> QED BY <3>3, <4>1, <5>1 DEF rest
      <4> QED BY <4>2, <4>3
    <3> QED BY <3>3, <3>6, <3>9, <3>10, <3>11 DEF rest
  <2> QED BY <2>2, <2>3
<1> HIDE DEF Shown
<1>3. bound \in Shown
  BY <1>1, <1>2, NumbersByInduction DEF IsLineage
<1> QED BY <1>0, <1>3 DEF Shown

ChildrenIn(ids, parent) == [id \in ids |-> {child \in ids : parent[child] = id}]
Down(ids, children, below, id) == children[id] \cup UNION {below[child] : child \in children[id]}

\* What is met on the way down: the later operations of the client.
LEMMA LaterAreBelow ==
    ASSUME NEW ids, NEW parent, NEW bound, IsLineage(ids, parent, bound),
           NEW children, children = ChildrenIn(ids, parent),
           NEW id \in ids
    PROVE  /\ Later(ids, id) = children[id] \cup UNION {Later(ids, child) : child \in children[id]}
           /\ \A child \in children[id] : child \in ids /\ id[2] < child[2]
<1>0. \A x \in ids : x[1] \in Nat /\ x[2] \in Nat /\ x[2] < bound /\ x = <<x[1], x[2]>>
  BY DEF IsLineage, Named
<1>1. \A child \in children[id] :
         child \in ids /\ parent[child] = id /\ child[1] = id[1] /\ id[2] < child[2]
  BY DEF IsLineage, ChildrenIn
<1>2. ASSUME NEW child \in children[id], NEW x \in Later(ids, child)
      PROVE  x \in Later(ids, id)
  BY <1>0, <1>1, <1>2 DEF Later
<1>3. ASSUME NEW x \in Later(ids, id)
      PROVE  \E child \in children[id] : x = child \/ x \in Later(ids, child)
  <2> DEFINE Turns == {y[2] : y \in Later(ids, id)}
             Below == {pair \in Nat \X Nat : pair[1] < pair[2]}
  <2>1. Turns \subseteq Nat /\ Turns # {}
    BY <1>0, <1>3 DEF Later
  <2>2. IsWellFoundedOn(Below, Nat)
    BY NatLessThanWellFounded DEF OpToRel
  <2>3. PICK t \in Turns : \A u \in Turns : ~(<<u, t>> \in Below)
    <3> HIDE DEF Below, Turns
    <3> QED BY <2>1, <2>2, WFMin
  <2>4. \A u \in Turns : t <= u
    <3>1. t \in Nat /\ \A u \in Turns : u \in Nat
      BY <2>1
    <3>2. \A u \in Turns : ~(u < t)
      <4> HIDE DEF Turns
      <4> QED BY <2>3, <3>1
    <3> HIDE DEF Turns
    <3> QED BY <3>1, <3>2
  <2>5. PICK y \in Later(ids, id) : t = y[2]
    BY <2>3
  <2>6. y \in ids /\ y[1] = id[1] /\ id[2] < y[2]
    BY <2>5 DEF Later
  <2>7. parent[y] \in ids
    BY <2>6 DEF IsLineage
  <2>8. parent[y][1] = y[1] /\ parent[y][2] < y[2] /\ id[2] <= parent[y][2]
    BY <2>6, <2>7 DEF IsLineage
  <2>9. ~(id[2] < parent[y][2])
    <3>1. SUFFICES ASSUME id[2] < parent[y][2] PROVE FALSE
      OBVIOUS
    <3>2. parent[y][2] \in Turns
      BY <2>6, <2>7, <2>8, <3>1 DEF Later
    <3>3. y[2] <= parent[y][2]
      <4> HIDE DEF Turns
      <4> QED BY <2>4, <2>5, <3>2
    <3> QED BY <1>0, <2>6, <2>7, <2>8, <3>3
  <2>10. parent[y] = id
    BY <1>0, <2>6, <2>7, <2>8, <2>9
  <2>11. y \in children[id] /\ y[2] <= x[2] /\ x \in ids /\ x[1] = y[1]
    BY <1>3, <2>4, <2>5, <2>6, <2>10 DEF Later, ChildrenIn
  <2>12. x = y \/ x \in Later(ids, y)
    BY <1>0, <2>6, <2>11 DEF Later
  <2> QED BY <2>11, <2>12
<1>4. \A child \in children[id] : child \in Later(ids, id)
  BY <1>1 DEF Later
<1> QED BY <1>1, <1>2, <1>3, <1>4

\* Whatever satisfies the equation of Descendants maps an operation to the later ones.
LEMMA DescendantsAreLater ==
    ASSUME NEW ids, NEW parent, NEW bound, IsLineage(ids, parent, bound),
           NEW children, children = ChildrenIn(ids, parent),
           NEW below, below = [id \in ids |-> Down(ids, children, below, id)]
    PROVE  \A id \in ids : below[id] = Later(ids, id)
<1> DEFINE Shown == {m \in Nat : \A id \in ids : bound <= id[2] + m => below[id] = Later(ids, id)}
<1>0. bound \in Nat /\ \A id \in ids : id[2] \in Nat /\ id[2] < bound
  BY DEF IsLineage, Named
<1>1. 0 \in Shown
  BY <1>0
<1>2. ASSUME NEW m \in Nat, m \in Shown PROVE m + 1 \in Shown
  <2> SUFFICES ASSUME NEW id \in ids, bound <= id[2] + (m + 1) PROVE below[id] = Later(ids, id)
    OBVIOUS
  <2>1. \A child \in children[id] : child \in ids /\ bound <= child[2] + m
    BY <1>0, LaterAreBelow
  <2>2. \A child \in children[id] : below[child] = Later(ids, child)
    BY <1>2, <2>1
  <2>3. below[id] = Down(ids, children, below, id)
    OBVIOUS
  <2>4. UNION {below[child] : child \in children[id]} = UNION {Later(ids, child) : child \in children[id]}
    BY <2>2
  <2>5. Later(ids, id) = children[id] \cup UNION {Later(ids, child) : child \in children[id]}
    BY LaterAreBelow
  <2> QED BY <2>3, <2>4, <2>5 DEF Down
<1> HIDE DEF Shown
<1>3. bound \in Shown
  BY <1>0, <1>1, <1>2, NumbersByInduction
<1> QED BY <1>0, <1>3 DEF Shown

\* There is a function that satisfies the equation of Descendants.
LEMMA DescendantsExist ==
    ASSUME NEW ids, NEW parent, NEW bound, IsLineage(ids, parent, bound),
           NEW children, children = ChildrenIn(ids, parent)
    PROVE  \E below : below = [id \in ids |-> Down(ids, children, below, id)]
<1> DEFINE g == [id \in ids |-> Later(ids, id)]
<1>1. ASSUME NEW id \in ids PROVE g[id] = Down(ids, children, g, id)
  <2>1. Later(ids, id) = children[id] \cup UNION {Later(ids, child) : child \in children[id]}
    BY LaterAreBelow DEF ChildrenIn
  <2>2. \A child \in children[id] : child \in ids
    BY DEF ChildrenIn
  <2>3. UNION {g[child] : child \in children[id]} = UNION {Later(ids, child) : child \in children[id]}
    BY <2>2
  <2> QED BY <2>1, <2>3 DEF Down
<1>2. g = [id \in ids |-> g[id]]
  OBVIOUS
<1> HIDE DEF g
<1> QED BY <1>1, <1>2

\* Every operation on record has one invocation.
LEMMA NodesAreInvoked ==
    ASSUME WorkloadInv
    PROVE  /\ \A id \in Nodes :
                /\ InvokedAt(id) \in DOMAIN history
                /\ Invoked(InvokedAt(id)) /\ history[InvokedAt(id)].id = id
           /\ \A i \in DOMAIN history : history[i].id \in Nodes
           /\ \A i \in DOMAIN history : Invoked(i) => InvokedAt(history[i].id) = i
<1>1. ASSUME NEW id \in Nodes
      PROVE  \E i \in DOMAIN history : history[i].type = "invoke" /\ history[i].id = id
  <2>1. PICK i \in DOMAIN history : history[i].id = id
    BY DEF Nodes
  <2> QED BY <2>1 DEF WorkloadInv, BegunFirst, Invoked
<1>2. \A id \in Nodes :
        /\ InvokedAt(id) \in DOMAIN history
        /\ Invoked(InvokedAt(id)) /\ history[InvokedAt(id)].id = id
  BY <1>1 DEF InvokedAt, Invoked
<1>3. \A i \in DOMAIN history : history[i].id \in Nodes
  BY DEF Nodes
<1>4. ASSUME NEW i \in DOMAIN history, Invoked(i) PROVE InvokedAt(history[i].id) = i
  BY <1>2, <1>3, <1>4 DEF WorkloadInv, BegunOnce
<1> QED BY <1>2, <1>3, <1>4

\* The lineage that is read off a history is one.
LEMMA HistoryIsLineage ==
    ASSUME WorkloadInv
    PROVE  IsLineage(Nodes, Parent, options.stepsPerClient)
<1>1. options.stepsPerClient \in Nat
  BY ClientsAreNumbers DEF WorkloadInv
<1>2. ASSUME NEW id \in Nodes
      PROVE  \E i \in DOMAIN history :
               /\ Invoked(i) /\ history[i].id = id /\ Parent[id] = history[i].parent
               /\ id \in Named /\ id = <<Client(i), Turn(i)>>
  BY NodesAreInvoked, RecordedEvents DEF Parent, WorkloadInv
<1>3. NoOperation \notin Nodes
  <2>1. NoOperation \notin Named
    BY DEF NoOperation, Named
  <2> QED BY <1>2, <2>1
<1>4. ASSUME NEW id \in Nodes
      PROVE  /\ id \in Named /\ id[2] < options.stepsPerClient
             /\ IF Parent[id] \in Nodes
                THEN /\ Parent[id][1] = id[1] /\ Parent[id][2] < id[2]
                     /\ \A other \in Nodes :
                           other[1] = id[1] /\ other[2] < id[2] => other[2] <= Parent[id][2]
                ELSE \A other \in Nodes : other[1] = id[1] => ~(other[2] < id[2])
  <2>1. PICK i \in DOMAIN history :
               /\ Invoked(i) /\ history[i].id = id /\ Parent[id] = history[i].parent
               /\ id \in Named /\ id = <<Client(i), Turn(i)>>
    BY <1>2
  <2>2. id[1] = Client(i) /\ id[2] = Turn(i) /\ Turn(i) < options.stepsPerClient
    BY <2>1 DEF WorkloadInv, InTurn
  <2>3. IsLast(Parent[id], id[1], id[2])
    BY <2>1, <2>2 DEF WorkloadInv, ParentsAreLast
  <2>4. \A other \in Nodes : \E j \in DOMAIN history : other[1] = Client(j) /\ other[2] = Turn(j)
    BY DEF Nodes, Client, Turn
  <2>5. CASE Parent[id] = NoOperation /\ \A j \in DOMAIN history : Client(j) = id[1] => ~(Turn(j) < id[2])
    <3>1. \A other \in Nodes : other[1] = id[1] => ~(other[2] < id[2])
      BY <2>4, <2>5
    <3> QED BY <1>3, <2>1, <2>2, <2>5, <3>1
  <2>6. CASE /\ \E k \in DOMAIN history : history[k].id = Parent[id]
             /\ Parent[id] \in Named /\ Parent[id][1] = id[1] /\ Parent[id][2] < id[2]
             /\ \A j \in DOMAIN history : Client(j) = id[1] /\ Turn(j) < id[2] => Turn(j) <= Parent[id][2]
    <3>1. Parent[id] \in Nodes
      BY <2>6 DEF Nodes
    <3>2. \A other \in Nodes : other[1] = id[1] /\ other[2] < id[2] => other[2] <= Parent[id][2]
      BY <2>4, <2>6
    <3> QED BY <2>1, <2>2, <2>6, <3>1, <3>2
  <2> QED BY <2>3, <2>5, <2>6 DEF IsLast
<1> HIDE DEF Nodes, Parent
<1> QED BY <1>1, <1>4 DEF IsLineage

LEMMA LineagesArePerClient ==
    ASSUME WorkloadInv
    PROVE  LineageIsPerClient
<1> DEFINE bound == options.stepsPerClient
<1>1. IsLineage(Nodes, Parent, bound)
  BY HistoryIsLineage
<1>2. Ancestors = [id \in Nodes |-> Up(Nodes, Parent, Ancestors, id)]
  <2>1. \E above : above = [id \in Nodes |-> Up(Nodes, Parent, above, id)]
    BY <1>1, LinesExist
  <2>2. Ancestors = CHOOSE above : above = [id \in Nodes |-> Up(Nodes, Parent, above, id)]
    BY DEF Ancestors, Up
  <2> QED BY <2>1, <2>2
<1>3. Children = ChildrenIn(Nodes, Parent)
  BY DEF Children, ChildrenIn
<1>4. Descendants = [id \in Nodes |-> Down(Nodes, Children, Descendants, id)]
  <2>1. \E below : below = [id \in Nodes |-> Down(Nodes, Children, below, id)]
    BY <1>1, <1>3, DescendantsExist
  <2>2. Descendants = CHOOSE below : below = [id \in Nodes |-> Down(Nodes, Children, below, id)]
    BY DEF Descendants, Down
  <2> QED BY <2>1, <2>2
<1>5. \A id \in Nodes :
        /\ ToSet(Ancestors[id]) = Earlier(Nodes, id) /\ DOMAIN Ancestors[id] \subseteq Nat
        /\ \A i, j \in DOMAIN Ancestors[id] : i < j => Ancestors[id][j][2] < Ancestors[id][i][2]
  BY <1>1, <1>2, LinesAreEarlier
<1>6. \A id \in Nodes : Descendants[id] = Later(Nodes, id)
  BY <1>1, <1>3, <1>4, DescendantsAreLater DEF ChildrenIn
<1>7. ASSUME NEW id \in Nodes, NEW other \in Earlier(Nodes, id)
      PROVE  \E i \in Completions(other) : i < InvokedAt(id)
  <2> DEFINE a == InvokedAt(id)
             b == InvokedAt(other)
  <2>1. other \in Nodes /\ other[1] = id[1] /\ other[2] < id[2]
    BY <1>7 DEF Earlier
  <2>2. /\ a \in DOMAIN history /\ Invoked(a) /\ history[a].id = id
        /\ b \in DOMAIN history /\ Invoked(b) /\ history[b].id = other
    BY <2>1, NodesAreInvoked
  <2> HIDE DEF a, b
  <2>3. PICK k \in DOMAIN history : k < a /\ ~Invoked(k) /\ history[k].id = other
    BY <2>1, <2>2 DEF WorkloadInv, EarlierAreComplete, Client, Turn
  <2> QED BY <2>3 DEF Completions, Invoked, a
<1>8. ASSUME NEW id \in Nodes, NEW i \in DOMAIN Ancestors[id], NEW j \in DOMAIN Ancestors[id], i < j
      PROVE  Ancestors[id][i][2] > Ancestors[id][j][2]
  <2>1. Ancestors[id][i] \in Nodes /\ Ancestors[id][j] \in Nodes
    BY <1>5 DEF ToSet, Earlier
  <2>2. \A x \in Nodes : x[2] \in Nat
    BY <1>1 DEF IsLineage, Named
  <2> QED BY <1>5, <1>8, <2>1, <2>2
<1>9. \A id, other \in Nodes : other \in Earlier(Nodes, id) <=> id \in Descendants[other]
  BY <1>6 DEF Earlier, Later
<1> HIDE DEF bound, Nodes
<1> QED BY <1>5, <1>7, <1>8, <1>9 DEF LineageIsPerClient, Earlier

LEMMA ResolvedIsComplete ==
    ASSUME WorkloadInv
    PROVE  ResolvedMeansComplete
<1> SUFFICES ASSUME outcome = "resolved"
             PROVE  /\ \A id \in Nodes : Cardinality(Completions(id)) = 1
                    /\ {[id |-> history[i].id, status |-> history[i].type] :
                          i \in UNION {Completions(id) : id \in Nodes}} = ToSet(results)
                    /\ Len(results) = Cardinality(Nodes)
                    /\ \A c \in Clients : awaits[c] = "returned"
  BY DEF ResolvedMeansComplete
<1>1. \A c \in Clients : awaits[c] = "returned"
  BY DEF WorkloadInv, WorkloadTypes, AllReturned
<1>2. \A id \in Nodes : \E j \in DOMAIN history : ~Invoked(j) /\ history[j].id = id
  <2>1. \A i \in DOMAIN history : Client(i) \in Clients
    BY DEF WorkloadInv, InTurn
  <2>2. \A i \in DOMAIN history : awaits[Client(i)] # "command"
    BY <1>1, <2>1
  <2> QED BY <2>2, NodesAreInvoked DEF WorkloadInv, OthersComplete
<1>3. ASSUME NEW id \in Nodes
      PROVE  Cardinality(Completions(id)) = 1
  <2>1. PICK j \in DOMAIN history : ~Invoked(j) /\ history[j].id = id
    BY <1>2
  <2>2. Completions(id) = {j}
    BY <2>1 DEF Completions, Invoked, WorkloadInv, BegunOnce
  <2> QED BY <2>2, FS_Singleton
<1>4. UNION {Completions(id) : id \in Nodes} = {i \in DOMAIN history : ~Invoked(i)}
  <2>1. \A i \in DOMAIN history : ~Invoked(i) => history[i].id \in Nodes /\ i \in Completions(history[i].id)
    BY DEF Nodes, Completions, Invoked
  <2>2. \A id \in Nodes : \A i \in Completions(id) : i \in DOMAIN history /\ ~Invoked(i)
    BY DEF Completions, Invoked
  <2> HIDE DEF Nodes
  <2> QED BY <2>1, <2>2
<1>5. {[id |-> history[i].id, status |-> history[i].type] : i \in UNION {Completions(id) : id \in Nodes}}
         = ToSet(results)
  <2>1. {ResultsOf(i) : i \in {k \in DOMAIN history : ~Invoked(k)}} = {results[k] : k \in DOMAIN results}
    BY DEF WorkloadInv, ResultsAreCompletions
  <2> QED BY <1>4, <2>1 DEF ResultsOf, ToSet
<1>6. Len(results) = Cardinality(Nodes)
  <2> DEFINE f == [k \in 1 .. Len(results) |-> results[k].id]
  <2>1. Len(results) \in Nat /\ DOMAIN results = 1 .. Len(results)
    BY DEF WorkloadInv, WorkloadTypes
  <2>2. \A k \in DOMAIN results : results[k].id \in Nodes
    BY DEF WorkloadInv, ResultsAreCompletions, ResultsOf, Nodes
  <2>3. \A id \in Nodes : \E k \in DOMAIN results : results[k].id = id
    BY <1>2 DEF WorkloadInv, ResultsAreCompletions, ResultsOf
  <2>4. \A k, l \in DOMAIN results : results[k].id = results[l].id => k = l
    BY DEF WorkloadInv, ResultsAreCompletions
  <2> HIDE DEF Nodes
  <2>5. f \in Bijection(1 .. Len(results), Nodes)
    BY <2>1, <2>2, <2>3, <2>4 DEF Bijection, Injection, Surjection, IsInjective
  <2>6. ExistsBijection(1 .. Len(results), Nodes)
    BY <2>5 DEF ExistsBijection
  <2> QED BY <2>1, <2>6, FS_CountingElements
<1> QED BY <1>1, <1>3, <1>5, <1>6

\* Whatever the number of clients and steps, whichever commands fail or are left out
\* and whenever a signal aborts it: the lineage read off the history is the client's own
\* line, and a workload that resolves has left a complete history and its results.
THEOREM WorkloadsStayOnRecord == WorkloadSpec => []WorkloadsAreOnRecord
<1>1. WorkloadInv => WorkloadsAreOnRecord
  BY LineagesArePerClient, ResolvedIsComplete DEF WorkloadsAreOnRecord
<1> QED BY <1>1, WorkloadInvariant, PTL

(* The deliveries of events.  What the application did is on record in the order it did
   it: `at' gives each effect its place in the trace. *)

Matches(at) ==
    /\ at \in [DOMAIN effects -> Applied]
    /\ \A i \in DOMAIN effects : trace[at[i]].event = effects[i]
    /\ \A i, j \in DOMAIN effects : i < j => at[i] < at[j]
    /\ \A k \in Applied : \E i \in DOMAIN effects : at[i] = k

DeliveryInv ==
    /\ \A d \in plan : d.event \in Names
    /\ trace \in Seq([event : Names, status : {"ok", "fail"}, applied : BOOLEAN])
    /\ effects \in Seq(Names)
    /\ \E at : Matches(at)

\* A set of numbers that is not empty has a least one.
LEMMA LeastNumber ==
    ASSUME NEW S, S \subseteq Nat, S # {}
    PROVE  \E least \in S : \A n \in S : least <= n
<1> DEFINE Below == {pair \in Nat \X Nat : pair[1] < pair[2]}
<1>1. IsWellFoundedOn(Below, Nat)
  BY NatLessThanWellFounded DEF OpToRel
<1>2. PICK least \in S : \A n \in S : ~(<<n, least>> \in Below)
  <2> HIDE DEF Below
  <2> QED BY <1>1, WFMin
<1>3. least \in Nat /\ \A n \in S : n \in Nat /\ ~(n < least)
  BY <1>2
<1> QED BY <1>2, <1>3

LEMMA NamesAreNumbers == Names \subseteq Nat
<1>1. DOMAIN CreatedAt = 1 .. Len(CreatedAt) /\ Names = DOMAIN CreatedAt
  BY DeliveryAssumption
<1> QED BY <1>1

LEMMA AppliedIsFinite ==
    ASSUME DeliveryInv
    PROVE  IsFiniteSet(Applied) /\ Applied \subseteq 1 .. Len(trace) /\ Applied \subseteq Nat
<1>1. DOMAIN trace = 1 .. Len(trace) /\ Len(trace) \in Nat
  BY DEF DeliveryInv
<1>2. Applied \subseteq 1 .. Len(trace)
  BY <1>1 DEF Applied
<1>3. IsFiniteSet(1 .. Len(trace)) /\ 1 .. Len(trace) \subseteq Nat
  BY <1>1, FS_Interval
<1> QED BY <1>2, <1>3, FS_Subset

LEMMA DeliveriesStart == DeliveryInit => DeliveryInv
<1> SUFFICES ASSUME DeliveryInit PROVE DeliveryInv
  OBVIOUS
<1>1. plan = {} /\ trace = <<>> /\ effects = <<>>
  BY DEF DeliveryInit
<1>2. DOMAIN effects = {} /\ DOMAIN trace = {} /\ Applied = {}
  BY <1>1 DEF Applied
<1>3. Matches([i \in {} |-> i])
  BY <1>2 DEF Matches
<1> QED BY <1>1, <1>3 DEF DeliveryInv

LEMMA DeliverKeepsTheInvariant ==
    ASSUME ~LateErrors, DeliveryInv, NEW delivery \in plan, Deliver(delivery)
    PROVE  DeliveryInv'
<1> USE DEF DeliveryInv
<1> DEFINE observations == [event : Names, status : {"ok", "fail"}, applied : BOOLEAN]
<1>1. PICK handled \in Handlings(delivery.event) :
         /\ trace' = Append(trace, [event |-> delivery.event, status |-> handled.status,
                                    applied |-> handled.applied])
         /\ effects' = IF handled.effect THEN Append(effects, delivery.event) ELSE effects
         /\ plan' = plan
  BY DEF Deliver
<1>2. /\ handled.status \in {"ok", "fail"} /\ handled.applied \in BOOLEAN
      /\ handled.effect <=> (handled.status = "ok" /\ handled.applied)
  <2>1. handled \in {[effect |-> TRUE, status |-> "ok", applied |-> TRUE],
                     [effect |-> FALSE, status |-> "ok", applied |-> FALSE],
                     [effect |-> FALSE, status |-> "fail", applied |-> FALSE],
                     [effect |-> TRUE, status |-> "fail", applied |-> FALSE]}
        /\ ~(handled.effect /\ handled.status = "fail")
    BY Zenon DEF Handlings
  <2>2. CASE handled = [effect |-> TRUE, status |-> "ok", applied |-> TRUE]
    BY <2>2
  <2>3. CASE handled = [effect |-> FALSE, status |-> "ok", applied |-> FALSE]
    BY <2>3
  <2>4. CASE handled = [effect |-> FALSE, status |-> "fail", applied |-> FALSE]
    BY <2>4
  <2>5. handled # [effect |-> TRUE, status |-> "fail", applied |-> FALSE]
    BY <2>1
  <2> QED BY <2>1, <2>2, <2>3, <2>4, <2>5
<1>3. delivery.event \in Names
  OBVIOUS
<1> DEFINE n == Len(trace)
           m == Len(effects)
<1>4. /\ n \in Nat /\ DOMAIN trace = 1 .. n /\ DOMAIN trace' = 1 .. n + 1
      /\ \A k \in 1 .. n : trace'[k] = trace[k]
      /\ trace'[n + 1] = [event |-> delivery.event, status |-> handled.status,
                          applied |-> handled.applied]
      /\ trace' \in Seq(observations)
  BY <1>1, <1>2, <1>3
<1>5. Applied \subseteq 1 .. n
  BY AppliedIsFinite
<1>6. PICK at : Matches(at)
  OBVIOUS
<1>9. /\ \A i \in DOMAIN effects : at[i] \in Applied /\ at[i] \in 1 .. n
      /\ \A i \in DOMAIN effects : trace[at[i]].event = effects[i]
      /\ \A i, j \in DOMAIN effects : i < j => at[i] < at[j]
      /\ \A k \in Applied : \E i \in DOMAIN effects : at[i] = k
  BY <1>5, <1>6 DEF Matches
<1>7. CASE handled.effect
  <2>1. /\ m \in Nat /\ DOMAIN effects = 1 .. m /\ DOMAIN effects' = 1 .. m + 1
        /\ \A i \in 1 .. m : effects'[i] = effects[i]
        /\ effects'[m + 1] = delivery.event /\ effects' \in Seq(Names)
    BY <1>1, <1>3, <1>7
  <2>2. Applied' = Applied \cup {n + 1}
    BY <1>2, <1>4, <1>7 DEF Applied
  <2> DEFINE more == [i \in 1 .. m + 1 |-> IF i = m + 1 THEN n + 1 ELSE at[i]]
  <2>3. /\ \A i \in 1 .. m : at[i] \in Applied /\ at[i] \in 1 .. n
        /\ \A i \in 1 .. m : trace[at[i]].event = effects[i]
        /\ \A i, j \in 1 .. m : i < j => at[i] < at[j]
        /\ \A k \in Applied : \E i \in 1 .. m : at[i] = k
    BY <1>9, <2>1
  <2>9. /\ \A i \in 1 .. m : more[i] = at[i]
        /\ more[m + 1] = n + 1
        /\ \A i \in 1 .. m + 1 : i \in 1 .. m \/ i = m + 1
        /\ m + 1 \in 1 .. m + 1 /\ n + 1 \notin 1 .. n
    BY <1>4, <2>1
  <2>4. more \in [DOMAIN effects' -> Applied']
    BY <2>1, <2>2, <2>3
  <2>5. \A i \in 1 .. m + 1 : trace'[more[i]].event = effects'[i]
    <3> HIDE DEF more
    <3>1. ASSUME NEW i \in 1 .. m PROVE trace'[more[i]].event = effects'[i]
      <4>1. more[i] = at[i] /\ at[i] \in 1 .. n /\ trace[at[i]].event = effects[i]
        BY <2>3, <2>9
      <4>2. trace'[at[i]] = trace[at[i]] /\ effects'[i] = effects[i]
        BY <1>4, <2>1, <4>1
      <4> QED BY <4>1, <4>2
    <3>2. trace'[more[m + 1]].event = effects'[m + 1]
      BY <1>4, <2>1, <2>9
    <3> QED BY <2>9, <3>1, <3>2
  <2>6. \A i, j \in 1 .. m + 1 : i < j => more[i] < more[j]
    <3> HIDE DEF more
    <3> SUFFICES ASSUME NEW i \in 1 .. m + 1, NEW j \in 1 .. m + 1, i < j
                 PROVE  more[i] < more[j]
      OBVIOUS
    <3>1. i \in 1 .. m
      BY <2>1
    <3>2. CASE j \in 1 .. m
      BY <2>3, <2>9, <3>1, <3>2
    <3>3. CASE j = m + 1
      <4>1. more[i] \in 1 .. n /\ more[j] = n + 1
        BY <2>3, <2>9, <3>1, <3>3
      <4> QED BY <1>4, <4>1
    <3> QED BY <2>9, <3>2, <3>3
  <2>7. \A k \in Applied' : \E i \in 1 .. m + 1 : more[i] = k
    <3> HIDE DEF more
    <3>1. \A k \in Applied : \E i \in 1 .. m : more[i] = k
      BY <2>3, <2>9
    <3>2. \A i \in 1 .. m : i \in 1 .. m + 1
      BY <2>1
    <3> QED BY <2>2, <2>9, <3>1, <3>2
  <2>10. (\E a : Matches(a))'
    <3>1. PICK a : a = more
      OBVIOUS
    <3> HIDE DEF more
    <3>2. Matches(a)'
      BY <2>1, <2>4, <2>5, <2>6, <2>7, <3>1 DEF Matches
    <3> QED BY <3>2
  <2> QED BY <1>1, <1>4, <2>1, <2>10
<1>8. CASE ~handled.effect
  <2>1. effects' = effects
    BY <1>1, <1>8
  <2>2. Applied' = Applied
    BY <1>2, <1>4, <1>8 DEF Applied
  <2>3. Matches(at)'
    <3>1. \A i \in DOMAIN effects : trace'[at[i]].event = effects[i]
      BY <1>4, <1>9
    <3> QED BY <1>6, <2>1, <2>2, <3>1 DEF Matches
  <2> QED BY <1>1, <1>4, <2>1, <2>3
<1> QED BY <1>7, <1>8

\* The inductive invariant of a delivered workload: what the history counts as applied are
\* the application's effects, place by place and in their order.
THEOREM DeliveryInvariant == ~LateErrors => (DeliverySpec => []DeliveryInv)
<1> SUFFICES ASSUME ~LateErrors PROVE DeliverySpec => []DeliveryInv
  OBVIOUS
<1>1. DeliveryInv /\ [DeliveryNext]_deliveryVars => DeliveryInv'
  <2> SUFFICES ASSUME DeliveryInv, [DeliveryNext]_deliveryVars PROVE DeliveryInv'
    OBVIOUS
  <2>1. ASSUME UNCHANGED <<trace, effects>>, \A d \in plan' : d.event \in Names PROVE DeliveryInv'
    BY <2>1 DEF DeliveryInv, Matches, Applied
  <2>2. CASE Emit
    BY <2>1, <2>2 DEF Emit, DeliveryInv
  <2>3. CASE Plan
    <3>1. \A d \in Expanded : d.event \in Names
      BY DEF Expanded
    <3>2. \A d \in plan' : d.event \in Names
      BY <2>3, <3>1 DEF Plan, PlanEventDeliveries
    <3> QED BY <2>1, <2>3, <3>2 DEF Plan
  <2>4. CASE \E delivery \in plan : Deliver(delivery)
    BY <2>4, DeliverKeepsTheInvariant
  <2>5. CASE UNCHANGED deliveryVars
    BY <2>1, <2>5 DEF deliveryVars, DeliveryInv
  <2> QED BY <2>2, <2>3, <2>4, <2>5 DEF DeliveryNext
<1> QED BY <1>1, DeliveriesStart, PTL DEF DeliverySpec

\* Comparing neighbours is enough.
LEMMA OrderIsJudgedRight ==
    ASSUME DeliveryInv
    PROVE  DeliveryOrderValid <=> \A i, j \in DOMAIN effects : i < j => effects[i] <= effects[j]
<1>0. PICK at : Matches(at)
  BY DEF DeliveryInv
<1>1. /\ DOMAIN effects = 1 .. Len(effects) /\ Len(effects) \in Nat
      /\ \A i \in DOMAIN effects : effects[i] \in Nat
  <2>1. effects \in Seq(Names)
    BY DEF DeliveryInv
  <2>2. /\ DOMAIN effects = 1 .. Len(effects) /\ Len(effects) \in Nat
        /\ \A i \in DOMAIN effects : effects[i] \in Names
    BY <2>1
  <2> QED BY <2>2, NamesAreNumbers
<1>2. /\ \A i \in DOMAIN effects : at[i] \in Applied /\ at[i] \in Nat
      /\ \A i, j \in DOMAIN effects : i < j => at[i] < at[j]
      /\ \A k \in Applied : \E i \in DOMAIN effects : at[i] = k
      /\ \A i \in DOMAIN effects : trace[at[i]].event = effects[i]
  BY <1>0, AppliedIsFinite DEF Matches
<1>3. ASSUME \A i, j \in DOMAIN effects : i < j => effects[i] <= effects[j]
      PROVE  DeliveryOrderValid
  <2> SUFFICES ASSUME NEW pair \in Neighbours PROVE trace[pair[1]].event <= trace[pair[2]].event
    BY DEF DeliveryOrderValid
  <2>1. pair[1] \in Applied /\ pair[2] \in Applied /\ pair[1] < pair[2]
    BY DEF Neighbours
  <2>2. PICK i, j \in DOMAIN effects : at[i] = pair[1] /\ at[j] = pair[2]
    BY <1>2, <2>1
  <2>3. i < j
    <3>1. i # j /\ ~(at[j] < at[i])
      BY <1>2, <2>1, <2>2
    <3> QED BY <1>1, <1>2, <3>1
  <2> QED BY <1>2, <1>3, <2>2, <2>3
<1>4. ASSUME DeliveryOrderValid, NEW i \in DOMAIN effects, NEW j \in DOMAIN effects, i < j
      PROVE  effects[i] <= effects[j]
  <2> DEFINE wrong == {k \in DOMAIN effects : i < k /\ ~(effects[i] <= effects[k])}
  <2> SUFFICES ASSUME wrong # {} PROVE FALSE
    BY <1>4
  <2>1. PICK k \in wrong : \A other \in wrong : k <= other
    <3>1. wrong \subseteq Nat
      BY <1>1
    <3> HIDE DEF wrong
    <3> QED BY <3>1, LeastNumber
  <2>2. /\ k \in DOMAIN effects /\ k - 1 \in DOMAIN effects /\ k - 1 < k
        /\ effects[i] <= effects[k - 1]
    <3>1. i <= k - 1 /\ k - 1 \in DOMAIN effects /\ k - 1 < k /\ k \in DOMAIN effects
      BY <1>1, <2>1
    <3>2. k - 1 \notin wrong
      BY <1>1, <2>1, <3>1
    <3> QED BY <1>1, <3>1, <3>2
  <2>3. at[k - 1] \in Applied /\ at[k] \in Applied /\ at[k - 1] < at[k]
    BY <1>2, <2>2
  <2>4. ASSUME NEW other \in Applied, at[k - 1] < other, other < at[k] PROVE FALSE
    <3>1. PICK l \in DOMAIN effects : at[l] = other
      BY <1>2
    <3>2. CASE l <= k - 1
      <4>1. at[l] <= at[k - 1]
        <5>1. l < k - 1 \/ l = k - 1
          BY <1>1, <2>2, <3>1, <3>2
        <5> QED BY <1>2, <2>2, <3>1, <5>1
      <4> QED BY <1>2, <2>3, <2>4, <3>1, <4>1
    <3>3. CASE k <= l
      <4>1. at[k] <= at[l]
        <5>1. k < l \/ k = l
          BY <1>1, <2>2, <3>1, <3>3
        <5> QED BY <1>2, <2>2, <3>1, <5>1
      <4> QED BY <1>2, <2>3, <2>4, <3>1, <4>1
    <3> QED BY <1>1, <2>2, <3>2, <3>3
  <2>5. <<at[k - 1], at[k]>> \in Neighbours
    BY <2>3, <2>4 DEF Neighbours
  <2>6. trace[at[k - 1]].event <= trace[at[k]].event
    BY <1>4, <2>5 DEF DeliveryOrderValid
  <2>7. effects[k - 1] <= effects[k]
    BY <1>2, <2>2, <2>6
  <2> QED BY <1>1, <2>1, <2>2, <2>7
<1> QED BY <1>3, <1>4

LEMMA RepetitionsAreJudgedRight ==
    ASSUME DeliveryInv
    PROVE  DeliveryUniquenessValid <=> IsInjective(effects)
<1>0. PICK at : Matches(at)
  BY DEF DeliveryInv
<1> DEFINE Of(e) == {i \in Applied : trace[i].event = e}
<1>1. DOMAIN effects \subseteq Nat /\ \A i \in DOMAIN effects : effects[i] \in Names
  BY DEF DeliveryInv
<1>2. Applied \subseteq Nat /\ IsFiniteSet(Applied)
  BY AppliedIsFinite
<1>3. ASSUME NEW e PROVE IsFiniteSet(Of(e)) /\ Cardinality(Of(e)) \in Nat
  <2>1. Of(e) \in SUBSET Applied
    OBVIOUS
  <2> HIDE DEF Of
  <2> QED BY <1>2, <2>1, FS_Subset, FS_CardinalityType
<1>4. ASSUME DeliveryUniquenessValid, NEW i \in DOMAIN effects, NEW j \in DOMAIN effects,
             effects[i] = effects[j]
      PROVE  i = j
  <2>1. at[i] \in Of(effects[i]) /\ at[j] \in Of(effects[i])
    BY <1>0, <1>4 DEF Matches
  <2>2. Cardinality(Of(effects[i])) <= 1
    BY <1>1, <1>4 DEF DeliveryUniquenessValid
  <2>3. at[i] = at[j]
    <3> SUFFICES ASSUME at[i] # at[j] PROVE FALSE
      OBVIOUS
    <3>1. IsFiniteSet({at[i]}) /\ Cardinality({at[i]}) = 1
      BY FS_Singleton
    <3>2. IsFiniteSet({at[i]} \cup {at[j]}) /\ Cardinality({at[i]} \cup {at[j]}) = 2
      BY <3>1, FS_AddElement
    <3>3. {at[i]} \cup {at[j]} \in SUBSET Of(effects[i])
      BY <2>1
    <3>4. Cardinality({at[i]} \cup {at[j]}) <= Cardinality(Of(effects[i]))
      <4> HIDE DEF Of
      <4> QED BY <1>3, <3>3, FS_Subset
    <3> HIDE DEF Of
    <3> QED BY <1>3, <2>2, <3>2, <3>4
  <2>4. ~(at[i] < at[j]) /\ ~(at[j] < at[i])
    <3>1. at[i] \in Nat
      BY <1>2, <2>1
    <3> QED BY <2>3, <3>1
  <2> QED BY <1>0, <1>1, <2>4 DEF Matches
<1>5. ASSUME IsInjective(effects), NEW e \in Names PROVE Cardinality(Of(e)) <= 1
  <2>1. \A k, l \in Of(e) : k = l
    BY <1>0, <1>5 DEF Matches, IsInjective
  <2>2. CASE Of(e) = {}
    <3> HIDE DEF Of
    <3> QED BY <2>2, FS_EmptySet
  <2>3. CASE Of(e) # {}
    <3>1. PICK k \in Of(e) : Of(e) = {k}
      BY <2>1, <2>3
    <3>2. Cardinality({k}) = 1
      BY FS_Singleton
    <3>3. Cardinality(Of(e)) = 1
      <4> HIDE DEF Of
      <4> QED BY <3>1, <3>2, Zenon
    <3> QED BY <3>3
  <2> QED BY <2>2, <2>3
<1> QED BY <1>4, <1>5 DEF DeliveryUniquenessValid, IsInjective

\* The three checkers are right about what the application did with the events it was
\* given, as long as a handler that fails has done nothing: neighbours in order mean all
\* in order, and repetitions and omissions are those of the effects.
THEOREM DeliveryChecksAreRight == ~LateErrors => (DeliverySpec => []DeliveryChecksAreTrue)
<1> SUFFICES ASSUME ~LateErrors PROVE DeliverySpec => []DeliveryChecksAreTrue
  OBVIOUS
<1>1. DeliveryInv => DeliveryChecksAreTrue
  <2> SUFFICES ASSUME DeliveryInv PROVE DeliveryChecksAreTrue
    OBVIOUS
  <2>1. PICK at : Matches(at)
    BY DEF DeliveryInv
  <2>2. DeliveryCompletenessValid <=> \A e \in Names : Known(e)
    BY <2>1 DEF Matches, DeliveryCompletenessValid, Known
  <2> QED BY <2>2, OrderIsJudgedRight, RepetitionsAreJudgedRight DEF DeliveryChecksAreTrue
<1> QED BY <1>1, DeliveryInvariant, PTL

-------------------------------------------------------------------------------
(* Each message is settled once and within its budget, for any list of messages, any
   number of retries and rounds, and whatever the consumer answers.  What is pending has
   been counted correctly, and what was retried has an attempt left. *)

Entry == [at : Nat, id : Ids, attempts : Nat]

LifecycleInv ==
    /\ messages \in Seq(Entry)
    /\ acknowledged \in Seq(Entry) /\ deadLettered \in Seq(Entry) /\ pending \in Seq(Entry)
    /\ delivered \in [DOMAIN messages -> Nat]
    /\ pc = "rounds" => dlq = <<>>
    /\ dlq = <<>> \/ dlq = deadLettered
    /\ EveryMessageIsAccountedFor
    /\ DeliveriesWithinBudget
    /\ \A j \in DOMAIN pending :
          LET at == pending[j].at
          IN  /\ pending[j].attempts = messages[at].attempts + delivered[at]
              /\ delivered[at] = 0 \/ pending[j].attempts <= MaxRetries + 1

\* The equation of the loop over a batch, up to its k-th message.
SettlesUpTo(after, k, result) ==
    after = [i \in 0 .. k |->
               IF i = 0 THEN Lists
               ELSE Pushed(after[i - 1], pending[i], Verdict(pending[i], result))]

\* The loop has an outcome, however long the batch.
LEMMA LoopIsDefined ==
    ASSUME NEW k \in Nat, NEW result
    PROVE  \E after : SettlesUpTo(after, k, result)
<1> DEFINE Defined == {i \in Nat : \E after : SettlesUpTo(after, i, result)}
<1>1. 0 \in Defined
  <2>1. SettlesUpTo([i \in 0 .. 0 |-> Lists], 0, result)
    BY DEF SettlesUpTo
  <2> QED BY <2>1
<1>2. ASSUME NEW i \in Nat, i \in Defined PROVE i + 1 \in Defined
  <2>1. PICK g : SettlesUpTo(g, i, result)
    BY <1>2
  <2> DEFINE Step(lists, j) == Pushed(lists, pending[j], Verdict(pending[j], result))
             h == [j \in 0 .. i + 1 |-> IF j = i + 1 THEN Step(g[i], j) ELSE g[j]]
  <2>2. \A j \in 0 .. i : h[j] = g[j]
    OBVIOUS
  <2>3. \A j \in 0 .. i : g[j] = IF j = 0 THEN Lists ELSE Step(g[j - 1], j)
    BY <2>1 DEF SettlesUpTo
  <2>4. ASSUME NEW j \in 0 .. i + 1
        PROVE  h[j] = IF j = 0 THEN Lists ELSE Step(h[j - 1], j)
    <3>1. CASE j = i + 1
      <4>1. i \in 0 .. i /\ j - 1 = i /\ j # 0
        BY <3>1
      <4>2. h[j - 1] = g[i]
        BY <4>1, <2>2
      <4>3. h[j] = Step(g[i], j)
        BY <3>1
      <4> QED BY <4>1, <4>2, <4>3
    <3>2. CASE j # i + 1
      <4>1. j \in 0 .. i /\ (j # 0 => j - 1 \in 0 .. i)
        BY <3>2
      <4>2. h[j] = g[j] /\ (j # 0 => h[j - 1] = g[j - 1])
        BY <4>1, <2>2
      <4> HIDE DEF h, Step
      <4> QED BY <4>1, <4>2, <2>3
    <3> QED BY <3>1, <3>2
  <2>5. SettlesUpTo(h, i + 1, result)
    <3>1. h = [j \in 0 .. i + 1 |-> h[j]]
      OBVIOUS
    <3> HIDE DEF h
    <3> QED BY <3>1, <2>4 DEF SettlesUpTo
  <2> HIDE DEF h
  <2> QED BY <2>5
<1> HIDE DEF Defined
<1>3. Nat \subseteq Defined
  BY <1>1, <1>2, NumbersByInduction
<1> QED BY <1>3 DEF Defined

\* What the loop does with one message after another.
LEMMA LoopByMessage ==
    ASSUME pending \in Seq(Entry), NEW result
    PROVE  /\ Settling(result)[0] = Lists
           /\ \A i \in 1 .. Len(pending) :
                 Settling(result)[i] = Pushed(Settling(result)[i - 1], pending[i],
                                              Verdict(pending[i], result))
<1> DEFINE n == Len(pending)
<1>1. n \in Nat
  OBVIOUS
<1>2. \E after : SettlesUpTo(after, n, result)
  BY <1>1, LoopIsDefined
<1>3. Settling(result) = CHOOSE after : SettlesUpTo(after, n, result)
  BY DEF Settling, SettlesUpTo
<1>4. SettlesUpTo(Settling(result), n, result)
  BY <1>2, <1>3
<1> HIDE DEF n
<1>5. \A i \in 0 .. n : Settling(result)[i] =
        IF i = 0 THEN Lists
        ELSE Pushed(Settling(result)[i - 1], pending[i], Verdict(pending[i], result))
  BY <1>4 DEF SettlesUpTo
<1>6. 0 \in 0 .. n
  BY <1>1
<1>7. Settling(result)[0] = Lists
  BY <1>5, <1>6
<1>8. \A i \in 1 .. n : i \in 0 .. n /\ i # 0
  BY <1>1
<1> QED BY <1>5, <1>7, <1>8 DEF n

LEMMA PlacesOfAppend ==
    ASSUME NEW s \in Seq(Entry), NEW e \in Entry
    PROVE  /\ Append(s, e) \in Seq(Entry)
           /\ Places(Append(s, e)) = Places(s) \cup {e.at}
           /\ EachOnce(s) /\ e.at \notin Places(s) => EachOnce(Append(s, e))
<1> DEFINE t == Append(s, e)
<1>1. /\ t \in Seq(Entry) /\ Len(s) \in Nat
      /\ DOMAIN s = 1 .. Len(s)
      /\ DOMAIN t = 1 .. Len(s) + 1
      /\ t[Len(s) + 1] = e
      /\ \A i \in 1 .. Len(s) : t[i] = s[i]
  OBVIOUS
<1> HIDE DEF t
<1>2. Places(t) = Places(s) \cup {e.at}
  <2>1. \A i \in DOMAIN t : i \in DOMAIN s \/ i = Len(s) + 1
    BY <1>1
  <2>2. \A i \in DOMAIN s : i \in DOMAIN t
    BY <1>1
  <2>3. Len(s) + 1 \in DOMAIN t
    BY <1>1
  <2>4. Places(t) \subseteq Places(s) \cup {e.at}
    BY <1>1, <2>1 DEF Places
  <2>5. Places(s) \subseteq Places(t)
    BY <1>1, <2>2 DEF Places
  <2>6. e.at \in Places(t)
    BY <1>1, <2>3 DEF Places
  <2> QED BY <2>4, <2>5, <2>6
<1>3. ASSUME EachOnce(s), e.at \notin Places(s), NEW i \in DOMAIN t, NEW j \in DOMAIN t,
             t[i].at = t[j].at
      PROVE  i = j
  <2>1. \A k \in DOMAIN t : k \in DOMAIN s \/ k = Len(s) + 1
    BY <1>1
  <2>2. \A k \in DOMAIN s : t[k] = s[k] /\ t[k].at # e.at
    BY <1>1, <1>3 DEF Places
  <2> QED BY <1>1, <1>3, <2>1, <2>2 DEF EachOnce
<1> QED BY <1>1, <1>2, <1>3 DEF t, EachOnce

\* What the loop has not looked at after i messages.
Unseen(i) == {pending[j].at : j \in i + 1 .. Len(pending)}

\* The invariant of the loop: what was looked at is in one of the lists, once.
Sorted(lists, i) ==
    /\ lists \in [acknowledged : Seq(Entry), deadLettered : Seq(Entry), next : Seq(Entry)]
    /\ EachOnce(lists.acknowledged) /\ EachOnce(lists.deadLettered) /\ EachOnce(lists.next)
    /\ Apart(lists.acknowledged, lists.deadLettered)
    /\ Apart(lists.acknowledged, lists.next)
    /\ Apart(lists.deadLettered, lists.next)
    /\ Places(lists.acknowledged) \cup Places(lists.deadLettered) \cup Places(lists.next)
         = DOMAIN messages \ Unseen(i)
    /\ \A k \in DOMAIN lists.next : \E j \in 1 .. i :
          /\ lists.next[k].at = pending[j].at
          /\ lists.next[k].attempts = pending[j].attempts + 1
          /\ lists.next[k].attempts <= MaxRetries + 1

LEMMA LoopStarts ==
    ASSUME LifecycleInv
    PROVE  Sorted(Lists, 0)
<1>1. Unseen(0) = Places(pending)
  <2>1. pending \in Seq(Entry) /\ DOMAIN pending = 0 + 1 .. Len(pending)
    BY DEF LifecycleInv
  <2> QED BY <2>1 DEF Unseen, Places
<1>2. <<>> \in Seq(Entry) /\ Places(<<>>) = {} /\ EachOnce(<<>>)
  BY DEF Places, EachOnce
<1>3. Lists \in [acknowledged : Seq(Entry), deadLettered : Seq(Entry), next : Seq(Entry)]
  BY <1>2 DEF Lists, LifecycleInv
<1>4. /\ Lists.acknowledged = acknowledged
      /\ Lists.deadLettered = deadLettered
      /\ Lists.next = <<>>
  BY DEF Lists
<1>5. DOMAIN Lists.next = {}
  BY <1>4
<1>6. /\ EachOnce(acknowledged) /\ EachOnce(deadLettered)
      /\ Apart(acknowledged, deadLettered)
      /\ Places(acknowledged) \cup Places(deadLettered) = DOMAIN messages \ Places(pending)
  BY DEF LifecycleInv, EveryMessageIsAccountedFor, Apart
<1>7. Apart(acknowledged, <<>>) /\ Apart(deadLettered, <<>>)
  BY <1>2 DEF Apart
<1> QED BY <1>1, <1>2, <1>3, <1>4, <1>5, <1>6, <1>7 DEF Sorted

\* A message is only retried while it has retries left.
LEMMA RetriesHaveBudget ==
    ASSUME NEW m \in Entry, NEW result
    PROVE  /\ Verdict(m, result) \in {"acknowledged", "deadLettered", "next"}
           /\ Verdict(m, result) = "next" => m.attempts <= MaxRetries
<1>1. m.attempts \in Nat /\ MaxRetries \in Nat
  BY QueueAssumption DEF Entry
<1>2. ~Exhausted(m) => m.attempts <= MaxRetries
  BY <1>1 DEF Exhausted, RetriesSoFar
<1> HIDE DEF Exhausted
<1> QED BY <1>2 DEF Verdict

LEMMA LoopGoesOn ==
    ASSUME LifecycleInv, NEW result, NEW i \in 1 .. Len(pending), NEW lists, Sorted(lists, i - 1)
    PROVE  Sorted(Pushed(lists, pending[i], Verdict(pending[i], result)), i)
<1> DEFINE m == pending[i]
           verdict == Verdict(m, result)
           again == [m EXCEPT !.attempts = @ + 1]
           after == Pushed(lists, m, verdict)
<1>1. m \in Entry /\ i \in DOMAIN pending /\ i \in Nat /\ Len(pending) \in Nat
  BY DEF LifecycleInv
<1>2. again \in Entry /\ again.at = m.at /\ again.attempts = m.attempts + 1
  BY <1>1 DEF Entry
<1>3. Unseen(i - 1) = Unseen(i) \cup {m.at} /\ m.at \notin Unseen(i)
  <2>1. (i - 1) + 1 .. Len(pending) = {i} \cup (i + 1 .. Len(pending))
    BY <1>1
  <2>2. Unseen(i - 1) = Unseen(i) \cup {m.at}
    BY <2>1 DEF Unseen
  <2>3. \A j \in i + 1 .. Len(pending) : j \in DOMAIN pending /\ j # i
    BY <1>1 DEF LifecycleInv
  <2>4. EachOnce(pending)
    BY DEF LifecycleInv, EveryMessageIsAccountedFor
  <2>5. m.at \notin Unseen(i)
    BY <1>1, <2>3, <2>4 DEF Unseen, EachOnce
  <2> QED BY <2>2, <2>5
<1>4. m.at \in DOMAIN messages
  BY <1>1 DEF LifecycleInv, EveryMessageIsAccountedFor, Places
<1>5. verdict \in {"acknowledged", "deadLettered", "next"}
      /\ (verdict = "next" => m.attempts <= MaxRetries)
  BY <1>1, RetriesHaveBudget
<1> DEFINE a == lists.acknowledged
           d == lists.deadLettered
           n == lists.next
<1>6. /\ lists \in [acknowledged : Seq(Entry), deadLettered : Seq(Entry), next : Seq(Entry)]
      /\ a \in Seq(Entry) /\ d \in Seq(Entry) /\ n \in Seq(Entry)
      /\ EachOnce(a) /\ EachOnce(d) /\ EachOnce(n)
      /\ Places(a) \cap Places(d) = {}
      /\ Places(a) \cap Places(n) = {}
      /\ Places(d) \cap Places(n) = {}
      /\ Places(a) \cup Places(d) \cup Places(n) = DOMAIN messages \ Unseen(i - 1)
  BY DEF Sorted, Apart
<1>7. m.at \notin Places(a) /\ m.at \notin Places(d) /\ m.at \notin Places(n)
  BY <1>3, <1>6
<1>8. \A k \in DOMAIN n : \E j \in 1 .. i :
        /\ n[k].at = pending[j].at
        /\ n[k].attempts = pending[j].attempts + 1
        /\ n[k].attempts <= MaxRetries + 1
  <2>1. \A j \in 1 .. i - 1 : j \in 1 .. i
    BY <1>1
  <2> QED BY <2>1 DEF Sorted
<1> HIDE DEF verdict
<1>9. CASE verdict = "acknowledged"
  <2>1. after = [lists EXCEPT !.acknowledged = Append(a, m)]
    BY <1>9 DEF Pushed
  <2>2. after.acknowledged = Append(a, m) /\ after.deadLettered = d /\ after.next = n
    BY <1>6, <2>1
  <2>3. after \in [acknowledged : Seq(Entry), deadLettered : Seq(Entry), next : Seq(Entry)]
    <3>1. Append(a, m) \in Seq(Entry)
      BY <1>1, <1>6, PlacesOfAppend
    <3> HIDE DEF a, m
    <3> QED BY <1>6, <2>1, <3>1
  <2>4. Places(Append(a, m)) = Places(a) \cup {m.at} /\ EachOnce(Append(a, m))
    BY <1>1, <1>6, <1>7, PlacesOfAppend
  <2> HIDE DEF after, a, d, n, m
  <2>5. Places(Append(a, m)) \cup Places(d) \cup Places(n) = DOMAIN messages \ Unseen(i)
    BY <1>3, <1>4, <1>6, <2>4
  <2>6. /\ Apart(Append(a, m), d) /\ Apart(Append(a, m), n) /\ Apart(d, n)
    BY <1>6, <1>7, <2>4 DEF Apart
  <2>11. Sorted(after, i)
    BY <1>6, <1>8, <2>2, <2>3, <2>4, <2>5, <2>6 DEF Sorted
  <2> QED BY <2>11 DEF after, m, verdict
<1>10. CASE verdict = "deadLettered"
  <2>1. after = [lists EXCEPT !.deadLettered = Append(d, m)]
    BY <1>10 DEF Pushed
  <2>2. after.deadLettered = Append(d, m) /\ after.acknowledged = a /\ after.next = n
    BY <1>6, <2>1
  <2>3. after \in [acknowledged : Seq(Entry), deadLettered : Seq(Entry), next : Seq(Entry)]
    <3>1. Append(d, m) \in Seq(Entry)
      BY <1>1, <1>6, PlacesOfAppend
    <3> HIDE DEF d, m
    <3> QED BY <1>6, <2>1, <3>1
  <2>4. Places(Append(d, m)) = Places(d) \cup {m.at} /\ EachOnce(Append(d, m))
    BY <1>1, <1>6, <1>7, PlacesOfAppend
  <2> HIDE DEF after, a, d, n, m
  <2>5. Places(a) \cup Places(Append(d, m)) \cup Places(n) = DOMAIN messages \ Unseen(i)
    BY <1>3, <1>4, <1>6, <2>4
  <2>6. /\ Apart(a, Append(d, m)) /\ Apart(a, n) /\ Apart(Append(d, m), n)
    BY <1>6, <1>7, <2>4 DEF Apart
  <2>11. Sorted(after, i)
    BY <1>6, <1>8, <2>2, <2>3, <2>4, <2>5, <2>6 DEF Sorted
  <2> QED BY <2>11 DEF after, m, verdict
<1>11. CASE verdict = "next"
  <2>1. after = [lists EXCEPT !.next = Append(n, again)]
    BY <1>11 DEF Pushed
  <2>2. after.next = Append(n, again) /\ after.acknowledged = a /\ after.deadLettered = d
    BY <1>6, <2>1
  <2>3. after \in [acknowledged : Seq(Entry), deadLettered : Seq(Entry), next : Seq(Entry)]
    <3>1. Append(n, again) \in Seq(Entry)
      BY <1>2, <1>6, PlacesOfAppend
    <3> HIDE DEF n, again
    <3> QED BY <1>6, <2>1, <3>1
  <2>4. Places(Append(n, again)) = Places(n) \cup {m.at} /\ EachOnce(Append(n, again))
    BY <1>2, <1>6, <1>7, PlacesOfAppend
  <2>5. again.attempts <= MaxRetries + 1
    <3>1. m.attempts \in Nat /\ MaxRetries \in Nat
      BY <1>1, QueueAssumption DEF Entry
    <3> HIDE DEF again
    <3> QED BY <1>2, <1>5, <1>11, <3>1
  <2>6. /\ DOMAIN Append(n, again) = DOMAIN n \cup {Len(n) + 1}
        /\ Append(n, again)[Len(n) + 1] = again
        /\ \A k \in DOMAIN n : Append(n, again)[k] = n[k]
    <3> HIDE DEF n, again
    <3> QED BY <1>2, <1>6
  <2>7. i \in 1 .. i
    BY <1>1
  <2> HIDE DEF after, a, d, n, again
  <2>8. \A k \in DOMAIN Append(n, again) : \E j \in 1 .. i :
          /\ Append(n, again)[k].at = pending[j].at
          /\ Append(n, again)[k].attempts = pending[j].attempts + 1
          /\ Append(n, again)[k].attempts <= MaxRetries + 1
    <3>1. ASSUME NEW k \in DOMAIN n
          PROVE  \E j \in 1 .. i :
                   /\ Append(n, again)[k].at = pending[j].at
                   /\ Append(n, again)[k].attempts = pending[j].attempts + 1
                   /\ Append(n, again)[k].attempts <= MaxRetries + 1
      BY <1>8, <2>6, <3>1
    <3> QED BY <1>2, <2>5, <2>6, <2>7, <3>1
  <2> HIDE DEF m
  <2>9. Places(a) \cup Places(d) \cup Places(Append(n, again)) = DOMAIN messages \ Unseen(i)
    BY <1>3, <1>4, <1>6, <2>4
  <2>10. /\ Apart(a, d) /\ Apart(a, Append(n, again)) /\ Apart(d, Append(n, again))
    BY <1>6, <1>7, <2>4 DEF Apart
  <2>11. Sorted(after, i)
    BY <1>6, <2>2, <2>3, <2>4, <2>8, <2>9, <2>10 DEF Sorted
  <2> QED BY <2>11 DEF after, m, verdict
<1> QED BY <1>5, <1>9, <1>10, <1>11 DEF verdict

LEMMA LoopSortsTheBatch ==
    ASSUME LifecycleInv, NEW result
    PROVE  Sorted(Settling(result)[Len(pending)], Len(pending))
<1> DEFINE Sound == {i \in Nat : i <= Len(pending) => Sorted(Settling(result)[i], i)}
<1>1. pending \in Seq(Entry) /\ Len(pending) \in Nat
  BY DEF LifecycleInv
<1>2. 0 \in Sound
  BY <1>1, LoopByMessage, LoopStarts
<1>3. ASSUME NEW i \in Nat, i \in Sound PROVE i + 1 \in Sound
  <2>1. SUFFICES ASSUME i + 1 <= Len(pending) PROVE Sorted(Settling(result)[i + 1], i + 1)
    OBVIOUS
  <2>2. i + 1 \in 1 .. Len(pending) /\ (i + 1) - 1 = i
    BY <1>1, <2>1
  <2>3. Sorted(Settling(result)[i], i)
    BY <1>1, <1>3, <2>1
  <2>4. Settling(result)[i + 1] = Pushed(Settling(result)[i], pending[i + 1],
                                         Verdict(pending[i + 1], result))
    BY <1>1, <2>2, LoopByMessage
  <2>5. Sorted(Pushed(Settling(result)[i], pending[i + 1], Verdict(pending[i + 1], result)),
               i + 1)
    BY <2>2, <2>3, LoopGoesOn
  <2> QED BY <2>4, <2>5
<1> HIDE DEF Sound
<1>4. Nat \subseteq Sound
  BY <1>2, <1>3, NumbersByInduction
<1> QED BY <1>1, <1>4 DEF Sound

LEMMA LifecycleStarts == LifecycleInit => LifecycleInv
<1> SUFFICES ASSUME LifecycleInit PROVE LifecycleInv
  OBVIOUS
<1>1. PICK input \in Inputs : messages = Placed(input)
  BY DEF LifecycleInit
<1>2. input \in Seq([id : Ids, attempts : Nat])
  BY <1>1, QueueAssumption
<1>3. /\ DOMAIN messages = 1 .. Len(input) /\ Len(input) \in Nat
      /\ \A i \in DOMAIN messages :
            /\ messages[i] \in Entry /\ messages[i].at = i /\ i \in Nat
  <2>1. DOMAIN input = 1 .. Len(input) /\ Len(input) \in Nat
    BY <1>2
  <2>2. \A i \in DOMAIN input : i \in Nat /\ input[i] \in [id : Ids, attempts : Nat]
    <3> DEFINE Given == [id : Ids, attempts : Nat]
    <3>1. input \in Seq(Given)
      BY <1>2
    <3> HIDE DEF Given
    <3>2. \A i \in DOMAIN input : i \in Nat /\ input[i] \in Given
      BY <3>1
    <3> QED BY <3>2 DEF Given
  <2>3. DOMAIN messages = DOMAIN input
    BY <1>1 DEF Placed
  <2>4. ASSUME NEW i \in DOMAIN messages
        PROVE  messages[i] \in Entry /\ messages[i].at = i
    <3>1. messages[i] = [at |-> i, id |-> input[i].id, attempts |-> input[i].attempts]
      BY <1>1, <2>3 DEF Placed
    <3> QED BY <2>2, <2>3, <3>1 DEF Entry
  <2> QED BY <2>1, <2>2, <2>3, <2>4
<1>4. messages \in Seq(Entry)
  <2>1. messages = [i \in 1 .. Len(input) |-> messages[i]]
    BY <1>1, <1>3 DEF Placed
  <2> QED BY <1>3, <2>1
<1>5. Places(messages) = DOMAIN messages /\ EachOnce(messages)
  BY <1>3 DEF Places, EachOnce
<1>6. <<>> \in Seq(Entry) /\ Places(<<>>) = {} /\ EachOnce(<<>>)
  BY DEF Places, EachOnce
<1>7. EveryMessageIsAccountedFor
  BY <1>5, <1>6 DEF LifecycleInit, EveryMessageIsAccountedFor, Apart
<1>8. \A i \in DOMAIN messages : messages[i].attempts \in Nat /\ delivered[i] = 0
  BY <1>3 DEF LifecycleInit, Entry
<1>9. delivered \in [DOMAIN messages -> Nat]
  BY DEF LifecycleInit
<1>10. DeliveriesWithinBudget
  BY <1>8 DEF DeliveriesWithinBudget
<1>11. pending = messages /\ acknowledged = <<>> /\ deadLettered = <<>> /\ dlq = <<>>
  BY DEF LifecycleInit
<1>12. \A j \in DOMAIN pending :
         LET at == pending[j].at
         IN  /\ pending[j].attempts = messages[at].attempts + delivered[at]
             /\ delivered[at] = 0 \/ pending[j].attempts <= MaxRetries + 1
  BY <1>3, <1>8, <1>11
<1> QED BY <1>4, <1>6, <1>7, <1>9, <1>10, <1>11, <1>12 DEF LifecycleInv

LEMMA RoundPreserves ==
    ASSUME LifecycleInv, NEW result, DeliverRound(result)
    PROVE  LifecycleInv'
<1> DEFINE lists == Settling(result)[Len(pending)]
<1>1. Sorted(lists, Len(pending)) /\ Unseen(Len(pending)) = {}
  <2>1. Len(pending) \in Nat
    BY DEF LifecycleInv
  <2>2. Len(pending) + 1 .. Len(pending) = {}
    BY <2>1
  <2> QED BY <2>2, LoopSortsTheBatch DEF Unseen
<1>2. /\ acknowledged' = lists.acknowledged /\ deadLettered' = lists.deadLettered
      /\ pending' = lists.next
      /\ pc = "rounds" /\ UNCHANGED <<messages, pc, dlq>>
  BY DEF DeliverRound
<1>3. dlq = <<>> /\ Places(<<>>) = {} /\ EachOnce(<<>>)
  BY <1>2 DEF LifecycleInv, Places, EachOnce
<1>4. delivered' = [i \in DOMAIN messages |->
                      IF \E j \in DOMAIN pending : pending[j].at = i
                      THEN delivered[i] + 1 ELSE delivered[i]]
  BY DEF DeliverRound, LifecycleInv
<1> HIDE DEF lists
<1>5. EveryMessageIsAccountedFor'
  <2>1. Apart(<<>>, lists.acknowledged) /\ Apart(<<>>, lists.next)
    BY <1>3 DEF Apart
  <2> QED BY <1>1, <1>2, <1>3, <2>1 DEF Sorted, EveryMessageIsAccountedFor
<1>6. delivered' \in [DOMAIN messages -> Nat]
  BY <1>4 DEF LifecycleInv
<1>7. MaxRetries \in Nat
  BY QueueAssumption
<1>8. \A j \in DOMAIN pending : pending[j] \in Entry /\ pending[j].at \in DOMAIN messages
  BY DEF LifecycleInv, EveryMessageIsAccountedFor, Places
<1>9. \A i \in DOMAIN messages : messages[i].attempts \in Nat /\ delivered[i] \in Nat
  <2>1. \A i \in DOMAIN messages : messages[i] \in Entry
    BY DEF LifecycleInv
  <2> QED BY <2>1 DEF LifecycleInv, Entry
<1>10. DeliveriesWithinBudget'
  <2> SUFFICES ASSUME NEW i \in DOMAIN messages
               PROVE  \/ delivered'[i] <= 1
                      \/ delivered'[i] + messages[i].attempts <= MaxRetries + 2
    BY <1>2 DEF DeliveriesWithinBudget
  <2>1. CASE \E j \in DOMAIN pending : pending[j].at = i
    <3>1. PICK j \in DOMAIN pending : pending[j].at = i
      BY <2>1
    <3>2. /\ pending[j].attempts = messages[i].attempts + delivered[i]
          /\ delivered[i] = 0 \/ pending[j].attempts <= MaxRetries + 1
      BY <3>1 DEF LifecycleInv
    <3>3. delivered'[i] = delivered[i] + 1
      BY <1>4, <2>1
    <3> QED BY <1>7, <1>9, <3>2, <3>3
  <2>2. CASE ~\E j \in DOMAIN pending : pending[j].at = i
    BY <1>4, <2>2 DEF LifecycleInv, DeliveriesWithinBudget
  <2> QED BY <2>1, <2>2
<1>11. ASSUME NEW k \in DOMAIN pending'
       PROVE  LET at == pending'[k].at
              IN  /\ pending'[k].attempts = messages[at].attempts + delivered'[at]
                  /\ delivered'[at] = 0 \/ pending'[k].attempts <= MaxRetries + 1
  <2>1. PICK j \in 1 .. Len(pending) :
          /\ pending'[k].at = pending[j].at
          /\ pending'[k].attempts = pending[j].attempts + 1
          /\ pending'[k].attempts <= MaxRetries + 1
    BY <1>1, <1>2, <1>11 DEF Sorted
  <2> DEFINE at == pending[j].at
  <2>2. j \in DOMAIN pending /\ at \in DOMAIN messages
    BY <1>8 DEF LifecycleInv
  <2>3. delivered'[at] = delivered[at] + 1
    BY <1>4, <2>2
  <2>4. pending[j].attempts = messages[at].attempts + delivered[at]
    BY <2>2 DEF LifecycleInv
  <2>5. messages[at].attempts \in Nat /\ delivered[at] \in Nat
    BY <1>9, <2>2
  <2>6. /\ pending'[k].at = at
        /\ pending'[k].attempts = messages[at].attempts + delivered'[at]
        /\ pending'[k].attempts <= MaxRetries + 1
    <3> DEFINE d == delivered[at]
               m == messages[at].attempts
    <3>1. d \in Nat /\ m \in Nat /\ delivered'[at] = d + 1 /\ pending[j].attempts = m + d
      BY <2>3, <2>4, <2>5
    <3>2. (m + d) + 1 = m + (d + 1)
      <4> HIDE DEF m, d
      <4> QED BY <3>1
    <3> HIDE DEF d
    <3>3. pending'[k].attempts = m + delivered'[at]
      BY <2>1, <3>1, <3>2
    <3> QED BY <2>1, <3>3
  <2> HIDE DEF at
  <2> QED BY <2>6
<1>12. /\ acknowledged' \in Seq(Entry) /\ deadLettered' \in Seq(Entry)
       /\ pending' \in Seq(Entry)
  BY <1>1, <1>2 DEF Sorted
<1> QED BY <1>2, <1>3, <1>5, <1>6, <1>10, <1>11, <1>12 DEF LifecycleInv

LEMMA ClosePreserves ==
    ASSUME LifecycleInv, Close
    PROVE  LifecycleInv'
<1>1. dlq = <<>> /\ (dlq' = <<>> \/ dlq' = deadLettered) /\ pc' = "done"
  BY DEF LifecycleInv, Close, DlqBatch
<1>2. UNCHANGED <<messages, pending, acknowledged, deadLettered, delivered>>
  BY DEF Close
<1>3. Places(<<>>) = {} /\ EachOnce(<<>>)
  BY DEF Places, EachOnce
<1>4. EachOnce(dlq') /\ Apart(dlq', acknowledged) /\ Apart(dlq', pending)
  <2>1. CASE dlq' = <<>>
    BY <1>3, <2>1 DEF Apart
  <2>2. CASE dlq' = deadLettered
    BY <2>2 DEF LifecycleInv, EveryMessageIsAccountedFor, Apart
  <2> QED BY <1>1, <2>1, <2>2
<1>5. EveryMessageIsAccountedFor'
  BY <1>2, <1>4 DEF LifecycleInv, EveryMessageIsAccountedFor
<1>6. DeliveriesWithinBudget'
  BY <1>2 DEF LifecycleInv, DeliveriesWithinBudget
<1> QED BY <1>1, <1>2, <1>5, <1>6 DEF LifecycleInv

\* The inductive invariant of dispatchQueueUntilSettled.
THEOREM LifecycleInvariant == LifecycleSpec => []LifecycleInv
<1>1. LifecycleInv /\ [LifecycleNext]_lifecycleVars => LifecycleInv'
  <2> SUFFICES ASSUME LifecycleInv, [LifecycleNext]_lifecycleVars PROVE LifecycleInv'
    OBVIOUS
  <2>1. CASE Close
    BY <2>1, ClosePreserves
  <2>2. CASE RejectRound
    <3>1. pc' # "rounds" /\ UNCHANGED <<messages, pending, acknowledged, deadLettered,
                                        delivered, dlq>>
      BY <2>2 DEF RejectRound
    <3> QED BY <3>1 DEF LifecycleInv, EveryMessageIsAccountedFor, DeliveriesWithinBudget
  <2>3. ASSUME NEW result \in Result, DeliverRound(result) PROVE LifecycleInv'
    BY <2>3, RoundPreserves
  <2>4. CASE UNCHANGED lifecycleVars
    BY <2>4 DEF lifecycleVars, LifecycleInv, EveryMessageIsAccountedFor,
                DeliveriesWithinBudget
  <2> QED BY <2>1, <2>2, <2>3, <2>4 DEF LifecycleNext
<1> QED BY <1>1, LifecycleStarts, PTL DEF LifecycleSpec

\* Whatever its consumer answers and however many messages share an id, a Queue's
\* message is settled once and dispatched within its budget (miniflare.ts
\* dispatchQueueUntilSettled).
THEOREM MessagesAreSettledOnce == LifecycleSpec => []MessagesAreSettled
<1>1. LifecycleInv => MessagesAreSettled
  BY DEF LifecycleInv, MessagesAreSettled
<1> QED BY <1>1, LifecycleInvariant, PTL

=============================================================================

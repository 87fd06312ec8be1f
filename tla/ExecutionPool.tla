---------------------------- MODULE ExecutionPool ----------------------------
(***************************************************************************)
(* executeScenarioBatch (packages/core/src/execution-pool.ts): W workers   *)
(* pull scenario indices from one counter and await one execution each.    *)
(*                                                                         *)
(* JavaScript runs one worker at a time, from one await to the next:       *)
(* `thread' is the worker that runs, 0 when the event loop waits for an    *)
(* execution to settle.  While a worker has the thread it pulls indices    *)
(* one after the other, skips those over a budget and gives the thread up  *)
(* when it starts an execution or finds no index left.  Array.from starts  *)
(* the workers in order, each running up to its first await.               *)
(*                                                                         *)
(* Indices are 1-based here.  An option the caller may leave out is a set  *)
(* with at most one element.                                               *)
(***************************************************************************)
EXTENDS Integers, FiniteSets, FiniteSetsExt

CONSTANTS
  MaxScenarios,     \* bound: the longest batch
  Costs,            \* what the estimator may answer
  Concurrency,      \* the worker counts a caller may ask for
  MaxRuns,          \* the run budgets a caller may pass
  MaxEstimatedCost, \* the cost budgets a caller may pass
  Outcomes          \* how an execution may settle

ASSUME BoundAssumption == MaxScenarios \in Nat
ASSUME CostAssumption == Costs \subseteq Nat
ASSUME OptionAssumption ==
  /\ Concurrency \subseteq Nat \ {0}
  /\ MaxRuns \subseteq SUBSET Nat /\ MaxEstimatedCost \subseteq SUBSET Nat
ASSUME OutcomeAssumption == Outcomes \subseteq {"pass", "fail", "reject"}

VARIABLES
  options,             \* this call's options
  cost,                \* estimate(scenarios[i]) of each scenario of the batch
  outcome,             \* how the execution of scenarios[i] will settle
  nextIndex,
  scheduled,
  estimatedCost,
  stoppedForFailure,
  results,             \* index -> verdict, for the executions that settled
  skipped,             \* index -> reason
  running,             \* worker -> the index it awaits, 0 when none
  thread,              \* the worker that runs, 0 when the event loop idles
  launched,            \* workers Array.from has created
  exited,              \* workers whose promise settled
  late,                \* performance.now() passed the wall-time budget
  batch                \* "pending", "resolved" or "rejected": Promise.all

counters == <<nextIndex, scheduled, estimatedCost>>
workers == <<running, thread, launched, exited>>
given == <<options, cost, outcome>>
vars == <<given, counters, stoppedForFailure, results, skipped, workers, late, batch>>

Reason == {"failure-stop", "time-budget", "run-budget", "cost-budget"}

Index == DOMAIN cost
Least(a, b) == IF a <= b THEN a ELSE b
Greatest(a, b) == IF a <= b THEN b ELSE a
Width == Least(options.concurrency, Greatest(1, Cardinality(Index)))
Worker == 1..Width

Settled == DOMAIN results
Failed == {i \in Settled : results[i] = "fail"}
Awaited == {running[w] : w \in Worker} \ {0}

Pulled == {i \in Index : i < nextIndex}

\* The function f with i added to its domain.
With(f, i, v) == [j \in DOMAIN f \cup {i} |-> IF j = i THEN v ELSE f[j]]
NoIndex == [i \in {} |-> 0]

\* ScenarioBatchOptions.  A wall-time budget is any point in time.
Options == [ concurrency : Concurrency, stopOnFirstFailure : BOOLEAN,
             maxRuns : MaxRuns, maxEstimatedCost : MaxEstimatedCost,
             wallTimeLimited : BOOLEAN ]

\* What the caller hands in: any options, a batch of any length.
GivenOK ==
  /\ options \in Options
  /\ \E n \in 0..MaxScenarios : cost \in [1..n -> Costs] /\ outcome \in [1..n -> Outcomes]

Init ==
  /\ GivenOK
  /\ nextIndex = 1
  /\ scheduled = 0
  /\ estimatedCost = 0
  /\ stoppedForFailure = FALSE
  /\ results = NoIndex
  /\ skipped = NoIndex
  /\ running = [w \in Worker |-> 0]
  /\ thread = 1
  /\ launched = 1
  /\ exited = {}
  /\ late = FALSE
  /\ batch = "pending"

-------------------------------------------------------------------------------
\* Variants a slip in the pool would produce; no action below uses them.

OverLimit(spent, limit) == spent > limit     \* one scenario too many
Unclaimed == nextIndex                       \* the counter is not advanced
LastFailure == {i \in Failed : \A j \in Failed : j <= i}
-------------------------------------------------------------------------------

AtLimit(spent, limit) == spent >= limit
MoreToLaunch == launched < Width
Claimed == nextIndex + 1
Passed == nextIndex + 1
ChargeOf(i) == cost[i]
StopsBatch(i) == outcome[i] = "fail" /\ options.stopOnFirstFailure
NoIndexLeft == nextIndex \notin Index

\* budgetReason: the first limit that index i would break, "none" if it breaks
\* none.
BudgetReason(i) ==
  IF stoppedForFailure THEN "failure-stop"
  ELSE IF late THEN "time-budget"
  ELSE IF \E m \in options.maxRuns : AtLimit(scheduled, m) THEN "run-budget"
  ELSE IF \E m \in options.maxEstimatedCost : estimatedCost + cost[i] > m
       THEN "cost-budget"
  ELSE "none"

\* The worker that has the thread awaits or returns: the next worker is created
\* or, once all are, the event loop takes over.
YieldThread ==
  IF MoreToLaunch
  THEN launched' = launched + 1 /\ thread' = launched + 1
  ELSE thread' = 0 /\ UNCHANGED launched

\* `skipped.set(index, ...); continue'
Skip(w) ==
  /\ thread = w
  /\ nextIndex \in Index
  /\ BudgetReason(nextIndex) # "none"
  /\ skipped' = With(skipped, nextIndex, BudgetReason(nextIndex))
  /\ nextIndex' = Passed
  /\ UNCHANGED <<given, scheduled, estimatedCost, stoppedForFailure, results,
                 workers, late, batch>>

\* `await execute(scenario)' is called
Schedule(w) ==
  /\ thread = w
  /\ nextIndex \in Index
  /\ BudgetReason(nextIndex) = "none"
  /\ scheduled' = scheduled + 1
  /\ estimatedCost' = estimatedCost + ChargeOf(nextIndex)
  /\ running' = [running EXCEPT ![w] = nextIndex]
  /\ nextIndex' = Claimed
  /\ YieldThread
  /\ UNCHANGED <<given, stoppedForFailure, results, skipped, exited, late, batch>>

\* `if (index >= scenarios.length) return', the counter incremented all the same
Exit(w) ==
  /\ thread = w
  /\ NoIndexLeft
  /\ nextIndex' = nextIndex + 1
  /\ exited' = exited \cup {w}
  /\ YieldThread
  /\ UNCHANGED <<given, scheduled, estimatedCost, stoppedForFailure, results,
                 skipped, running, late, batch>>

\* The awaited execution resolves: its result is recorded and the worker goes on.
Settle(w) ==
  /\ thread = 0
  /\ running[w] # 0
  /\ outcome[running[w]] # "reject"
  /\ results' = With(results, running[w], outcome[running[w]])
  /\ stoppedForFailure' = (stoppedForFailure \/ StopsBatch(running[w]))
  /\ running' = [running EXCEPT ![w] = 0]
  /\ thread' = w
  /\ UNCHANGED <<given, counters, skipped, launched, exited, late, batch>>

\* The awaited execution rejects: so does the worker's promise, and Promise.all
\* with it; the other workers are not told.
Reject(w) ==
  /\ thread = 0
  /\ running[w] # 0
  /\ outcome[running[w]] = "reject"
  /\ running' = [running EXCEPT ![w] = 0]
  /\ exited' = exited \cup {w}
  /\ batch' = "rejected"
  /\ UNCHANGED <<given, counters, stoppedForFailure, results, skipped, thread,
                 launched, late>>

\* The wall-time budget runs out, at any moment.
RunOutOfTime ==
  /\ options.wallTimeLimited
  /\ ~ late
  /\ late' = TRUE
  /\ UNCHANGED <<given, counters, stoppedForFailure, results, skipped, workers, batch>>

\* Promise.all resolves: what is neither run nor skipped is marked skipped.
Finish ==
  /\ batch = "pending"
  /\ thread = 0
  /\ exited = Worker
  /\ skipped' =
       [i \in DOMAIN skipped \cup (Index \ Settled) |->
          IF i \in DOMAIN skipped THEN skipped[i]
          ELSE IF stoppedForFailure THEN "failure-stop" ELSE "run-budget"]
  /\ batch' = "resolved"
  /\ UNCHANGED <<given, counters, stoppedForFailure, results, workers, late>>

\* orderedRuns.find(run => checksFailed(run.checks)): a set with the index of the
\* failure reported, empty when there is none.
FirstFailure == {i \in Failed : \A j \in Failed : i <= j}

Ended ==
  /\ batch # "pending"
  /\ exited = Worker
  /\ UNCHANGED vars

Work(w) == Skip(w) \/ Schedule(w) \/ Exit(w) \/ Settle(w) \/ Reject(w)

Next ==
  \/ \E w \in Worker : Work(w)
  \/ RunOutOfTime
  \/ Finish
  \/ Ended

\* Weak fairness: the event loop runs what is ready, and every execution settles.
\* Nothing makes the wall-time budget run out.
Fairness == WF_vars((\E w \in Worker : Work(w)) \/ Finish)

Spec == Init /\ [][Next]_vars
FairSpec == Spec /\ Fairness

-------------------------------------------------------------------------------

TypeOK ==
  /\ GivenOK
  /\ nextIndex \in Nat \ {0}
  /\ scheduled \in Nat
  /\ estimatedCost \in Nat
  /\ stoppedForFailure \in BOOLEAN
  /\ results \in [Settled -> {"pass", "fail"}] /\ Settled \subseteq Index
  /\ skipped \in [DOMAIN skipped -> Reason] /\ DOMAIN skipped \subseteq Index
  /\ running \in [Worker -> Index \cup {0}]
  /\ thread \in Worker \cup {0}
  /\ launched \in Worker
  /\ exited \subseteq Worker
  /\ late \in BOOLEAN
  /\ batch \in {"pending", "resolved", "rejected"}

\* Whatever the interleaving, each index the counter has passed is run, skipped
\* or awaited by one worker, in only one of these ways; when executions reject,
\* theirs are the only scenarios that disappear.
NoScenarioLost ==
  LET done == Settled \cup DOMAIN skipped IN
  /\ done \cup Awaited \subseteq Pulled
  /\ \A i \in Pulled \ (done \cup Awaited) : batch = "rejected" /\ outcome[i] = "reject"
  /\ Settled \cap DOMAIN skipped = {}
  /\ Awaited \cap done = {}
  /\ \A v, w \in Worker : running[v] = running[w] /\ running[v] # 0 => v = w

\* The run and cost budgets cover what is still in flight: they are charged
\* before the await, so concurrent workers cannot overspend them.
BudgetsHold ==
  /\ \A m \in options.maxRuns : scheduled <= m
  /\ \A m \in options.maxEstimatedCost : estimatedCost <= m

\* A scenario is only skipped for a failure when a scenario before it failed.
FailureStopIsJustified ==
  \A i \in DOMAIN skipped :
    skipped[i] = "failure-stop" => \E j \in Failed : j < i

\* What a caller gets with one worker, no failure stop and no clock: the runs
\* and the cost after the first i scenarios.
GreedyStep(prev, i) ==
  IF \/ \E m \in options.maxRuns : Cardinality(prev.runs) >= m
     \/ \E m \in options.maxEstimatedCost : prev.spent + cost[i] > m
  THEN prev
  ELSE [runs |-> prev.runs \cup {i}, spent |-> prev.spent + cost[i]]

GreedyAfter[i \in 0..Cardinality(Index)] ==
  IF i = 0 THEN [runs |-> {}, spent |-> 0] ELSE GreedyStep(GreedyAfter[i - 1], i)

Greedy == GreedyAfter[Cardinality(Index)].runs

\* The failure that is reported depends neither on the concurrency nor on the
\* order in which executions settle, as long as the clock does not interfere:
\* it is the failure a sequential run of the same budgets meets first.
FirstFailureIsDeterministic ==
  batch = "resolved" /\ ~ late =>
    LET failing == {i \in Greedy : outcome[i] = "fail"} IN
    FirstFailure = {i \in failing : \A j \in failing : i <= j}

\* The loop after Promise.all, which marks scenarios that are neither run nor
\* skipped, never finds one: workers stop only when the counter is exhausted.
FillFindsNothing == [][batch' = "resolved" => skipped' = skipped]_vars

\* Also after a rejection the workers the batch has left behind drain.
WorkersDrain == <>[](exited = Worker)

===============================================================================

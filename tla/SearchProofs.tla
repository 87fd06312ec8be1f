----------------------------- MODULE SearchProofs -----------------------------
(***************************************************************************)
(* Theorems about a batch (ExecutionPool) of any length, with any number   *)
(* of workers, any costs and any budgets, and about the search it is part  *)
(* of (SearchPipeline), over any perturbations and any system under test.  *)
(***************************************************************************)
EXTENDS SearchPipeline, FiniteSetTheorems, WellFoundedInduction, TLAPS

Running(w) == w \in Worker /\ running[w] # 0

\* The inductive invariant.  Beyond the properties themselves it says who can
\* hold what: a worker that awaits an execution is launched, has not ended and
\* does not have the thread; workers only leave a pending batch when the
\* counter is exhausted.
PoolInv ==
  /\ TypeOK
  /\ NoScenarioLost
  /\ BudgetsHold
  /\ FailureStopIsJustified
  /\ stoppedForFailure => Failed # {}
  /\ \A w \in Worker : Running(w) => w \notin exited /\ w # thread /\ w <= launched
  /\ thread \notin exited
  /\ thread <= launched
  /\ \A w \in exited : w <= launched
  /\ thread = 0 => launched = Width
  /\ thread # 0 /\ launched < Width => thread = launched
  /\ batch # "rejected" /\ exited # {} => nextIndex \notin Index
  /\ batch = "resolved" => exited = Worker

\* What the caller hands in, as the steps below use it.
LEMMA GivenFacts ==
  ASSUME GivenOK
  PROVE  /\ \E n \in Nat : Index = 1..n /\ Cardinality(Index) = n
         /\ Width \in Nat \ {0}
         /\ \A i \in Index : cost[i] \in Nat /\ outcome[i] \in {"pass", "fail", "reject"}
         /\ \A m \in options.maxRuns : m \in Nat
         /\ \A m \in options.maxEstimatedCost : m \in Nat
<1>1. PICK n \in 0..MaxScenarios :
        cost \in [1..n -> Costs] /\ outcome \in [1..n -> Outcomes]
    BY DEF GivenOK
<1>2. Index = 1..n
    BY <1>1 DEF Index
<1>3. n \in Nat
    BY BoundAssumption
<1>4. Cardinality(Index) = n
    BY <1>2, <1>3, FS_Interval
<1>5. options \in [ concurrency : Nat \ {0}, stopOnFirstFailure : BOOLEAN,
                    maxRuns : SUBSET Nat, maxEstimatedCost : SUBSET Nat,
                    wallTimeLimited : BOOLEAN ]
    BY OptionAssumption DEF GivenOK, Options
<1>6. options.concurrency \in Nat \ {0}
    BY <1>5
<1>7. Width \in Nat \ {0}
    BY <1>3, <1>4, <1>6 DEF Width, Least, Greatest
<1>8. \A i \in Index : cost[i] \in Nat /\ outcome[i] \in {"pass", "fail", "reject"}
    BY <1>1, <1>2, CostAssumption, OutcomeAssumption
<1>9. options.maxRuns \in SUBSET Nat /\ options.maxEstimatedCost \in SUBSET Nat
    BY <1>5
<1> QED BY <1>2, <1>3, <1>4, <1>7, <1>8, <1>9

LEMMA InitEstablishesPoolInv == Init => PoolInv
<1> SUFFICES ASSUME Init PROVE PoolInv
    OBVIOUS
<1>1. GivenOK
    BY DEF Init
<1>2. PICK n \in Nat : Index = 1..n
    BY <1>1, GivenFacts
<1>3. Width \in Nat \ {0}
    BY <1>1, GivenFacts
<1>4. 1 \in Worker
    BY <1>3 DEF Worker
<1>5. Settled = {} /\ DOMAIN skipped = {} /\ Awaited = {} /\ Pulled = {} /\ Failed = {}
  <2>1. Settled = {} /\ DOMAIN skipped = {}
      BY DEF Init, Settled, NoIndex
  <2>2. Awaited = {}
      BY DEF Init, Awaited
  <2>3. Pulled = {}
      BY <1>2 DEF Init, Pulled
  <2> QED BY <2>1, <2>2, <2>3 DEF Failed
<1>6. TypeOK
  <2>1. running \in [Worker -> Index \cup {0}]
      BY DEF Init
  <2>2. thread = 1 /\ launched = 1 /\ nextIndex = 1 /\ scheduled = 0 /\ estimatedCost = 0
      BY DEF Init
  <2>3. stoppedForFailure = FALSE /\ late = FALSE /\ exited = {} /\ batch = "pending"
      BY DEF Init
  <2>4. results \in [Settled -> {"pass", "fail"}] /\ skipped \in [DOMAIN skipped -> Reason]
      BY <1>5 DEF Init, NoIndex, Settled
  <2>5. /\ results \in [Settled -> {"pass", "fail"}] /\ Settled \subseteq Index
        /\ skipped \in [DOMAIN skipped -> Reason] /\ DOMAIN skipped \subseteq Index
        /\ nextIndex \in Nat \ {0} /\ scheduled \in Nat /\ estimatedCost \in Nat
      BY <1>5, <2>2, <2>4
  <2>6. /\ thread \in Worker \cup {0} /\ launched \in Worker /\ exited \subseteq Worker
        /\ stoppedForFailure \in BOOLEAN /\ late \in BOOLEAN
        /\ batch \in {"pending", "resolved", "rejected"}
      BY <1>4, <2>2, <2>3
  <2> QED BY <1>1, <2>1, <2>5, <2>6 DEF TypeOK
<1>7. NoScenarioLost
    BY <1>5 DEF NoScenarioLost, Init
<1>8. BudgetsHold
  <2>1. scheduled = 0 /\ estimatedCost = 0
      BY DEF Init
  <2> QED BY <1>1, <2>1, GivenFacts DEF BudgetsHold
<1>9. FailureStopIsJustified
    BY <1>5 DEF FailureStopIsJustified
<1>10. \A w \in Worker : ~ Running(w)
    BY DEF Running, Init
<1> QED BY <1>3, <1>6, <1>7, <1>8, <1>9, <1>10 DEF PoolInv, Init

\* A worker that runs or awaits has not left: the batch is not resolved yet.
LEMMA BusyMeansUnresolved ==
  ASSUME PoolInv, NEW w \in Worker, thread = w \/ running[w] # 0
  PROVE  batch # "resolved"
  BY DEF PoolInv, Running

\* What no step changes.
LEMMA GivenFixed ==
  ASSUME UNCHANGED given
  PROVE  /\ Index' = Index /\ Width' = Width /\ Worker' = Worker
         /\ GivenOK => GivenOK'
  BY DEF given, Index, Width, Worker, GivenOK

\* Advancing the counter past an index of the batch.
LEMMA PulledGrows ==
  ASSUME TypeOK, UNCHANGED given, nextIndex \in Index, nextIndex' = nextIndex + 1
  PROVE  /\ Pulled' = Pulled \cup {nextIndex}
         /\ nextIndex \notin Pulled
         /\ nextIndex' \in Nat \ {0}
<1>1. PICK n \in Nat : Index = 1..n
    BY GivenFacts DEF TypeOK
<1>2. nextIndex \in Nat \ {0} /\ Index' = Index
    BY GivenFixed DEF TypeOK
<1> QED BY <1>1, <1>2 DEF Pulled

\* Who may run after the worker with the thread gives it up.
LEMMA YieldKeepsOrder ==
  ASSUME PoolInv, UNCHANGED given, YieldThread, thread # 0
  PROVE  /\ launched' \in Worker /\ thread' \in Worker \cup {0}
         /\ thread' <= launched' /\ launched <= launched'
         /\ thread' = 0 => launched' = Width
         /\ thread' # 0 /\ launched' < Width => thread' = launched'
         /\ thread' # 0 => thread' > launched
<1>0. GivenOK /\ launched \in Worker /\ thread \in Worker \cup {0}
    BY DEF PoolInv, TypeOK
<1>1. Width \in Nat \ {0} /\ launched \in 1..Width /\ thread \in 0..Width
    BY <1>0, GivenFacts DEF Worker
<1>2. thread <= launched /\ (launched < Width => thread = launched)
    BY DEF PoolInv
<1>3. Width' = Width
    BY GivenFixed
<1>4. CASE launched < Width
    BY <1>1, <1>2, <1>3, <1>4 DEF YieldThread, MoreToLaunch, Worker
<1>5. CASE ~ (launched < Width)
    BY <1>1, <1>2, <1>3, <1>5 DEF YieldThread, MoreToLaunch, Worker
<1> QED BY <1>4, <1>5

LEMMA SkipPreserves ==
  ASSUME PoolInv, NEW w \in Worker, Skip(w)
  PROVE  PoolInv'
<1> USE DEF PoolInv
<1>1. /\ UNCHANGED given
      /\ nextIndex \in Index
      /\ nextIndex' = nextIndex + 1
      /\ skipped' = [j \in DOMAIN skipped \cup {nextIndex} |->
                       IF j = nextIndex THEN BudgetReason(nextIndex) ELSE skipped[j]]
      /\ BudgetReason(nextIndex) # "none"
      /\ UNCHANGED <<scheduled, estimatedCost, stoppedForFailure, results, running,
                     thread, launched, exited, late, batch>>
    BY DEF Skip, Passed, With, workers
<1>2. /\ Index' = Index /\ Worker' = Worker /\ Width' = Width
      /\ Pulled' = Pulled \cup {nextIndex} /\ nextIndex \notin Pulled
      /\ nextIndex' \in Nat \ {0}
    BY <1>1, GivenFixed, PulledGrows
<1>3. /\ Settled' = Settled /\ Failed' = Failed /\ Awaited' = Awaited
      /\ DOMAIN skipped' = DOMAIN skipped \cup {nextIndex}
    BY <1>1, <1>2 DEF Settled, Failed, Awaited
<1>4. BudgetReason(nextIndex) \in Reason
    BY <1>1 DEF BudgetReason, Reason
<1>5. TypeOK'
  <2>1. GivenOK'
      BY <1>1, GivenFixed DEF TypeOK
  <2> QED BY <1>1, <1>2, <1>3, <1>4, <2>1 DEF TypeOK
<1>6. NoScenarioLost'
    BY <1>1, <1>2, <1>3 DEF NoScenarioLost, given
<1>7. BudgetsHold'
    BY <1>1 DEF BudgetsHold, given
<1>8. FailureStopIsJustified'
  <2>1. ASSUME stoppedForFailure
        PROVE  \E j \in Failed : j < nextIndex
      BY <2>1 DEF NoScenarioLost, Pulled, Failed
  <2>2. BudgetReason(nextIndex) = "failure-stop" => stoppedForFailure
      BY DEF BudgetReason
  <2> QED BY <1>1, <1>3, <2>1, <2>2 DEF FailureStopIsJustified
<1>9. \A v \in Worker' : Running(v)' <=> Running(v)
    BY <1>1, <1>2 DEF Running
<1>10. /\ (batch # "rejected" /\ exited # {} => nextIndex \notin Index)'
       /\ batch' # "resolved"
    BY <1>1, BusyMeansUnresolved DEF Skip
<1> QED BY <1>1, <1>2, <1>3, <1>5, <1>6, <1>7, <1>8, <1>9, <1>10

LEMMA SchedulePreserves ==
  ASSUME PoolInv, NEW w \in Worker, Schedule(w)
  PROVE  PoolInv'
<1>0. TypeOK /\ NoScenarioLost
    BY DEF PoolInv
<1>1. /\ UNCHANGED given
      /\ thread = w
      /\ nextIndex \in Index
      /\ nextIndex' = nextIndex + 1
      /\ running' = [running EXCEPT ![w] = nextIndex]
      /\ scheduled' = scheduled + 1
      /\ estimatedCost' = estimatedCost + cost[nextIndex]
      /\ BudgetReason(nextIndex) = "none"
      /\ YieldThread
      /\ UNCHANGED <<stoppedForFailure, results, skipped, exited, late, batch>>
    BY DEF Schedule, Claimed, ChargeOf
<1>2. /\ Index' = Index /\ Worker' = Worker /\ Width' = Width
      /\ Pulled' = Pulled \cup {nextIndex} /\ nextIndex \notin Pulled
      /\ nextIndex' \in Nat \ {0} /\ nextIndex \in Nat \ {0}
    BY <1>0, <1>1, GivenFixed, PulledGrows DEF TypeOK
<1>3. Width \in Nat \ {0} /\ w # 0
    BY <1>0, GivenFacts DEF Worker, TypeOK
<1>4. /\ launched' \in Worker /\ thread' \in Worker \cup {0}
      /\ thread' <= launched' /\ launched <= launched'
      /\ thread' = 0 => launched' = Width
      /\ thread' # 0 /\ launched' < Width => thread' = launched'
      /\ thread' # 0 => thread' > launched
    BY <1>1, <1>3, YieldKeepsOrder
<1>5. /\ running \in [Worker -> Index \cup {0}] /\ launched \in 1..Width
      /\ running[w] = 0
      /\ w \notin exited /\ w <= launched
      /\ \A v \in exited : v <= launched
      /\ \A v \in Worker : running[v] # 0 => v <= launched /\ v \notin exited
    BY <1>0, <1>1 DEF PoolInv, TypeOK, Running, Worker
<1>6. Awaited' = Awaited \cup {nextIndex}
    BY <1>1, <1>2, <1>5 DEF Awaited
<1>7. Settled' = Settled /\ Failed' = Failed
    BY <1>1 DEF Settled, Failed, given
<1>8. cost[nextIndex] \in Nat
    BY <1>0, <1>1, GivenFacts DEF TypeOK
<1>9. TypeOK'
  <2>1. running' \in [Worker' -> Index' \cup {0}]
      BY <1>1, <1>2, <1>5
  <2>2. GivenOK'
      BY <1>0, <1>1, GivenFixed DEF TypeOK
  <2>3. scheduled' \in Nat /\ estimatedCost' \in Nat
      BY <1>0, <1>1, <1>8 DEF TypeOK
  <2> QED BY <1>0, <1>1, <1>2, <1>4, <1>7, <2>1, <2>2, <2>3 DEF TypeOK
<1>10. NoScenarioLost'
  <2>1. \A u, v \in Worker' : running'[u] = running'[v] /\ running'[u] # 0 => u = v
    <3>1. \A v \in Worker : running[v] # nextIndex
        BY <1>0, <1>2 DEF NoScenarioLost, Awaited
    <3> QED BY <1>0, <1>1, <1>2, <1>5, <3>1 DEF NoScenarioLost
  <2>2. /\ Settled' \cup DOMAIN skipped' \cup Awaited' \subseteq Pulled'
        /\ \A i \in Pulled' \ (Settled' \cup DOMAIN skipped' \cup Awaited') :
              batch' = "rejected" /\ outcome'[i] = "reject"
        /\ Settled' \cap DOMAIN skipped' = {}
        /\ Awaited' \cap (Settled' \cup DOMAIN skipped') = {}
      BY <1>0, <1>1, <1>2, <1>6, <1>7 DEF NoScenarioLost, given
  <2> QED BY <2>1, <2>2 DEF NoScenarioLost
<1>11. BudgetsHold'
  <2>1. \A m \in options.maxRuns : scheduled < m
    <3>1. \A m \in options.maxRuns : m \in Nat /\ ~ AtLimit(scheduled, m)
        BY <1>0, <1>1, GivenFacts DEF BudgetReason, TypeOK
    <3> QED BY <1>0, <3>1 DEF AtLimit, TypeOK
  <2>2. \A m \in options.maxEstimatedCost : estimatedCost + cost[nextIndex] <= m
    <3>1. \A m \in options.maxEstimatedCost :
            m \in Nat /\ ~ (estimatedCost + cost[nextIndex] > m)
        BY <1>0, <1>1, GivenFacts DEF BudgetReason, TypeOK
    <3> QED BY <1>0, <1>8, <3>1 DEF TypeOK
  <2>3. \A m \in options.maxRuns : m \in Nat
      BY <1>0, GivenFacts DEF TypeOK
  <2> QED BY <1>0, <1>1, <2>1, <2>2, <2>3 DEF BudgetsHold, given, TypeOK
<1>12. FailureStopIsJustified'
    BY <1>1, <1>7 DEF FailureStopIsJustified, PoolInv
<1>13. ASSUME NEW v \in Worker', Running(v)'
       PROVE  v \notin exited' /\ v # thread' /\ v <= launched'
  <2>1. v \notin exited /\ v <= launched /\ v \in 1..Width
      BY <1>1, <1>2, <1>5, <1>13 DEF Running, Worker
  <2> QED BY <1>1, <1>2, <1>4, <1>5, <2>1 DEF Worker
<1>14. thread' \notin exited'
  <2>1. 0 \notin exited
      BY <1>0 DEF TypeOK, Worker
  <2>2. \A v \in exited : v \in 1..Width /\ v <= launched
      BY <1>0, <1>5 DEF TypeOK, Worker
  <2> QED BY <1>1, <1>4, <1>5, <2>1, <2>2 DEF Worker
<1>15. \A v \in exited' : v <= launched'
    BY <1>0, <1>1, <1>4, <1>5 DEF TypeOK, Worker
<1>16. stoppedForFailure' => Failed' # {}
    BY <1>1, <1>7 DEF PoolInv
<1>17. /\ batch' # "rejected" /\ exited' # {} => nextIndex' \notin Index'
       /\ batch' # "resolved"
    BY <1>1, BusyMeansUnresolved DEF PoolInv
<1> QED
    BY <1>2, <1>4, <1>9, <1>10, <1>11, <1>12, <1>13, <1>14, <1>15, <1>16, <1>17
    DEF PoolInv

LEMMA ExitPreserves ==
  ASSUME PoolInv, NEW w \in Worker, Exit(w)
  PROVE  PoolInv'
<1>0. TypeOK /\ NoScenarioLost
    BY DEF PoolInv
<1>1. /\ UNCHANGED given
      /\ thread = w
      /\ nextIndex \notin Index
      /\ nextIndex' = nextIndex + 1
      /\ exited' = exited \cup {w}
      /\ YieldThread
      /\ UNCHANGED <<scheduled, estimatedCost, stoppedForFailure, results, skipped,
                     running, late, batch>>
    BY DEF Exit, NoIndexLeft
<1>2. GivenOK' /\ Index' = Index /\ Worker' = Worker /\ Width' = Width
    BY <1>0, <1>1, GivenFixed DEF TypeOK
<1>3. Width \in Nat \ {0} /\ w # 0
    BY <1>0, GivenFacts DEF Worker, TypeOK
<1>4. /\ launched' \in Worker /\ thread' \in Worker \cup {0}
      /\ thread' <= launched' /\ launched <= launched'
      /\ thread' = 0 => launched' = Width
      /\ thread' # 0 /\ launched' < Width => thread' = launched'
      /\ thread' # 0 => thread' > launched
    BY <1>1, <1>3, YieldKeepsOrder
<1>5. /\ launched \in 1..Width /\ exited \subseteq 1..Width
      /\ w <= launched
      /\ \A v \in exited : v <= launched
      /\ \A v \in Worker : running[v] # 0 => v <= launched /\ v \notin exited /\ v # w
    BY <1>0, <1>1 DEF PoolInv, TypeOK, Running, Worker
<1>6. Pulled' = Pulled /\ nextIndex' \in Nat \ {0} /\ nextIndex' \notin Index
  <2>1. PICK n \in Nat : Index = 1..n
      BY <1>0, GivenFacts DEF TypeOK
  <2>2. nextIndex \in Nat \ {0}
      BY <1>0 DEF TypeOK
  <2> QED BY <1>1, <1>2, <2>1, <2>2 DEF Pulled
<1>7. Settled' = Settled /\ Failed' = Failed /\ Awaited' = Awaited
    BY <1>1, <1>2 DEF Settled, Failed, Awaited
<1>8. TypeOK'
    BY <1>0, <1>1, <1>2, <1>4, <1>6, <1>7 DEF TypeOK
<1>9. NoScenarioLost'
    BY <1>0, <1>1, <1>2, <1>6, <1>7 DEF NoScenarioLost, given
<1>10. BudgetsHold'
    BY <1>1 DEF BudgetsHold, PoolInv, given
<1>11. FailureStopIsJustified'
    BY <1>1, <1>7 DEF FailureStopIsJustified, PoolInv
<1>12. ASSUME NEW v \in Worker', Running(v)'
       PROVE  v \notin exited' /\ v # thread' /\ v <= launched'
  <2>1. v \notin exited /\ v <= launched /\ v \in 1..Width /\ v # w
      BY <1>1, <1>2, <1>5, <1>12 DEF Running, Worker
  <2> QED BY <1>1, <1>2, <1>4, <1>5, <2>1 DEF Worker
<1>13. thread' \notin exited'
    BY <1>1, <1>3, <1>4, <1>5 DEF Worker
<1>14. \A v \in exited' : v <= launched'
    BY <1>1, <1>4, <1>5 DEF Worker
<1>15. (stoppedForFailure' => Failed' # {}) /\ batch' # "resolved"
    BY <1>1, <1>7, BusyMeansUnresolved DEF PoolInv
<1> QED
    BY <1>2, <1>4, <1>6, <1>8, <1>9, <1>10, <1>11, <1>12, <1>13, <1>14, <1>15
    DEF PoolInv

\* The execution worker w awaits is nobody else's.
LEMMA AwaitedBy ==
  ASSUME PoolInv, NEW w \in Worker, running[w] # 0, UNCHANGED given,
         running' = [running EXCEPT ![w] = 0]
  PROVE  /\ running[w] \in Index /\ running[w] \in Pulled
         /\ running[w] \notin Settled \cup DOMAIN skipped
         /\ Awaited' = Awaited \ {running[w]}
         /\ running' \in [Worker' -> Index' \cup {0}]
         /\ \A v \in Worker : running'[v] # 0 => v # w /\ running'[v] = running[v]
<1>1. TypeOK /\ NoScenarioLost
    BY DEF PoolInv
<1>2. running \in [Worker -> Index \cup {0}]
    BY <1>1 DEF TypeOK
<1>3. running[w] \in Awaited
    BY DEF Awaited
<1>4. Index' = Index /\ Worker' = Worker
    BY GivenFixed
<1>5. \A v \in Worker : running[v] = running[w] => v = w
    BY <1>1 DEF NoScenarioLost
<1>6. \A v \in Worker : running'[v] = IF v = w THEN 0 ELSE running[v]
    BY <1>2
<1>7. Awaited' = Awaited \ {running[w]}
    BY <1>4, <1>5, <1>6 DEF Awaited
<1>8. running[w] \in Pulled /\ running[w] \notin Settled \cup DOMAIN skipped
    BY <1>1, <1>3 DEF NoScenarioLost
<1> QED BY <1>2, <1>4, <1>6, <1>7, <1>8

LEMMA SettlePreserves ==
  ASSUME PoolInv, NEW w \in Worker, Settle(w)
  PROVE  PoolInv'
<1> DEFINE i == running[w]
<1>0. TypeOK /\ NoScenarioLost
    BY DEF PoolInv
<1>1. /\ UNCHANGED given
      /\ thread = 0
      /\ i # 0
      /\ outcome[i] # "reject"
      /\ results' = [j \in Settled \cup {i} |-> IF j = i THEN outcome[i] ELSE results[j]]
      /\ stoppedForFailure' =
           (stoppedForFailure \/ (outcome[i] = "fail" /\ options.stopOnFirstFailure))
      /\ running' = [running EXCEPT ![w] = 0]
      /\ thread' = w
      /\ UNCHANGED <<nextIndex, scheduled, estimatedCost, skipped, launched, exited,
                     late, batch>>
    BY DEF Settle, StopsBatch, With, Settled, counters
<1>2. GivenOK' /\ Index' = Index /\ Worker' = Worker /\ Width' = Width /\ Pulled' = Pulled
    BY <1>0, <1>1, GivenFixed DEF TypeOK, Pulled
<1>3. /\ i \in Index /\ i \in Pulled /\ i \notin Settled \cup DOMAIN skipped
      /\ Awaited' = Awaited \ {i}
      /\ running' \in [Worker' -> Index' \cup {0}]
      /\ \A v \in Worker : running'[v] # 0 => v # w /\ running'[v] = running[v]
    BY <1>1, AwaitedBy
<1>4. Settled' = Settled \cup {i}
    BY <1>1 DEF Settled
<1>5. outcome[i] \in {"pass", "fail"}
    BY <1>0, <1>1, <1>3, GivenFacts DEF TypeOK
<1>6. Failed \subseteq Failed' /\ (outcome[i] = "fail" => i \in Failed')
    BY <1>1, <1>3, <1>4 DEF Failed
<1>7. TypeOK'
  <2>1. results' \in [Settled' -> {"pass", "fail"}] /\ Settled' \subseteq Index'
      BY <1>0, <1>1, <1>2, <1>3, <1>4, <1>5 DEF TypeOK
  <2>2. stoppedForFailure' \in BOOLEAN
      BY <1>0, <1>1 DEF TypeOK
  <2> QED BY <1>0, <1>1, <1>2, <1>3, <2>1, <2>2 DEF TypeOK
<1>8. NoScenarioLost'
  <2>1. \A u, v \in Worker' : running'[u] = running'[v] /\ running'[u] # 0 => u = v
      BY <1>0, <1>2, <1>3 DEF NoScenarioLost
  <2>2. UNCHANGED <<skipped, batch, outcome>>
      BY <1>1 DEF given
  <2> QED BY <1>0, <1>2, <1>3, <1>4, <2>1, <2>2 DEF NoScenarioLost
<1>9. BudgetsHold'
    BY <1>1 DEF BudgetsHold, PoolInv, given
<1>10. FailureStopIsJustified'
    BY <1>1, <1>6 DEF FailureStopIsJustified, PoolInv
<1>11. stoppedForFailure' => Failed' # {}
    BY <1>1, <1>6 DEF PoolInv
<1>12. \A v \in Worker' : Running(v)' => v \notin exited' /\ v # thread' /\ v <= launched'
    BY <1>1, <1>2, <1>3 DEF PoolInv, Running
<1>13. w \notin exited /\ w <= launched /\ w # 0 /\ launched = Width
  <2>1. Running(w) /\ launched = Width
      BY <1>1 DEF Running, PoolInv
  <2> QED BY <2>1, <1>0, GivenFacts DEF PoolInv, TypeOK, Worker
<1>14. Width \in Nat
    BY <1>0, GivenFacts DEF TypeOK
<1>15. /\ thread' \notin exited' /\ thread' <= launched'
       /\ thread' # 0 /\ ~ (launched' < Width')
    BY <1>1, <1>2, <1>13, <1>14
<1>16. /\ \A v \in exited' : v <= launched'
       /\ batch' # "rejected" /\ exited' # {} => nextIndex' \notin Index'
       /\ batch' # "resolved"
    BY <1>1, <1>2, BusyMeansUnresolved DEF PoolInv
<1> QED
    BY <1>7, <1>8, <1>9, <1>10, <1>11, <1>12, <1>15, <1>16 DEF PoolInv

LEMMA RejectPreserves ==
  ASSUME PoolInv, NEW w \in Worker, Reject(w)
  PROVE  PoolInv'
<1> DEFINE i == running[w]
<1>0. TypeOK /\ NoScenarioLost
    BY DEF PoolInv
<1>1. /\ UNCHANGED given
      /\ thread = 0
      /\ i # 0
      /\ outcome[i] = "reject"
      /\ running' = [running EXCEPT ![w] = 0]
      /\ exited' = exited \cup {w}
      /\ batch' = "rejected"
      /\ UNCHANGED <<nextIndex, scheduled, estimatedCost, stoppedForFailure, results,
                     skipped, thread, launched, late>>
    BY DEF Reject, counters
<1>2. GivenOK' /\ Index' = Index /\ Worker' = Worker /\ Width' = Width /\ Pulled' = Pulled
    BY <1>0, <1>1, GivenFixed DEF TypeOK, Pulled
<1>3. /\ i \in Index /\ i \in Pulled /\ i \notin Settled \cup DOMAIN skipped
      /\ Awaited' = Awaited \ {i}
      /\ running' \in [Worker' -> Index' \cup {0}]
      /\ \A v \in Worker : running'[v] # 0 => v # w /\ running'[v] = running[v]
    BY <1>1, AwaitedBy
<1>4. Settled' = Settled /\ Failed' = Failed
    BY <1>1 DEF Settled, Failed
<1>5. TypeOK'
    BY <1>0, <1>1, <1>2, <1>3, <1>4 DEF TypeOK
<1>6. NoScenarioLost'
  <2>1. \A u, v \in Worker' : running'[u] = running'[v] /\ running'[u] # 0 => u = v
      BY <1>0, <1>2, <1>3 DEF NoScenarioLost
  <2>2. UNCHANGED <<skipped, outcome>>
      BY <1>1 DEF given
  <2> QED BY <1>0, <1>1, <1>2, <1>3, <1>4, <2>1, <2>2 DEF NoScenarioLost
<1>7. BudgetsHold'
    BY <1>1 DEF BudgetsHold, PoolInv, given
<1>8. FailureStopIsJustified'
    BY <1>1, <1>4 DEF FailureStopIsJustified, PoolInv
<1>9. \A v \in Worker' : Running(v)' => v \notin exited' /\ v # thread' /\ v <= launched'
    BY <1>1, <1>2, <1>3 DEF PoolInv, Running
<1>10. w <= launched /\ w # 0
    BY <1>0, <1>1, GivenFacts DEF PoolInv, Running, TypeOK, Worker
<1>11. /\ thread' \notin exited' /\ thread' <= launched'
       /\ \A v \in exited' : v <= launched'
       /\ thread' = 0 => launched' = Width'
    BY <1>1, <1>2, <1>10 DEF PoolInv
<1>12. /\ stoppedForFailure' => Failed' # {}
       /\ batch' = "rejected"
       /\ thread' = 0
    BY <1>1, <1>4 DEF PoolInv
<1> QED
    BY <1>5, <1>6, <1>7, <1>8, <1>9, <1>11, <1>12 DEF PoolInv

\* Workers leave a pending batch only once the counter is exhausted: when the
\* last one has left, every index is settled or skipped.
LEMMA NothingLeftToFill ==
  ASSUME PoolInv, batch = "pending", exited = Worker
  PROVE  Index \ Settled \subseteq DOMAIN skipped
<1>1. TypeOK /\ NoScenarioLost
    BY DEF PoolInv
<1>2. PICK n \in Nat : Index = 1..n
    BY <1>1, GivenFacts DEF TypeOK
<1>3. exited # {}
    BY <1>1, GivenFacts DEF TypeOK, Worker
<1>4. nextIndex \notin Index /\ nextIndex \in Nat \ {0}
    BY <1>1, <1>3 DEF PoolInv, TypeOK
<1>5. Pulled = Index
    BY <1>2, <1>4 DEF Pulled
<1>6. Awaited = {}
    BY DEF PoolInv, Running, Awaited
<1> QED BY <1>1, <1>5, <1>6 DEF NoScenarioLost

LEMMA FinishPreserves ==
  ASSUME PoolInv, Finish
  PROVE  PoolInv' /\ skipped' = skipped
<1>1. skipped' = skipped /\ exited = Worker
  <2>1. skipped \in [DOMAIN skipped -> Reason]
      BY DEF PoolInv, TypeOK
  <2>2. DOMAIN skipped \cup (Index \ Settled) = DOMAIN skipped
      BY NothingLeftToFill DEF Finish
  <2>3. skipped' = [j \in DOMAIN skipped |-> skipped[j]]
      BY <2>2 DEF Finish
  <2> QED BY <2>1, <2>3 DEF Finish
<1>2. /\ batch' = "resolved" /\ batch = "pending"
      /\ UNCHANGED <<options, cost, outcome, nextIndex, scheduled, estimatedCost,
                     stoppedForFailure, results, running, thread, launched, exited, late>>
    BY DEF Finish, given, counters, workers
<1>3. /\ Index' = Index /\ Worker' = Worker /\ Width' = Width /\ GivenOK' = GivenOK
      /\ Settled' = Settled /\ Failed' = Failed /\ Awaited' = Awaited /\ Pulled' = Pulled
    BY <1>2 DEF Index, Worker, Width, GivenOK, Settled, Failed, Awaited, Pulled
<1>4. TypeOK'
    BY <1>1, <1>2, <1>3 DEF TypeOK, PoolInv
<1>5. NoScenarioLost'
    BY <1>1, <1>2, <1>3 DEF NoScenarioLost, PoolInv
<1>6. BudgetsHold' /\ FailureStopIsJustified'
    BY <1>1, <1>2, <1>3 DEF BudgetsHold, FailureStopIsJustified, PoolInv
<1> QED BY <1>1, <1>2, <1>3, <1>4, <1>5, <1>6 DEF PoolInv, Running

\* The clock and stuttering disturb nothing.
LEMMA ClockPreserves ==
  ASSUME PoolInv, RunOutOfTime \/ UNCHANGED vars
  PROVE  PoolInv'
<1>1. /\ late' \in BOOLEAN
      /\ UNCHANGED <<options, cost, outcome, nextIndex, scheduled, estimatedCost,
                     stoppedForFailure, results, skipped, running, thread, launched,
                     exited, batch>>
    BY DEF RunOutOfTime, vars, given, counters, workers, PoolInv, TypeOK
<1>2. /\ Index' = Index /\ Worker' = Worker /\ Width' = Width /\ GivenOK' = GivenOK
      /\ Settled' = Settled /\ Failed' = Failed /\ Awaited' = Awaited /\ Pulled' = Pulled
    BY <1>1 DEF Index, Worker, Width, GivenOK, Settled, Failed, Awaited, Pulled
<1>3. TypeOK'
    BY <1>1, <1>2 DEF TypeOK, PoolInv
<1>4. NoScenarioLost'
    BY <1>1, <1>2 DEF NoScenarioLost, PoolInv
<1>5. BudgetsHold' /\ FailureStopIsJustified'
    BY <1>1, <1>2 DEF BudgetsHold, FailureStopIsJustified, PoolInv
<1> QED BY <1>1, <1>2, <1>3, <1>4, <1>5 DEF PoolInv, Running

LEMMA StepPreserves == PoolInv /\ [Next]_vars => PoolInv'
<1> SUFFICES ASSUME PoolInv, [Next]_vars
             PROVE  PoolInv'
    OBVIOUS
<1>1. ASSUME NEW w \in Worker, Work(w)
      PROVE  PoolInv'
    BY <1>1, SkipPreserves, SchedulePreserves, ExitPreserves, SettlePreserves,
       RejectPreserves DEF Work
<1>2. CASE RunOutOfTime
    BY <1>2, ClockPreserves
<1>3. CASE Finish
    BY <1>3, FinishPreserves
<1>4. CASE Ended \/ UNCHANGED vars
    BY <1>4, ClockPreserves DEF Ended
<1> QED BY <1>1, <1>2, <1>3, <1>4 DEF Next

-------------------------------------------------------------------------------

\* The pool's invariant holds whatever the batch, the budgets and the order in
\* which executions settle.
THEOREM PoolInvariant == Spec => []PoolInv
<1>1. PoolInv /\ [Next]_vars => PoolInv'
    BY StepPreserves
<1> QED BY <1>1, InitEstablishesPoolInv, PTL DEF Spec

\* Type correctness of executeScenarioBatch.
THEOREM TypeCorrectness == Spec => []TypeOK
<1>1. PoolInv => TypeOK
    BY DEF PoolInv
<1> QED BY <1>1, PoolInvariant, PTL

\* No interleaving of the workers loses, repeats or both runs and skips a
\* scenario; a rejection loses only the scenario that rejected.
THEOREM NoScenarioIsLost == Spec => []NoScenarioLost
<1>1. PoolInv => NoScenarioLost
    BY DEF PoolInv
<1> QED BY <1>1, PoolInvariant, PTL

\* Concurrent workers never overspend the run and cost budgets.
THEOREM BudgetsAreRespected == Spec => []BudgetsHold
<1>1. PoolInv => BudgetsHold
    BY DEF PoolInv
<1> QED BY <1>1, PoolInvariant, PTL

\* A scenario skipped for a failure has a failing scenario before it.
THEOREM FailureStopsAreJustified == Spec => []FailureStopIsJustified
<1>1. PoolInv => FailureStopIsJustified
    BY DEF PoolInv
<1> QED BY <1>1, PoolInvariant, PTL

\* The loop that marks forgotten scenarios after Promise.all changes nothing.
THEOREM FillLoopFindsNothing == Spec => FillFindsNothing
<1>1. PoolInv /\ [Next]_vars => [batch' = "resolved" => skipped' = skipped]_vars
  <2> SUFFICES ASSUME PoolInv, Next, batch' = "resolved"
               PROVE  skipped' = skipped \/ UNCHANGED vars
      OBVIOUS
  <2>1. CASE Finish
      BY <2>1, FinishPreserves
  <2>2. ASSUME NEW w \in Worker, Skip(w)
        PROVE  FALSE
      BY <2>2, BusyMeansUnresolved DEF Skip
  <2>3. ASSUME NEW w \in Worker, Schedule(w) \/ Exit(w) \/ Settle(w) \/ Reject(w)
        PROVE  skipped' = skipped
      BY <2>3 DEF Schedule, Exit, Settle, Reject
  <2>4. CASE RunOutOfTime \/ Ended
      BY <2>4 DEF RunOutOfTime, Ended
  <2> QED BY <2>1, <2>2, <2>3, <2>4 DEF Next, Work
<1> QED BY <1>1, PoolInvariant, PTL DEF Spec, FillFindsNothing

-------------------------------------------------------------------------------

\* Induction over the numbers, for a property given as the set of what has it.
LEMMA SetInduction ==
  ASSUME NEW S, 0 \in S, \A i \in Nat : i \in S => i + 1 \in S
  PROVE  Nat \subseteq S
<1> DEFINE Below == {pair \in Nat \X Nat : pair[1] < pair[2]}
           Rest == Nat \ S
<1>1. SUFFICES ASSUME Rest # {} PROVE FALSE
    OBVIOUS
<1>2. IsWellFoundedOn(Below, Nat)
    BY NatLessThanWellFounded DEF OpToRel
<1>3. PICK i \in Rest : \A j \in Rest : ~(<<j, i>> \in Below)
  <2> HIDE DEF Below
  <2> QED BY <1>1, <1>2, WFMin
<1>4. i \in Nat /\ i # 0 /\ i - 1 \in Nat /\ (i - 1) + 1 = i
    BY <1>3
<1>5. <<i - 1, i>> \in Below
    BY <1>4
<1>6. i - 1 \in S
    BY <1>3, <1>4, <1>5
<1> QED BY <1>3, <1>4, <1>6

Start == [runs |-> {}, spent |-> 0]

\* The equation of the recursive function GreedyAfter, up to k.
GreedyUpTo(g, k) ==
  g = [i \in 0..k |-> IF i = 0 THEN Start ELSE GreedyStep(g[i - 1], i)]

\* There is a function that satisfies the equation, however long the batch.
LEMMA GreedyExists ==
  ASSUME NEW k \in Nat
  PROVE  \E g : GreedyUpTo(g, k)
<1> DEFINE Defined == {i \in Nat : \E g : GreedyUpTo(g, i)}
<1>1. 0 \in Defined
  <2>1. GreedyUpTo([i \in 0..0 |-> Start], 0)
      BY DEF GreedyUpTo
  <2> QED BY <2>1
<1>2. ASSUME NEW i \in Nat, i \in Defined
      PROVE  i + 1 \in Defined
  <2>1. PICK g : GreedyUpTo(g, i)
      BY <1>2
  <2> DEFINE h == [j \in 0..i + 1 |-> IF j = i + 1 THEN GreedyStep(g[i], j) ELSE g[j]]
  <2>2. \A j \in 0..i : h[j] = g[j]
      OBVIOUS
  <2>3. \A j \in 0..i : g[j] = IF j = 0 THEN Start ELSE GreedyStep(g[j - 1], j)
      BY <2>1 DEF GreedyUpTo
  <2>4. ASSUME NEW j \in 0..i + 1
        PROVE  h[j] = IF j = 0 THEN Start ELSE GreedyStep(h[j - 1], j)
    <3>1. CASE j = i + 1
      <4>1. i \in 0..i /\ j - 1 = i /\ j # 0
          BY <3>1
      <4>2. h[j - 1] = g[i]
          BY <4>1, <2>2
      <4>3. h[j] = GreedyStep(g[i], j)
          BY <3>1
      <4> QED BY <4>1, <4>2, <4>3
    <3>2. CASE j # i + 1
      <4>1. j \in 0..i /\ (j # 0 => j - 1 \in 0..i)
          BY <3>2
      <4>2. h[j] = g[j] /\ (j # 0 => h[j - 1] = g[j - 1])
          BY <4>1, <2>2
      <4> HIDE DEF h
      <4> QED BY <4>1, <4>2, <2>3
    <3> QED BY <3>1, <3>2
  <2>5. GreedyUpTo(h, i + 1)
    <3>1. h = [j \in 0..i + 1 |-> h[j]]
        OBVIOUS
    <3> HIDE DEF h
    <3> QED BY <3>1, <2>4 DEF GreedyUpTo
  <2> HIDE DEF h
  <2> QED BY <2>5
<1> HIDE DEF Defined
<1>3. Nat \subseteq Defined
    BY <1>1, <1>2, SetInduction
<1> QED BY <1>3 DEF Defined

\* What GreedyAfter, the choices of a sequential run, is at each scenario.
LEMMA GreedyEquation ==
  ASSUME GivenOK
  PROVE  \A i \in 0..Cardinality(Index) :
           GreedyAfter[i] = IF i = 0 THEN Start ELSE GreedyStep(GreedyAfter[i - 1], i)
<1> DEFINE n == Cardinality(Index)
<1>1. n \in Nat
    BY GivenFacts
<1>2. \E g : GreedyUpTo(g, n)
    BY <1>1, GreedyExists
<1>3. GreedyAfter = CHOOSE g : GreedyUpTo(g, n)
    BY DEF GreedyAfter, GreedyUpTo, Start
<1>4. GreedyUpTo(GreedyAfter, n)
    BY <1>2, <1>3
<1> HIDE DEF n
<1>5. \A i \in 0..n : GreedyAfter[i] = IF i = 0 THEN Start ELSE GreedyStep(GreedyAfter[i - 1], i)
    BY <1>4 DEF GreedyUpTo
<1> QED BY <1>5 DEF n

\* What greedy choices are made of: scenarios of the batch, decided once.
LEMMA GreedyFacts ==
  ASSUME GivenOK
  PROVE  \A i \in 0..Cardinality(Index) :
           /\ GreedyAfter[i].runs \subseteq 1..i
           /\ IsFiniteSet(GreedyAfter[i].runs)
           /\ GreedyAfter[i].spent \in Nat
           /\ \A j \in 1..i : j \in GreedyAfter[i].runs <=> j \in GreedyAfter[j].runs
<1> DEFINE n == Cardinality(Index)
           Fact(i) == /\ GreedyAfter[i].runs \subseteq 1..i
                      /\ IsFiniteSet(GreedyAfter[i].runs)
                      /\ GreedyAfter[i].spent \in Nat
                      /\ \A j \in 1..i : j \in GreedyAfter[i].runs <=> j \in GreedyAfter[j].runs
           Known == {i \in Nat : i <= n => Fact(i)}
<1>1. n \in Nat /\ Index = 1..n
    BY GivenFacts
<1>2. 0 \in Known
  <2>1. GreedyAfter[0] = Start
      BY <1>1, GreedyEquation
  <2> QED BY <2>1, FS_EmptySet DEF Start
<1>3. ASSUME NEW i \in Nat, i \in Known
      PROVE  i + 1 \in Known
  <2>1. SUFFICES ASSUME i + 1 <= n PROVE Fact(i + 1)
      OBVIOUS
  <2>2. Fact(i) /\ i + 1 \in Index /\ i \in 0..n /\ i + 1 \in 0..n
      BY <1>1, <1>3, <2>1
  <2>3. GreedyAfter[i + 1] = GreedyStep(GreedyAfter[i], i + 1)
    <3>1. i + 1 # 0 /\ (i + 1) - 1 = i
        OBVIOUS
    <3> QED BY <2>2, <3>1, GreedyEquation
  <2>4. cost[i + 1] \in Nat
      BY <2>2, GivenFacts
  <2>5. CASE GreedyAfter[i + 1] = GreedyAfter[i]
    <3>1. i + 1 \notin GreedyAfter[i].runs
        BY <2>2
    <3> QED BY <2>2, <2>5, <3>1
  <2>6. CASE GreedyAfter[i + 1] = [runs |-> GreedyAfter[i].runs \cup {i + 1},
                                   spent |-> GreedyAfter[i].spent + cost[i + 1]]
    <3>1. IsFiniteSet(GreedyAfter[i].runs \cup {i + 1})
        BY <2>2, FS_AddElement
    <3> QED BY <2>2, <2>4, <2>6, <3>1
  <2> QED BY <2>3, <2>5, <2>6 DEF GreedyStep
<1> HIDE DEF Fact
<1>4. Nat \subseteq Known
  <2> HIDE DEF Known
  <2> QED BY <1>2, <1>3, SetInduction
<1>5. \A i \in 0..n : Fact(i)
    BY <1>1, <1>4
<1> QED BY <1>5 DEF Fact

\* What a worker decides about the next index is what the greedy choice decides.
DecidedBefore == GreedyAfter[Least(nextIndex - 1, Cardinality(Index))]

BudgetsAreGreedy ==
  scheduled = Cardinality(DecidedBefore.runs) /\ estimatedCost = DecidedBefore.spent

DecisionsAreGreedy ==
  \A i \in Pulled :
    IF i \in DOMAIN skipped THEN skipped[i] = "failure-stop" \/ i \notin Greedy
    ELSE i \in Greedy

\* As long as the clock does not interfere, the pool decides as a sequential run
\* does until a failure stops it; from then on it only skips.
GreedyInv ==
  /\ \A i \in Settled : results[i] = outcome[i]
  /\ ~ late => DecisionsAreGreedy
  /\ ~ late /\ ~ stoppedForFailure => BudgetsAreGreedy

\* budgetReason agrees with the sequential run about the scenario that is next.
LEMMA GreedyDecision ==
  ASSUME PoolInv, GreedyInv, ~ late, ~ stoppedForFailure, nextIndex \in Index
  PROVE  /\ BudgetReason(nextIndex) = "none" <=> nextIndex \in Greedy
         /\ GreedyAfter[nextIndex] =
              IF BudgetReason(nextIndex) = "none"
              THEN [runs |-> DecidedBefore.runs \cup {nextIndex},
                    spent |-> estimatedCost + cost[nextIndex]]
              ELSE DecidedBefore
         /\ nextIndex \notin DecidedBefore.runs
         /\ IsFiniteSet(DecidedBefore.runs)
<1> DEFINE n == Cardinality(Index)
           g == GreedyAfter[nextIndex - 1]
<1>1. GivenOK /\ n \in Nat /\ Index = 1..n
    BY GivenFacts DEF PoolInv, TypeOK
<1>2. nextIndex \in 1..n /\ nextIndex - 1 \in 0..n /\ nextIndex \in 0..n /\ n \in 0..n
    BY <1>1
<1>3. DecidedBefore = g
    BY <1>1, <1>2 DEF DecidedBefore, Least
<1>4. GreedyAfter[nextIndex] = GreedyStep(g, nextIndex)
    BY <1>1, <1>2, GreedyEquation
<1>5. /\ g.runs \subseteq 1..nextIndex - 1
      /\ IsFiniteSet(g.runs)
    BY <1>1, <1>2, GreedyFacts
<1>6. nextIndex \in Greedy <=> nextIndex \in GreedyAfter[nextIndex].runs
    BY <1>1, <1>2, GreedyFacts DEF Greedy
<1>7. nextIndex \notin g.runs
    BY <1>2, <1>5
<1>8. scheduled = Cardinality(g.runs) /\ estimatedCost = g.spent
    BY <1>3 DEF GreedyInv, BudgetsAreGreedy
<1>9. BudgetReason(nextIndex) = "none" <=>
        /\ ~ \E m \in options.maxRuns : Cardinality(g.runs) >= m
        /\ ~ \E m \in options.maxEstimatedCost : g.spent + cost[nextIndex] > m
    BY <1>8 DEF BudgetReason, AtLimit
<1> HIDE DEF g, n
<1>10. CASE BudgetReason(nextIndex) = "none"
    BY <1>3, <1>4, <1>5, <1>6, <1>7, <1>8, <1>9, <1>10 DEF GreedyStep
<1>11. CASE BudgetReason(nextIndex) # "none"
    BY <1>3, <1>4, <1>5, <1>6, <1>7, <1>8, <1>9, <1>11 DEF GreedyStep
<1> QED BY <1>10, <1>11

\* The sequential run depends on what the caller handed in only.
LEMMA GreedyFixed ==
  ASSUME UNCHANGED given
  PROVE  Greedy' = Greedy /\ GreedyAfter' = GreedyAfter /\ Index' = Index
  BY DEF given, Greedy, GreedyAfter, GreedyStep, Index

\* After an index was pulled, it is the last one decided.
LEMMA ClaimedIsDecided ==
  ASSUME PoolInv, nextIndex \in Index, nextIndex' = nextIndex + 1,
         GreedyAfter' = GreedyAfter, Index' = Index
  PROVE  DecidedBefore' = GreedyAfter[nextIndex]
<1>1. PICK n \in Nat : Index = 1..n /\ Cardinality(Index) = n
    BY GivenFacts DEF PoolInv, TypeOK
<1> QED BY <1>1 DEF DecidedBefore, Least

\* A resolved batch has decided every scenario and awaits none.
LEMMA ResolvedIsWhole ==
  ASSUME PoolInv, batch = "resolved"
  PROVE  Pulled = Index /\ Awaited = {} /\ Index = Settled \cup DOMAIN skipped
<1>1. exited = Worker /\ Worker # {}
    BY GivenFacts DEF PoolInv, TypeOK, Worker
<1>2. Awaited = {}
    BY <1>1 DEF PoolInv, Running, Awaited
<1>3. Pulled = Index
  <2>1. PICK n \in Nat : Index = 1..n
      BY GivenFacts DEF PoolInv, TypeOK
  <2>2. nextIndex \in Nat \ {0} /\ nextIndex \notin Index
      BY <1>1 DEF PoolInv, TypeOK
  <2> QED BY <2>1, <2>2 DEF Pulled
<1> QED BY <1>1, <1>2, <1>3 DEF PoolInv, NoScenarioLost, TypeOK

\* Nothing was decided yet.
LEMMA InitIsGreedy == Init => GreedyInv
<1> SUFFICES ASSUME Init PROVE GreedyInv
    OBVIOUS
<1>1. PoolInv /\ GivenOK
    BY InitEstablishesPoolInv DEF Init
<1>2. Cardinality(Index) \in Nat /\ Settled = {} /\ Pulled = {}
  <2>1. PICK n \in Nat : Index = 1..n /\ Cardinality(Index) = n
      BY <1>1, GivenFacts
  <2> QED BY <2>1 DEF Init, Settled, NoIndex, Pulled
<1>3. DecidedBefore = Start
    BY <1>1, <1>2, GreedyEquation DEF DecidedBefore, Least, Init
<1>4. BudgetsAreGreedy
    BY <1>3, FS_EmptySet DEF BudgetsAreGreedy, Start, Init
<1> QED BY <1>2, <1>4 DEF GreedyInv, DecisionsAreGreedy

\* A scenario that is skipped without a failure is one a sequential run skips.
LEMMA SkipIsGreedy ==
  ASSUME PoolInv, GreedyInv, NEW w \in Worker, Skip(w)
  PROVE  GreedyInv'
<1>1. /\ UNCHANGED given
      /\ nextIndex \in Index
      /\ nextIndex' = nextIndex + 1
      /\ skipped' = [j \in DOMAIN skipped \cup {nextIndex} |->
                       IF j = nextIndex THEN BudgetReason(nextIndex) ELSE skipped[j]]
      /\ BudgetReason(nextIndex) # "none"
      /\ UNCHANGED <<scheduled, estimatedCost, stoppedForFailure, results, late>>
    BY DEF Skip, Passed, With
<1>2. /\ Greedy' = Greedy /\ GreedyAfter' = GreedyAfter /\ Index' = Index
      /\ Pulled' = Pulled \cup {nextIndex} /\ nextIndex \notin Pulled
    BY <1>1, GreedyFixed, PulledGrows DEF PoolInv
<1>3. \A i \in Settled' : results'[i] = outcome'[i]
    BY <1>1 DEF GreedyInv, Settled, given
<1>4. ASSUME ~ late'
      PROVE  DecisionsAreGreedy'
  <2>1. ~ late
      BY <1>1, <1>4
  <2>2. BudgetReason(nextIndex) = "failure-stop" \/ nextIndex \notin Greedy
    <3>1. CASE stoppedForFailure
        BY <3>1 DEF BudgetReason
    <3>2. CASE ~ stoppedForFailure
        BY <1>1, <2>1, <3>2, GreedyDecision
    <3> QED BY <3>1, <3>2
  <2> QED BY <1>1, <1>2, <2>1, <2>2 DEF DecisionsAreGreedy, GreedyInv
<1>5. ASSUME ~ late', ~ stoppedForFailure'
      PROVE  BudgetsAreGreedy'
  <2>1. ~ late /\ ~ stoppedForFailure
      BY <1>1, <1>5
  <2>2. GreedyAfter[nextIndex] = DecidedBefore
      BY <1>1, <2>1, GreedyDecision
  <2>3. DecidedBefore' = GreedyAfter[nextIndex]
      BY <1>1, <1>2, ClaimedIsDecided
  <2> QED BY <1>1, <2>1, <2>2, <2>3 DEF BudgetsAreGreedy, GreedyInv
<1> QED BY <1>3, <1>4, <1>5 DEF GreedyInv

\* A scenario that is started is one a sequential run runs.
LEMMA ScheduleIsGreedy ==
  ASSUME PoolInv, GreedyInv, NEW w \in Worker, Schedule(w)
  PROVE  GreedyInv'
<1>1. /\ UNCHANGED given
      /\ nextIndex \in Index
      /\ nextIndex' = nextIndex + 1
      /\ scheduled' = scheduled + 1
      /\ estimatedCost' = estimatedCost + cost[nextIndex]
      /\ BudgetReason(nextIndex) = "none"
      /\ UNCHANGED <<stoppedForFailure, results, skipped, late>>
    BY DEF Schedule, Claimed, ChargeOf
<1>2. /\ Greedy' = Greedy /\ GreedyAfter' = GreedyAfter /\ Index' = Index
      /\ Pulled' = Pulled \cup {nextIndex} /\ nextIndex \notin Pulled
    BY <1>1, GreedyFixed, PulledGrows DEF PoolInv
<1>3. ~ late /\ ~ stoppedForFailure
    BY <1>1 DEF BudgetReason
<1>4. /\ nextIndex \in Greedy
      /\ GreedyAfter[nextIndex] = [runs |-> DecidedBefore.runs \cup {nextIndex},
                                   spent |-> estimatedCost + cost[nextIndex]]
      /\ nextIndex \notin DecidedBefore.runs
      /\ IsFiniteSet(DecidedBefore.runs)
    BY <1>1, <1>3, GreedyDecision
<1>5. nextIndex \notin DOMAIN skipped
    BY <1>2 DEF PoolInv, NoScenarioLost
<1>6. DecisionsAreGreedy'
    BY <1>1, <1>2, <1>3, <1>4, <1>5 DEF DecisionsAreGreedy, GreedyInv
<1>7. BudgetsAreGreedy'
  <2>1. DecidedBefore' = GreedyAfter[nextIndex]
      BY <1>1, <1>2, ClaimedIsDecided
  <2>2. Cardinality(DecidedBefore.runs \cup {nextIndex}) = Cardinality(DecidedBefore.runs) + 1
      BY <1>4, FS_AddElement
  <2>3. scheduled = Cardinality(DecidedBefore.runs)
      BY <1>3 DEF GreedyInv, BudgetsAreGreedy
  <2> QED BY <1>1, <1>4, <2>1, <2>2, <2>3 DEF BudgetsAreGreedy
<1>8. \A i \in Settled' : results'[i] = outcome'[i]
    BY <1>1 DEF GreedyInv, Settled, given
<1> QED BY <1>6, <1>7, <1>8 DEF GreedyInv

\* A worker that returns has decided nothing.
LEMMA ExitIsGreedy ==
  ASSUME PoolInv, GreedyInv, NEW w \in Worker, Exit(w)
  PROVE  GreedyInv'
<1>1. /\ UNCHANGED given
      /\ nextIndex \notin Index
      /\ nextIndex' = nextIndex + 1
      /\ UNCHANGED <<scheduled, estimatedCost, stoppedForFailure, results, skipped, late>>
    BY DEF Exit, NoIndexLeft
<1>2. Greedy' = Greedy /\ GreedyAfter' = GreedyAfter /\ Index' = Index
    BY <1>1, GreedyFixed
<1>3. PICK n \in Nat : Index = 1..n /\ Cardinality(Index) = n
    BY GivenFacts DEF PoolInv, TypeOK
<1>4. nextIndex \in Nat /\ nextIndex > n
    BY <1>1, <1>3 DEF PoolInv, TypeOK
<1>5. Pulled' = Pulled
    BY <1>1, <1>2, <1>3, <1>4 DEF Pulled
<1>6. DecidedBefore' = DecidedBefore
    BY <1>1, <1>2, <1>3, <1>4 DEF DecidedBefore, Least
<1>7. BudgetsAreGreedy' = BudgetsAreGreedy /\ DecisionsAreGreedy' = DecisionsAreGreedy
    BY <1>1, <1>2, <1>5, <1>6 DEF BudgetsAreGreedy, DecisionsAreGreedy
<1>8. \A i \in Settled' : results'[i] = outcome'[i]
    BY <1>1 DEF GreedyInv, Settled, given
<1> QED BY <1>1, <1>7, <1>8 DEF GreedyInv

\* The pool records what the execution returned.
LEMMA SettleIsGreedy ==
  ASSUME PoolInv, GreedyInv, NEW w \in Worker, Settle(w)
  PROVE  GreedyInv'
<1> DEFINE i == running[w]
<1>1. /\ UNCHANGED given
      /\ results' = [j \in Settled \cup {i} |-> IF j = i THEN outcome[i] ELSE results[j]]
      /\ ~ stoppedForFailure' => ~ stoppedForFailure
      /\ UNCHANGED <<nextIndex, scheduled, estimatedCost, skipped, late>>
    BY DEF Settle, With, Settled, counters
<1>2. Greedy' = Greedy /\ GreedyAfter' = GreedyAfter /\ Index' = Index
    BY <1>1, GreedyFixed
<1>3. Pulled' = Pulled /\ DecidedBefore' = DecidedBefore
    BY <1>1, <1>2 DEF Pulled, DecidedBefore
<1>4. BudgetsAreGreedy' = BudgetsAreGreedy /\ DecisionsAreGreedy' = DecisionsAreGreedy
    BY <1>1, <1>2, <1>3 DEF BudgetsAreGreedy, DecisionsAreGreedy
<1>5. \A j \in Settled' : results'[j] = outcome'[j]
    BY <1>1 DEF GreedyInv, Settled, given
<1> QED BY <1>1, <1>4, <1>5 DEF GreedyInv

\* Rejections, the clock, the end of the batch and stuttering decide nothing.
LEMMA OthersAreGreedy ==
  ASSUME PoolInv, GreedyInv,
         (\E w \in Worker : Reject(w)) \/ RunOutOfTime \/ Finish \/ UNCHANGED vars
  PROVE  GreedyInv'
<1>1. skipped' = skipped
    BY FinishPreserves DEF Reject, RunOutOfTime, vars
<1>2. /\ UNCHANGED given
      /\ ~ late' => ~ late
      /\ UNCHANGED <<nextIndex, scheduled, estimatedCost, stoppedForFailure, results>>
    BY DEF Reject, RunOutOfTime, Finish, vars, given, counters
<1>3. Greedy' = Greedy /\ GreedyAfter' = GreedyAfter /\ Index' = Index
    BY <1>2, GreedyFixed
<1>4. Pulled' = Pulled /\ DecidedBefore' = DecidedBefore
    BY <1>2, <1>3 DEF Pulled, DecidedBefore
<1>5. BudgetsAreGreedy' = BudgetsAreGreedy /\ DecisionsAreGreedy' = DecisionsAreGreedy
    BY <1>1, <1>2, <1>3, <1>4 DEF BudgetsAreGreedy, DecisionsAreGreedy
<1>6. \A j \in Settled' : results'[j] = outcome'[j]
    BY <1>2 DEF GreedyInv, Settled, given
<1> QED BY <1>2, <1>5, <1>6 DEF GreedyInv

\* When the batch is resolved everything was decided, and only a failure before a
\* scenario made the pool decide otherwise than greedily.
LEMMA ResolvedIsDetermined ==
  ASSUME PoolInv, GreedyInv
  PROVE  FirstFailureIsDeterministic
<1> DEFINE failing == {i \in Greedy : outcome[i] = "fail"}
<1>1. SUFFICES ASSUME batch = "resolved", ~ late
               PROVE  FirstFailure = {i \in failing : \A j \in failing : i <= j}
    BY DEF FirstFailureIsDeterministic
<1>2. PICK n \in Nat : Index = 1..n /\ Cardinality(Index) = n
    BY GivenFacts DEF PoolInv, TypeOK
<1>3. Greedy \subseteq Index
    BY <1>2, GreedyFacts DEF Greedy, PoolInv, TypeOK
<1>4. Pulled = Index /\ Awaited = {} /\ Index = Settled \cup DOMAIN skipped
    BY <1>1, ResolvedIsWhole
<1>5. \A i \in Settled : i \in Greedy /\ (results[i] = "fail" <=> outcome[i] = "fail")
    BY <1>1, <1>4 DEF GreedyInv, DecisionsAreGreedy, PoolInv, NoScenarioLost
<1>6. Failed \subseteq failing
    BY <1>5 DEF Failed
<1>7. \A i \in failing : i \in Failed \/ \E j \in Failed : j < i
  <2> SUFFICES ASSUME NEW i \in failing, i \notin Failed
               PROVE  \E j \in Failed : j < i
      OBVIOUS
  <2>1. i \in DOMAIN skipped
      BY <1>3, <1>4, <1>5 DEF Failed
  <2>2. skipped[i] = "failure-stop"
      BY <1>1, <1>3, <1>4, <2>1 DEF GreedyInv, DecisionsAreGreedy
  <2> QED BY <2>1, <2>2 DEF PoolInv, FailureStopIsJustified
<1>8. \A i \in failing : i \in Nat
    BY <1>2, <1>3
<1> HIDE DEF failing
<1>9. ASSUME NEW i \in Failed, \A j \in Failed : i <= j, NEW j \in failing
      PROVE  i <= j
    BY <1>6, <1>7, <1>8, <1>9
<1>10. ASSUME NEW i \in failing, \A j \in failing : i <= j
       PROVE  i \in Failed
    BY <1>6, <1>7, <1>8, <1>10
<1> QED BY <1>6, <1>9, <1>10 DEF FirstFailure

LEMMA GreedyPreserved == PoolInv /\ GreedyInv /\ [Next]_vars => GreedyInv'
<1> SUFFICES ASSUME PoolInv, GreedyInv, [Next]_vars PROVE GreedyInv'
    OBVIOUS
<1>1. ASSUME NEW w \in Worker, Work(w) PROVE GreedyInv'
    BY <1>1, SkipIsGreedy, ScheduleIsGreedy, ExitIsGreedy, SettleIsGreedy, OthersAreGreedy
    DEF Work
<1>2. CASE RunOutOfTime \/ Finish \/ Ended \/ UNCHANGED vars
    BY <1>2, OthersAreGreedy DEF Ended
<1> QED BY <1>1, <1>2 DEF Next

\* The failure a batch reports does not depend on its concurrency or on the order in
\* which its executions settle: it is the one a sequential run meets first.
THEOREM FirstFailureIsDetermined == Spec => []FirstFailureIsDeterministic
<1>1. PoolInv /\ GreedyInv => FirstFailureIsDeterministic
    BY ResolvedIsDetermined
<1> QED BY <1>1, GreedyPreserved, InitIsGreedy, PoolInvariant, StepPreserves, PTL DEF Spec

-------------------------------------------------------------------------------
(* The search the batch is part of.  The batch keeps its invariant in it, for it goes on
   only while the search is at its batch or after it rejected; the reduction, which
   works on the failure a resolved batch reported, keeps a candidate that failed.  *)

PoolHolds == PoolInv /\ GreedyInv

ReductionHolds ==
  /\ original = FailingPlan
  /\ oracle = [S \in SUBSET FailingPlan |-> {a = "fail" : a \in behavior[S] \ {"reject"}}]
  /\ candidate \subseteq FailingPlan
  /\ pc \in {"verify", "scan", "done", "threw"}
  /\ pc \in {"scan", "done"} => TRUE \in oracle[candidate]

\* Baseline, batch and reduction returned.
Concluded ==
  /\ baseline \in {"pass", "fail"} \cap behavior[{}]
  /\ batch = "resolved"
  /\ minimize /\ FirstFailure # {} => ReductionHolds /\ pc = "done"

SystemOK ==
  /\ behavior \in [SUBSET Perturbations -> AnswerSets]
  /\ plan \in [Index -> SUBSET Perturbations]
  /\ \A i \in Index : outcome[i] \in behavior[plan[i]]

SearchInv ==
  /\ PoolHolds
  /\ SystemOK
  /\ phase \in {"baseline", "batch", "minimize", "outcome", "threw", "done"}
  /\ phase = "baseline" => batch = "pending"
  /\ phase \in {"batch", "minimize"} => baseline \in {"pass", "fail"} \cap behavior[{}]
  /\ phase = "minimize" => batch = "resolved" /\ minimize /\ FirstFailure # {} /\ ReductionHolds
  /\ phase = "outcome" => Concluded
  /\ phase # "done" => record = NoRecord
  /\ phase = "done" =>
       \/ record = [status |-> "error", set |-> {}]
       \/ /\ Concluded
          /\ record = [status |-> Status(Failing, Unexplored),
                       set |-> IF Failing THEN FailureSet ELSE {}]

\* Every step of a search is a step of its batch or leaves it alone.
LEMMA SearchStepsThePool == [SearchNext]_searchVars => [Next]_vars
BY DEF SearchNext, searchVars, RunBaseline, RunBatch, NothingToMinimize, StartMinimization,
       Minimize, MinimizationThrows, MinimizationReturns, BatchThrows, Report, ReportError,
       SearchEnded, Next

LEMMA PoolHoldsInSearch == PoolHolds /\ [SearchNext]_searchVars => PoolHolds'
BY SearchStepsThePool, StepPreserves, GreedyPreserved DEF PoolHolds

LEMMA PoolStepKeepsGiven == [Next]_vars => UNCHANGED given
BY DEF Next, vars, given, Work, Skip, Schedule, Exit, Settle, Reject, RunOutOfTime, Finish, Ended

\* What the conclusion depends on.
LEMMA ConclusionIsStable ==
  ASSUME UNCHANGED <<system, baseline, vars, minVars>>
  PROVE  /\ Concluded' = Concluded /\ ReductionHolds' = ReductionHolds
         /\ FirstFailure' = FirstFailure /\ FailingPlan' = FailingPlan
         /\ FailureSet' = FailureSet /\ Unexplored' = Unexplored
         /\ SystemOK' = SystemOK
BY DEF system, vars, minVars, given, counters, workers, Concluded, ReductionHolds, FirstFailure,
       Failed, Settled, FailingPlan, FailureSet, Unexplored, SystemOK, Index

LEMMA SearchInvPreserved == SearchInv /\ [SearchNext]_searchVars => SearchInv'
<1> SUFFICES ASSUME SearchInv, [SearchNext]_searchVars PROVE SearchInv'
    OBVIOUS
<1>0. PoolHolds'
    BY PoolHoldsInSearch DEF SearchInv
<1>1. CASE RunBaseline
  <2>1. SystemOK'
      BY <1>1, ConclusionIsStable DEF RunBaseline, SearchInv, SystemOK, system, vars, given, Index
  <2>2. ASSUME NEW answer \in behavior[{}], ~ Throws(answer)
        PROVE  answer \in {"pass", "fail"}
    <3>1. behavior[{}] \in AnswerSets
        BY DEF SearchInv, SystemOK
    <3> QED BY <2>2, <3>1, AnswerAssumption, OutcomeAssumption DEF Throws
  <2> QED BY <1>0, <1>1, <2>1, <2>2 DEF RunBaseline, SearchInv, system, vars
<1>2. CASE RunBatch
  <2>1. phase # "baseline" /\ phase # "minimize" /\ phase # "outcome" /\ UNCHANGED phase
      BY <1>2 DEF RunBatch, SearchInv, Concluded
  <2>2. SystemOK'
    <3>1. UNCHANGED given
        BY PoolStepKeepsGiven, SearchStepsThePool
    <3> QED BY <1>2, <3>1 DEF RunBatch, SearchInv, SystemOK, system, given, Index
  <2>3. phase = "done" => record' = [status |-> "error", set |-> {}]
      BY <1>2 DEF RunBatch, SearchInv, Concluded
  <2> QED BY <1>0, <1>2, <2>1, <2>2, <2>3 DEF RunBatch, SearchInv, system
<1>3. CASE NothingToMinimize
    BY <1>0, <1>3, ConclusionIsStable DEF NothingToMinimize, SearchInv, Concluded, system, vars
<1>4. CASE StartMinimization
  <2>1. /\ FirstFailure' = FirstFailure /\ FailingPlan' = FailingPlan /\ SystemOK'
        /\ behavior' = behavior /\ minimize' = minimize /\ baseline' = baseline
        /\ batch' = batch /\ record' = record
      BY <1>4 DEF StartMinimization, SearchInv, SystemOK, system, vars, given, Index,
         FirstFailure, Failed, Settled, FailingPlan
  <2>2. ReductionHolds'
      BY <1>4, <2>1 DEF StartMinimization, ReductionHolds
  <2> QED BY <1>0, <1>4, <2>1, <2>2 DEF StartMinimization, SearchInv
<1>5. CASE Minimize
  <2>1. /\ FirstFailure' = FirstFailure /\ FailingPlan' = FailingPlan /\ SystemOK'
        /\ behavior' = behavior /\ minimize' = minimize /\ baseline' = baseline
        /\ batch' = batch /\ record' = record /\ phase' = phase /\ phase = "minimize"
      BY <1>5 DEF Minimize, SearchInv, SystemOK, system, vars, given, Index,
         FirstFailure, Failed, Settled, FailingPlan
  <2>2. ReductionHolds
      BY <2>1 DEF SearchInv
  <2>3. ReductionHolds'
    <3>1. CASE Reduction!VerifyOriginal
        BY <2>1, <2>2, <3>1 DEF ReductionHolds, Reduction!VerifyOriginal, Reduction!Reproduces,
           Reduction!DoesNotReproduce
    <3>2. ASSUME NEW p \in candidate, Reduction!Remove(p) PROVE ReductionHolds'
        BY <2>1, <2>2, <3>2 DEF ReductionHolds, Reduction!Remove, Reduction!Reproduces
    <3>3. ASSUME NEW p \in candidate, Reduction!Keep(p) PROVE ReductionHolds'
        BY <2>1, <2>2, <3>3 DEF ReductionHolds, Reduction!Keep
    <3>4. CASE Reduction!Finish
        BY <2>1, <2>2, <3>4 DEF ReductionHolds, Reduction!Finish
    <3> QED BY <1>5, <3>1, <3>2, <3>3, <3>4 DEF Minimize
  <2> QED BY <1>0, <2>1, <2>3 DEF SearchInv
<1>6. CASE MinimizationThrows \/ BatchThrows
    BY <1>0, <1>6, ConclusionIsStable DEF MinimizationThrows, BatchThrows, SearchInv
<1>7. CASE MinimizationReturns
    BY <1>0, <1>7, ConclusionIsStable DEF MinimizationReturns, SearchInv, Concluded, system, vars, minVars
<1>8. CASE Report
  <2>1. /\ Concluded' /\ SystemOK' /\ Unexplored' = Unexplored /\ FailureSet' = FailureSet
        /\ Failing' = Failing
      BY <1>8, ConclusionIsStable DEF Report, SearchInv, Failing
  <2> QED BY <1>0, <1>8, <2>1 DEF Report, SearchInv
<1>9. CASE ReportError
    BY <1>0, <1>9, ConclusionIsStable DEF ReportError, SearchInv
<1>10. CASE SearchEnded \/ UNCHANGED searchVars
  <2>1. UNCHANGED <<phase, record>> /\ UNCHANGED <<system, baseline, vars, minVars>>
      BY <1>10 DEF SearchEnded, searchVars
  <2>2. Failing' = Failing
      BY <2>1, ConclusionIsStable DEF Failing
  <2> QED BY <1>0, <2>1, <2>2, ConclusionIsStable DEF SearchInv, system, vars
<1> QED BY <1>1, <1>2, <1>3, <1>4, <1>5, <1>6, <1>7, <1>8, <1>9, <1>10 DEF SearchNext

\* The search keeps its parts together, whatever fails, throws or runs out.
THEOREM SearchInvariant == SearchSpec => []SearchInv
<1>1. SearchInit => SearchInv
  <2> SUFFICES ASSUME SearchInit PROVE SearchInv
      OBVIOUS
  <2>1. PoolHolds
      BY InitEstablishesPoolInv, InitIsGreedy DEF SearchInit, PoolHolds
  <2>2. batch = "pending"
      BY DEF SearchInit, Init
  <2> QED BY <2>1, <2>2 DEF SearchInit, SearchInv, SystemOK
<1> QED BY <1>1, SearchInvPreserved, PTL DEF SearchSpec

\* The scenario a batch reports is one that failed, and the least of them.
LEMMA FirstFailureExists ==
  ASSUME PoolInv
  PROVE  /\ Failed # {} => FirstFailure # {}
         /\ \A i, j \in FirstFailure : i = j
         /\ \A i \in Failed : i \in Index /\ i \in Nat
<1>1. PICK n \in Nat : Index = 1..n
    BY GivenFacts DEF PoolInv, TypeOK
<1>2. Failed \subseteq Index
    BY DEF PoolInv, TypeOK, Failed
<1>3. \A i \in Failed : i \in Nat
    BY <1>1, <1>2
<1>4. ASSUME Failed # {} PROVE FirstFailure # {}
  <2> DEFINE Below == {pair \in Nat \X Nat : pair[1] < pair[2]}
  <2>1. IsWellFoundedOn(Below, Nat)
      BY NatLessThanWellFounded DEF OpToRel
  <2>2. PICK i \in Failed : \A j \in Failed : ~(<<j, i>> \in Below)
    <3> HIDE DEF Below
    <3> QED BY <1>3, <1>4, <2>1, WFMin
  <2>3. ASSUME NEW j \in Failed PROVE i <= j
    <3>1. i \in Nat /\ j \in Nat /\ (j < i => <<j, i>> \in Below)
        BY <1>3
    <3> QED BY <2>2, <3>1
  <2> QED BY <2>3 DEF FirstFailure
<1> QED BY <1>2, <1>3, <1>4 DEF FirstFailure

\* A strict CI job that exits with 0 has executed the baseline and every scenario of the
\* plan, and all of them passed (planner.ts executeScenarioPlan, run.mjs searchOutcome,
\* ci.mjs exitCodeFor).
THEOREM StrictPassesAreExplored == SearchSpec => []StrictPassMeansExplored
<1>1. ASSUME SearchInv PROVE StrictPassMeansExplored
  <2> SUFFICES ASSUME phase = "done", ExitCode(TRUE) = 0
               PROVE  /\ baseline = "pass"
                      /\ \A i \in Index : i \in Settled /\ results[i] = "pass"
      BY DEF StrictPassMeansExplored
  <2>1. record.status \notin {"fail", "error", "incomplete"}
      BY DEF ExitCode
  <2>2. Concluded /\ record.status = Status(Failing, Unexplored)
      BY <1>1, <2>1 DEF SearchInv
  <2>3. ~ Failing /\ Unexplored = {}
      BY <2>1, <2>2 DEF Status
  <2>4. baseline = "pass" /\ FirstFailure = {}
      BY <2>2, <2>3 DEF Failing, Concluded
  <2>5. PoolInv
      BY <1>1 DEF SearchInv, PoolHolds
  <2>6. Failed = {}
      BY <2>4, <2>5, FirstFailureExists
  <2>7. DOMAIN skipped = {}
      BY <2>3, <2>5, <2>6 DEF Unexplored, PoolInv, FailureStopIsJustified
  <2>8. Index = Settled
      BY <2>2, <2>5, <2>7, ResolvedIsWhole DEF Concluded
  <2> QED BY <2>4, <2>5, <2>6, <2>8 DEF Failed, PoolInv, TypeOK
<1> QED BY <1>1, SearchInvariant, PTL

\* What a concluded search would replay is a part of its first failing scenario, and
\* an execution of exactly that set may fail.
LEMMA FailuresReplay ==
  ASSUME SearchInv, Concluded, FirstFailure # {}
  PROVE  LET set == IF minimize THEN candidate ELSE FailingPlan
         IN  /\ "fail" \in behavior[set]
             /\ \E i \in Failed : (\A j \in Failed : i <= j) /\ set \subseteq plan[i]
<1>1. PICK i \in FirstFailure : FailingPlan = plan[i]
    BY DEF FailingPlan
<1>2. i \in Failed /\ (\A j \in Failed : i <= j) /\ i \in Index
    BY <1>1, FirstFailureExists DEF FirstFailure, SearchInv, PoolHolds
<1>3. results[i] = "fail" /\ outcome[i] = "fail"
    BY <1>2 DEF Failed, SearchInv, PoolHolds, GreedyInv
<1>4. "fail" \in behavior[FailingPlan]
    BY <1>1, <1>2, <1>3 DEF SearchInv, SystemOK
<1>5. CASE minimize
  <2>1. ReductionHolds /\ pc = "done"
      BY <1>5 DEF Concluded
  <2>2. candidate \in SUBSET FailingPlan /\ TRUE \in oracle[candidate]
      BY <2>1 DEF ReductionHolds
  <2>3. oracle[candidate] = {a = "fail" : a \in behavior[candidate] \ {"reject"}}
      BY <2>1, <2>2 DEF ReductionHolds
  <2>4. "fail" \in behavior[candidate]
      BY <2>2, <2>3
  <2> QED BY <1>1, <1>2, <1>5, <2>2, <2>4
<1> QED BY <1>1, <1>2, <1>4, <1>5

\* The artifact of a failing search replays a set that can fail, the baseline's or a part
\* of the scenario a sequential search fails on first, and the library hands out the same
\* (run.mjs searchOutcome, runner.ts runCloudFault).
THEOREM ArtifactsAreFirstFailures == SearchSpec => []ArtifactIsFirstFailure
<1>1. ASSUME SearchInv PROVE ArtifactIsFirstFailure
  <2>1. CASE record.status \notin {"fail", "pass", "incomplete"}
      BY <2>1 DEF ArtifactIsFirstFailure
  <2>2. CASE record.status \in {"fail", "pass", "incomplete"}
    <3>1. /\ Concluded /\ phase = "done"
          /\ record.status = Status(Failing, Unexplored)
          /\ record.set = IF Failing THEN FailureSet ELSE {}
        BY <1>1, <2>2 DEF SearchInv, NoRecord
    <3>2. record.status = "fail" <=> Failing
        BY <3>1 DEF Status
    <3>3. Failing <=> baseline = "fail" \/ FirstFailure # {}
        BY <3>1 DEF Failing
    <3>4. baseline \in {"pass", "fail"} \cap behavior[{}]
        BY <3>1 DEF Concluded
    <3>5. CASE baseline = "fail"
      <4>1. record.status = "fail" /\ record.set = {}
          BY <3>1, <3>2, <3>3, <3>5 DEF FailureSet
      <4> QED BY <1>1, <3>1, <3>4, <3>5, <4>1, FailuresReplay
          DEF ArtifactIsFirstFailure, LibraryFailures
    <3>6. CASE baseline = "pass" /\ FirstFailure # {}
      <4>1. record.status = "fail" /\ record.set = IF minimize THEN candidate ELSE FailingPlan
          BY <3>1, <3>2, <3>3, <3>6 DEF FailureSet
      <4> QED BY <1>1, <3>1, <3>6, <4>1, FailuresReplay DEF ArtifactIsFirstFailure, LibraryFailures
    <3>7. CASE baseline = "pass" /\ FirstFailure = {}
        BY <3>2, <3>3, <3>7 DEF ArtifactIsFirstFailure, LibraryFailures
    <3> QED BY <3>4, <3>5, <3>6, <3>7
  <2> QED BY <2>1, <2>2
<1> QED BY <1>1, SearchInvariant, PTL

===============================================================================

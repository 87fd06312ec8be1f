---------------------------- MODULE SearchPipeline ----------------------------
(***************************************************************************)
(* One search from end to end: executeScenarioPlan (packages/core/src/     *)
(* planner.ts) runs the baseline, the batch (ExecutionPool) and, when a    *)
(* scenario failed, the reduction of its perturbations (FailureMinimizer); *)
(* searchOutcome and ciCommand (packages/cli/lib) turn what it returns or  *)
(* throws into the record a CI job exits on.                               *)
(*                                                                         *)
(* The system under test is `behavior': what executing a set of            *)
(* perturbations may answer, one answer for a deterministic system.        *)
(***************************************************************************)
EXTENDS ExecutionPool

CONSTANTS
  MaxPerturbation,  \* bound: perturbations are 1..MaxPerturbation, in the
                    \* order the reduction scans them; a scenario is a set of them
  AnswerSets        \* what executing one set of perturbations may answer

ASSUME PerturbationAssumption == MaxPerturbation \in Nat
ASSUME AnswerAssumption == AnswerSets \subseteq (SUBSET Outcomes) \ {{}}

VARIABLES
  behavior,       \* the system under test, see above
  plan,           \* index -> the perturbations of plan.scenarios[i]
  minimize,       \* options.minimizeFailure
  baseline,       \* verdict of the baseline, "none" before it ran
  phase,          \* "baseline", "batch", "minimize", "outcome", "threw" or "done"
  record          \* the search record of the CI run, NoRecord before there is one

Perturbations == 1..MaxPerturbation

\* The reduction, see FailureMinimizer.
VARIABLES original, oracle, candidate, cursor, attempts, pc

Reduction == INSTANCE FailureMinimizer
               WITH MaxSize <- MaxPerturbation, VerdictSets <- (SUBSET BOOLEAN) \ {{}}

system == <<behavior, plan, minimize>>
minVars == <<original, oracle, candidate, cursor, attempts, pc>>
searchVars == <<system, baseline, phase, record, vars, minVars>>

NoRecord == [status |-> "none", set |-> {}]

SearchInit ==
  /\ behavior \in [SUBSET Perturbations -> AnswerSets]
  /\ minimize \in BOOLEAN
  /\ Init
  /\ plan \in [Index -> SUBSET Perturbations \ {{}}]
  /\ \A i, j \in Index : plan[i] = plan[j] => i = j
  /\ \A i \in Index : outcome[i] \in behavior[plan[i]]
  /\ baseline = "none"
  /\ phase = "baseline"
  /\ record = NoRecord
  /\ original = {} /\ oracle = [S \in {{}} |-> {}] /\ candidate = {}
  /\ cursor = 0 /\ attempts = 0 /\ pc = "verify"

-------------------------------------------------------------------------------

Failing == phase # "baseline" /\ (baseline = "fail" \/ FirstFailure # {})

FailingPlanLast ==   \* a slip: the last failure, used by no action below
  plan[CHOOSE i \in Failed : \A j \in Failed : j <= i]

\* firstFailure.scenario.perturbations
FailingPlan == plan[CHOOSE i \in FirstFailure : TRUE]

-------------------------------------------------------------------------------
\* Variants a slip in the search would produce; no action below uses them.

StatusIgnoresBudgets(failing, unexplored) == IF failing THEN "fail" ELSE "pass"
MinimalSetOnly ==                            \* no fallback to the scenario's own set
  IF baseline = "pass" /\ minimize THEN candidate ELSE {}
-------------------------------------------------------------------------------

\* `await execute(...)' throws
Throws(answer) == answer = "reject"

\* const baseline = await execute(baselineScenario)
RunBaseline ==
  /\ phase = "baseline"
  /\ \E answer \in behavior[{}] :
       IF Throws(answer)
       THEN phase' = "threw" /\ UNCHANGED baseline
       ELSE phase' = "batch" /\ baseline' = answer
  /\ UNCHANGED <<system, record, vars, minVars>>

\* await executeScenarioBatch(...).  Workers left behind by a rejection go on
\* after the search has thrown.
RunBatch ==
  /\ phase = "batch" \/ batch = "rejected"
  /\ \/ \E w \in Worker : Work(w)
     \/ RunOutOfTime
     \/ Finish
  /\ UNCHANGED <<system, baseline, phase, record, minVars>>

NothingToMinimize ==
  /\ phase = "batch"
  /\ batch = "resolved"
  /\ FirstFailure = {} \/ ~ minimize
  /\ phase' = "outcome"
  /\ UNCHANGED <<system, baseline, record, vars, minVars>>

\* minimizeFailureSet is handed the perturbations of the first failure and
\* executes its candidates on the system under test.
StartMinimization ==
  /\ phase = "batch"
  /\ batch = "resolved"
  /\ FirstFailure # {}
  /\ minimize
  /\ phase' = "minimize"
  /\ original' = FailingPlan
  /\ candidate' = FailingPlan
  /\ oracle' = [S \in SUBSET FailingPlan |-> {a = "fail" : a \in behavior[S] \ {"reject"}}]
  /\ cursor' = 0 /\ attempts' = 0 /\ pc' = "verify"
  /\ UNCHANGED <<system, baseline, record, vars>>

Minimize ==
  /\ phase = "minimize"
  /\ \/ Reduction!VerifyOriginal
     \/ \E p \in candidate : Reduction!Remove(p) \/ Reduction!Keep(p)
     \/ Reduction!Finish
  /\ UNCHANGED <<system, baseline, phase, record, vars>>

\* The set minimizeFailureSet executes next.
NextCandidate(S) ==
  \/ pc = "verify" /\ S = candidate
  \/ pc = "scan" /\ \E p \in candidate : Reduction!IsNextIndex(p) /\ S = candidate \ {p}

\* The reduction throws because its execution does, or because the failure did
\* not happen again.
ReductionThrows ==
  \/ pc = "threw"
  \/ \E S \in SUBSET original : NextCandidate(S) /\ \E answer \in behavior[S] : Throws(answer)

MinimizationThrows ==
  /\ phase = "minimize"
  /\ ReductionThrows
  /\ phase' = "threw"
  /\ UNCHANGED <<system, baseline, record, vars, minVars>>

MinimizationReturns ==
  /\ phase = "minimize"
  /\ pc = "done"
  /\ phase' = "outcome"
  /\ UNCHANGED <<system, baseline, record, vars, minVars>>

BatchThrows ==
  /\ phase = "batch"
  /\ batch = "rejected"
  /\ phase' = "threw"
  /\ UNCHANGED <<system, baseline, record, vars, minVars>>

Unexplored == {i \in DOMAIN skipped : skipped[i] # "failure-stop"}

Status(failing, unexplored) ==
  IF failing THEN "fail" ELSE IF unexplored # {} THEN "incomplete" ELSE "pass"

\* The set a replay of the artifact executes: the minimal set when there is one,
\* else the perturbations of the failing scenario.
FailureSet ==
  IF baseline = "fail" THEN {}
  ELSE IF minimize THEN candidate ELSE FailingPlan

\* What runCloudFault (runner.ts) returns for the same search: the artifact of the
\* first failure, or none; of the baseline it says nothing.
LibraryFailures ==
  IF FirstFailure = {} THEN {} ELSE {IF minimize THEN candidate ELSE FailingPlan}

\* searchOutcome, and the failure artifact a failing search leaves.
Report ==
  /\ phase = "outcome"
  /\ phase' = "done"
  /\ record' = [status |-> Status(Failing, Unexplored),
                set |-> IF Failing THEN FailureSet ELSE {}]
  /\ UNCHANGED <<system, baseline, vars, minVars>>

\* ciCommand catches what the search threw: a record without an artifact.
ReportError ==
  /\ phase = "threw"
  /\ phase' = "done"
  /\ record' = [status |-> "error", set |-> {}]
  /\ UNCHANGED <<system, baseline, vars, minVars>>

SearchEnded ==
  /\ phase = "done"
  /\ batch = "rejected" => exited = Worker
  /\ UNCHANGED searchVars

SearchNext ==
  \/ RunBaseline
  \/ RunBatch
  \/ NothingToMinimize
  \/ StartMinimization
  \/ Minimize
  \/ MinimizationThrows
  \/ MinimizationReturns
  \/ BatchThrows
  \/ Report
  \/ ReportError
  \/ SearchEnded

SearchSpec == SearchInit /\ [][SearchNext]_searchVars

\* exitCodeFor, for the one record
ExitCode(strict) ==
  CASE record.status = "fail" -> 1
    [] record.status = "error" -> 3
    [] record.status = "incomplete" /\ strict -> 2
    [] OTHER -> 0

-------------------------------------------------------------------------------

\* A CI job that is strict exits 0 only when the baseline and every scenario of
\* the plan was executed and passed: neither an early stop, a budget, a worker
\* nor an exception can hide a scenario from it.
StrictPassMeansExplored ==
  phase = "done" /\ ExitCode(TRUE) = 0 =>
    /\ baseline = "pass"
    /\ \A i \in Index : i \in Settled /\ results[i] = "pass"

\* What a failure artifact replays can fail, be it the baseline, a plain scenario or
\* a reduced set; and it comes from the scenario a sequential search fails on first.
\* The library hands out the same artifact, unless it was the baseline that failed.
ArtifactIsFirstFailure ==
  /\ record.status = "fail" =>
       /\ "fail" \in behavior[record.set]
       /\ baseline = "pass" =>
            \E i \in Failed :
               (\A j \in Failed : i <= j) /\ record.set \subseteq plan[i]
  /\ record.status \in {"fail", "pass", "incomplete"} =>
       /\ \A set \in LibraryFailures : record.status = "fail" /\ "fail" \in behavior[set]
       /\ baseline = "pass" =>
            LibraryFailures = IF record.status = "fail" THEN {record.set} ELSE {}

===============================================================================

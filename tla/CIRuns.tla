-------------------------------- MODULE CIRuns --------------------------------
(***************************************************************************)
(* `cloudfault ci' run after run (packages/cli/lib/{ci,run,regressions}.mjs). *)
(* Each run replays the pinned regressions and then searches every suite;  *)
(* between the runs a team changes its code and pins what was found.  What *)
(* one run leaves to the next are the corpus of pins and the coverage      *)
(* guidance (packages/core/src/{guided,guidance-store}.ts), by which a     *)
(* search leaves out the scenarios that were executed before.              *)
(*                                                                         *)
(* One search in detail is SearchPipeline's subject; here its scenarios    *)
(* run one after the other and the order guidance gives them is any.       *)
(***************************************************************************)
EXTENDS Naturals, FiniteSetsExt

CONSTANTS NumSuites,      \* the configs, in the order ciCommand runs them
          Codes,          \* the sets of perturbation sets some version of a suite's code
                          \* does not survive
          Candidates,     \* what coverageGuidedScenarios may plan: a set of
                          \* [id, set] records, the perturbations under their id
          MaxScenarios,   \* the option of this name, positive
          GuidanceFile,   \* each suite's guidance file
          Budgeted,       \* the suites with a budget of runs, cost or time
          Interrupted     \* may a run be killed, an execution or a pin's replay throw, or
                          \* the cache that carries the guidance file be evicted?

\* ciCommand refuses to run without configs; the candidates are a map by id.
ASSUME CIAssumption ==
  /\ NumSuites \in Nat \ {0}
  /\ MaxScenarios \in Nat \ {0}
  /\ IsFiniteSet(Candidates)
  /\ \A c, d \in Candidates : c.id = d.id => c = d

VARIABLES
  broken,      \* per suite, the sets of perturbations the code does not survive
  pins,        \* the corpus: a suite and a minimal failure set each
  artifacts,   \* the failure artifacts written so far
  saved,       \* per guidance file, the ids of the executed scenarios
  torn,        \* the guidance files a kill cut short
  step, suite, \* where this run is: "idle", "pins", "load", "execute" or "save"
  guidance,    \* this suite's: what it loaded
  plan, runs,  \* this suite's: the scenarios planned, and those executed
  failing,     \* this suite's: the set that failed, as a set of at most one
  records,     \* the statuses of this run so far
  flags,       \* those of --strict and --no-regressions this run was given
  cut,         \* the suites whose search the budget ended in this run
  outcome,     \* what the last run said of the present code and corpus, with its
               \* flags and the suites it reports as incomplete
  ran          \* per suite, the candidates it has ever executed

code == <<broken, pins, artifacts>>
store == <<saved, torn>>
search == <<guidance, plan, runs, failing>>
job == <<records, flags, cut>>
ciVars == <<code, store, step, suite, search, job, outcome, ran>>

Suites == 1 .. NumSuites
IdOf(c) == c.id
NoOutcome == [status |-> "none", flags |-> {}, cut |-> {}]

CIInit ==
  /\ broken \in [Suites -> Codes]
  /\ pins = {}
  /\ artifacts = {}
  /\ saved = [f \in {GuidanceFile[s] : s \in Suites} |-> {}]
  /\ torn = {}
  /\ step = "idle" /\ suite = 0
  /\ guidance = {} /\ plan = {} /\ runs = {} /\ failing = {}
  /\ records = {} /\ flags = {} /\ cut = {}
  /\ outcome = NoOutcome
  /\ ran = [s \in Suites |-> {}]

-------------------------------------------------------------------------------
(* Between the runs *)

Commit ==
  /\ step = "idle"
  /\ broken' \in [Suites -> Codes]
  /\ outcome' = NoOutcome
  /\ UNCHANGED <<pins, artifacts, store, step, suite, search, job, ran>>

\* pinFailure: the file is named after the suite and the minimal set, so that
\* pinning the same failure again overwrites its pin.
PinFailure ==
  /\ step = "idle"
  /\ \E artifact \in artifacts : pins' = pins \cup {artifact}
  /\ outcome' = NoOutcome
  /\ UNCHANGED <<broken, artifacts, store, step, suite, search, job, ran>>

\* The run starts from a checkout without the file.
GuidanceLost(f) ==
  /\ step = "idle"
  /\ Interrupted
  /\ saved' = [saved EXCEPT ![f] = {}]
  /\ torn' = torn \ {f}
  /\ UNCHANGED <<code, step, suite, search, job, outcome, ran>>

-------------------------------------------------------------------------------
(* One run *)

\* replayArtifact executes the pinned set: does it still fail?
Replay(pin) == IF pin.set \in broken[pin.suite] THEN "reproduced" ELSE "resolved"

\* A pin that cannot be parsed, or whose module cannot be loaded or throws, is an
\* error on the record; the others are replayed all the same.
ReplayPins(thrown) ==
  {Replay(pin) : pin \in pins \ thrown} \cup {"error" : pin \in thrown}

StartRun ==
  /\ step = "idle"
  /\ step' = "load" /\ suite' = 1
  /\ flags' \in SUBSET {"strict", "no-regressions"}
  /\ cut' = {}
  /\ \/ /\ "no-regressions" \in flags'
        /\ records' = {}
     \/ /\ "no-regressions" \notin flags'
        /\ \E thrown \in SUBSET pins :
             /\ thrown # {} => Interrupted
             /\ records' = ReplayPins(thrown)
  /\ outcome' = NoOutcome
  /\ UNCHANGED <<code, store, search, ran>>

\* Mutant: only searches can fail a run.
ReproducedIsNoFailure(statuses) ==
  IF "fail" \in statuses THEN "fail" ELSE IF "error" \in statuses THEN "error" ELSE "pass"

\* Mutant: an error counts as no failure.
ErrorsAreNotFailures(statuses) ==
  IF statuses \cap {"fail", "reproduced"} # {} THEN "fail" ELSE "pass"

\* Mutant: --strict is dropped.
StrictIsIgnored(statuses) ==
  IF statuses \cap {"fail", "reproduced"} # {} THEN "fail"
  ELSE IF "error" \in statuses THEN "error" ELSE "pass"

\* exitCodeFor: failures beat tool errors beat (strict) incompleteness.
ExitCodeFor(statuses) ==
  LET failed == statuses \cap {"fail", "reproduced"} # {}
  IN CASE failed -> "fail"
       [] ~failed /\ "error" \in statuses -> "error"
       [] ~failed /\ "error" \notin statuses
            /\ "strict" \in flags /\ "incomplete" \in statuses -> "incomplete"
       [] OTHER -> "pass"

Forget == guidance' = {} /\ plan' = {} /\ runs' = {} /\ failing' = {}

\* The process has ended.
Over == step' = "idle" /\ suite' = 0 /\ records' = {} /\ flags' = {} /\ cut' = {}

\* The record of this suite; with the last one the run ends.
Report(status) ==
  /\ Forget
  /\ \/ /\ suite < NumSuites
        /\ step' = "load" /\ suite' = suite + 1
        /\ records' = records \cup {status}
        /\ UNCHANGED <<flags, cut, outcome>>
     \/ /\ suite = NumSuites
        /\ Over
        /\ outcome' = [status |-> ExitCodeFor(records \cup {status}),
                       flags |-> flags, cut |-> cut]

\* Mutant: any error of load() counts as "there is no file".
NeverUnreadable == FALSE

\* load() starts anew where there is no file and throws where it cannot parse it.
Unreadable == GuidanceFile[suite] \in torn

LoadRejects ==
  /\ step = "load"
  /\ Unreadable
  /\ Report("error")
  /\ UNCHANGED <<code, store, ran>>

Loaded == saved[GuidanceFile[suite]]

\* coverageGuidedScenarios: what has not been executed, up to maxScenarios.
Plans(known) ==
  LET fresh == {c \in Candidates : IdOf(c) \notin known}
  IN {X \in SUBSET fresh : Cardinality(X) = Min({MaxScenarios, Cardinality(fresh)})}

LoadGuidance ==
  /\ step = "load"
  /\ ~Unreadable
  /\ guidance' = Loaded
  /\ plan' \in Plans(guidance')
  /\ runs' = {}
  /\ failing' = {}
  /\ step' = "execute"
  /\ UNCHANGED <<code, store, suite, job, outcome, ran>>

Remaining == IF failing = {} THEN plan \ runs ELSE {}

\* The batch stops at the first failure.
ExecuteNext ==
  /\ step = "execute"
  /\ \E c \in Remaining :
       /\ runs' = runs \cup {c}
       /\ ran' = [ran EXCEPT ![suite] = @ \cup {c}]
       /\ failing' = IF c.set \in broken[suite] THEN {c.set} ELSE {}
  /\ UNCHANGED <<code, store, step, suite, guidance, plan, job, outcome>>

\* executeScenarioPlan rejects: the search is lost and nothing is persisted.
ExecuteThrows ==
  /\ step = "execute"
  /\ Interrupted
  /\ Remaining # {}
  /\ Report("error")
  /\ UNCHANGED <<code, store, ran>>

\* The budget is spent: the rest of the plan is skipped.
BudgetEnds ==
  /\ step = "execute"
  /\ suite \in Budgeted
  /\ Remaining # {}
  /\ cut' = cut \cup {suite}
  /\ step' = "save"
  /\ UNCHANGED <<code, store, suite, search, records, flags, outcome, ran>>

EndSearch ==
  /\ step = "execute"
  /\ Remaining = {}
  /\ step' = "save"
  /\ UNCHANGED <<code, store, suite, search, job, outcome, ran>>

\* Every run is observed, on top of what was loaded.
Observed == guidance \cup {IdOf(c) : c \in runs}

BaselineFails == {} \in broken[suite]

\* The set of the artifact: empty for a failing baseline, otherwise what the
\* reduction of the failing scenario ends with (FailureMinimizer).
FailureSets ==
  IF BaselineFails THEN {{}}
  ELSE {S \in SUBSET UNION failing :
          /\ S \in broken[suite]
          /\ \A p \in S : S \ {p} \notin broken[suite]}

\* Mutant: what a budget skipped is forgotten.
SkippedIsForgotten == "pass"

\* What searchOutcome says of a search without a failure.
WithoutFailure == IF suite \in cut THEN "incomplete" ELSE "pass"

\* persistGuidance, searchOutcome and the artifact
Save ==
  /\ step = "save"
  /\ saved' = [saved EXCEPT ![GuidanceFile[suite]] = Observed]
  /\ IF BaselineFails \/ failing # {}
     THEN /\ \E S \in FailureSets :
               artifacts' = artifacts \cup {[suite |-> suite, set |-> S]}
          /\ Report("fail")
     ELSE /\ UNCHANGED artifacts
          /\ Report(WithoutFailure)
  /\ UNCHANGED <<broken, pins, torn, ran>>

\* The process is killed in the middle of writeFile: no outcome is recorded.
KilledInSave ==
  /\ step = "save"
  /\ Interrupted
  /\ torn' = torn \cup {GuidanceFile[suite]}
  /\ Over
  /\ Forget
  /\ UNCHANGED <<code, saved, outcome, ran>>

Run == StartRun \/ LoadRejects \/ LoadGuidance \/ ExecuteNext \/ ExecuteThrows
         \/ BudgetEnds \/ EndSearch \/ Save

CINext ==
  \/ Commit \/ PinFailure \/ Run \/ KilledInSave
  \/ \E f \in DOMAIN saved : GuidanceLost(f)

CISpec == CIInit /\ [][CINext]_ciVars

-------------------------------------------------------------------------------

\* Exit 0 is earned.  "CI stays red until it is fixed": no pinned set breaks the code,
\* whatever guidance makes the searches leave out, unless the run was told not to replay
\* them; "every search passed": each scenario of each suite has been executed, now or in
\* an earlier run, where maxScenarios admits them all, unless without --strict a budget
\* ended the suite's search in this run; and no suite was left out because its guidance
\* file could not be read.
GreenIsEarned ==
  outcome.status = "pass" =>
    /\ "no-regressions" \notin outcome.flags =>
          \A pin \in pins : pin.set \notin broken[pin.suite]
    /\ MaxScenarios >= Cardinality(Candidates) =>
          \A s \in Suites :
            ran[s] = Candidates \/ (s \in outcome.cut /\ "strict" \notin outcome.flags)
    /\ \A s \in Suites : GuidanceFile[s] \notin torn

===============================================================================

# CloudFault: verification project

CloudFault ("Jepsen-lite for Cloudflare Workers") perturbs the calls a Worker
makes to its bindings and providers, searches the space of perturbations for a
scenario whose checkers fail, and reduces what it finds to a minimal failure
set. This directory holds TLA+ models of the parts of CloudFault whose
correctness depends on order, interleaving, failure or arithmetic, the TLC
configurations that check them on small instances, and TLAPS proofs of what
matters most for every value of the parameters. Paths below are relative to
`packages/` of the repository unless they say otherwise.

## 1. Inventory

| Component | Source | State it keeps | Operations | What is hard | What makes it correct |
|---|---|---|---|---|---|
| Scenario planning | `core/src/{search,covering,guided,guidance,planner,incidents}.ts` | none (pure) | `enumerateScenarios`, `pairwiseScenarios`, `coverageGuidedScenarios`, `planScenarios` | limits in the middle of nested loops, duplicates between strategies, scores of earlier runs | a limit cuts the end of a plan and nothing else; a plan without one has all its strategy promises |
| Exploration loops | `core/src/{adaptive,lineage,discovery,guided,search}.ts` | frontier, seen calls, runs | `exploreScenarios`, `exploreCoverageGuided`, `exploreAdaptiveLineage`, `discoverLineageFaultSpace` | the fault space grows while it is explored | every discovered call is expanded; failures and calls seen are reported |
| Execution pool | `core/src/execution-pool.ts` | shared counter, budgets, stop flag, result and skip maps | `executeScenarioBatch`, its workers | workers interleave at awaits; executions settle in any order or reject | nothing lost or run twice; budgets hold; the failure reported does not depend on timing |
| Failure minimisation | `core/src/search.ts` | candidate, scan index, attempts | `minimizeFailureSet` | flaky executions, restart after each removal | the set reported fails and is 1-minimal; the search ends |
| Shrinkers | `fast-check/src/{shrink,model-shrink}.ts` | candidate sequence, chunk size | `shrinkSequence`, `shrinkCounterexample` | chunk arithmetic, two lists reduced in turn | 1-minimal in both lists at once |
| Search pipeline and gate | `core/src/{planner,runner}.ts`, `cli/lib/{run,ci}.mjs` | phase of one search | `executeScenarioPlan`, `runCloudFault`, `searchOutcome` | failure in one phase loses the result of an earlier one | the verdict of a search says what was executed |
| CI gate, pins, guidance | `cli/lib/{ci,run,regressions}.mjs`, `core/src/{guidance-store,guided}.ts` | pins, suites, guidance file | `ciCommand`, `replayPins`, `exitCodeFor`, `load`, `merge`, `save` | several suites combined into one code; kills, lost files, memory of earlier runs | exit 0 is earned |
| Interleaving scheduler | `core/src/schedule.ts` | parked resolvers, done set, one wake-up | `yieldPoint`, `quiesce`, `release`, `runInterleaving` | cooperative scheduling of concurrent actors, lost wake-ups, timeouts | at most one released actor runs, every run ends, the order run is the order planned |
| Schedule exploration | `core/src/schedule.ts` | schedules, outcomes | `enumerateSchedules`, `exploreInterleavings` | orders are counted before they are cut; points depend on the order | a complete enumeration without failure is a statement about every order |
| Controller and execution index | `core/src/{controller,execution-index,history,privileged}.ts` | occurrence counters, activation counters, history | `begin`, `eligible`, `activate`, `take`, `complete` | state read before an await and used after it; activation counts | a perturbation acts at most `maxActivations` times and only where its selector matches |
| D1, R2 and Hyperdrive proxies | `cloudflare/src/{d1,r2,hyperdrive}.ts` | the binding's state, the shared controller | one wrapper per binding call | fault before, after or instead of the real call; privileged oracle asked afterwards | what the history says happened is what happened |
| Adapter runtime | `adapter-sdk/src/index.ts` | controller, history, registry | `AdapterRuntime.fetch`, `registerAll` | timeouts and disconnects after the provider committed | the recorded outcome is true; retries are safe |
| Provider catalogue and semantics | `adapters/src/{catalog,semantics}.ts` | none | `match`, `faultSpace`, `withProviderSemantics`, `genericExecute` | rules shadow each other, hosts overlap, outcomes guessed from effects | every request has one adapter and one rule; each fault offered happens |
| Semantic contracts | `adapter-sdk/src/{contracts,conformance}.ts` | registry of snapshots | `snapshotSemanticContract`, `compareSemanticContracts`, `add` | only the latest snapshot is compared with | a contract holds through every later release of its version |
| Stripe backend | `stripe/src/index.ts` | objects, idempotency cache | `StripeMemoryBackend.fetch` | two requests with one idempotency key interleave at an await | one effect per idempotency key |
| Queue lifecycle and dispatch | `cloudflare/src/{miniflare,queue,scheduled}.ts` | batch, retry and acknowledgement sets, attempt counters | `dispatchQueueUntilSettled`, `dispatchQueueScenario`, `dispatchScheduledScenario` | explicit and implicit outcomes combined, retry limit, dead-letter queue | each message is acknowledged or dead-lettered once |
| Event delivery | `core/src/events.ts` | delivery plan | `planEventDeliveries`, `runEventWorkload`, checkers | duplicates, delays and reordering composed | only what the perturbations say is changed |
| Observation models | `cloudflare/src/{regions,kv,consistency,d1}.ts` | versions per replica, session, observer | `D1SessionModel`, KV store, checkers | sessions that move between replicas, clocks that disagree | session guarantees, and what the checkers accept |
| Nemesis Workers | `cloudflare/src/{nemesis-templates,scenario,regions}.ts` | plan, occurrences, views, manual versions | `reset`, `seed`, `applyScenario`, the Workers' `fetch` | reconfigured one Worker at a time while the application goes on | a scenario acts in full and leaves nothing behind |
| Concurrent workloads | `core/src/{workload,history,lineage}.ts` | shared history, abort flag | `runConcurrentWorkload`, `buildOperationLineage` | clients interleave, one rejection answers for all | a resolved workload's history is whole, its lineage true |
| Scenario cache | `core/src/cache.ts` | a JSON file and its copy in memory | `get`, `set`, `load`, `flush` | concurrent load and flush, crash in the middle of a write | an entry that was set is found |
| Remote backends | `core/src/{remote-agent,negotiated-remote,secure-remote,backend}.ts` | memoised negotiation, nonces | `execute`, `negotiate`, `authorize`, the handler | requests lost, late or delivered again; clocks that disagree; timers | a scenario runs once, and only where it can |
| Images; service, Durable Object and Workflow perturbations; emulation, signers and small lifecycles; Worker harness, topology; reports and command line | see `PROJECT.json` | none, files, or a few fields | formatting, parsing, lookup, HTTP | text, not state | not modelled, see section 7 |

How the components interact. A search (`executeScenarioPlan`) runs the baseline,
then hands the planned scenarios to the execution pool, then hands the failing
scenario to the failure minimiser; the command line turns what comes back, or is
thrown, into a record and a CI job's records into one exit code. Executing one
scenario creates one controller; every proxy, the adapter runtime and the event
workload call its `begin`, `take` and `complete`, and so compete for the same
perturbations and write the same history. Checkers judge that history and
nothing else, so that a wrong completion in it is a wrong verdict of the tool.
A scenario may instead be applied to Workers that stand in for the bindings, or
be sent to an agent elsewhere. Two stores outlive a process: the scenario cache
and the coverage guidance.

JavaScript runs one thread: everything between two `await`s is atomic. A step of
the models is therefore the code from one `await` to the next, and concurrency is
the order in which awaited promises settle.

## 2. Plan

The order is that of importance to the tool's promise ("a failure it reports is
real, minimal and replayable, and a pass means what it says"). Written, in this
order:

1. `FailureReduction`, `FailureMinimizer`: the abstract promise of a reduction and
   the loop that implements it, with a refinement; later `CounterexampleShrinker`,
   which alternates it with the reduction of a workload.
2. `ExecutionPool`: concurrency, budgets and the failure stop.
3. `SearchPipeline`: extends the pool with the baseline, an instance of the minimiser,
   the gate's record and the library's runner.
4. `InterleavingRun`, the cooperative scheduler, and `ScheduleExploration` over it.
5. `ScenarioController` with `BindingProxy` on top of it, then `D1FaultProxy`,
   `R2FaultProxy` and `HyperdriveProxy`, and `Bindings`, which composes the
   three around one controller.
6. `AdapterRuntime` over `ScenarioController`, with `StripePayments` on top, and with
   `AdapterCatalog` under `ProviderSemantics`; `ContractEvolution`.
7. `QueueLifecycle`, `QueueScenario`, `EventDelivery` (over `ScenarioController`),
   `ConcurrentWorkload`, `ScenarioCache`, `CIRuns`.
8. `PairwiseCovering`, `FaultSpace` with `ScenarioPlan` and `Exploration` on top, and
   `RemoteExecution`.
9. `SessionReads`, the abstract promise of a session, `ReplicaReads`, which implements it,
   and `NemesisWorkers`.

What would add most next:

- a fourth caller of `Bindings`: the Images proxy (`cloudflare/src/images.ts`);
- the lifecycles of `adapter-sdk/src/capabilities.ts`: `OAuthTokenLifecycle` with
  refreshes that overlap a revocation, `AsyncJobLifecycle`, `TokenBucket`.

## 3. Modules and the code they model

`FailureMinimizer` (`core/src/search.ts`, `minimizeFailureSet`). `candidate` is the
array, `cursor` the index of the loop, `attempts` the calls of
`reproducesFailure`; what a call may answer is drawn from `oracle`, a set of
verdicts per candidate, so that a singleton is a deterministic system and
`{TRUE, FALSE}` a flaky one. `VerifyOriginal` is the first execution and its
throw, `Remove` and `Keep` are one round of the loop with the restart after a
removal, `Finish` the return. `FailureReduction` is what any reduction promises:
`Drop` one perturbation while the rest fails, `Report` when 1-minimal, `Reject`.

`CounterexampleShrinker` (`fast-check/src/{shrink,model-shrink}.ts`). Rounds of
`ReduceFaults`, the loop above against the workload of the moment, and of `Drop`,
`KeepChunk` and `Refine`, the passes of `shrinkSequence` with `granularity` and `start`
as in the code; `EndRound` stops when a round changed neither list. With `checked` the
commands left must still satisfy their preconditions, as the shrinker for models asks.
`Systems` are the inputs: the perturbations, the workload and the pairs of both that fail.

`ExecutionPool` (`core/src/execution-pool.ts`). Variables carry the code's names.
`thread` is the worker whose code is running. `Skip`, `Schedule` and `Exit` are one
round of a worker's loop (a budget or the stop flag bites; an execution starts,
charged before its await; no index is left), `Settle` and `Reject` the continuation
after the await, `RunOutOfTime` the clock, `Finish` what follows `Promise.all`.

`SearchPipeline` (`core/src/planner.ts`, `cli/lib/{run,ci}.mjs`) extends `ExecutionPool`
and has an instance of `FailureMinimizer`. What both execute is drawn from the variable
`behavior`, the answers the system under test may give to each set of perturbations.
`RunBaseline`, `RunBatch`, `StartMinimization` (or `NothingToMinimize`), `Minimize`,
`MinimizationReturns`; `BatchThrows` and `MinimizationThrows` are the exceptions; `Report`
and `ReportError` are `searchOutcome` and the `catch` in `ciCommand`, beside what
`runCloudFault` returns.

`InterleavingRun` (`core/src/schedule.ts`). An actor is `new`, `working` (in the
middle of a segment, at an await that is not its `yield`), `parked`, `returned`
(its function returned, its `finally` has not run) or `done`. `Start`, `Park`,
`Return`, `Done` are its steps, each with the scheduler call it makes and the
signal this sends; `Check`, `Timeout`, `Release` and `Finish` are the main loop
and `quiesce`. `blockedOn` lets an actor await the end of another one.

`ScheduleExploration` (`core/src/schedule.ts`): `Declared` or `Probe` finds the suspension
points, either given or counted in a first run, and enumerates the schedules up to the
limit; `Explore` replays one, with the run of `InterleavingRun` condensed into the
operator `Observed`. A system is the points of its actors, one of which may have a point
more when it is released first; `bad` is the one order that breaks the invariant.

`ScenarioController` (`core/src/{controller,execution-index,history,privileged}.ts`)
has variables and operators but no actions: `Eligible`, `Begin`..., `OutcomeMetadata`
are used by the steps of the modules below, because the code calls them
synchronously in the middle of theirs. Of the history only the completions of each
caller's current operation are kept. `BindingProxy` is what the binding proxies
share: a caller's call goes from `begin` over the awaited dependency and the awaited
oracle to `complete`. `setup` is a run's scenario, its proxy options and the bounds
of its workload.

`D1FaultProxy` (`cloudflare/src/d1.ts`): `Begin` is `terminal` or `batch` up to its
first await, with the refusal of a probe that was not opted into; `Apply` is the
database, which the proxy cannot see; the `Progress` steps are `Return`, `Reject`,
the prefix loop and the answers of the oracle. `Return` has the third way out of the code:
a probe that is found only now is refused after the call committed (`LateRefusal`), and
`terminal`, whose `catch` does not except that refusal, completes the operation again. `R2FaultProxy`
(`cloudflare/src/r2.ts`): the same for `invoke` and the multipart handle, with the
bucket's uploads, parts and object. `HyperdriveProxy` (`cloudflare/src/hyperdrive.ts`):
`run`, with the read cache and a database that is a version number. `Bindings` lets
any caller use any of the three in turn.

`AdapterRuntime` (`adapter-sdk/src/index.ts`): `Send` is `fetch` up to its first await
and classifies, begins and takes; the further steps are the faults before and after
the provider, the transport error and `Catch`. `StripePayments`
(`stripe/src/index.ts`) adds the provider: one step per await of the backend's `fetch`
(lookup of the key and reading the body, the charge, copying the response and the
store under the key) and the failures of the network.

`AdapterCatalog` (`adapters/src/catalog.ts`, the adapter of `stripe/src/index.ts` and
`defineRulesAdapter` of `adapter-sdk/src/index.ts`) is the catalogue as a table of operators:
the hosts each adapter serves, its rules in their order, effects, retries and faults, and
how a request is classified. `ProviderSemantics` (`adapters/src/semantics.ts`,
`adapter-sdk/src/{index,capabilities,conformance}.ts`) is one request through the registry
and `withProviderSemantics`: `RegisterAll` registers a batch, of which one may fail halfway;
`PlanScenario` takes a fault the adapter offers for a request; `Fetch`, `Wait`, `Serve`,
`Deliver`, `Thrown` and `Vanish` are the steps of `genericExecute`. The plugin adapter in
`MCStripePayments` is one wrapped by `withProviderSemantics` that serves hosts the catalogue
serves too.

`ContractEvolution` (`adapter-sdk/src/{contracts,conformance}.ts`): `Release` snapshots an
adapter, compares it with the latest snapshot on record and adds it when the comparison
allows. A fingerprint stands for the snapshot it is computed from.

`QueueLifecycle` (`cloudflare/src/miniflare.ts`, `dispatchQueueUntilSettled`): `DeliverRound` is a
whole round for any result of the consumer, in which the recursive function `Settling` is the
loop over the batch and `Pushed` its body; `Close` and `RejectRound` are the end, with the
dead-letter delivery or without it when the rounds ran out. `QueueScenario`
(`cloudflare/src/{miniflare,queue}.ts`) is one dispatch under a scenario: `Dispatch` sends the
next batch of the expanded list, `Fire` a scheduled event, `Reject` is a Worker that throws.

`ConcurrentWorkload` (`core/src/{workload,history,lineage}.ts`): per client one step per
await of its loop (`BeforeStep`, `Skip`, `Begin`, `CommandSettles`, `AfterStep`, `Throw`),
`Abort` the signal and `Settle` what `Promise.all` makes of the clients. The lineage is
operators on the history.

`EventDelivery` (`core/src/events.ts`): `Emit` takes the perturbations of one event,
`Plan` is `planEventDeliveries` (duplicates, delays, moves, sort, reversal): the deliveries
as a set, each with the position the sort by arrival gives it. `Deliver` is one delivery to
a handler that applies, discards or fails; the checkers are operators that compare
`Neighbours`, as the code does, judged against `effects`, which the code cannot see.

`ScenarioCache` (`core/src/cache.ts`): steps between the awaits of `get` and `set`;
`file` is a length and a document, because two overlapping writes leave the tail of
the longer one; `Restart` ends the process anywhere. A perturbation is what the key names of
it and what it does besides (its phase, category and declared outcomes), which the key
leaves out: two scenarios may share a `Fingerprint`.

`CIRuns` (`cli/lib/{ci,run,regressions}.mjs`, `core/src/{guided,guidance-store}.ts`): runs of
a CI job, one step for the replay of all pins (each of which may throw) and one per suite
load, execution and save; `Commit`, `PinFailure`, `KilledInSave` and `GuidanceLost` are what
happens between and in them. A run is given `--strict` and `--no-regressions` or not; a
suite in `Budgeted` may be cut off by its budget anywhere (`BudgetEnds`), and its record is
then "incomplete" when that left scenarios unexecuted.

`PairwiseCovering` (`core/src/covering.ts`): one scenario per step, so that the limit
can fall anywhere; `Best` is the greedy choice with its tie-break, `Struck` what a row
takes off the list of uncovered pairs.

`FaultSpace` (`core/src/{search,covering}.ts`) holds the operators two modules share: the
combinations of a space and the rows of a covering. `ScenarioPlan`
(`core/src/{planner,guided,guidance,incidents}.ts`) plans one input twice, `PlanScenarios`
without a limit and `PlanWithin` with one; scores are integers, in fractions that stay
exact for the inputs considered. `Exploration`
(`core/src/{adaptive,lineage,discovery,guided,search}.ts`) runs a baseline and then, in any
order its loop may choose, one scenario after another; what a run reveals is added to
`points` and `frontier` in the same step, as the code does before its next await. `TooMany`
is the cut at `maxCandidates`, which may end a search before its list is through. A choice
belongs to one call's point: a system says what each call offers, which perturbation (by its
id, `name`) a choice is, and which calls it matches by target, operation and selector
(`about`). One perturbation offered for two calls is two choices of one name, and the
scenarios made of them have one `Id`: the adaptive loop plans the name once, the guided one
keeps one scenario per id, the exhaustive one runs both.

`RemoteExecution` (`core/src/{negotiated-remote,secure-remote,remote-agent,backend}.ts`):
`CallStep` is the caller's end (handshake, signature, request, timer, body), `AgentStep` the
handler's (authorisation with its nonce cache, execution, answer) for each copy of a request
the network delivers, `Tick` the clock, of which the caller's may be ahead. `headers()` and
`decode` are functions of the caller, awaited in stages of their own ("preparing", "reading");
"refused" is the wait for the text of an error response. `TimerRuns` says in which of
these stages the timer of each backend is set.

`SessionReads` is what a session promises: it never goes back. `ReplicaReads`
(`cloudflare/src/{kv,regions,consistency,d1}.ts`) has the key-value store (`KvStep`), the database
with sessions (`D1Step`) and clocks that disagree (`Tick`). The checkers take an order of the
calls: the one they were made in (`Called`), or the one the merging of the observers' histories
gives them (`Merged`). `NemesisWorkers`
(`cloudflare/src/{nemesis-templates,scenario,regions}.ts`): `Reset`, `Seed` and `Apply`
configure one Worker per await, KV's with two awaits for each perturbation (`SetObserver`,
`SetRule`), while `Application` may go on with what the earlier scenario left. A perturbation
is applied to the Worker it names or its selector names (`Active`). `stale` counts
per perturbation the reads it has made stale.

The `MC` modules. Each extends one or more components, or has an instance of one that
stands on its own: a behaviour is about one of the parts while the variables of the rest
stay at a value named in a `...Rests` definition, so that the parts add up instead of
multiplying. They extend what theorems are about, so that a run checks the very formula a
theorem states: `MCReductions` extends `FailureMinimizer` and `CounterexampleShrinker`,
`MCStores` `ScenarioCache` and `CIRuns`, `MCPlanning` `PairwiseCovering`,
`RemoteExecution` and `Exploration`, `MCStripePayments` `StripePayments`,
`ProviderSemantics` and `ContractEvolution`, `MCDeliveries` `EventDelivery`,
`QueueLifecycle` and `ConcurrentWorkload`, `MCReplicaReads` `ReplicaReads` and
`NemesisWorkers`. Modules extended together name their parts apart, which is why some have
`...Init`, `...Next` and `...Spec`. `ExecutionPool` and `SearchPipeline` need no `MC`
module: their constants are sets of values a `.cfg` can write down. Properties that are
the conjunction of what two modules say are defined in the `MC` module.

Definitions whose comment begins with "Mutant:" are deliberate mistakes, each a
plausible bug of the definition it stands beside. Nothing uses them; they are there to
see that a property fails when they take that definition's place.

## 4. Runs

| Run | Module | What it asks | Bounds |
|---|---|---|---|
| `reductions` | `MCReductions` | the set reported is 1-minimal for the executions seen, the loop ends and implements `FailureReduction`; shrinking two lists in turn is 1-minimal in both at once | sets of up to 3, every oracle out of pass, fail and flaky; 2 perturbations and 4 commands, systems in which at most three pairs fail or all but two do, up to 2 rounds |
| `pool` | `ExecutionPool` | nothing lost or run twice, budgets, which failure is reported, workers drain | 4 scenarios, 1 to 3 workers, costs 1 and 2, budgets of 2 runs and of cost 4 that fall in the middle; every option combination and settling order |
| `search` | `SearchPipeline` | what a record of a whole search may claim, and the library's result with it | 3 scenarios over 2 perturbations, 2 workers, systems that fail, pass, throw or are flaky; reductions from 0, 1 and 2 perturbations |
| `interleaving` | `MCInterleavingRun` | atomic segments, no lost wake-up, divergence is noticed, runs end; what an exploration without failure says | 3 actors of up to 2 suspension points, one may wait for actor 1, schedules of up to 3 releases: shorter and longer than the actors need, and impossible ones; explorations of up to 3 points and one more that appears, limits 0, 3 and 64 |
| `bindings` | `MCBindings` | one completion per call (two of a refusal in `terminal` after the commit) that is what the caller saw; it says what is true (two cases of probes apart); data is whole; injection limits; calls settle | up to 2 callers, one setup per question (each pairs faults of different phases), 2 calls each, 6 for an upload (create, two parts, complete, abort, one repeated) |
| `r2_before_send` | `MCBindings` | violated, see section 8 | one caller, one fault |
| `payments` | `MCStripePayments` | one charge per key, true claims with ambiguity on record; an unambiguous catalogue whose faults happen, routes that stay; contracts | 2 callers of 2 requests, one scenario per kind of fault, a lossy network; every adapter of the catalogue and a plugin's, each request with each fault offered for it; 3 releases |
| `provider_claims` | `MCStripePayments` | violated, see section 8 | as above |
| `deliveries` | `MCDeliveries` | moves land where the comment says and checkers judge effects; each message settled once, within its budget, dispatched as a Queue may; what a workload leaves on record | 3 events under every perturbation and pair of them; 2 or 3 messages with duplicate ids and earlier attempts at, below and above the limit of 2 retries; lists of up to 5 messages under each pair of variations; 2 clients of 2 steps |
| `stores` | `MCStores` | results belong to the scenario asked for and stored ones are found; what exit 0 means over many runs | 2 workers, 4 scenarios (one differs from the first in its seed alone, one in what the key leaves out), 4 calls over 3 processes; 2 suites with 2 candidates each, one with a budget, runs with and without `--strict` and `--no-regressions`, code that survives everything, fails on one or on both only; no bound on the number of CI runs |
| `planning` | `MCPlanning` | the covering is complete unless cut off and cannot stall; plans and searches are complete; agents run a scenario once; timed calls get through what their timer bounds | 4 points with 0 to 2 choices and two mixes with 3, limits from 0 to more than needed; spaces of up to 3 points, depth 1 to 3, six strategies, limits 0 to 6 and one of 17 that leaves a hybrid plan no room; searches of 0, 2 and 100 runs and of 6 and 100 candidates; 3 calls of which two appear under faults, and two calls that offer one perturbation; 2 remote calls, signed or not, with and without `decode`, one request delivered twice, clocks 0 to 2 |
| `replicas` | `MCReplicaReads` | what the checkers accept before and after a merge, sessions implement `SessionReads`; Workers do what the present scenario asks | 2 observers, one clock ahead, 4 reads and writes; 2 scenarios one after the other, 2 requests, 3 versions, 1 message |

Why the bounds are enough. The bugs these modules could have need a few actors or a few
steps: a race needs two callers, a lost wake-up a third actor, a cut three scenarios
around it, a torn file two overlapping writes and a third process that reads it. Each
bound lets that happen, which the mutants listed in `PROJECT.json` confirm: every property
fails within its run's bounds when a plausible mistake is put into the definition it is
about. Larger instances of the counting parts (`pool`, `interleaving`, the covering) are
what the proofs of section 6 are for.

`CHECK_DEADLOCK FALSE` appears where the model really stops: a workload has made its
calls, or a function has returned (`bindings`, `payments`, `deliveries`, `stores`,
`planning`). The other modules have an `Ended` step. Symmetry is used in `stores` and
`payments` only, whose workers and callers are interchangeable and whose properties are not
about liveness.

Some constants record an assumption under which a property is checked; each can be flipped
to see the disagreement section 8 describes. `OverlappingKeys` (may two requests with one
idempotency key be in flight?), `LateErrors` (may a handler fail after it applied an
event?), `CreatedAt` (the events' creation times), `GuidanceFile` (which suite uses which
file; one each in the run, and `OneFileEach` is a hypothesis of the theorem), `lossy` in a
setup of `MCBindings` (may a dependency fail after it applied a call?), `Idempotent` (does
the handler recognise duplicates?). `Interrupted` allows kills and evictions in `CIRuns`
and is on. A recorded fact can play the same part: a copy that overlapped another one's
authorisation (`overlapped` in `RemoteExecution`) and a store two calls or a crash
disturbed (`disturbed` in `ScenarioCache`) are exempt from the property, because the code
promises nothing there (section 8).

## 5. Fairness

- `ExecutionPool`: weak fairness of the workers' steps and of the end. The event loop
  runs what is ready, and an execution settles: a scenario that hangs does hang the
  search. Nothing makes the clock pass a time budget.
- `MCReductions`: weak fairness of the loop, which awaits one execution at a time.
- `InterleavingRun`: weak fairness of each actor's own steps, of the main loop and of its
  timer. An actor that waits for another one has no step enabled, which is how a
  blocked run is left to its deadline.
- `Bindings`: weak fairness of `Progress(c)`: the promise a proxy awaits, a dependency's or
  an oracle's, settles. Callers are not obliged to make calls, and a dependency is not
  obliged to apply what it fails.
- `RemoteExecution`: weak fairness of the caller's own continuations and of its timers.
  Nothing is assumed of the network or the agent, which may never answer, nor of the
  caller's `headers` and `decode` functions, whose promises may never settle. That is why
  only calls with a timeout are claimed to make progress, and only through the waits their
  timer bounds (`BoundedStages`): for both backends the wait for the headers of the answer,
  for the unsigned one the text of an error too, and the body when no `decode` reads it.
- All other modules are checked for safety only and state no fairness.

## 6. Proofs

Long proofs are in a module of their own (`...Proofs`), one per group of components that a
reader meets together; those of `StripePayments` and `ProviderSemantics` stand in the
module they are about, and those of `QueueLifecycle` in `ConcurrencyProofs`. They hold for
every value of the constants that the named assumptions admit. Most assumptions are types
(counts are natural numbers, options and choices are what the code's types say, an oracle
answers something, a workload has a number of clients and of steps). These say more:

- `ScenarioAssumption` (`Bindings`): a scenario uses no id twice, because the controller
  counts by id (section 8).
- `DeclarationAssumption` (`Bindings`): a perturbation declares "committed" only of a failure
  after the dependency answered and "not committed" only of one before it is reached.
  Catalogues of the repository do; a plugin that does not has put a false outcome on record
  itself.
- `FaultAssumption` and `RequestAssumption` (`StripePayments`): what the adapter's faults
  declare, and that a creation is not a query.
- `CIAssumption` (`CIRuns`): candidates are named apart. `RemoteAssumption` says the same of
  calls and the handshake.
- `ProviderAssumption` (`ProviderSemantics`): an adapter that is not the catalogue's makes its
  faults with the helpers of the SDK, which aim each at the operation it is offered for, and
  batches name adapters there are. Nothing is assumed of the catalogue itself: that what it
  offers is so aimed is a lemma (`FaultSpaceIsOffered`).
- `NemesisAssumption` (`NemesisWorkers`): no route is called "any", the word a rule uses for
  all of them; the rest is types. `ReplicaAssumption` (`ReplicaReads`): the database's records
  go under a name that is no key of the store.
- `SystemsAssumption`, `FaultsAssumption` (`CounterexampleShrinker`), `QueueAssumption`,
  `ContractAssumption`, `WorkloadAssumption`, `DeliveryAssumption`, `ExplorationAssumption`,
  `PairwiseAssumption`: types.

Some theorems have a hypothesis of their own, for what the code does not promise:
`OneFileEach` (suites share no guidance file), `LossesOnCreations` and `~OverlappingKeys` (see
`StripePayments`), and `~LateErrors` (see the deliveries under `ConcurrencyProofs`). Each is
exactly what a row of section 8 says goes wrong without it.

`ReductionProofs`.

- `OneMinimality`: `ReportedSetIsOneMinimal` is not inductive: in the middle of a pass it
  says nothing. `ScanInv` says what the pass has established so far: the candidate was seen
  to fail, and every perturbation behind the cursor was refuted for *this* candidate. A
  removal changes the candidate, and the clause survives because the cursor goes back to 0;
  that is the restart in the code. `RefinesReduction` maps each step to a step of
  `FailureReduction` or to a stutter, from the same invariant.
- `WitnessesAreJointlyMinimal`: of `shrinkCounterexample`, which reduces perturbations and commands
  in turn. `JointInv` remembers against which workload the perturbations of this
  round were reduced: the one the round began with. A round that ends it all left the
  workload as long as it was, hence unchanged, so that what was refuted for the perturbations
  then is refuted still; and its last pass over single commands refuted each of them.

`SearchProofs`.

- `PoolInv` adds to the pool's properties who can hold what: a worker that awaits an execution is
  launched, has not ended and does not have the thread; workers end only when the counter is
  exhausted; the stop flag is up only after a failure. Without the last but one a finished
  batch could have left scenarios behind (`FillLoopFindsNothing`), without the last a stop
  could be unjustified. `PulledGrows` carries the arithmetic of the counter.
- `FirstFailureIsDetermined`: the failure a batch reports is the one a sequential run with the
  same budgets meets first. `GreedyAfter` is that sequential run, a recursive function; that it
  exists and what it is made of is shown by induction (below). `GreedyInv` says that, as long
  as no clock and no failure interfered, the pool has decided about every scenario it
  pulled as the sequential run does, and has spent as much. After a failure it decides
  differently, but only about later scenarios.
- `StrictPassesAreExplored`, `ArtifactsAreFirstFailures`: from `SearchInv`, in which the pool's
  invariant holds inside the search (`PoolHoldsInSearch`: every step of the search is a
  step of the pool or leaves it alone) and the invariant of the reduction inside a search
  that minimises. A record other than an error was written after the phases it speaks of
  were over, and nothing changes them any more.

`ConcurrencyProofs`.

- `RunInv` adds that the main loop of an interleaving run is at its release only when
  everybody rests, and that nothing was released before the first check. Atomicity
  follows: a release makes one actor work where all were resting.
- `WorkloadsStayOnRecord`: `WorkloadInv` relates where each client is to what is in the shared
  history. An operation begins once and completes at most once, in that order; only a client
  whose command runs has an operation open; the parent on record is the last operation the
  same client began, and it was complete. From this the lineage is one line per client
  (`HistoryIsLineage`). That `Ancestors` is then the earlier operations, the latest first, and
  `Descendants` the later ones, are lemmas about any such lineage, by induction on the turns
  from below and from above; that the results are as many as the operations is a bijection.
- `DeliveryChecksAreRight`: what the application did cannot be seen by the code, which judges a
  trace of deliveries. `DeliveryInv` is a correspondence between the two: the deliveries the
  trace counts as applied are, in order and place by place, the application's effects. It is
  kept only as long as a handler that fails has done nothing, which is `~LateErrors`. The
  checker of the order compares neighbours; that a trace with an inversion anywhere has one
  between neighbours is a lemma, from two inverted places as close as such places get.
- `MessagesAreSettledOnce`: `LifecycleInv` says that every message is pending,
  acknowledged or dead, in one of these lists and once, and that a pending one has been
  counted and has an attempt left. A round runs a loop over the batch: its loop invariant
  `Sorted` says that after the first i messages those are in one of the three lists and
  the rest in none, and is shown for every i by induction.

`PlanningProofs`.

- `CoverInv` adds to the accounting that `uncovered` is exactly the set of pairs that no row
  contains, which choices have a row of their own, and that rows are scenarios. A row
  contains the pair it was made for, so that each round strikes off at least one and the
  loop cannot stall (`RowsAlwaysEarnTheirPlace`, an action property). With no pair left every
  pair is in a row (`CoveringIsComplete`).
- `AgentsRunScenariosOnce`: `RemoteInv` says why the nonce cache is enough although nonces
  expire in it. A copy that passed the authorizer either has its nonce in the cache, or
  the clock has come so far that the age check refuses every other copy. Copies authorised
  at the same time are exempt (section 8).
- `SearchesCloseTheirSpace`: a search explores a space its own runs reveal. `ExplorationInv` says
  of its frontier that it has seen the calls of the baseline and of every run so far
  (`FrontierIsWhatWasSeen`), that the points hold what those calls were offered, under each
  name once when they were revealed (`PointsAreWhatWasOffered`), and that every combination of
  a space given in advance is still planned or was run (`EveryChoiceIsPlanned`), in the guided
  search as a combination of the same id. A loop ends of itself only when nothing is left
  to choose, and then what the frontier promised has been run. New points are added in the
  order of their calls; that a sorted sequence misses nothing of the set it is made of is
  shown by giving each element the number of those before it as its place (`RanksArePlaces`).

`BindingsProofs`, for any number of callers that use the D1, R2 and Hyperdrive proxies at once.

- `InjectionsAreLimited`: every step of every proxy either leaves the activation counts alone or
  spends one perturbation that was available in the state the step starts from
  (`D1Spends`, `R2Spends`, `HyperdriveSpends`): this is where it matters that no `await`
  stands between finding a perturbation eligible and activating it.
- `HistoriesMatchAnswers`: `HistoryInv` follows each call: while it is under way nothing
  is completed, and the step that answers the caller completes it once, with an entry that
  fits the answer. One case is named as different: a probe that `terminal` of the D1 proxy
  finds and refuses after the commit is completed twice (`CompletedTwice`).
- `ClaimsAreTrue`, `DataStaysWhole`: the claims are true except for what the code itself
  declares wrongly of contract probes, and those cases are named in the property: a
  refusal after the commit (`RefusedLate`) and a landing the probe did not see because the
  dependency threw (`LandedUnseen`). `TruthInv` says of each call under way what has happened
  to the data by now, per binding: which statements of a batch have landed, what an upload
  has become, which version a read may have seen. A step of one binding
  leaves the data of the others alone and the calls of other callers as they were, which
  is why the three invariants can be proved apart and hold together.
- `WorkersDoWhatIsAsked`, of the Workers that stand in for bindings and not of the proxies:
  `WorkersInv` says that each rule a Worker holds stands for a perturbation of the scenario
  that is present (`StandsFor`), of its kind, region and key, and that the reads that
  perturbation has made stale and those its rule has left are together no more than it asks
  for. What makes it hard to keep is that the application's requests fall between the calls
  that reset, seed and configure: `ToldInv` and the condition on `stage.told` say how far those
  calls have come. The rule that takes a request is the first one that matches, which is the
  least element of a set of numbers (`LeastPlace`).

`StoresProofs`.

- `ResultsAreNeverMixedUp`, from `CacheInv`: whatever is in memory, in the file or on its
  way there is filed under its own fingerprint, so that what is found was executed with the
  same seed for perturbations the key cannot tell from those asked for (`Alike`). It is not
  said that they are the same perturbations (section 8).
- `StoredIsNotExecutedAgain`, from `StoreInv`: while nothing was disturbed, at most one worker
  is busy, what was stored is in the file whole and, once loaded, in memory, and what a
  worker is writing includes it.
- `ExitZeroIsEarned`: `CIInv` says what the job knows in the middle of its steps: nothing
  bad so far means that the pins replayed hold, unless the run was told to skip them, and
  the suites that are over were explored, unless their budget cut them off, which a strict
  run does not forgive.
  What was executed in earlier runs counts only because a saved guidance file remembers
  executions of code that has not changed since; hence `OneFileEach`.
- `SessionsAreImplemented` maps each step of the database with sessions to a step of
  `SessionReads` or to a stutter, from `SessionInv`: no replica and no bookmark is ahead of the
  primary.
- `ConsistencyChecksAreRight`: the checkers see timestamps, which several calls may share
  and by which clocks may disagree. `ReplicaInv` says what the recorded calls have in
  common all the same: one observer's timestamps never go back, the versions written to
  one key never go back, and no read is ahead of what was committed when it was made. From
  this, whatever the merge makes of the calls of different observers, it keeps each
  observer's order, so that no check and no divergence changes; a missed write of one's
  own is noticed; and a false alarm has a tie.
- `ContractsStayKept`: a release is compared with the latest snapshot only, and still
  keeps what every earlier release of its version promised. `ContractInv`: "does not
  break" is transitive, a registry's versions never go back, and a snapshot that was on
  record already and is not added again is, its conformance apart, the latest one.

`StripePayments`.

- `KeysChargeOnce`, for workloads in which a key is not used again while a request with it is
  in flight (`~OverlappingKeys`, section 8). `ChargeInv` says why a second creation does not
  charge: once a key charged, either the response of its creation is found under the path
  and key of every creation, or a caller is about to store it, and nobody else has a request
  with that key. A caller that passed the lookup found nothing, and nothing can be stored
  for it until it charges. It matters that the network can lose a request before the
  backend has it or after the response is stored, and not between.
- `PaymentsAreOnRecord`: what the adapter layer declares or infers of a payment is true of
  the provider, and who lost an answer finds the payment recorded as uncertain. It needs
  no discipline of keys. `ClaimInv` follows each call as `TruthInv` does.
  `LossesOnCreations` is there because a confirmation may be answered with 404, and then
  `commit-then-timeout` declares what did not happen (`adapter-sdk/src/index.ts:622`,
  section 8).

`ProviderSemantics`, for any adapters, plugins and batches of them.

- `RoutesStay` and `PlannedFaultsHappen`, from one invariant, `ProviderInv`. A registry that is
  only added to behind keeps the first adapter that serves a request
  (`BatchGoesBehind`, `FirstServingStays`), also when a batch fails halfway. So the operation
  a request is classified as when it is sent is the one its fault was planned for, the
  controller finds that fault eligible, and it is injected once; `RecordIsTrue` then follows the
  request along each way out of `genericExecute`. `PlannedFaultsHappen` states two of the three
  conjuncts of `CatalogIsSound` for every catalogue. The third, `CatalogIsUnambiguous`, is about the
  table there is, and TLC goes through it entry by entry.

Induction. The library's theorems take an operator as a parameter, which no installed
prover can instantiate. Where a recursive function had to be reasoned about
(`GreedyAfter`, `Settling`, `Ancestors`, `Descendants`), the set of numbers for which a
fact holds is shown to contain all of them (`SetInduction`, `NumbersByInduction`, from the
least element of what is left), first to see that a function with the recursive equation
exists, then for what it is.

The theorems, by module (each is preceded by a comment that says what it is about):

- `ReductionProofs`: `LoopInvariant`, `TypeCorrectness`, `ReportedSetFailsHolds`,
  `OneMinimality`, `RefinesReduction`, `ShrinkInvariant`, `WitnessesAreJointlyMinimal`;
- `SearchProofs`: `PoolInvariant`, `TypeCorrectness`, `NoScenarioIsLost`,
  `BudgetsAreRespected`, `FailureStopsAreJustified`, `FirstFailureIsDetermined`,
  `FillLoopFindsNothing`, `SearchInvariant`, `StrictPassesAreExplored`,
  `ArtifactsAreFirstFailures`;
- `ConcurrencyProofs`: `SegmentsAreAtomic`, `WakeupsAreNotLost`,
  `UndivergedRunsFollowTheirPlan`, `WorkloadInvariant`, `WorkloadsStayOnRecord`,
  `LifecycleInvariant`, `MessagesAreSettledOnce`, `DeliveryInvariant`,
  `DeliveryChecksAreRight`;
- `PlanningProofs`: `CoverInvariant`, `CoveringTypes`, `RowsAreAlwaysScenarios`,
  `CoverageAlwaysAccounted`, `CoveringIsComplete`, `RowsAlwaysEarnTheirPlace`,
  `RemoteInvariant`, `AgentsRunScenariosOnce`, `ExplorationInvariant`,
  `SearchesCloseTheirSpace`;
- `BindingsProofs`: `InjectionsAreLimited`, `HistoriesMatchAnswers`, `TruthInvariant`,
  `ClaimsAreTrue`, `DataStaysWhole`, `WorkersInvariant`, `WorkersDoWhatIsAsked`;
- `StoresProofs`: `SessionsAreImplemented`, `ResultsAreNeverMixedUp`,
  `StoredIsNotExecutedAgain`, `ExitZeroIsEarned`, `ContractsStayKept`,
  `ConsistencyChecksAreRight`;
- `StripePayments`: `KeysChargeOnce`, `PaymentsAreOnRecord`;
- `ProviderSemantics`: `ProviderInvariant`, `RoutesStay`, `PlannedFaultsHappen`.

Only model-checked, within the bounds of section 4:

- liveness (`MinimizationEnds`, `WorkersDrain`, `RunEnds`, `CallsSettle`,
  `TimedCallsSettle`), since the prover handles neither fairness nor `ENABLED`;
- what is folded over data: `DeliveriesFollowTheScenario`, which adds up the amounts of a scenario's
  perturbations, and `PlansAreComplete`, whose covering is a recursive function on sets of pairs.
  Both would need an induction over these data. That the covering itself is complete is
  proved of `PairwiseCovering`, step by step;
- `CompleteMeansEveryOrder`, which counts orders by a multinomial coefficient, in a module with
  recursive operators;
- of `CatalogIsSound` the conjunct about the table, see above.

## 7. What is not modelled

`PROJECT.json` lists each component with its status. In short:

- Left out within modelled components: formatting, fault descriptions, correlation and
  timestamps in the controller's history; SQL texts and request bodies (names stand for
  them); R2's `delete`, `list` (which behave as `put` and `head`) and the list of applied parts;
  Stripe refunds; the delays themselves (`realDelays`, latencies), which only wait; listings and
  snapshots of the nemesis Workers; checks of arguments that throw before anything happens;
  plugin loading from disk.
- The Images proxy, which wraps each call as the other proxies do and says of all of them that
  nothing was committed; the perturbations of services, Durable Objects and Workflows, which
  are definitions without a proxy.
- `OAuthTokenLifecycle`, `AsyncJobLifecycle` and `TokenBucket` (`adapter-sdk/src/capabilities.ts`),
  helpers for plugin authors that nothing in the repository but a test drives.
- What a queue Worker keeps, its mode and messages, is modelled, and no property compares them
  with the scenario. Left out of `CIRuns`: `--starter`, and suites that cannot be run here.
- Reports, signers, canned responses, detection of providers, parsing of wrangler files, HTTP
  plumbing and command-line front ends, which keep no state; and the program under test with
  its checkers and oracles, which the models take as any answer.

## 8. Where code and documents differ

Two runs show one each. `r2_before_send`: `invoke` of the R2 proxy asks for `before-commit`
twice (`cloudflare/src/r2.ts:336`) and never for `before-send`, so that a perturbation of
that phase, such as the latency of `retryStormIncident` (`core/src/incidents.ts:70`), is
never injected into a write, against `core/src/types.ts:100`. The scenario is executed as
if it had no perturbation and counts as passed. `provider_claims`: the adapter layer records a
response that was interrupted, malformed or lost as "committed" whenever the request was no
query (`adapters/src/semantics.ts:187`, 228, 235), whatever status the provider answered with
and without asking an oracle, against `docs/adapter-authoring.md:110`, by which a proxied real
provider may only allow "unknown".

The following came up while the models were written. They have no run of their own; the
properties are checked under the assumption that rules each of them out, or are stated so
that they do not claim what the code does not do.

| Code | What it does | What is said of it |
|---|---|---|
| `core/src/execution-pool.ts:77` | goes on after a scenario was skipped for the cost budget and schedules a later, cheaper one | "Once stop/budget conditions trigger, no new scenarios are scheduled" (52-53) |
| `core/src/execution-pool.ts:100` | answers a batch after one rejection while the other executions still run | "already-running scenarios are allowed to finish" (53-54) |
| `core/src/planner.ts:152` | a failure that does not reproduce throws and takes the failing run with it: exit 3, no artifact | "Failures beat tool errors" (`cli/lib/ci.mjs:51`, and 279) |
| `core/src/schedule.ts:216` | actors with fewer points than planned end with a shorter `observed` that is not divergent | "Differs from `schedule` only when divergent" (72) |
| `core/src/schedule.ts:196` | starts all actors before the first quiesce, so that several may be in their first segment | "At most one actor runs at a time" (174); true from the first release on |
| `cloudflare/src/d1.ts:412` | a semantic variation that matches is completed as a failure | "not necessarily a failure" (`core/src/types.ts:136`) |
| `cloudflare/src/d1.ts:422`, 564 | refuses a probe it finds only after the call, and declares not committed what has committed | "genuinely knows which statements landed" (520); `ClaimedOutcomeIsTrue` excepts it (`RefusedLate`) |
| `cloudflare/src/d1.ts:435` | `terminal` catches that refusal as an error of the binding and completes the operation a second time, as unknown; `batch` rethrows it (579) | an operation is completed once; `HistoryMatchesAnswers` excepts it (`CompletedTwice`) |
| `cloudflare/src/d1.ts:523` | a statement of a probe that threw after it landed is declared not committed | "genuinely knows which statements landed" (520); excepted by name (`LandedUnseen`) |
| `cloudflare/src/r2.ts:401` | a completion that threw after the object appeared is declared not committed | "genuinely knows what landed" (416); excepted by name (`LandedUnseen`) |
| `cloudflare/src/hyperdrive.ts:163` | a read that loses its result to `hyperdriveCommitThenTimeout` is declared committed | the fault "commits a write" (42) |
| `stripe/src/index.ts:237` | two overlapping creations with one key both charge | "a stable idempotency key remains correct" (`examples/outbound-stripe/README.md:15`) |
| `adapter-sdk/src/index.ts:622` | a confirmation the provider answered with 404 is declared committed by `commit-then-timeout` | the declaration is "sound here" (614-616) |
| `cloudflare/src/miniflare.ts:220` | a message both retried and acknowledged is acknowledged while it has retries left | "Explicit retry always wins" (209) |
| `cloudflare/src/miniflare.ts:211` | never reads `outcome`: a batch whose consumer threw is acknowledged | settled by "a successful result" (209-210) |
| `core/src/cache.ts:97` | overlapping calls replace the copy in memory and may tear the file | "persistent scenario/result cache", done (`ROADMAP.md:39`) |
| `core/src/cache.ts:33` | the key names of a perturbation its id, target, operation, kind, selector and metadata: after an edit of its phase, its category or the outcomes it declares, the scenario gets the result stored before the edit | a cached result is that of the scenario asked for; the property asks for one that is `Alike` |
| `core/src/events.ts:285` | a handler that throws after it applied an event hides a double application | "Duplicate *application* is the bug." (378) |
| `core/src/events.ts:127` | a move passes followers only where creation times are consecutive | "strictly after" the Nth following event (124) |
| `core/src/guided.ts:158` | a failing scenario that was seen is left out of later plans: red, then green without a commit | "A bug found once should stay found." (`docs/ci.md:103`) |
| `core/src/guidance-store.ts:15` | suites share one default file, and one suite's executions are left out of another's plan | "runs the systematic search for every config" (`docs/ci.md:6`) |
| `cli/lib/ci.mjs:55` | a run whose budget left scenarios unexecuted exits 0 unless `--strict` was given | "Every search passed" (`docs/ci.md:52`), though 57-58 say what the code does; the property speaks of strict runs and of suites that were not cut off |
| `core/src/runner.ts:75` | returns no failure when only the baseline fails | the command line reports one, with an empty minimal set (`cli/lib/run.mjs:199`) |
| `core/src/search.ts:144`, `guided.ts:190` | without `stopOnFirstFailure`, a later failure replaces the first | the field is called `firstFailure` |
| `core/src/guided.ts:163` | a combination and a covering row of the same set count twice against the limit and are executed twice | the map that removes duplicates goes by id |
| `core/src/guided.ts:159` | a perturbation offered for two calls makes two scenarios of one id, of which the map keeps the last: the other call is never perturbed | "coverage-guided" exploration of the points given; the property is stated up to ids |
| `core/src/lineage.ts:106` | a perturbation a later call offers under an id that is known is not added to that call's point | "those calls immediately contribute fault points" (`core/src/adaptive.ts:42`); the property asks for each name once |
| `core/src/guided.ts` | `maxCandidates` cuts the list of candidates, so that a search without a failure may end with choices it never tried, and says nothing of it | (nothing is said; `SearchesAreComplete` exempts searches with too many) |
| `core/src/planner.ts` | a hybrid plan within a limit is not a beginning of the one without: guidance is asked for as many as the limit, before duplicates are removed | a limit cuts a plan |
| `core/src/{guided,guidance}.ts` | both guidances stop at 100 scenarios when no limit is given | no `maxScenarios` is no limit |
| `core/src/search.ts` | a limit of 0 lets one scenario through | `maxScenarios` |
| `cloudflare/src/nemesis-templates.ts` | the service Worker ignores `maxActivations`: a rule without an occurrence is applied to every matching request | "first matching operation" (`core/src/types.ts:100`) |
| `cloudflare/src/nemesis-templates.ts` | the observer is one for all: of stale reads for several regions only the last region's take effect; kinds without a case are recorded as faults and forwarded | each perturbation of a scenario is applied |
| `cloudflare/src/consistency.ts` | a write that follows a read within the same millisecond counts as before it, and read-your-writes fails | the checker's name; the property is stated with that exception |
| `adapter-sdk/src/contracts.ts:118` | a snapshot already on record is not added again: after going back to it, `latest` is another one, whose `conformanceValid` need not be that of the current release | "latest" |
| `adapter-sdk/src/contracts.ts:81` | the comparison ignores `conformanceValid`, and keeps effect and retry of an operation's last case only | a breaking change is reported |
| `adapter-sdk/src/index.ts:396` | a batch that fails keeps the adapters before the failing one registered | (nothing is said; `RoutesAreKept` holds in spite of it) |
| `adapters/src/semantics.ts:205` | a wrapped adapter's `rate-limit` is answered before this line by its status, so that `retryAfterSeconds` never becomes a header | the option's name |
| `core/src/secure-remote.ts:99` | two copies of a request that are authorised at the same time are both accepted | the replay cache's purpose; the property exempts overlapping copies |
| `core/src/negotiated-remote.ts` | a handshake that fails once fails for good (the rejected promise is kept), and one that is never answered has no timer | `timeoutMs` |
| `core/src/secure-remote.ts:143` | the timer of a signed call covers neither the body of the response nor the text of an error (169) | `timeoutMs`; `TimedCallsSettle` leaves these stages out |
| `core/src/backend.ts:88` | returns the promise of `decode` from inside `try`/`finally` without awaiting it: the timer is cleared before the body is read, and a call whose body never ends hangs | `timeoutMs` |
| `core/src/backend.ts:61`, `secure-remote.ts:131` | await the caller's `headers()` before the timer is set | `timeoutMs` |
| `fast-check/src/shrink.ts` | never tries to leave out the last command that is left | a minimal sequence; the property asks it of longer ones |
| `core/src/controller.ts` | counts activations by id: two perturbations with one id share a count, and the smaller limit can be exceeded | `maxActivations` of each; ids are assumed to differ |
| `core/src/workload.ts:95` | after the first rejection the other clients go on writing to the history, and a step that is skipped does not call `afterStep` | (nothing is said; the properties are about workloads that resolved) |

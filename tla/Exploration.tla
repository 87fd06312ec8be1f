----------------------------- MODULE Exploration -----------------------------
(***************************************************************************)
(* The exploration loops of packages/core/src: exploreScenarios            *)
(* (search.ts), exploreCoverageGuided (guided.ts), exploreAdaptiveLineage  *)
(* (adaptive.ts) and discoverLineageFaultSpace (lineage.ts).  All of them  *)
(* run a baseline, then one scenario after another; the last two learn     *)
(* from each history which dependencies were called and extend the fault   *)
(* space while they explore it.                                            *)
(*                                                                         *)
(* A call is its rank in a history.  A choice is a perturbation with the   *)
(* selector it got when a call was offered it: a number, counted along the *)
(* calls; the same perturbation offered for two calls is two choices of    *)
(* one name, its id.  A scenario is the set of its choices with the        *)
(* strategy its id names.  Scores only order the candidates: the model     *)
(* takes any candidate next, so what holds here holds for every guidance.  *)
(***************************************************************************)
EXTENDS FaultSpace

CONSTANTS NumCalls,   \* the dependency calls the system can make
          Systems,    \* records: the choices the resolver offers for a call (resolve),
                      \* the id of a choice (name), the calls its target, operation and
                      \* selector match (about), under which choices a call is made
                      \* (trigger), and which sets of choices fail (broken)
          OptionSets  \* records: the loop and its options

SystemCalls == 1 .. NumCalls

\* A call is offered no id twice.
ASSUME ExplorationAssumption ==
    /\ NumCalls \in Nat
    /\ \A s \in Systems :
          /\ s.resolve \in [SystemCalls -> SUBSET Nat]
          /\ s.trigger \in [SystemCalls -> SUBSET Nat]
          /\ \A c, d \in SystemCalls : \A p \in s.resolve[c], q \in s.resolve[d] :
                (c < d => p < q) /\ (c = d /\ s.name[p] = s.name[q] => p = q)
    /\ OptionSets \subseteq
          [mode: {"exhaustive", "guided", "adaptive", "discovery"}, maxDepth: Nat,
           maxCandidates: Nat, maxRuns: Nat, maxRounds: Nat, stop: BOOLEAN,
           minimize: BOOLEAN]

VARIABLES system, option,
          points,     \* the fault points, in the order they were found
          seenCalls, seenPerturbations,  \* LineageFrontier
          remaining,  \* scenarios planned and not executed
          pending,    \* discovery: points found in this round
          rounds,
          runs,       \* the scenarios executed; the order of the array is left out
          firstFailure, minimal, pc

frontier == <<seenCalls, seenPerturbations>>
explorationVars == <<system, option, points, frontier, remaining, pending, rounds, runs,
                     firstFailure, minimal, pc>>

NoRun == [by |-> "none", set |-> {}]
Fails(set) == set \in system.broken

---------------------------------------------------------------------------
(* The fault space *)

\* discoverDependencyCalls: the calls a history shows.
CallsOf(set) == {call \in SystemCalls : system.trigger[call] \subseteq set}
NewCalls(set) == CallsOf(set) \ seenCalls

Names(set) == {system.name[p] : p \in set}

\* Mutant: a perturbation that two calls of one history were offered belongs to none.
FreshOfNone(call, new) ==
    {p \in system.resolve[call] :
        /\ system.name[p] \notin seenPerturbations
        /\ \A other \in new \ {call} : system.name[p] \notin Names(system.resolve[other])}

\* A perturbation belongs to the first call it was offered for, and is aimed at it.
Fresh(call, new) ==
    {p \in system.resolve[call] :
        /\ system.name[p] \notin seenPerturbations
        /\ \A other \in new :
              other < call => system.name[p] \notin Names(system.resolve[other])}

\* LineageFrontier.expand: the points of the calls not seen before, none for a call
\* without a choice of its own.
NewPoints(set) ==
    LET new == Sorted({call \in NewCalls(set) : Fresh(call, NewCalls(set)) # {}}, Less)
    IN  [k \in DOMAIN new |-> Fresh(new[k], NewCalls(set))]

Expand(set) ==
    /\ seenCalls' = seenCalls \cup NewCalls(set)
    /\ seenPerturbations' =
          seenPerturbations \cup UNION {Names(system.resolve[call]) : call \in NewCalls(set)}

\* coverageGuidedScenarios: combinations and the rows of the covering.
Candidates(space) ==
    {Combination(set) : set \in Combinations(space, option.maxDepth)}
        \cup Elements(PairwiseRows(space))

---------------------------------------------------------------------------
(* The loops *)

\* The static strategies are given their fault points, the others start without.
Static == option.mode \in {"exhaustive", "guided"}

ExplorationInit ==
    /\ system \in Systems
    /\ option \in OptionSets
    /\ points = <<>> /\ seenCalls = {} /\ seenPerturbations = {}
    /\ remaining = {} /\ pending = <<>> /\ rounds = 0
    /\ runs = {} /\ firstFailure = NoRun /\ minimal = {}
    /\ pc = "baseline"

\* For the static strategies the points are those of every call there is;
\* faultPointsFromHistory keeps a perturbation at each call it was offered for.
AllPoints == system.resolve

\* The id of a scenario joins those of its perturbations along the points.
Id(scenario) ==
    [by |-> scenario.by,
     names |-> [k \in DOMAIN Sorted(scenario.set, Less) |->
                   system.name[Sorted(scenario.set, Less)[k]]]]

Baseline ==
    /\ pc = "baseline"
    /\ IF Static
       THEN /\ points' = AllPoints
            /\ remaining' = IF option.mode = "guided" THEN Candidates(AllPoints)
                            ELSE {Combination(set) : set \in Combinations(AllPoints, option.maxDepth)}
            /\ UNCHANGED <<frontier, pending>>
       ELSE /\ Expand({})
            /\ points' = IF option.mode = "adaptive" THEN NewPoints({}) ELSE <<>>
            /\ pending' = IF option.mode = "discovery" THEN NewPoints({}) ELSE <<>>
            /\ UNCHANGED remaining
    /\ pc' = IF option.mode = "discovery" THEN "discover" ELSE "search"
    /\ UNCHANGED <<system, option, rounds, runs, firstFailure, minimal>>

\* What may be executed next.  The adaptive loop plans again in every iteration,
\* and skips what it executed by id, which tells its scenarios apart: no two of its
\* choices have one name.  The exhaustive loop goes by depth.
Choosable ==
    CASE option.mode = "adaptive" -> Candidates(points) \ runs
      [] option.mode = "guided" -> remaining
      [] option.mode = "exhaustive" ->
            {s \in remaining : \A t \in remaining : Cardinality(s.set) <= Cardinality(t.set)}
      [] OTHER -> {}

\* coverageGuidedScenarios cuts its list at maxCandidates.  Which candidates that leaves
\* out is not modelled: a search that has too many may come to the end of its list.
TooMany ==
    /\ option.mode \in {"adaptive", "guided"}
    /\ Cardinality(Candidates(points)) > option.maxCandidates

\* enumerateScenarios counts after it has added a scenario, the adaptive loop
\* raises its limit to 1.
RunLimit == IF option.mode = "guided" \/ option.maxRuns > 0 THEN option.maxRuns ELSE 1

\* Mutant: a failure replaces nothing but is forgotten when the search goes on.
KeepOnlyIfStopping(scenario) ==
    IF Fails(scenario.set) /\ option.stop THEN scenario ELSE firstFailure

\* The adaptive loop keeps its first failure, the others overwrite it.
FailureAfter(scenario) ==
    IF Fails(scenario.set) /\ (option.mode = "adaptive" => firstFailure = NoRun)
    THEN scenario ELSE firstFailure

\* The list of coverageGuidedScenarios is a map by id: scenarios of one id are one, and
\* which of them it is, the last one listed, is left open here.
Left(scenario) ==
    {other \in remaining \ {scenario} : option.mode = "guided" => Id(other) # Id(scenario)}

Try(scenario) ==
    /\ pc = "search"
    /\ Cardinality(runs) < RunLimit
    /\ scenario \in Choosable
    /\ remaining' = Left(scenario)
    /\ runs' = runs \cup {scenario}
    /\ IF option.mode = "adaptive"
       THEN Expand(scenario.set) /\ points' = points \o NewPoints(scenario.set)
       ELSE UNCHANGED <<frontier, points>>
    /\ firstFailure' = FailureAfter(scenario)
    /\ pc' = IF Fails(scenario.set) /\ option.stop THEN "searched" ELSE "search"
    /\ UNCHANGED <<system, option, pending, rounds, minimal>>

StopSearching ==
    /\ pc = "search"
    /\ Choosable = {} \/ TooMany \/ Cardinality(runs) >= RunLimit
    /\ pc' = "searched"
    /\ UNCHANGED <<system, option, points, frontier, remaining, pending, rounds, runs,
                   firstFailure, minimal>>

\* minimizeFailureSet, as FailureReduction promises it.
OneMinimal(set) == Fails(set) /\ \A p \in set : ~Fails(set \ {p})

Return ==
    /\ pc = "searched"
    /\ IF firstFailure = NoRun \/ ~option.minimize THEN UNCHANGED minimal
       ELSE \E set \in SUBSET firstFailure.set : OneMinimal(set) /\ minimal' = set
    /\ pc' = "done"
    /\ UNCHANGED <<system, option, points, frontier, remaining, pending, rounds, runs,
                   firstFailure>>

\* discoverLineageFaultSpace: a round executes each choice of the points the last
\* one found, alone.
Cut == rounds >= AtLeastOne(option.maxRounds) \/ Cardinality(runs) >= AtLeastOne(option.maxRuns)

StartRound ==
    /\ pc = "discover"
    /\ remaining = {} /\ pending # <<>> /\ ~Cut
    /\ rounds' = rounds + 1
    /\ points' = points \o pending
    /\ pending' = <<>>
    /\ remaining' = {[by |-> "discovery", set |-> {p}] : p \in ChoicesIn(pending)}
    /\ UNCHANGED <<system, option, frontier, runs, firstFailure, minimal, pc>>

Probe(scenario) ==
    /\ pc = "discover"
    /\ scenario \in remaining
    /\ Cardinality(runs) < AtLeastOne(option.maxRuns)
    /\ remaining' = remaining \ {scenario}
    /\ runs' = runs \cup {scenario}
    /\ Expand(scenario.set)
    /\ pending' = pending \o NewPoints(scenario.set)
    /\ UNCHANGED <<system, option, points, rounds, firstFailure, minimal, pc>>

\* Mutant: what the last round found is not reported.
PendingDropped == points

Reported == points \o pending

Discovered ==
    /\ pc = "discover"
    /\ remaining = {} \/ Cardinality(runs) >= AtLeastOne(option.maxRuns)
    /\ pending = <<>> \/ Cut
    /\ points' = Reported
    /\ pc' = "done"
    /\ UNCHANGED <<system, option, frontier, remaining, pending, rounds, runs,
                   firstFailure, minimal>>

ExplorationNext ==
    \/ Baseline
    \/ \E scenario \in Choosable : Try(scenario)
    \/ StopSearching
    \/ Return
    \/ StartRound
    \/ \E scenario \in remaining : Probe(scenario)
    \/ Discovered

ExplorationSpec == ExplorationInit /\ [][ExplorationNext]_explorationVars

---------------------------------------------------------------------------
Tried == {run.set : run \in runs}
Observed == UNION {CallsOf(set) : set \in Tried \cup {{}}}

\* dependencyCoverage: the calls of the baseline that no perturbation of a run matches.
Unexercised ==
    {call \in CallsOf({}) : \A set \in Tried : \A p \in set : call \notin system.about[p]}

OfferedFor(calls) == UNION {system.resolve[call] : call \in calls}

\* "Every execution can reveal previously unreachable dependency calls; those calls
\* immediately contribute fault points to the same search session" (adaptive.ts:41).  A
\* search that neither a limit nor a failure nor its own cap on candidates ended has
\* executed every combination of its choices, and what they match is no longer listed as
\* unexercised; of the static guided search this holds up to ids: a combination that has
\* the id of another one is not executed besides it.  The choices of an adaptive search
\* are every perturbation offered for a call that any of its own runs made, each under
\* one call only.
SearchClosesTheSpace ==
    /\ pc = "searched" /\ ~TooMany
    /\ Cardinality(runs) < RunLimit /\ ~(option.stop /\ firstFailure # NoRun)
    => /\ option.mode = "adaptive" =>
             /\ Names(ChoicesIn(points)) = Names(OfferedFor(Observed))
             /\ \A p, q \in ChoicesIn(points) : system.name[p] = system.name[q] => p = q
       /\ \A set \in Combinations(points, option.maxDepth) :
             \E run \in runs : Id(run) = Id(Combination(set))
       /\ option.mode # "guided" =>
             /\ Combinations(points, option.maxDepth) \subseteq Tried
             /\ option.maxDepth > 0 =>
                   \A p \in ChoicesIn(points) : system.about[p] \cap Unexercised = {}

\* The fault space lineage discovery reports has every perturbation offered for a call it
\* saw, also when a limit cut it off; and every choice was tried when none did.
DiscoveryReportsWhatItSaw ==
    (pc = "done" /\ option.mode = "discovery") =>
        /\ Names(ChoicesIn(points)) = Names(OfferedFor(Observed))
        /\ Cut \/ \A p \in ChoicesIn(points) : {p} \in Tried

\* A failing run is never lost: a search that executed one reports one, ends with it
\* when it stops at failures, and reduces the set that it reports.
FailuresAreReported ==
    /\ option.mode # "discovery" =>
         ((firstFailure # NoRun) <=> \E run \in runs : Fails(run.set))
    /\ option.stop /\ option.mode # "discovery" =>
         Cardinality({run \in runs : Fails(run.set)}) <= 1
    /\ pc = "done" /\ firstFailure # NoRun /\ option.minimize =>
         firstFailure \in runs /\ Fails(minimal) /\ minimal \subseteq firstFailure.set

\* A search that was not cut off has tried all it came to know, and none conceals what
\* it saw, calls and failures alike.
SearchesAreComplete ==
    SearchClosesTheSpace /\ DiscoveryReportsWhatItSaw /\ FailuresAreReported
=============================================================================

----------------------------- MODULE ScenarioPlan -----------------------------
(***************************************************************************)
(* planScenarios (packages/core/src/planner.ts) with the strategies it     *)
(* draws on: enumerateScenarios, pairwiseScenarios, guidedScenarios,       *)
(* coverageGuidedScenarios and incidents.  A plan is made from the same    *)
(* input twice, once without a limit and once with one.                    *)
(*                                                                         *)
(* Scores are in fractions (60ths and thirds) that are exact while no      *)
(* perturbation was executed more than five times.  Ids that sort equal    *)
(* scores are taken to sort as scenarios are enumerated.                   *)
(***************************************************************************)
EXTENDS FaultSpace, Integers, FiniteSetsExt

CONSTANTS Inputs,  \* [space, depth, strategy, incidents, previous]
          Limits,  \* the values of maxScenarios
          NoLimit  \* maxScenarios is not given

VARIABLES input, full, limit, plan, pc

vars == <<input, full, limit, plan, pc>>

First(n, seq) == IF n < Len(seq) THEN SubSeq(seq, 1, n) ELSE seq

Limited(max, seq) == IF max = NoLimit THEN seq ELSE First(AtLeastOne(max), seq)
Default(max) == IF max = NoLimit THEN 100 ELSE max

Exhaustive(max) == Limited(max, Enumerated(input.space, input.depth))

Pairwise(max) ==
    Limited(max, Enumerated(input.space, 1) \o PairwiseRows(input.space))

\* What earlier runs say of a perturbation, a pair or a scenario.
Executions(set) == Cardinality({k \in DOMAIN input.previous : set \subseteq input.previous[k].set})
FailuresOf(p) ==
    Cardinality({k \in DOMAIN input.previous : p \in input.previous[k].set /\ input.previous[k].failed})

SumOver(S, Of(_)) == FoldSet(LAMBDA x, sum : Of(x) + sum, 0, S)

\* guidedScenarios: 60 times the score, with the default weights.
GuidedScore(set) ==
    LET Of(p) == IF Executions({p}) = 0 THEN 60
                 ELSE ((240 * FailuresOf(p)) \div Executions({p})) + 60 \div (Executions({p}) + 1)
    IN  SumOver(set, Of) - 9 * Cardinality(set)

\* Guided scenarios leave out what was run, whatever its id was.
AlreadyRun(set) == \E run \in Elements(input.previous) : run.set = set

Guided(max) ==
    LET sets == {set \in Combinations(input.space, input.depth) : ~AlreadyRun(set)}
        Before(s, t) == \/ GuidedScore(s) > GuidedScore(t)
                        \/ GuidedScore(s) = GuidedScore(t) /\ EnumeratedBefore(input.space, s, t)
        list == Sorted(sets, Before)
    IN  First(Default(max), [k \in DOMAIN list |-> Combination(list[k])])

\* CoverageGuidance.score, times 3; the failing runs' perturbations are all on their
\* causal witnesses, and no selector names an operation.
CoverageScore(s) ==
    LET Of(p) == IF Executions({p}) = 0 THEN 3000
                 ELSE 360 \div (Executions({p}) + 1) + (60 + 135) * FailuresOf(p)
        OfPair(pair) == IF Executions(pair) = 0 THEN 750 ELSE 60 \div (Executions(pair) + 1)
        same == {k \in DOMAIN input.previous :
                    input.previous[k].by = s.by /\ input.previous[k].set = s.set}
        extra == IF Cardinality(s.set) > 3 THEN Cardinality(s.set) - 3 ELSE 0
    IN  SumOver(s.set, Of) + SumOver(kSubset(2, s.set), OfPair)
            - 6000 * Cardinality(same) - 15 * extra

\* coverageGuidedScenarios leaves out what was run under the same id.
RunAs(s) == \E run \in Elements(input.previous) : run.by = s.by /\ run.set = s.set

CoverageGuided(max) ==
    LET candidates == {s \in Elements(Enumerated(input.space, input.depth))
                             \cup Elements(Pairwise(NoLimit)) : ~RunAs(s)}
        Before(s, t) ==
            \/ CoverageScore(s) > CoverageScore(t)
            \/ /\ CoverageScore(s) = CoverageScore(t)
               /\ \/ EnumeratedBefore(input.space, s.set, t.set)
                  \/ s.set = t.set /\ s.by = "combination" /\ t.by = "pairwise"
    IN  First(Default(max), Sorted(candidates, Before))

Incidents == [k \in DOMAIN input.incidents |-> [by |-> "incident", set |-> input.incidents[k]]]

Strategy(max) ==
    CASE input.strategy = "exhaustive" -> Exhaustive(max)
      [] input.strategy = "pairwise" -> Pairwise(max)
      [] input.strategy = "guided" -> Guided(max)
      [] input.strategy = "coverage-guided" -> CoverageGuided(max)
      [] input.strategy = "incidents" -> Incidents
      [] input.strategy = "hybrid" ->
            Enumerated(input.space, 1) \o Incidents \o Pairwise(max)
                \o CoverageGuided(max) \o Guided(max)

\* Mutant: scenarios are told apart by their ids.
DeduplicateByName(list) ==
    LET kept == {k \in DOMAIN list : list[k].set # {} /\ \A j \in 1 .. k - 1 : list[j] # list[k]}
    IN  [n \in 1 .. Cardinality(kept) |-> list[Sorted(kept, Less)[n]]]

\* deduplicateScenarios: the first of those with one set, and none without one.
Deduplicated(list) ==
    LET kept == {k \in DOMAIN list :
                    list[k].set # {} /\ \A j \in 1 .. k - 1 : list[j].set # list[k].set}
    IN  [n \in 1 .. Cardinality(kept) |-> list[Sorted(kept, Less)[n]]]

\* Mutant: the limit is applied before the duplicates are taken out.
LimitedFirst(max) ==
    Deduplicated(IF max = NoLimit THEN Strategy(max) ELSE First(max, Strategy(max)))

Planned(max) ==
    LET list == Deduplicated(Strategy(max))
    IN  IF max = NoLimit THEN list ELSE First(max, list)

---------------------------------------------------------------------------
Init ==
    /\ input \in Inputs
    /\ full = <<>> /\ limit = NoLimit /\ plan = <<>> /\ pc = "start"

PlanScenarios ==
    /\ pc = "start"
    /\ full' = Planned(NoLimit)
    /\ pc' = "unlimited"
    /\ UNCHANGED <<input, limit, plan>>

PlanWithin(max) ==
    /\ pc = "unlimited"
    /\ limit' = max
    /\ plan' = Planned(max)
    /\ pc' = "limited"
    /\ UNCHANGED <<input, full>>

Next == PlanScenarios \/ \E max \in Limits : PlanWithin(max)

Spec == Init /\ [][Next]_vars

---------------------------------------------------------------------------
Sets(list) == {list[k].set : k \in DOMAIN list}

\* What a hybrid plan begins with: single perturbations, incidents, rows of the covering.
Basic(scenario) == scenario.by # "combination" \/ Cardinality(scenario.set) = 1

\* A limit takes nothing but the end off a plan: whatever a strategy cuts, scores or
\* takes for a duplicate on the way, a plan within a limit is what a plan without one
\* starts with.  Coverage guidance, which counts a combination and the row of the same
\* set against the limit twice, may stay below it; and so may a hybrid plan, in which
\* it then gives way to the other guidance, so that only what comes before both of them
\* keeps its place.  Both guidances stop at 100 by themselves.
LimitsCutPrefixes ==
    pc = "limited" /\ limit <= 100 =>
        /\ Len(plan) <= limit
        /\ input.strategy # "hybrid" => plan = First(Len(plan), full)
        /\ input.strategy \notin {"coverage-guided", "hybrid"} =>
              Len(plan) = Len(First(limit, full))
        /\ input.strategy = "hybrid" =>
              /\ Sets(plan) \subseteq Sets(full)
              /\ \A k \in DOMAIN First(limit, full) :
                    Basic(full[k]) => k \in DOMAIN plan /\ plan[k] = full[k]

\* Without a limit nothing is left out but what was run before, and nothing planned
\* twice: the fallback strategies may overlap.
UnlimitedPlansAreComplete ==
    pc # "start" =>
        /\ Len(full) = Cardinality(Sets(full))
        /\ {} \notin Sets(full)
        /\ input.strategy \in {"exhaustive", "guided", "coverage-guided", "hybrid"} =>
              \A set \in Combinations(input.space,
                            IF input.strategy = "hybrid" THEN 1 ELSE input.depth) :
                 set \in Sets(full) \/ (input.strategy \notin {"exhaustive", "hybrid"} /\ AlreadyRun(set))
        /\ input.strategy \in {"pairwise", "hybrid"} =>
              \A pair \in Combinations(input.space, 2) : \E set \in Sets(full) : pair \subseteq set
===============================================================================

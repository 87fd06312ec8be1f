------------------------------- MODULE MCStores -------------------------------
(***************************************************************************)
(* What one run leaves to the next: either the cache of results two        *)
(* workers share, with four scenarios: two that differ in their seed       *)
(* alone, one that differs from the first in what its perturbation does,   *)
(* and one without faults; or the CI runs of two suites over two  *)
(* perturbations, with a guidance file each and a budget for the first.    *)
(***************************************************************************)
EXTENDS ScenarioCache, CIRuns, TLC

VARIABLE caching  \* is this about the cache?

Symmetry == Permutations(Workers)

Slow(effect) == <<[named |-> "slow", effect |-> effect]>>

MCScenarios ==
    {[seed |-> s, perturbations |-> Slow("delayed")] : s \in 1 .. 2}
        \cup {[seed |-> 1, perturbations |-> Slow("dropped")],
              [seed |-> 1, perturbations |-> <<>>]}

Two == {"a", "b"}

\* Suites that are correct, have one culprit, or fail under both together only.
MCCodes == {{}, {{"a"}, Two}, {Two}}

MCCandidates == {[id |-> "a", set |-> {"a"}], [id |-> "a+b", set |-> Two]}

MCGuidanceFile == [s \in 1 .. 2 |-> s]

MCInit ==
    /\ Init
    /\ CIInit
    /\ caching \in BOOLEAN
    /\ caching => broken = [s \in Suites |-> {}]

MCNext ==
    \/ caching /\ Next /\ UNCHANGED <<caching, ciVars>>
    \/ ~caching /\ CINext /\ UNCHANGED <<caching, vars>>

MCSpec == MCInit /\ [][MCNext]_<<caching, vars, ciVars>>
===============================================================================

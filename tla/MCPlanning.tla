----------------------------- MODULE MCPlanning -----------------------------
(* From fault points to executions, in one run: the covering of four points, the
   plans of every strategy, the loops that explore a space that grows, and the
   agent elsewhere that a remote backend hands a scenario to.  A behaviour is one
   of the four; the other three rest in a state of their own. *)
EXTENDS PairwiseCovering, RemoteExecution, Exploration

CONSTANT NoLimit

VARIABLES input, full, limit, plan, planPc

planVars == <<input, full, limit, plan, planPc>>

MCChoiceCounts == [Points -> 0 .. 2] \cup {<<3, 2, 3, 2>>, <<1, 3, 2, 3>>}
MCLimits == {0, 1, 2, 5, 9, 100}

\* Earlier runs under the same id, under another one, and of a part of a row.
Run(by, set, failed) == [by |-> by, set |-> set, failed |-> failed]

\* Nine rows that are combinations as well, and guidances that do not agree: within a
\* limit of 17 the coverage guidance adds nothing to a hybrid plan.
Repeated ==
    [space |-> <<{1, 2, 3}, {4, 5, 6}, {7}>>, depth |-> 3, strategy |-> "hybrid",
     incidents |-> <<>>,
     previous |-> <<Run("combination", {1}, TRUE), Run("combination", {1}, TRUE)>>]
MCInputs ==
    {Repeated} \cup
    [space: {<<{1, 2}, {3}, {4}>>, <<{1}, {}, {2, 3}>>, <<{1, 2}>>, <<>>},
     depth: 1 .. 3,
     strategy: {"exhaustive", "pairwise", "guided", "coverage-guided", "incidents", "hybrid"},
     incidents: {<<>>, <<{1, 3}, {}, {3, 4}, {3, 1}>>},
     previous: {<<>>, <<Run("baseline", {}, FALSE), Run("combination", {1}, TRUE)>>,
                <<Run("combination", {1, 3}, FALSE), Run("pairwise", {1, 3, 4}, TRUE),
                  Run("incident", {2}, TRUE)>>}]

\* Three calls with up to two choices each, made always or only under some of them; a
\* perturbation offered for two calls; one that matches another call as well; limits that
\* cut a search off.
MCTriggers == {<<{}, second, third>> : second \in {{}, {1}}, third \in {{2}, {1, 2}}}
MCBroken == {{}, {{2}}, {{1, 3}, {1, 2, 3}}}
MCSystems ==
    [resolve: {<<{1, 2}, {3}, {}>>}, name: {<<1, 2, 3>>}, about: {<<{1, 2}, {1}, {2}>>},
     trigger: MCTriggers, broken: MCBroken]
        \cup [resolve: {<<{1}, {}, {2, 3}>>}, name: {<<1, 2, 3>>}, about: {<<{1}, {3}, {2, 3}>>},
              trigger: MCTriggers, broken: MCBroken]
        \cup [resolve: {<<{1}, {2, 3}, {4}>>}, name: {<<1, 1, 2, 3>>},
              about: {<<{1}, {2}, {2}, {3}>>},
              trigger: {<<{}, second, third>> : second \in {{}, {1}}, third \in {{3}, {1, 3}}},
              broken: MCBroken]
MCOptionSets ==
    [mode: {"exhaustive", "guided", "adaptive"}, maxDepth: {1, 2}, maxCandidates: {100},
     maxRuns: {0, 2, 100}, maxRounds: {1}, stop: BOOLEAN, minimize: {TRUE}]
        \cup [mode: {"guided", "adaptive"}, maxDepth: {2}, maxCandidates: {6}, maxRuns: {100},
              maxRounds: {1}, stop: {FALSE}, minimize: {FALSE}]
        \cup [mode: {"discovery"}, maxDepth: {1}, maxCandidates: {100},
              maxRuns: {0, 2, 100}, maxRounds: {1, 3}, stop: {TRUE}, minimize: {TRUE}]

P == INSTANCE ScenarioPlan WITH pc <- planPc, Inputs <- MCInputs, Limits <- 0 .. 6 \cup {17}

\* Two calls of a backend, one of them with a timeout, that reach an agent with or
\* without the one feature they need; one of the requests is delivered twice.
OneTwice ==
    /\ required = {"f"}
    /\ signed => ~decodes   \* a signed backend reads without a timer either way
    /\ \E twice \in {"a"} \cup (IF signed THEN {Query} ELSE {}) :
         handler = [r \in Requests |-> [k \in {1, 2} |->
                      IF k = 1 \/ r = twice THEN "underway" ELSE "lost"]]

CoveringRests ==
    /\ choices = [p \in Points |-> 0] /\ maxScenarios = 0
    /\ rows = <<>> /\ singles = {} /\ uncovered = {} /\ phase = "done"
PlanRests ==
    /\ input = [space |-> <<>>, depth |-> 1, strategy |-> "exhaustive",
                incidents |-> <<>>, previous |-> <<>>]
    /\ full = <<>> /\ limit = NoLimit /\ plan = <<>> /\ planPc = "rests"
SearchRests ==
    /\ system \in [resolve: {<<{}, {}, {}>>}, name: {<<>>}, about: {<<>>},
                   trigger: {<<{}, {}, {}>>}, broken: {{}}]
    /\ option \in [mode: {"guided"}, maxDepth: {1}, maxCandidates: {0},
                   maxRuns: {0}, maxRounds: {1}, stop: {TRUE}, minimize: {TRUE}]
    /\ points = <<>> /\ seenCalls = {} /\ seenPerturbations = {} /\ remaining = {}
    /\ pending = <<>> /\ rounds = 0 /\ runs = {} /\ firstFailure = NoRun
    /\ minimal = {} /\ pc = "rests"

RemoteRests ==
    /\ signed = FALSE /\ decodes = FALSE /\ available = {} /\ required = {}
    /\ negotiation = "none" /\ queries = 0 /\ clock = 2 /\ overlapped = {}
    /\ call = [c \in {"a", "b"} |-> "error"]
    /\ sent = [r \in Requests |-> Unsent] /\ nonces = [r \in Requests |-> Unsent]
    /\ handler = [r \in Requests |-> [k \in {1, 2} |-> "lost"]]
    /\ checkedAt = [r \in Requests |-> [k \in {1, 2} |-> 0]]

MCInit ==
    \/ Init /\ PlanRests /\ SearchRests /\ RemoteRests
    \/ CoveringRests /\ P!Init /\ SearchRests /\ RemoteRests
    \/ CoveringRests /\ PlanRests /\ ExplorationInit /\ RemoteRests
    \/ CoveringRests /\ PlanRests /\ SearchRests /\ RemoteInit /\ OneTwice
MCNext ==
    \/ Next /\ UNCHANGED <<planVars, explorationVars, remoteVars>>
    \/ P!Next /\ UNCHANGED <<vars, explorationVars, remoteVars>>
    \/ ExplorationNext /\ UNCHANGED <<vars, planVars, remoteVars>>
    \/ RemoteNext /\ UNCHANGED <<vars, planVars, explorationVars>>
MCSpec ==
    MCInit /\ [][MCNext]_<<vars, planVars, explorationVars, remoteVars>> /\ Fairness

\* A plan has all that its strategy promises, up to a limit that only cuts its end off.
PlansAreComplete == P!LimitsCutPrefixes /\ P!UnlimitedPlansAreComplete
=============================================================================

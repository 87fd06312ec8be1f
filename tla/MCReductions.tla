------------------------------ MODULE MCReductions ------------------------------
(***************************************************************************)
(* Two reductions: minimizeFailureSet of every set of at most three        *)
(* perturbations for every oracle, flaky ones included; and the rounds of  *)
(* the shrinkers for two perturbations, four commands and systems in which *)
(* few pairs of the two fail, or few do not.                               *)
(***************************************************************************)
EXTENDS FailureMinimizer, CounterexampleShrinker

CONSTANT WorkloadSize

FlakyVerdicts == {{TRUE}, {FALSE}, {TRUE, FALSE}}

\* The third command needs the first.
NeedsOf == [i \in 1 .. WorkloadSize |-> IF i = 3 THEN {1} ELSE {}]

Perturbations == {1, 2}
Whole == [i \in 1 .. WorkloadSize |-> i]
Subsequences == {SelectSeq(Whole, LAMBDA i : i \in kept) : kept \in SUBSET (1 .. WorkloadSize)}
Pairs == (SUBSET Perturbations) \X Subsequences

Few == {{one, other} : one, other \in Pairs}
Inputs(pairs) == [given |-> Perturbations, workload |-> Whole, failing |-> pairs]
SmallSystems ==
    {Inputs(few \cup {<<Perturbations, Whole>>}) : few \in Few} \cup {Inputs(Pairs \ few) : few \in Few}

\* The smallest input: nothing is handed in, and it does not fail.
MinimizerRests == Init /\ original = {} /\ oracle[{}] = {FALSE}

ShrinkerRests ==
    /\ given = {} /\ failing = {} /\ checked = FALSE /\ workload = <<>>
    /\ faults = {} /\ before = <<{}, <<>>>> /\ scan = 0 /\ faultAttempts = 0
    /\ reducing = "verify" /\ granularity = 2 /\ start = 0 /\ rounds = 0
    /\ phase = "threw"

MCInit == (Init /\ ShrinkerRests) \/ (MinimizerRests /\ ShrinkInit)

MCNext ==
    \/ Next /\ UNCHANGED shrinkVars
    \/ ShrinkNext /\ UNCHANGED vars

MCSpec == MCInit /\ [][MCNext]_<<vars, shrinkVars>> /\ WF_<<vars, shrinkVars>>(MCNext)
================================================================================

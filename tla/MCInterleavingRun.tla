--------------------------- MODULE MCInterleavingRun ---------------------------
(***************************************************************************)
(* Runs of three actors of up to two suspension points under every         *)
(* schedule of at most three releases; and explorations of three actors    *)
(* with up to four points in all.                                          *)
(***************************************************************************)
EXTENDS InterleavingRun, SequencesExt

VARIABLES system, bad, options, yieldPoints, schedules, outcomes, failures, divergences, phase

exploration == <<system, bad, options, yieldPoints, schedules, outcomes, failures,
                 divergences, phase>>

\* late: the actor that has a point more when it is released first, 0 for none.
SmallSystems ==
    {s \in [points : [Actor -> 0 .. 2], late : {0, 1, Actors}] :
        s.points[1] + s.points[2] + s.points[3] <= 3}

E == INSTANCE ScheduleExploration WITH
    Systems <- SmallSystems, Limits <- {0, 3, 64}, divergent <- divergences

ShortSchedules == SeqOf(Actor, 3)

RunRests ==
    /\ schedule = <<>> /\ blockedOn = [a \in Actor |-> 0] /\ left = [a \in Actor |-> 0]
    /\ state = [a \in Actor |-> "done"] /\ loop = "ended" /\ wake = FALSE
    /\ expired = FALSE /\ observed = <<>> /\ divergent = FALSE

ExplorationRests ==
    /\ system = [points |-> [a \in Actor |-> 0], late |-> 0] /\ bad = <<>>
    /\ options = [yieldPoints |-> <<>>, limit |-> 0, stop |-> TRUE]
    /\ yieldPoints = <<>> /\ schedules = <<>> /\ phase = "done"
    /\ outcomes = <<>> /\ failures = <<<<>>>> /\ divergences = {}

MCInit == (Init /\ ExplorationRests) \/ (RunRests /\ E!Init)

MCNext ==
    \/ Next /\ UNCHANGED exploration
    \/ E!Next /\ UNCHANGED vars

MCSpec == MCInit /\ [][MCNext]_<<vars, exploration>> /\ Fairness

CompleteMeansEveryOrder == E!CompleteMeansEveryOrder
===============================================================================

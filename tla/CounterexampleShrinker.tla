------------------------ MODULE CounterexampleShrinker ------------------------
(***************************************************************************)
(* shrinkCounterexample and shrinkModelCounterexample (packages/fast-check *)
(* /src): rounds of minimizeFailureSet on the perturbations and of         *)
(* shrinkSequence on the workload, each against what the other left, until *)
(* a round changes nothing.  The reduction of the perturbations is that of *)
(* FailureMinimizer.  A command is its position in the workload.           *)
(***************************************************************************)
EXTENDS Naturals, Sequences, FiniteSets

CONSTANTS MaxFaults,              \* perturbations are 1 .. MaxFaults
          Commands,
          Needs,                  \* per command, those its precondition asks for
          Systems,                \* the inputs: given, workload and failing, see below
          MaxRounds

ASSUME FaultsAssumption == MaxFaults \in Nat
ASSUME SystemsAssumption ==
    \A s \in Systems : s.given \subseteq 1 .. MaxFaults /\ s.workload \in Seq(Commands)

VARIABLES given,          \* the perturbations handed in
          failing,        \* the pairs of perturbations and workload that fail
          checked,        \* commands are checked against a model
          faults, scan, faultAttempts, reducing,  \* minimizeFailureSet
          workload, granularity, start,             \* shrinkSequence
          before,         \* the round's perturbations and workload
          rounds, phase

shrinkVars == <<given, failing, checked, faults, scan, faultAttempts, reducing,
          workload, granularity, start, before, rounds, phase>>
reduction == <<faults, scan, faultAttempts, reducing>>
shrinking == <<workload, granularity, start>>

Fails(perturbations, commands) == <<perturbations, commands>> \in failing

\* minimizeFailureSet(currentFaults, candidate => reproduces(candidate, currentWorkload)).
Minimizer == INSTANCE FailureMinimizer WITH
    MaxSize <- MaxFaults, VerdictSets <- (SUBSET BOOLEAN) \ {{}},
    original <- given, candidate <- faults, cursor <- scan, attempts <- faultAttempts,
    pc <- reducing,
    oracle <- [perturbations \in SUBSET given |-> {Fails(perturbations, workload)}]

\* validateCommandSequence: every command finds its precondition true.
Valid(commands) ==
    \A i \in DOMAIN commands :
        Needs[commands[i]] \subseteq {commands[j] : j \in 1 .. i - 1}

StillFails(commands) == (checked => Valid(commands)) /\ Fails(faults, commands)

---------------------------------------------------------------------------
BeginRound ==
    /\ phase = "start"
    /\ IF (checked => Valid(workload)) /\ Fails(faults, workload)
       THEN /\ phase' = "faults" /\ rounds' = rounds + 1
            /\ before' = <<faults, workload>>
            /\ reducing' = "verify" /\ scan' = 0
       ELSE phase' = "threw" /\ UNCHANGED <<rounds, before, reducing, scan>>
    /\ UNCHANGED <<given, failing, checked, faults, faultAttempts, shrinking>>

ReduceFaults ==
    /\ phase = "faults" /\ reducing \notin {"done", "threw"}
    /\ UNCHANGED <<given, failing, checked, shrinking, before, rounds, phase>>
    /\ Minimizer!Next

FaultsReduced ==
    /\ phase = "faults" /\ reducing = "done"
    /\ IF StillFails(workload) THEN phase' = "workload" ELSE phase' = "threw"
    /\ granularity' = 2 /\ start' = 0
    /\ UNCHANGED <<given, failing, checked, reduction, workload, before, rounds>>

Ceiling(m, n) == (m + n - 1) \div n
Chunk == Ceiling(Len(workload), granularity)
Without(from, n) == SubSeq(workload, 1, from) \o SubSeq(workload, from + n + 1, Len(workload))

\* Mutant: the scan ends when the chunks are pairs.
EveryChunkTriedCoarsely == 2 * granularity >= Len(workload)

EveryChunkTried == granularity >= Len(workload)

Smaller(m, n) == IF m < n THEN m ELSE n
Larger(m, n) == IF m < n THEN n ELSE m

\* One attempt: the workload without the chunk at start.
Drop ==
    /\ phase = "workload" /\ Len(workload) >= 2 /\ start < Len(workload)
    /\ StillFails(Without(start, Chunk))
    /\ workload' = Without(start, Chunk)
    /\ granularity' = Larger(2, granularity - 1) /\ start' = 0
    /\ UNCHANGED <<given, failing, checked, reduction, before, rounds, phase>>

KeepChunk ==
    /\ phase = "workload" /\ Len(workload) >= 2 /\ start < Len(workload)
    /\ ~StillFails(Without(start, Chunk))
    /\ start' = start + Chunk
    /\ UNCHANGED <<given, failing, checked, reduction, workload, granularity, before, rounds, phase>>

Refine ==
    /\ phase = "workload" /\ Len(workload) >= 2 /\ start >= Len(workload)
    /\ ~EveryChunkTried
    /\ granularity' = Smaller(Len(workload), granularity * 2) /\ start' = 0
    /\ UNCHANGED <<given, failing, checked, reduction, workload, before, rounds, phase>>

\* Mutant: the round is compared with the perturbations only.
UnchangedFaults == faults = before[1]

\* The code compares the sizes: both reductions only remove.
RoundChangedNothing ==
    Cardinality(faults) = Cardinality(before[1]) /\ Len(workload) = Len(before[2])

EndRound ==
    /\ phase = "workload"
    /\ Len(workload) < 2 \/ (start >= Len(workload) /\ EveryChunkTried)
    /\ IF RoundChangedNothing
       THEN phase' = "settled" /\ UNCHANGED <<rounds, before, reducing, scan>>
       ELSE IF rounds = MaxRounds
       THEN phase' = "gave_up" /\ UNCHANGED <<rounds, before, reducing, scan>>
       ELSE /\ phase' = "faults" /\ rounds' = rounds + 1
            /\ before' = <<faults, workload>>
            /\ reducing' = "verify" /\ scan' = 0
    /\ UNCHANGED <<given, failing, checked, faults, faultAttempts, shrinking>>

ShrinkInit ==
    /\ \E s \in Systems : given = s.given /\ workload = s.workload /\ failing = s.failing
    /\ checked \in BOOLEAN
    /\ faults = given /\ before = <<given, workload>>
    /\ scan = 0 /\ faultAttempts = 0 /\ reducing = "verify"
    /\ granularity = 2 /\ start = 0 /\ rounds = 0 /\ phase = "start"

ShrinkNext ==
    \/ BeginRound \/ ReduceFaults \/ FaultsReduced
    \/ Drop \/ KeepChunk \/ Refine \/ EndRound

ShrinkSpec == ShrinkInit /\ [][ShrinkNext]_shrinkVars

---------------------------------------------------------------------------
(* Properties *)

Shrunk == phase \in {"settled", "gave_up"}

Shorter(commands, i) == SubSeq(commands, 1, i - 1) \o SubSeq(commands, i + 1, Len(commands))

\* Alternating until neither changes ends with a witness of which no single perturbation
\* and no single command can be left out: what each half was reduced against is what the
\* other half became.  The witness is reproducible, and legal for the model, even when the
\* rounds run out, and no attempt of the next round throws.  A workload of one command is
\* not tried without it (shrink.ts:46 shrinkCounterexample, model-shrink.ts).
JointlyOneMinimal ==
    /\ phase = "threw" => rounds = 0
    /\ Shrunk => StillFails(workload)
    /\ phase = "settled" =>
          /\ \A p \in faults : ~Fails(faults \ {p}, workload)
          /\ Len(workload) >= 2 =>
                \A i \in DOMAIN workload : ~StillFails(Shorter(workload, i))
===============================================================================

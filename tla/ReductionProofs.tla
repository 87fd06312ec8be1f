---------------------------- MODULE ReductionProofs ----------------------------
(***************************************************************************)
(* Theorems about FailureMinimizer, for sets of any size and any oracle,   *)
(* and about CounterexampleShrinker, for inputs of any size.               *)
(***************************************************************************)
EXTENDS FailureMinimizer, CounterexampleShrinker, SequenceTheorems, TLAPS

USE SizeAssumption, VerdictAssumption

LEMMA InitEstablishesScanInv == Init => ScanInv
  BY DEF Init, ScanInv, TypeOK

\* Every step of the loop keeps the part of the pass behind the cursor refuted.
LEMMA NextPreservesScanInv == ScanInv /\ [Next]_vars => ScanInv'
<1> SUFFICES ASSUME ScanInv, [Next]_vars
             PROVE  ScanInv'
    OBVIOUS
<1>a. TypeOK
    BY DEF ScanInv
<1>1. CASE VerifyOriginal
  <2>1. TypeOK'
      BY <1>1, <1>a DEF VerifyOriginal, TypeOK
  <2>2. pc' \in {"scan", "threw"} /\ (pc' = "scan" => TRUE \in oracle'[candidate'])
      BY <1>1 DEF VerifyOriginal, Reproduces
  <2>3. \A q \in candidate' : ~ (q <= cursor')
      BY <1>1, <1>a DEF VerifyOriginal, ScanInv, TypeOK
  <2> QED BY <2>1, <2>2, <2>3 DEF ScanInv
<1>2. ASSUME NEW p \in candidate, Remove(p)
      PROVE  ScanInv'
  <2>1. TypeOK'
      BY <1>2, <1>a DEF Remove, CursorAfterRemoval, TypeOK
  <2>2. pc' = "scan" /\ TRUE \in oracle'[candidate']
      BY <1>2 DEF Remove, Reproduces
  <2>3. \A q \in candidate' : ~ (q <= cursor')
      BY <1>2, <1>a DEF Remove, CursorAfterRemoval, TypeOK
  <2> QED BY <2>1, <2>2, <2>3 DEF ScanInv
<1>3. ASSUME NEW p \in candidate, Keep(p)
      PROVE  ScanInv'
  <2>1. TypeOK'
      BY <1>3, <1>a DEF Keep, CursorAfterRefutation, TypeOK
  <2>2. /\ pc' = "scan" /\ pc = "scan"
        /\ UNCHANGED <<oracle, candidate>>
        /\ cursor' = p
      BY <1>3 DEF Keep, CursorAfterRefutation
  <2>3. ASSUME NEW q \in candidate, q <= p
        PROVE  FALSE \in oracle[candidate \ {q}]
    <3>1. q <= cursor \/ q = p
        BY <1>3, <1>a, <2>3 DEF Keep, IsNextIndex, TypeOK
    <3>2. FALSE \in oracle[candidate \ {p}]
        BY <1>3 DEF Keep, DoesNotReproduce
    <3> QED BY <2>2, <3>1, <3>2 DEF ScanInv
  <2> QED BY <2>1, <2>2, <2>3 DEF ScanInv
<1>4. CASE Finish
  <2>1. TypeOK'
      BY <1>4, <1>a DEF Finish, TypeOK
  <2> QED BY <1>4, <2>1 DEF Finish, PassIsOver, ScanInv
<1>5. CASE UNCHANGED vars
  <2>1. TypeOK'
      BY <1>5, <1>a DEF vars, TypeOK
  <2> QED BY <1>5, <2>1 DEF vars, PassIsOver, ScanInv
<1> QED BY <1>1, <1>2, <1>3, <1>4, <1>5 DEF Next, Ended

\* The loop invariant of minimizeFailureSet (search.ts:100-111).
THEOREM LoopInvariant == Spec => []ScanInv
  BY InitEstablishesScanInv, NextPreservesScanInv, PTL DEF Spec

\* The state of the reduction keeps its type.
THEOREM TypeCorrectness == Spec => []TypeOK
<1>1. ScanInv => TypeOK
    BY DEF ScanInv
<1> QED BY <1>1, LoopInvariant, PTL

\* Whatever is returned was executed and failed (search.ts:105-106, 113).
THEOREM ReportedSetFailsHolds == Spec => []ReportedSetFails
<1>1. ScanInv => ReportedSetFails
    BY DEF ScanInv, ReportedSetFails
<1> QED BY <1>1, LoopInvariant, PTL

\* The doc comment of minimizeFailureSet (search.ts:82-85): 1-minimality.
THEOREM OneMinimality == Spec => []ReportedSetIsOneMinimal
<1>1. ScanInv => ReportedSetIsOneMinimal
  <2> SUFFICES ASSUME ScanInv, pc = "done", NEW p \in candidate
               PROVE  FALSE \in oracle[candidate \ {p}]
      BY DEF ReportedSetIsOneMinimal
  <2>1. ~ (p > cursor)
      BY DEF ScanInv, PassIsOver
  <2>2. p <= cursor
      BY <2>1 DEF ScanInv, TypeOK
  <2> QED BY <2>2 DEF ScanInv
<1> QED BY <1>1, LoopInvariant, PTL

\* The loop implements the abstract reduction: initial states map to initial
\* states, each step to a step or a stutter.
THEOREM RefinesReduction == Spec => ImplementsReduction
<1>1. Init => Reduction!Init
  <2> SUFFICES ASSUME Init PROVE Reduction!Init
      OBVIOUS
  <2>1. Status = "reducing"
      BY DEF Init, Status
  <2>2. oracle \in [SUBSET candidate -> SUBSET BOOLEAN]
      BY DEF Init
  <2> QED BY <2>1, <2>2 DEF Reduction!Init
<1>2. ScanInv /\ ScanInv' /\ [Next]_vars => [Reduction!Next]_(Reduction!vars)
  <2> SUFFICES ASSUME ScanInv, ScanInv', [Next]_vars
               PROVE  [Reduction!Next]_(Reduction!vars)
      OBVIOUS
  <2> USE DEF Reduction!vars, Reduction!MayFail, Reduction!MayPass
  <2>1. CASE VerifyOriginal
    <3>1. CASE Reproduces(candidate) /\ pc' = "scan"
        BY <2>1, <3>1 DEF VerifyOriginal, Status
    <3>2. CASE DoesNotReproduce(candidate) /\ pc' = "threw"
      <4>1. Reduction!Reject
          BY <2>1, <3>2 DEF VerifyOriginal, Status, Reduction!Reject, DoesNotReproduce
      <4> QED BY <4>1 DEF Reduction!Next
    <3> QED BY <2>1, <3>1, <3>2 DEF VerifyOriginal
  <2>2. ASSUME NEW p \in candidate, Remove(p)
        PROVE  [Reduction!Next]_(Reduction!vars)
    <3>1. Reduction!Drop(p)
        BY <2>2 DEF Remove, Status, Reproduces, Reduction!Drop
    <3> QED BY <3>1 DEF Reduction!Next
  <2>3. ASSUME NEW p \in candidate, Keep(p)
        PROVE  [Reduction!Next]_(Reduction!vars)
      BY <2>3 DEF Keep, Status
  <2>4. CASE Finish
    <3>1. /\ Status = "reducing" /\ Status' = "reported"
          /\ UNCHANGED <<oracle, candidate>>
        BY <2>4 DEF Finish, Status
    <3>2. TRUE \in oracle[candidate]
        BY <2>4 DEF Finish, ScanInv
    <3>3. ASSUME NEW p \in candidate
          PROVE  FALSE \in oracle[candidate \ {p}]
      <4>1. p <= cursor
          BY <2>4 DEF Finish, PassIsOver, ScanInv, TypeOK
      <4> QED BY <2>4, <4>1 DEF Finish, ScanInv
    <3>4. Reduction!Report
        BY <3>1, <3>2, <3>3 DEF Reduction!Report, Reduction!OneMinimal
    <3> QED BY <3>4 DEF Reduction!Next
  <2>5. CASE Ended
      BY <2>5 DEF Ended, vars, Status
  <2>6. CASE UNCHANGED vars
      BY <2>6 DEF vars, Status
  <2> QED BY <2>1, <2>2, <2>3, <2>4, <2>5, <2>6 DEF Next
<1> QED BY <1>1, <1>2, LoopInvariant, PTL DEF Spec, ImplementsReduction, Reduction!Spec

-------------------------------------------------------------------------------
(* The shrinkers *)

ShrinkTypes ==
  /\ given \subseteq 1..MaxFaults
  /\ faults \subseteq given
  /\ scan \in Nat
  /\ workload \in Seq(Commands)
  /\ granularity \in Nat \ {0}
  /\ start \in Nat
  /\ before[2] \in Seq(Commands)
  /\ rounds \in Nat
  /\ phase \in {"start", "faults", "workload", "settled", "gave_up", "threw"}

\* What the present pass of minimizeFailureSet has established, for this workload.
FaultScan ==
  /\ workload = before[2]
  /\ reducing \in {"verify", "scan", "done"}
  /\ reducing = "verify" => scan = 0
  /\ reducing # "verify" =>
       \A q \in faults : q <= scan => ~ Fails(faults \ {q}, workload)
  /\ reducing = "done" => \A q \in faults : q <= scan

FaultsNeeded(commands) == \A p \in faults : ~ Fails(faults \ {p}, commands)

CommandsNeeded(upto) ==
  \A i \in 1..upto : i <= Len(workload) => ~ StillFails(Shorter(workload, i))

\* The inductive invariant: a witness fails at all times; the perturbations were
\* reduced against the workload the round began with, which is still the present one
\* or longer; a pass over single commands has refuted those it went past.
JointInv ==
  /\ ShrinkTypes
  /\ phase \in {"start", "threw"} => rounds = 0
  /\ phase \notin {"start", "threw"} => StillFails(workload)
  /\ workload = before[2] \/ Len(workload) < Len(before[2])
  /\ phase = "faults" => FaultScan
  /\ phase \in {"workload", "settled", "gave_up"} => FaultsNeeded(before[2])
  /\ phase = "workload" /\ EveryChunkTried => CommandsNeeded(start)
  /\ phase = "settled" =>
       workload = before[2] /\ (Len(workload) >= 2 => CommandsNeeded(Len(workload)))

\* A chunk holds a command at least, and no more than one when there are as many chunks
\* as commands.
LEMMA CeilingBounds ==
  ASSUME NEW m \in Nat \ {0}, NEW n \in Nat \ {0}
  PROVE  Ceiling(m, n) \in Nat \ {0} /\ (n >= m => Ceiling(m, n) = 1)
<1> DEFINE q == (m + n - 1) \div n
<1>1. q \in Int
    OBVIOUS
<1>2. n * q <= m + n - 1 /\ m + n - 1 < n * q + n
    OBVIOUS
<1>3. q >= 1
  <2>1. SUFFICES ASSUME q <= 0 PROVE FALSE
      BY <1>1
  <2>2. n * q <= 0
      BY <2>1, <1>1
  <2> HIDE DEF q
  <2> QED BY <1>1, <1>2, <2>2
<1>4. ASSUME n >= m PROVE q = 1
  <2>1. SUFFICES ASSUME q >= 2 PROVE FALSE
      BY <1>1, <1>3
  <2>2. n * q >= n * 2
      BY <2>1, <1>1
  <2> HIDE DEF q
  <2> QED BY <1>1, <1>2, <1>4, <2>2
<1> HIDE DEF q
<1>5. q \in Nat \ {0}
    BY <1>1, <1>3
<1> QED BY <1>4, <1>5 DEF q, Ceiling

\* Leaving out a chunk that is there leaves fewer commands.
LEMMA DroppingShortens ==
  ASSUME NEW w \in Seq(Commands), NEW from \in Nat, from < Len(w), NEW n \in Nat \ {0}
  PROVE  LET rest == SubSeq(w, 1, from) \o SubSeq(w, from + n + 1, Len(w))
         IN  rest \in Seq(Commands) /\ Len(rest) < Len(w)
<1> DEFINE l == SubSeq(w, 1, from)
           r == SubSeq(w, from + n + 1, Len(w))
<1>1. Len(w) \in Nat /\ \A i \in 1..Len(w) : w[i] \in Commands
    BY LenProperties, ElementOfSeq
<1>2. l \in Seq(Commands) /\ Len(l) = from
    BY <1>1, SubSeqProperties
<1>3. r \in Seq(Commands) /\ Len(r) = IF from + n + 1 <= Len(w) THEN Len(w) - (from + n) ELSE 0
  <2>1. \A i \in from + n + 1..Len(w) : w[i] \in Commands
      BY <1>1
  <2> QED BY <1>1, <2>1, SubSeqProperties
<1> HIDE DEF l, r
<1>4. l \o r \in Seq(Commands) /\ Len(l \o r) = Len(l) + Len(r)
    BY <1>2, <1>3, ConcatProperties
<1>5. Len(l \o r) < Len(w)
    BY <1>1, <1>2, <1>3, <1>4
<1> QED BY <1>4, <1>5 DEF l, r

LEMMA InitEstablishesJointInv == ShrinkInit => JointInv
<1> SUFFICES ASSUME ShrinkInit PROVE JointInv
    OBVIOUS
<1>1. given \subseteq 1..MaxFaults /\ workload \in Seq(Commands)
    BY SystemsAssumption DEF ShrinkInit
<1>2. faults = given /\ before[2] = workload /\ phase = "start" /\ rounds = 0
    BY DEF ShrinkInit
<1>3. ShrinkTypes
    BY <1>1, <1>2 DEF ShrinkInit, ShrinkTypes
<1> QED BY <1>1, <1>2, <1>3 DEF JointInv

\* What the executions of the reduction's candidates answer.
LEMMA OracleAnswers ==
  ASSUME ShrinkTypes, NEW S \in SUBSET given
  PROVE  LET answers == [perturbations \in SUBSET given |-> {Fails(perturbations, workload)}]
         IN  /\ TRUE \in answers[S] => Fails(S, workload)
             /\ FALSE \in answers[S] => ~ Fails(S, workload)
  BY DEF Fails

LEMMA BeginRoundPreserves == JointInv /\ BeginRound => JointInv'
<1> SUFFICES ASSUME JointInv, BeginRound PROVE JointInv'
    OBVIOUS
<1> USE DEF shrinking, StillFails, Fails
<1>1. ShrinkTypes /\ rounds = 0 /\ phase = "start"
    BY DEF JointInv, BeginRound
<1>2. UNCHANGED <<given, failing, checked, faults, workload, granularity, start>>
    BY DEF BeginRound
<1>3. CASE StillFails(workload)
  <2>1. /\ phase' = "faults" /\ rounds' = 1 /\ before' = <<faults, workload>>
        /\ reducing' = "verify" /\ scan' = 0
      BY <1>1, <1>3 DEF BeginRound
  <2>2. ShrinkTypes'
      BY <1>1, <1>2, <2>1 DEF ShrinkTypes
  <2>3. FaultScan'
      BY <1>2, <2>1 DEF FaultScan
  <2>4. StillFails(workload)'
      BY <1>2, <1>3
  <2> QED BY <1>2, <2>1, <2>2, <2>3, <2>4 DEF JointInv
<1>4. CASE ~ StillFails(workload)
  <2>1. phase' = "threw" /\ UNCHANGED <<rounds, before, scan>>
      BY <1>4 DEF BeginRound
  <2>2. ShrinkTypes'
      BY <1>1, <1>2, <2>1 DEF ShrinkTypes
  <2> QED BY <1>1, <1>2, <2>1, <2>2 DEF JointInv
<1> QED BY <1>3, <1>4

\* A step of the reduction: what it establishes is about the workload of this round.
LEMMA ReduceFaultsPreserves == JointInv /\ ReduceFaults => JointInv'
<1> SUFFICES ASSUME JointInv, ReduceFaults PROVE JointInv'
    OBVIOUS
<1> DEFINE answers == [perturbations \in SUBSET given |-> {Fails(perturbations, workload)}]
<1>1. ShrinkTypes /\ FaultScan /\ phase = "faults" /\ StillFails(workload)
    BY DEF JointInv, ReduceFaults
<1>2. UNCHANGED <<given, failing, checked, workload, granularity, start, before, rounds, phase>>
    BY DEF ReduceFaults, shrinking
<1>3. \A S \in SUBSET given : /\ TRUE \in answers[S] => Fails(S, workload)
                              /\ FALSE \in answers[S] => ~ Fails(S, workload)
    BY <1>1, OracleAnswers
<1> SUFFICES /\ faults' \subseteq faults
             /\ scan' \in Nat
             /\ Fails(faults', workload)
             /\ FaultScan'
  <2> ASSUME /\ faults' \subseteq faults
             /\ scan' \in Nat
             /\ Fails(faults', workload)
             /\ FaultScan'
      PROVE  JointInv'
    <3>1. ShrinkTypes'
        BY <1>1, <1>2 DEF ShrinkTypes
    <3>2. StillFails(workload)'
        BY <1>1, <1>2 DEF StillFails, Fails
    <3> QED BY <1>1, <1>2, <3>1, <3>2 DEF JointInv
  <2> QED OBVIOUS
<1>4. ASSUME UNCHANGED <<faults, scan, reducing>>
      PROVE  FaultScan' /\ Fails(faults, workload)
    BY <1>1, <1>2, <1>4 DEF FaultScan, Fails, StillFails
<1>5. CASE Minimizer!VerifyOriginal
  <2>1. UNCHANGED <<faults, scan>> /\ reducing = "verify"
      BY <1>5 DEF Minimizer!VerifyOriginal
  <2>2. Fails(faults, workload) /\ scan = 0
      BY <1>1, <2>1 DEF StillFails, FaultScan
  <2>3. reducing' = "scan"
    <3>1. CASE TRUE \in answers[faults] /\ reducing' = "scan"
        BY <3>1
    <3>2. CASE FALSE \in answers[faults] /\ reducing' = "threw"
        BY <1>1, <1>3, <2>2, <3>2 DEF ShrinkTypes
    <3> QED BY <1>5, <3>1, <3>2
            DEF Minimizer!VerifyOriginal, Minimizer!Reproduces, Minimizer!DoesNotReproduce
  <2>4. \A q \in faults : ~ (q <= scan)
      BY <1>1, <2>2 DEF ShrinkTypes
  <2>5. FaultScan'
      BY <1>1, <1>2, <2>1, <2>3, <2>4 DEF FaultScan
  <2> QED BY <1>1, <2>1, <2>2, <2>5 DEF ShrinkTypes
<1>6. ASSUME NEW p \in faults, Minimizer!Remove(p)
      PROVE  /\ faults' \subseteq faults
             /\ scan' \in Nat
             /\ Fails(faults', workload)
             /\ FaultScan'
  <2>1. faults' = faults \ {p} /\ scan' = 0 /\ reducing = "scan" /\ reducing' = "scan"
      BY <1>6 DEF Minimizer!Remove, Minimizer!CursorAfterRemoval
  <2>2. TRUE \in answers[faults \ {p}]
      BY <1>6 DEF Minimizer!Remove, Minimizer!Reproduces
  <2>3. Fails(faults \ {p}, workload)
      BY <1>1, <1>3, <2>2 DEF ShrinkTypes
  <2>4. \A q \in faults' : ~ (q <= scan')
      BY <1>1, <2>1 DEF ShrinkTypes
  <2>5. FaultScan'
      BY <1>1, <1>2, <2>1, <2>4 DEF FaultScan
  <2> QED BY <2>1, <2>3, <2>5
<1>7. ASSUME NEW p \in faults, Minimizer!Keep(p)
      PROVE  /\ faults' \subseteq faults
             /\ scan' \in Nat
             /\ Fails(faults', workload)
             /\ FaultScan'
  <2>1. UNCHANGED faults /\ scan' = p /\ reducing = "scan" /\ reducing' = "scan"
      BY <1>7 DEF Minimizer!Keep, Minimizer!CursorAfterRefutation
  <2>2. FALSE \in answers[faults \ {p}]
      BY <1>7 DEF Minimizer!Keep, Minimizer!DoesNotReproduce
  <2>3. ~ Fails(faults \ {p}, workload)
      BY <1>1, <1>3, <2>2 DEF ShrinkTypes
  <2>4. \A q \in faults : q > scan => p <= q
      BY <1>7 DEF Minimizer!Keep, Minimizer!IsNextIndex
  <2>5. ASSUME NEW q \in faults, q <= p PROVE ~ Fails(faults \ {q}, workload)
    <3>1. q \in Nat /\ p \in Nat /\ scan \in Nat
        BY <1>1 DEF ShrinkTypes
    <3>2. q <= scan \/ q = p
        BY <2>4, <2>5, <3>1
    <3> QED BY <1>1, <2>1, <2>3, <3>2 DEF FaultScan
  <2>6. FaultScan'
      BY <1>1, <1>2, <2>1, <2>5 DEF FaultScan, Fails
  <2>7. p \in Nat
      BY <1>1 DEF ShrinkTypes
  <2> QED BY <1>1, <2>1, <2>6, <2>7 DEF StillFails
<1>8. CASE Minimizer!Finish
  <2>1. UNCHANGED <<faults, scan>> /\ reducing = "scan" /\ reducing' = "done"
      BY <1>8 DEF Minimizer!Finish
  <2>2. \A q \in faults : ~ (q > scan)
      BY <1>8 DEF Minimizer!Finish, Minimizer!PassIsOver
  <2>3. \A q \in faults : q <= scan
      BY <1>1, <2>2 DEF ShrinkTypes
  <2>4. FaultScan'
      BY <1>1, <1>2, <2>1, <2>3 DEF FaultScan, Fails
  <2> QED BY <1>1, <2>1, <2>4 DEF ShrinkTypes, StillFails
<1>9. CASE Minimizer!Ended
  <2>1. UNCHANGED <<faults, scan, reducing>>
      BY <1>9 DEF Minimizer!Ended, Minimizer!vars
  <2> QED BY <1>1, <1>4, <2>1 DEF ShrinkTypes
<1>10. Minimizer!Next
    BY DEF ReduceFaults
<1> QED BY <1>5, <1>6, <1>7, <1>8, <1>9, <1>10 DEF Minimizer!Next

LEMMA FaultsReducedPreserves == JointInv /\ FaultsReduced => JointInv'
<1> SUFFICES ASSUME JointInv, FaultsReduced PROVE JointInv'
    OBVIOUS
<1>1. ShrinkTypes /\ FaultScan /\ StillFails(workload)
    BY DEF JointInv, FaultsReduced
<1>2. /\ phase' = "workload" /\ granularity' = 2 /\ start' = 0
      /\ UNCHANGED <<given, failing, checked, faults, scan, workload, before, rounds>>
    BY <1>1 DEF FaultsReduced, reduction
<1>3. FaultsNeeded(before[2])'
    BY <1>1, <1>2 DEF FaultScan, FaultsReduced, FaultsNeeded, Fails
<1>4. ShrinkTypes'
    BY <1>1, <1>2 DEF ShrinkTypes
<1>5. CommandsNeeded(start)'
    BY <1>2 DEF CommandsNeeded
<1>6. StillFails(workload)'
    BY <1>1, <1>2 DEF StillFails, Fails
<1> QED BY <1>1, <1>2, <1>3, <1>4, <1>5, <1>6 DEF JointInv, FaultScan

\* Chunks hold commands as long as there are two of them.
LEMMA ChunksAreThere ==
  ASSUME ShrinkTypes, Len(workload) >= 2
  PROVE  Chunk \in Nat \ {0} /\ (EveryChunkTried => Chunk = 1)
<1>1. Len(workload) \in Nat \ {0} /\ granularity \in Nat \ {0}
    BY LenProperties DEF ShrinkTypes
<1> QED BY <1>1, CeilingBounds DEF Chunk, EveryChunkTried

LEMMA DropPreserves == JointInv /\ Drop => JointInv'
<1> SUFFICES ASSUME JointInv, Drop PROVE JointInv'
    OBVIOUS
<1>1. ShrinkTypes /\ phase = "workload" /\ Len(workload) >= 2 /\ start < Len(workload)
    BY DEF JointInv, Drop
<1>2. /\ workload' = Without(start, Chunk)
      /\ granularity' = Larger(2, granularity - 1) /\ start' = 0
      /\ UNCHANGED <<given, failing, checked, faults, scan, before, rounds, phase>>
    BY DEF Drop, reduction
<1>3. workload' \in Seq(Commands) /\ Len(workload') < Len(workload)
    BY <1>1, <1>2, ChunksAreThere, DroppingShortens DEF ShrinkTypes, Without
<1>4. granularity' \in Nat \ {0}
    BY <1>1, <1>2 DEF ShrinkTypes, Larger
<1>5. ShrinkTypes'
    BY <1>1, <1>2, <1>3, <1>4 DEF ShrinkTypes
<1>6. StillFails(workload)'
    BY <1>2 DEF Drop, StillFails, Fails
<1>7. Len(workload') < Len(before[2])
  <2>1. Len(workload) \in Nat /\ Len(workload') \in Nat /\ Len(before[2]) \in Nat
      BY <1>1, <1>3, LenProperties DEF ShrinkTypes
  <2> QED BY <1>3, <2>1 DEF JointInv
<1>8. FaultsNeeded(before[2])'
    BY <1>1, <1>2 DEF JointInv, FaultsNeeded, Fails
<1>9. CommandsNeeded(start)'
    BY <1>2 DEF CommandsNeeded
<1> QED BY <1>1, <1>2, <1>5, <1>6, <1>7, <1>8, <1>9 DEF JointInv

LEMMA KeepChunkPreserves == JointInv /\ KeepChunk => JointInv'
<1> SUFFICES ASSUME JointInv, KeepChunk PROVE JointInv'
    OBVIOUS
<1>1. ShrinkTypes /\ phase = "workload" /\ Len(workload) >= 2 /\ start < Len(workload)
    BY DEF JointInv, KeepChunk
<1>2. /\ start' = start + Chunk
      /\ UNCHANGED <<given, failing, checked, faults, scan, workload, granularity,
                     before, rounds, phase>>
    BY DEF KeepChunk, reduction
<1>3. ShrinkTypes'
    BY <1>1, <1>2, ChunksAreThere DEF ShrinkTypes
<1>4. \A commands : StillFails(commands)' <=> StillFails(commands)
    BY <1>2 DEF StillFails, Fails
<1>5. FaultsNeeded(before[2])'
    BY <1>1, <1>2 DEF JointInv, FaultsNeeded, Fails
<1>6. ASSUME EveryChunkTried PROVE CommandsNeeded(start')
  <2>1. Chunk = 1
      BY <1>1, <1>6, ChunksAreThere
  <2>2. ~ StillFails(Shorter(workload, start + 1))
    <3>1. ~ StillFails(Without(start, 1))
        BY <2>1 DEF KeepChunk
    <3>2. (start + 1) - 1 = start
        BY <1>1 DEF ShrinkTypes
    <3>3. Shorter(workload, start + 1) = Without(start, 1)
        BY <3>2 DEF Without, Shorter
    <3> QED BY <3>1, <3>3
  <2>3. CommandsNeeded(start)
      BY <1>1, <1>6 DEF JointInv
  <2>4. \A i \in 1..start + 1 : i \in 1..start \/ i = start + 1
      BY <1>1 DEF ShrinkTypes
  <2> QED BY <1>2, <2>1, <2>2, <2>3, <2>4 DEF CommandsNeeded
<1>7. EveryChunkTried' => CommandsNeeded(start)'
  <2>1. EveryChunkTried' <=> EveryChunkTried
      BY <1>2 DEF EveryChunkTried
  <2> QED BY <1>2, <1>4, <1>6, <2>1 DEF CommandsNeeded, Shorter
<1> QED BY <1>1, <1>2, <1>3, <1>4, <1>5, <1>7 DEF JointInv

LEMMA RefinePreserves == JointInv /\ Refine => JointInv'
<1> SUFFICES ASSUME JointInv, Refine PROVE JointInv'
    OBVIOUS
<1>1. ShrinkTypes /\ phase = "workload" /\ Len(workload) \in Nat \ {0}
    BY LenProperties DEF JointInv, Refine, ShrinkTypes
<1>2. /\ granularity' = Smaller(Len(workload), granularity * 2) /\ start' = 0
      /\ UNCHANGED <<given, failing, checked, faults, scan, workload, before, rounds, phase>>
    BY DEF Refine, reduction
<1>3. granularity' \in Nat \ {0}
    BY <1>1, <1>2 DEF ShrinkTypes, Smaller
<1>4. ShrinkTypes'
    BY <1>1, <1>2, <1>3 DEF ShrinkTypes
<1>5. StillFails(workload)'
    BY <1>1, <1>2 DEF JointInv, StillFails, Fails
<1>6. FaultsNeeded(before[2])'
    BY <1>1, <1>2 DEF JointInv, FaultsNeeded, Fails
<1>7. CommandsNeeded(start)'
    BY <1>2 DEF CommandsNeeded
<1> QED BY <1>1, <1>2, <1>4, <1>5, <1>6, <1>7 DEF JointInv

\* A round that changed nothing left the workload the perturbations were reduced against.
LEMMA EndRoundPreserves == JointInv /\ EndRound => JointInv'
<1> SUFFICES ASSUME JointInv, EndRound PROVE JointInv'
    OBVIOUS
<1>1. ShrinkTypes /\ phase = "workload" /\ StillFails(workload)
    BY DEF JointInv, EndRound
<1>2. UNCHANGED <<given, failing, checked, faults, workload, granularity, start>>
    BY DEF EndRound, shrinking
<1>3. StillFails(workload)'
    BY <1>1, <1>2 DEF StillFails, Fails
<1>4. CASE RoundChangedNothing
  <2>1. phase' = "settled" /\ UNCHANGED <<rounds, before, scan>>
      BY <1>4 DEF EndRound
  <2>2. workload = before[2]
    <3>1. Len(workload) = Len(before[2]) /\ Len(workload) \in Nat
        BY <1>1, <1>4, LenProperties DEF RoundChangedNothing, ShrinkTypes
    <3> QED BY <3>1 DEF JointInv
  <2>3. ASSUME Len(workload) >= 2 PROVE CommandsNeeded(Len(workload))
    <3>1. start >= Len(workload) /\ EveryChunkTried
        BY <1>1, <2>3, LenProperties DEF EndRound, ShrinkTypes
    <3>2. CommandsNeeded(start)
        BY <1>1, <3>1 DEF JointInv
    <3>3. 1..Len(workload) \subseteq 1..start
        BY <1>1, <3>1, LenProperties DEF ShrinkTypes
    <3> QED BY <3>2, <3>3 DEF CommandsNeeded
  <2>4. \A n : CommandsNeeded(n)' <=> CommandsNeeded(n)
      BY <1>2 DEF CommandsNeeded, StillFails, Fails, Shorter
  <2>5. FaultsNeeded(before[2])'
      BY <1>1, <1>2, <2>1 DEF JointInv, FaultsNeeded, Fails
  <2>6. ShrinkTypes'
      BY <1>1, <1>2, <2>1 DEF ShrinkTypes
  <2> QED BY <1>1, <1>2, <1>3, <2>1, <2>2, <2>3, <2>4, <2>5, <2>6 DEF JointInv
<1>5. CASE ~ RoundChangedNothing /\ rounds = MaxRounds
  <2>1. phase' = "gave_up" /\ UNCHANGED <<rounds, before, scan>>
      BY <1>5 DEF EndRound
  <2>2. FaultsNeeded(before[2])'
      BY <1>1, <1>2, <2>1 DEF JointInv, FaultsNeeded, Fails
  <2>3. ShrinkTypes'
      BY <1>1, <1>2, <2>1 DEF ShrinkTypes
  <2>4. (workload = before[2] \/ Len(workload) < Len(before[2]))'
      BY <1>2, <2>1 DEF JointInv
  <2> QED BY <1>3, <2>1, <2>2, <2>3, <2>4 DEF JointInv
<1>6. CASE ~ RoundChangedNothing /\ rounds # MaxRounds
  <2>1. /\ phase' = "faults" /\ rounds' = rounds + 1 /\ before' = <<faults, workload>>
        /\ reducing' = "verify" /\ scan' = 0
      BY <1>6 DEF EndRound
  <2>2. ShrinkTypes'
      BY <1>1, <1>2, <2>1 DEF ShrinkTypes
  <2>3. FaultScan'
      BY <1>2, <2>1 DEF FaultScan
  <2> QED BY <1>2, <1>3, <2>1, <2>2, <2>3 DEF JointInv
<1> QED BY <1>4, <1>5, <1>6

\* The invariant of both shrinkers (shrink.ts:51-78, model-shrink.ts:49-80).
THEOREM ShrinkInvariant == ShrinkSpec => []JointInv
<1>1. JointInv /\ [ShrinkNext]_shrinkVars => JointInv'
  <2> SUFFICES ASSUME JointInv, [ShrinkNext]_shrinkVars PROVE JointInv'
      OBVIOUS
  <2>1. CASE UNCHANGED shrinkVars
      BY <2>1 DEF shrinkVars, JointInv, ShrinkTypes, FaultScan, FaultsNeeded, CommandsNeeded,
                  EveryChunkTried, StillFails, Fails, Shorter
  <2> QED BY <2>1, BeginRoundPreserves, ReduceFaultsPreserves, FaultsReducedPreserves,
             DropPreserves, KeepChunkPreserves, RefinePreserves, EndRoundPreserves
          DEF ShrinkNext
<1> QED BY <1>1, InitEstablishesJointInv, PTL DEF ShrinkSpec

\* "Alternate fault-set and workload reduction until neither changes" (shrink.ts:46): the
\* pair both shrinkers end with is 1-minimal in each half, given the other half.
THEOREM WitnessesAreJointlyMinimal == ShrinkSpec => []JointlyOneMinimal
<1>1. JointInv => JointlyOneMinimal
  <2> SUFFICES ASSUME JointInv PROVE JointlyOneMinimal
      OBVIOUS
  <2>1. phase = "settled" =>
          /\ \A p \in faults : ~ Fails(faults \ {p}, workload)
          /\ Len(workload) >= 2 =>
               \A i \in DOMAIN workload : ~ StillFails(Shorter(workload, i))
    <3> SUFFICES ASSUME phase = "settled"
                 PROVE  /\ \A p \in faults : ~ Fails(faults \ {p}, workload)
                        /\ Len(workload) >= 2 =>
                             \A i \in DOMAIN workload : ~ StillFails(Shorter(workload, i))
        OBVIOUS
    <3>1. \A p \in faults : ~ Fails(faults \ {p}, workload)
        BY DEF JointInv, FaultsNeeded
    <3>2. DOMAIN workload = 1..Len(workload) /\ Len(workload) \in Nat
        BY LenProperties DEF JointInv, ShrinkTypes
    <3> QED BY <3>1, <3>2 DEF JointInv, CommandsNeeded
  <2> QED BY <2>1 DEF JointInv, JointlyOneMinimal, Shrunk
<1> QED BY <1>1, ShrinkInvariant, PTL
===============================================================================

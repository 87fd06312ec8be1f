--------------------------- MODULE FailureMinimizer ---------------------------
(***************************************************************************)
(* minimizeFailureSet (packages/core/src/search.ts): the greedy reduction  *)
(* every failing exploration ends with.                                    *)
(*                                                                         *)
(* A perturbation is its position in the array handed in; `filter' keeps   *)
(* the order, so the candidate array is a set of positions scanned in      *)
(* increasing order.  `await reproducesFailure(c)' is one execution of the *)
(* system under test: oracle[c] is the set of verdicts (TRUE: it fails)    *)
(* that execution may give, a singleton for a deterministic system.        *)
(***************************************************************************)
EXTENDS Naturals, FiniteSets

CONSTANTS
  MaxSize,      \* bound: the largest set handed in
  VerdictSets   \* what an execution of one candidate may answer

ASSUME SizeAssumption == MaxSize \in Nat
ASSUME VerdictAssumption == VerdictSets \subseteq (SUBSET BOOLEAN) \ {{}}

VARIABLES
  original,    \* the perturbations handed in
  oracle,      \* the system under test, see above
  candidate,   \* the array being reduced
  cursor,      \* the position last tried in this pass, 0 at its start
  attempts,    \* executions so far
  pc           \* "verify", "scan", "done" or "threw"

vars == <<original, oracle, candidate, cursor, attempts, pc>>

TypeOK ==
  /\ original \in SUBSET (1..MaxSize)
  /\ oracle \in [SUBSET original -> SUBSET BOOLEAN]
  /\ candidate \in SUBSET original
  /\ cursor \in 0..MaxSize
  /\ attempts \in Nat
  /\ pc \in {"verify", "scan", "done", "threw"}

Init ==
  /\ \E n \in 0..MaxSize : original = 1..n
  /\ oracle \in [SUBSET original -> VerdictSets]
  /\ candidate = original
  /\ cursor = 0
  /\ attempts = 0
  /\ pc = "verify"

-------------------------------------------------------------------------------
\* Variants of the loop a slip would produce; no action below uses them.

\* The outer loop forgets to start the scan again after a removal.
KeepScanning(p) == p

\* The original is taken for failing whatever its execution says.
TrustOriginal ==
  /\ pc = "verify"
  /\ attempts' = attempts + 1
  /\ pc' = "scan"
  /\ UNCHANGED <<original, oracle, candidate, cursor>>

\* `changed' is not cleared at the start of a pass: there is always another.
ScanForever ==
  /\ pc = "scan"
  /\ {q \in candidate : q > cursor} = {}
  /\ cursor' = 0
  /\ UNCHANGED <<original, oracle, candidate, attempts, pc>>
-------------------------------------------------------------------------------

\* Where the next attempt starts after the candidate shrank: `break' leaves
\* the inner loop and the next pass starts at index 0.
CursorAfterRemoval(p) == 0

CursorAfterRefutation(p) == p

Reproduces(S) == TRUE \in oracle[S]
DoesNotReproduce(S) == FALSE \in oracle[S]

\* p is candidate[i] for the next i of the inner loop.
IsNextIndex(p) ==
  /\ p > cursor
  /\ \A q \in candidate : q > cursor => p <= q

PassIsOver == {q \in candidate : q > cursor} = {}

VerifyOriginal ==
  /\ pc = "verify"
  /\ attempts' = attempts + 1
  /\ \/ Reproduces(candidate) /\ pc' = "scan"
     \/ DoesNotReproduce(candidate) /\ pc' = "threw"
  /\ UNCHANGED <<original, oracle, candidate, cursor>>

\* The reduced array reproduced the failure and becomes the candidate.
Remove(p) ==
  /\ pc = "scan"
  /\ ~ PassIsOver
  /\ IsNextIndex(p)
  /\ attempts' = attempts + 1
  /\ Reproduces(candidate \ {p})
  /\ candidate' = candidate \ {p}
  /\ cursor' = CursorAfterRemoval(p)
  /\ UNCHANGED <<original, oracle, pc>>

\* The reduced array passed: p stays for this pass.
Keep(p) ==
  /\ pc = "scan"
  /\ ~ PassIsOver
  /\ IsNextIndex(p)
  /\ attempts' = attempts + 1
  /\ DoesNotReproduce(candidate \ {p})
  /\ cursor' = CursorAfterRefutation(p)
  /\ UNCHANGED <<original, oracle, candidate, pc>>

\* A whole pass removed nothing (`changed' stayed false).
Finish ==
  /\ pc = "scan"
  /\ PassIsOver
  /\ pc' = "done"
  /\ UNCHANGED <<original, oracle, candidate, cursor, attempts>>

Ended ==
  /\ pc \in {"done", "threw"}
  /\ UNCHANGED vars

Next ==
  \/ VerifyOriginal
  \/ \E p \in candidate : Remove(p) \/ Keep(p)
  \/ Finish
  \/ Ended

\* Weak fairness: the loop awaits one execution at a time and every execution
\* settles.
Fairness == WF_vars(Next)

Spec == Init /\ [][Next]_vars
FairSpec == Spec /\ Fairness

-------------------------------------------------------------------------------

\* The set that is returned was itself seen to fail, in an execution of exactly
\* that set (the issue report and the replay artifact are built from it).
ReportedSetFails == pc = "done" => TRUE \in oracle[candidate]

\* "until no single remaining perturbation can be removed while preserving
\* failure" (search.ts:83): each removal was refuted, for this very candidate.
ReportedSetIsOneMinimal ==
  pc = "done" => \A p \in candidate : FALSE \in oracle[candidate \ {p}]

\* Every minimisation ends, whatever the executions answer.
MinimizationEnds == <>(pc \in {"done", "threw"})

\* The inductive invariant: the candidate fails once the original was verified,
\* and the part of this pass behind the cursor is refuted for the current
\* candidate, not for one it was derived from.
ScanInv ==
  /\ TypeOK
  /\ pc = "verify" => candidate = original /\ cursor = 0
  /\ pc \in {"scan", "done"} => TRUE \in oracle[candidate]
  /\ pc \in {"scan", "done"} =>
       \A q \in candidate : q <= cursor => FALSE \in oracle[candidate \ {q}]
  /\ pc = "done" => PassIsOver

Status == CASE pc = "done"  -> "reported"
            [] pc = "threw" -> "rejected"
            [] OTHER        -> "reducing"

Reduction == INSTANCE FailureReduction
               WITH oracle <- oracle, answer <- candidate, status <- Status

\* The loop implements the abstract reduction: no step reports, drops or
\* rejects anything the abstract specification would not.
ImplementsReduction == Reduction!Spec
===============================================================================

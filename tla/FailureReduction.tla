--------------------------- MODULE FailureReduction ---------------------------
(***************************************************************************)
(* What a minimised failure promises: a set of perturbations is shrunk one *)
(* perturbation at a time, every intermediate set still failing, and the   *)
(* set that is finally reported is 1-minimal.  How the next perturbation   *)
(* is looked for is left open; FailureMinimizer is one way.                *)
(***************************************************************************)
EXTENDS Naturals

VARIABLES
  oracle,   \* [SUBSET original -> set of verdicts an execution may give]
  answer,   \* the perturbations still believed necessary
  status    \* "reducing", "rejected" or "reported"

vars == <<oracle, answer, status>>

MayFail(S) == TRUE \in oracle[S]
MayPass(S) == FALSE \in oracle[S]

\* No single remaining perturbation was needed only by accident: dropping any
\* one of them gives a set that can pass.
OneMinimal(S) == \A p \in S : MayPass(S \ {p})

Init ==
  /\ status = "reducing"
  /\ oracle \in [SUBSET answer -> SUBSET BOOLEAN]

\* The original set passed when it was run again: nothing is reported.
Reject ==
  /\ status = "reducing"
  /\ MayPass(answer)
  /\ status' = "rejected"
  /\ UNCHANGED <<oracle, answer>>

Drop(p) ==
  /\ status = "reducing"
  /\ MayFail(answer \ {p})
  /\ answer' = answer \ {p}
  /\ UNCHANGED <<oracle, status>>

Report ==
  /\ status = "reducing"
  /\ MayFail(answer)
  /\ OneMinimal(answer)
  /\ status' = "reported"
  /\ UNCHANGED <<oracle, answer>>

Next ==
  \/ Reject
  \/ \E p \in answer : Drop(p)
  \/ Report

Spec == Init /\ [][Next]_vars
===============================================================================

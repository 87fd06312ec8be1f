----------------------------- MODULE SessionReads -----------------------------
(***************************************************************************)
(* What a session of a replicated database promises: it never goes back    *)
(* behind anything it has read or written, whichever replica answers, and  *)
(* it never sees what was not committed.                                   *)
(***************************************************************************)
EXTENDS Naturals

CONSTANTS Sessions

VARIABLES committed,  \* the versions the primary has committed
          bookmark    \* the newest version a session has read or written

vars == <<committed, bookmark>>

Init == committed = 0 /\ bookmark = [s \in Sessions |-> 0]

Commit(s) ==
    /\ committed' = committed + 1
    /\ bookmark' = [bookmark EXCEPT ![s] = committed + 1]

Observe(s) ==
    /\ \E version \in bookmark[s] .. committed :
          bookmark' = [bookmark EXCEPT ![s] = version]
    /\ UNCHANGED committed

Next == \E s \in Sessions : Commit(s) \/ Observe(s)

Spec == Init /\ [][Next]_vars
===============================================================================

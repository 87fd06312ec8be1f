---------------------------- MODULE D1FaultProxy ----------------------------
(***************************************************************************)
(* createD1FaultProxy (packages/cloudflare/src/d1.ts): a D1 binding whose  *)
(* statements and batches the scenario's perturbations interrupt.          *)
(* `applied' is the truth in the database, which the proxy cannot read.    *)
(***************************************************************************)
EXTENDS BindingProxy

CONSTANTS Statements,  \* [D1Names -> Nat]: how many statements a call has
          Batch        \* the names of batches; the others are terminals

VARIABLES applied,   \* the statements of each caller's call that are in the database
          index,     \* applyPrefix: the statement the loop is at
          rejected,  \* applyPrefix: `failure'
          committed  \* applyPrefix: the statements it saw succeed

D1Names == DOMAIN Statements

d1Vars == <<applied, index, rejected, committed>>
vars == <<controllerVars, proxyVars, d1Vars>>

Mine(c) == op[c].name \in D1Names
All(c) == 1 .. Statements[op[c].name]

\* What an oracle that knows the database answers.
Truth(c) == IF applied[c] = {} THEN "not-committed" ELSE "committed"

Init ==
    /\ ProxyInit
    /\ applied = [c \in Callers |-> {}]
    /\ index = [c \in Callers |-> 0]
    /\ rejected = [c \in Callers |-> FALSE]
    /\ committed = [c \in Callers |-> {}]

---------------------------------------------------------------------------
(* The faults and variations of the module *)

D1Fault(kind) ==
    [id |-> <<kind, "d1", 0>>, kind |-> kind, names |-> D1Names, phase |-> "before-commit",
     actual |-> "unknown", observed |-> "definite-failure", occurrence |-> 0,
     max |-> 1]

D1CommitThenTimeout(name) ==
    [D1Fault("commit-then-timeout") EXCEPT !.names = {name}, !.actual = "committed",
        !.phase = "after-commit-before-response", !.observed = "indeterminate"]

D1BatchRejectBeforeCommit ==
    [D1Fault("reject-before-commit") EXCEPT !.names = Batch,
        !.actual = "not-committed"]

D1BatchCommitThenResponseLost ==
    [D1Fault("commit-then-response-lost") EXCEPT !.names = Batch,
        !.actual = "committed", !.phase = "after-commit-before-response",
        !.observed = "indeterminate"]

D1BatchErrorAfterCommit ==
    [D1Fault("error-after-commit") EXCEPT !.names = Batch, !.actual = "committed",
        !.phase = "after-commit-before-response"]

ProbeKind == "partial-batch-application"

\* The cut, statementIndex, is the same in every scenario: one statement lands.
D1PartialBatchApplication ==
    [D1Fault(ProbeKind) EXCEPT !.names = Batch, !.actual = "committed",
        !.phase = "after-commit-before-response", !.observed = "indeterminate"]

\* No phase, outcome or operation: what completeFailure reads of it are defaults.
D1ReplicaLag == [D1Fault("replica-lag") EXCEPT !.phase = SemanticPhase]

IsProbe(p) == p.kind = ProbeKind

Smaller(i, j) == IF i < j THEN i ELSE j

\* statementCut: how many statements a probe lets through.
StatementCut(c) == Smaller(1, Statements[op[c].name])

---------------------------------------------------------------------------
(* The steps of a call *)

\* Mutant: probes are never refused.
NeverRefused(p) == FALSE

Refused(p) == IsProbe(p) /\ ~AllowContractProbes

\* The after-commit probes of a batch, which it looks for before dispatching.
ProbesAt(o) ==
    {i \in Eligible(o, "after-commit-before-response") :
        o.name \in Batch /\ IsProbe(scenario[i])}

\* What becomes of a call when `given' is the perturbation found for it before
\* dispatch: `interrupts' when a before-phase took it, a probe otherwise.
Decide(c, given, interrupts) ==
    \/ /\ given = Nothing
       /\ Go(c, "dispatched")
       /\ completions' = [completions EXCEPT ![c] = <<>>]
       /\ Activate(Nothing)
    \/ /\ given # Nothing
       /\ Refused(scenario[given])
       /\ Settle(c, "refused")
       /\ completions' = [completions EXCEPT ![c] = <<RefusalEntry>>]
       /\ Activate(IF interrupts THEN given ELSE Nothing)
    \/ /\ given # Nothing
       /\ ~Refused(scenario[given])
       /\ Go(c, IF interrupts THEN "failing" ELSE "prefix")
       /\ completions' = [completions EXCEPT ![c] = <<>>]
       /\ Activate(given)

\* terminal and batch up to their first await: begin, take, peek for a probe.
Begin(c, name) ==
    LET o == Indexed(name)
        before == Taken(o, "before-commit", "before-send")
        probes == ProbesAt(o)
    IN /\ pc[c] = "idle"
       /\ MayCall(c, name)
       /\ CountOccurrence(name)
       /\ op' = [op EXCEPT ![c] = o]
       /\ calls' = [calls EXCEPT ![c] = @ + 1]
       /\ applied' = [applied EXCEPT ![c] = {}]
       /\ index' = [index EXCEPT ![c] = 1]
       /\ rejected' = [rejected EXCEPT ![c] = FALSE]
       /\ committed' = [committed EXCEPT ![c] = {}]
       /\ \/ /\ before # Nothing
             /\ fault' = [fault EXCEPT ![c] = before]
             /\ Decide(c, before, TRUE)
          \/ /\ before = Nothing
             /\ LET probe == IF probes = {} THEN Nothing ELSE FirstOf(probes)
                IN /\ fault' = [fault EXCEPT ![c] = probe]
                   /\ Decide(c, probe, FALSE)
       /\ UNCHANGED <<scenario, setup>>

\* The database runs the statement, or the whole batch in one transaction.
Apply(c) ==
    /\ pc[c] = "dispatched"
    /\ applied[c] = {}
    /\ applied' = [applied EXCEPT ![c] = All(c)]
    /\ UNCHANGED <<controllerVars, proxyVars, index, rejected, committed>>

\* Mutant: batch's catch does not exclude a refusal either.
RefusalCaught(c) == <<RefusalEntry, UnknownEntry>>

\* refuseProbe once the call has committed: the refusal is recorded as if it had not.
\* batch rethrows it; the catch of terminal takes it for an error of the binding and
\* completes the operation once more.
LateRefusal(c) ==
    IF op[c].name \in Batch THEN <<RefusalEntry>> ELSE <<RefusalEntry, UnknownEntry>>

\* The binding returned: an after-commit fault may take the result away.
Return(c) ==
    LET after == Taken(op[c], "after-commit-before-response", "during-response")
    IN /\ pc[c] = "dispatched"
       /\ applied[c] # {}
       /\ Activate(after)
       /\ fault' = [fault EXCEPT ![c] = after]
       /\ \/ /\ after = Nothing
             /\ Go(c, "asking")
             /\ UNCHANGED completions
          \/ /\ after # Nothing
             /\ ~Refused(scenario[after])
             /\ Go(c, "failing")
             /\ UNCHANGED completions
          \/ /\ after # Nothing
             /\ Refused(scenario[after])
             /\ completions' = [completions EXCEPT ![c] = @ \o LateRefusal(c)]
             /\ Settle(c, "refused")
       /\ UNCHANGED <<scenario, occurrences, setup, op, calls, d1Vars>>

\* An error of the binding itself is recorded as a failure with no known outcome.
Reject(c) ==
    /\ pc[c] = "dispatched"
    /\ applied[c] = {} \/ AppliedMayReject
    /\ Complete(c, UnknownEntry)
    /\ Settle(c, "rejected")
    /\ UNCHANGED <<scenario, activations, occurrences, setup, op, fault, calls, d1Vars>>

Succeed(c) ==
    /\ pc[c] = "asking"
    /\ \E told \in Told(Truth(c)) :
           Complete(c, OutcomeMetadata("ok", told, "unknown", "committed"))
    /\ Settle(c, "result")
    /\ UNCHANGED <<scenario, activations, occurrences, setup, op, fault, calls, d1Vars>>

CompleteFailure(c) ==
    /\ pc[c] = "failing"
    /\ \E told \in Told(Truth(c)) : Complete(c, InjectedEntry(c, told))
    /\ Settle(c, IF Ambiguous(c) THEN "indeterminate" ELSE "injected")
    /\ UNCHANGED <<scenario, activations, occurrences, setup, op, fault, calls, d1Vars>>

---------------------------------------------------------------------------
(* A contract probe: the statements before the cut, one by one *)

Advance(c) ==
    index' = [index EXCEPT ![c] = @ + 1]

Running(c) == pc[c] = "prefix" /\ index[c] <= StatementCut(c) /\ ~rejected[c]

\* `await entry.real.run()' returned.
StatementRuns(c) ==
    /\ Running(c)
    /\ applied' = [applied EXCEPT ![c] = @ \cup {index[c]}]
    /\ committed' = [committed EXCEPT ![c] = @ \cup {index[c]}]
    /\ Advance(c)
    /\ UNCHANGED <<controllerVars, proxyVars, rejected>>

\* It threw, and the statement landed or not.
StatementRejects(c) ==
    /\ Running(c)
    /\ \E landed \in IF AppliedMayReject THEN {{}, {index[c]}} ELSE {{}} :
           applied' = [applied EXCEPT ![c] = @ \cup landed]
    /\ rejected' = [rejected EXCEPT ![c] = TRUE]
    /\ Advance(c)
    /\ UNCHANGED <<controllerVars, proxyVars, committed>>

\* The other statements are dropped, and the oracle is asked.
DropTheRest(c) ==
    /\ pc[c] = "prefix"
    /\ ~Running(c)
    /\ Go(c, "prefix asking")
    /\ UNCHANGED <<controllerVars, setup, op, fault, calls, d1Vars>>

\* Mutant: what the probe declares of itself.
DeclaredByProbe(c) == Perturbed(c).actual

DeclaredOfPrefix(c) == IF committed[c] = {} THEN "not-committed" ELSE "committed"

CompletePrefix(c) ==
    /\ pc[c] = "prefix asking"
    /\ \E told \in Told(Truth(c)) :
           Complete(c, OutcomeMetadata("info", told, DeclaredOfPrefix(c), "unknown"))
    /\ Settle(c, IF rejected[c] THEN "rejected" ELSE "indeterminate")
    /\ UNCHANGED <<scenario, activations, occurrences, setup, op, fault, calls, d1Vars>>

---------------------------------------------------------------------------
Progress(c) ==
    /\ Mine(c)
    /\ \/ Return(c) \/ Reject(c) \/ Succeed(c) \/ CompleteFailure(c)
       \/ StatementRuns(c) \/ StatementRejects(c) \/ DropTheRest(c)
       \/ CompletePrefix(c)

Next(c) ==
    \/ Progress(c)
    \/ Mine(c) /\ Apply(c)
    \/ \E name \in D1Names : Begin(c, name)

---------------------------------------------------------------------------
\* A probe was found for the call, and refused, when it had committed.
RefusedLate(c) == answer[c] = "refused" /\ applied[c] # {}

\* ... by terminal, which completed the operation twice.
CompletedTwice(c) == Mine(c) /\ Settled(c) /\ RefusedLate(c) /\ op[c].name \notin Batch

\* The first statement of a prefix landed and its run() threw.
LandedUnseen(c) == rejected[c] /\ committed[c] = {} /\ applied[c] # {}

\* Outcomes the history claims as known are true of the database.  A declared one
\* is "sound only because CloudFault chose the moment of failure", an inferred one
\* rests on the binding having returned, and the oracle's on its own knowledge.  Only a
\* declaration is ever wrong, and only in the two cases above, both of contract probes.
ClaimedOutcomeIsTrue ==
    \A c \in Callers : (Mine(c) /\ Settled(c)) =>
        \A i \in DOMAIN completions[c] :
            LET claim == completions[c][i]
            IN claim.source # "unknown" =>
                   \/ claim.actual = Truth(c)
                   \/ claim.source = "declared" /\ (RefusedLate(c) \/ LandedUnseen(c))

\* Without the opt-in no call is ever applied in part: "real D1 batches are atomic".
\* With it, only a call that was given a probe is.
BatchesAreAtomic ==
    \A c \in Callers : Mine(c) =>
        \/ applied[c] \in {{}, All(c)}
        \/ /\ AllowContractProbes
           /\ fault[c] # Nothing
           /\ IsProbe(Perturbed(c))
=============================================================================

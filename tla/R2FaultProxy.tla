---------------------------- MODULE R2FaultProxy ----------------------------
(***************************************************************************)
(* createR2FaultProxy (packages/cloudflare/src/r2.ts): a bucket, and the   *)
(* multipart uploads it hands out, whose calls the scenario's              *)
(* perturbations interrupt.  Every method goes through `invoke'.  The      *)
(* callers share one key; each has at most one upload, in any state.       *)
(***************************************************************************)
EXTENDS BindingProxy

CONSTANT NumParts \* the parts of an upload

VARIABLES landed,  \* has each caller's call taken effect in the bucket?
          failed,  \* applyPartPrefix: `failure'
          handle,  \* does the caller hold its upload's wrapped handle?
          told,    \* the parts whose uploadPart returned to the caller
          upload,  \* the bucket: the state of the caller's upload
          stored,  \* the bucket: the upload's parts
          object   \* the bucket: what is visible under the key

callVars == <<landed, failed>>
callerVars == <<handle, told>>
bucketVars == <<upload, stored, object>>
vars == <<controllerVars, proxyVars, callVars, callerVars, bucketVars>>

Parts == 1 .. NumParts

\* A part is a resource of its own (r2PartResource), so that its name carries it.
UploadPart(n) == <<"r2.uploadPart", n>>
HeadObject == <<"r2.head", 0>>
Put == <<"r2.put", 0>>
CreateUpload == <<"r2.createMultipartUpload", 0>>
CompleteUpload == <<"r2.completeMultipartUpload", 0>>
AbortUpload == <<"r2.abortMultipartUpload", 0>>

R2Names == {HeadObject, Put, CreateUpload, CompleteUpload, AbortUpload}
               \cup {UploadPart(n) : n \in Parts}

Mine(c) == op[c].name \in R2Names
IsMutation(name) == name # HeadObject

NoObject == [parts |-> {}, listed |-> {}]
\* What an oracle that knows the bucket answers: a read changes nothing.
Truth(c) == IF landed[c] /\ IsMutation(op[c].name) THEN "committed" ELSE "not-committed"

Init ==
    /\ ProxyInit
    /\ landed = [c \in Callers |-> FALSE]
    /\ failed = [c \in Callers |-> FALSE]
    /\ handle = [c \in Callers |-> FALSE]
    /\ told = [c \in Callers |-> {}]
    /\ upload = [c \in Callers |-> "none"]
    /\ stored = [c \in Callers |-> {}]
    /\ object = NoObject

---------------------------------------------------------------------------
(* The faults of the module *)

R2CapacityError ==
    [id |-> <<"capacity", "r2", 0>>, kind |-> "capacity-5xx", names |-> R2Names,
     phase |-> "before-commit", actual |-> "not-committed",
     observed |-> "definite-failure", occurrence |-> 0, max |-> 1]

R2CommitThenTimeout(name) ==
    [R2CapacityError EXCEPT !.id = <<"timeout", name[1], name[2]>>, !.kind = "commit-then-timeout",
        !.names = {name}, !.phase = "after-commit-before-response",
        !.actual = "committed", !.observed = "indeterminate"]

R2PartUploadError(n) ==
    [R2CapacityError EXCEPT !.id = <<"capacity", "r2.uploadPart", n>>, !.names = {UploadPart(n)}]

ProbeKind == "partial-multipart-completion"

R2PartialMultipartCompletion ==
    [R2CommitThenTimeout(CompleteUpload) EXCEPT !.id = <<"probe", "r2", 0>>,
        !.kind = ProbeKind]

\* The latency of incidents.ts, of which the proxy knows only the phase.
IncidentLatency ==
    [R2CapacityError EXCEPT !.id = <<"latency", "r2", 0>>, !.kind = "latency",
        !.phase = "before-send", !.actual = "unknown", !.observed = "indeterminate"]

IsProbe(p) == p.kind = ProbeKind

\* partCut: partIndex is 1 in every scenario.
PartCut(parts) == IF parts = {} THEN {} ELSE {FirstOf(parts)}

---------------------------------------------------------------------------
(* The bucket, as the comments and tests of the module use it *)

\* The calls a caller can make: a handle's methods need the handle, and complete
\* needs parts to list.  An upload is created once.
CanCall(c, name) ==
    /\ name = CreateUpload => upload[c] = "none" /\ ~handle[c]
    /\ name \in {UploadPart(n) : n \in Parts} \cup {CompleteUpload, AbortUpload} =>
           handle[c]
    /\ name = CompleteUpload => told[c] # {}

\* The bucket performs the call; complete is atomic, and aborting an upload that
\* completed succeeds without removing the object.
Perform(c, name, listed, dropped) ==
    /\ upload' = [upload EXCEPT ![c] =
            CASE name = CreateUpload -> "open"
              [] name = CompleteUpload -> "completed"
              [] name = AbortUpload -> IF @ = "open" THEN "aborted" ELSE @
              [] OTHER -> @]
    /\ stored' = [stored EXCEPT ![c] =
            CASE name[1] = "r2.uploadPart" -> @ \cup {name[2]}
              [] name = AbortUpload /\ upload[c] = "open" -> {}
              [] OTHER -> @]
    /\ object' = CASE name = CompleteUpload -> [parts |-> listed \ dropped, listed |-> listed]
                   [] name = Put -> [parts |-> Parts, listed |-> Parts]
                   [] OTHER -> object

\* It refuses to add to, or to complete, an upload that is no longer open.
Accepts(c, name) ==
    (name[1] = "r2.uploadPart" \/ name = CompleteUpload) => upload[c] = "open"

---------------------------------------------------------------------------
(* invoke *)

Refused(p) == IsProbe(p) /\ ~AllowContractProbes

\* take before the action: a mutation is asked about "before-commit" twice.
TakenBefore(o) ==
    Taken(o, IF IsMutation(o.name) THEN "before-commit" ELSE "before-send",
          "before-commit")

\* Mutant: every after-commit fault of complete is handed to the probe handler.
AnyFaultAt(o) ==
    {i \in Eligible(o, "after-commit-before-response") : o.name = CompleteUpload}

\* Only complete has a probeHandler.
ProbesAt(o) ==
    {i \in Eligible(o, "after-commit-before-response") :
        o.name = CompleteUpload /\ IsProbe(scenario[i])}

\* invoke up to its first await: begin, take, look for a probe.  A probe that is
\* refused was only looked at, and one found by take was spent.
Begin(c, name) ==
    LET o == Indexed(name)
        before == TakenBefore(o)
        probe == IF before # Nothing \/ ProbesAt(o) = {} THEN Nothing
                 ELSE FirstOf(ProbesAt(o))
        given == IF before # Nothing THEN before ELSE probe
        refusal == given # Nothing /\ Refused(scenario[given])
    IN /\ pc[c] = "idle"
       /\ MayCall(c, name)
       /\ CanCall(c, name)
       /\ CountOccurrence(name)
       /\ op' = [op EXCEPT ![c] = o]
       /\ calls' = [calls EXCEPT ![c] = @ + 1]
       /\ landed' = [landed EXCEPT ![c] = FALSE]
       /\ failed' = [failed EXCEPT ![c] = FALSE]
       /\ fault' = [fault EXCEPT ![c] = given]
       /\ Activate(IF given = probe /\ refusal THEN Nothing ELSE given)
       /\ completions' = [completions EXCEPT ![c] =
                              IF refusal THEN <<RefusalEntry>> ELSE <<>>]
       /\ IF refusal THEN Settle(c, "refused")
          ELSE Go(c, CASE given = Nothing -> "dispatched"
                       [] given # Nothing /\ before # Nothing -> "failing"
                       [] OTHER -> "prefix")
       /\ UNCHANGED <<scenario, setup, callerVars, bucketVars>>

\* The bucket performs a dispatched call.
Apply(c) ==
    /\ pc[c] = "dispatched"
    /\ ~landed[c]
    /\ Accepts(c, op[c].name)
    /\ landed' = [landed EXCEPT ![c] = TRUE]
    /\ Perform(c, op[c].name, told[c], {})
    /\ UNCHANGED <<controllerVars, proxyVars, failed, callerVars>>

\* take after the action: only a mutation's result can be lost.
TakenAfter(o) ==
    IF IsMutation(o.name) THEN Taken(o, "after-commit-before-response", "during-response")
    ELSE Nothing

\* The call returned.
Return(c) ==
    LET after == TakenAfter(op[c])
    IN /\ pc[c] = "dispatched"
       /\ landed[c]
       /\ Activate(after)
       /\ fault' = [fault EXCEPT ![c] = after]
       /\ Go(c, IF after = Nothing THEN "asking" ELSE "failing")
       /\ UNCHANGED <<scenario, occurrences, completions, setup, op, calls, callVars,
                      callerVars, bucketVars>>

\* The catch: an error of the bucket itself.
Reject(c) ==
    /\ pc[c] = "dispatched"
    /\ ~landed[c] \/ AppliedMayReject
    /\ Complete(c, UnknownEntry)
    /\ Settle(c, "rejected")
    /\ UNCHANGED <<scenario, activations, occurrences, setup, op, fault, calls,
                   callVars, callerVars, bucketVars>>

\* "a read says nothing about durability at all".
Inferred(name) == IF IsMutation(name) THEN "committed" ELSE "unknown"

\* The caller gets the result: of create the handle, of uploadPart the part.
Succeed(c) ==
    /\ pc[c] = "asking"
    /\ \E said \in Told(Truth(c)) :
           Complete(c, OutcomeMetadata("ok", said, "unknown", Inferred(op[c].name)))
    /\ Settle(c, "result")
    /\ handle' = [handle EXCEPT ![c] = @ \/ op[c].name = CreateUpload]
    /\ told' = [told EXCEPT ![c] =
            IF op[c].name[1] = "r2.uploadPart" THEN @ \cup {op[c].name[2]} ELSE @]
    /\ UNCHANGED <<scenario, activations, occurrences, setup, op, fault, calls,
                   callVars, bucketVars>>

\* Mutant: the completion `injected' records is left to the catch as well.
InjectedTwice(c) ==
    /\ pc[c] = "failing"
    /\ completions' = [completions EXCEPT ![c] =
           @ \o <<OutcomeMetadata("fail", NoAnswer, Perturbed(c).actual, "unknown"),
                  UnknownEntry>>]
    /\ Settle(c, "injected")
    /\ UNCHANGED <<scenario, activations, occurrences, setup, op, fault, calls,
                   callVars, callerVars, bucketVars>>

Injected(c) ==
    /\ pc[c] = "failing"
    /\ \E said \in Told(Truth(c)) : Complete(c, InjectedEntry(c, said))
    /\ Settle(c, IF Ambiguous(c) THEN "indeterminate" ELSE "injected")
    /\ UNCHANGED <<scenario, activations, occurrences, setup, op, fault, calls,
                   callVars, callerVars, bucketVars>>

---------------------------------------------------------------------------
(* applyPartPrefix: complete, with the parts before the cut *)

PrefixApplies(c) ==
    /\ pc[c] = "prefix"
    /\ ~landed[c]
    /\ Accepts(c, CompleteUpload)
    /\ landed' = [landed EXCEPT ![c] = TRUE]
    /\ Perform(c, CompleteUpload, told[c], told[c] \ PartCut(told[c]))
    /\ UNCHANGED <<controllerVars, proxyVars, failed, callerVars>>

\* The call returned or threw, and the oracle is asked.
PrefixSettles(c) ==
    /\ pc[c] = "prefix"
    /\ \E threw \in BOOLEAN :
          /\ threw => ~landed[c] \/ AppliedMayReject
          /\ ~threw => landed[c]
          /\ failed' = [failed EXCEPT ![c] = threw]
    /\ Go(c, "prefix asking")
    /\ UNCHANGED <<controllerVars, setup, op, fault, calls, landed, callerVars, bucketVars>>

\* Mutant: what the probe declares of itself.
DeclaredByProbe(c) == Perturbed(c).actual

DeclaredOfPrefix(c) == IF failed[c] THEN "not-committed" ELSE "committed"

CompletePrefix(c) ==
    /\ pc[c] = "prefix asking"
    /\ \E said \in Told(Truth(c)) :
           Complete(c, OutcomeMetadata("info", said, DeclaredOfPrefix(c), "unknown"))
    /\ Settle(c, IF failed[c] THEN "rejected" ELSE "indeterminate")
    /\ UNCHANGED <<scenario, activations, occurrences, setup, op, fault, calls,
                   callVars, callerVars, bucketVars>>

---------------------------------------------------------------------------
Progress(c) ==
    /\ Mine(c)
    /\ \/ Return(c) \/ Reject(c) \/ Succeed(c) \/ Injected(c)
       \/ PrefixSettles(c) \/ CompletePrefix(c)

Next(c) ==
    \/ Progress(c)
    \/ Mine(c) /\ (Apply(c) \/ PrefixApplies(c))
    \/ \E name \in R2Names : Begin(c, name)

---------------------------------------------------------------------------
\* The call a probe made landed and threw.
LandedUnseen(c) == failed[c] /\ landed[c]

\* Every outcome the history claims to know, whoever it has it from, is true of
\* the bucket, for writes that were cut off at any point and for reads alike; but a
\* probe declares from an error that nothing landed.
ClaimedOutcomeIsTrue ==
    \A c \in Callers : (Mine(c) /\ Settled(c)) =>
        \A i \in DOMAIN completions[c] :
            LET claim == completions[c][i]
            IN claim.source # "unknown" =>
                   \/ claim.actual = Truth(c)
                   \/ claim.source = "declared" /\ LandedUnseen(c)

\* "complete is ATOMIC: the object appears with every part the caller listed, or it
\* does not appear at all"; only a probe that was asked for breaks it.
ObjectIsWhole == object.parts = object.listed \/ AllowContractProbes

\* types.ts: a selector says where a perturbation may activate, and without an
\* occurrence it "means the first matching operation".  So a call that returned its
\* result did not match a fault that has never been injected.
FirstMatchIsInterrupted ==
    \A c \in Callers : (Mine(c) /\ Settled(c) /\ answer[c] = "result") =>
        \A i \in DOMAIN scenario :
            (op[c].name \in scenario[i].names /\ scenario[i].occurrence = 0) =>
                activations[scenario[i].id] > 0
=============================================================================

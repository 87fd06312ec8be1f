--------------------------- MODULE AdapterRuntime ---------------------------
(***************************************************************************)
(* AdapterRuntime.fetch (packages/adapter-sdk/src/index.ts): requests to a *)
(* provider, classified, faulted and forwarded.  The provider's own steps  *)
(* are left to a module that extends this one (StripePayments); it moves a *)
(* call from "sent" to "replied", sets the response and says whether what  *)
(* the request asked for is in effect.                                     *)
(***************************************************************************)
EXTENDS ScenarioController

CONSTANTS Requests,    \* what callers may send: records with a name and an effect
          HasOracle,   \* is an oracle configured, so that tokens are minted?
          LossyNetwork,\* may the upstream promise reject?
          MaxCalls     \* bound: the requests of one caller

VARIABLES pc,         \* where each caller's request is
          request,    \* the request itself
          op,         \* its operation
          fault,      \* the perturbation it was given, or none
          response,   \* what the provider answered
          effective,  \* does the provider hold what was asked for?
          answer,     \* what the caller was given last
          calls       \* how many requests it has made

runtimeVars == <<pc, request, op, fault, response, effective, answer, calls>>

NoRequest == [name |-> "none"]
NoResponse == [ok |-> FALSE, intent |-> 0]
NoOperation == [name |-> "none", occurrence |-> 0]
NoFault == [kind |-> "none", phase |-> SemanticPhase]

RuntimeInit ==
    /\ ControllerInit
    /\ pc = [c \in Callers |-> "idle"]
    /\ request = [c \in Callers |-> NoRequest]
    /\ op = [c \in Callers |-> NoOperation]
    /\ fault = [c \in Callers |-> NoFault]
    /\ response = [c \in Callers |-> NoResponse]
    /\ effective = [c \in Callers |-> FALSE]
    /\ answer = [c \in Callers |-> "none"]
    /\ calls = [c \in Callers |-> 0]

---------------------------------------------------------------------------
(* The faults an adapter's fault space is made of *)

Fault(kind, names, phase, actual, observed) ==
    [id |-> kind, kind |-> kind, names |-> names, phase |-> phase, actual |-> actual,
     observed |-> observed, occurrence |-> 0, max |-> 1]

RejectBeforeCommit(names) ==
    Fault("reject-before-commit", names, "before-commit", "not-committed",
          "definite-failure")
RateLimit(names) ==
    Fault("rate-limit", names, "before-commit", "not-committed", "definite-failure")
HttpError(names) ==
    Fault("http-error", names, "before-commit", "not-committed", "definite-failure")
TimeoutBeforeSend(names) ==
    Fault("timeout-before-send", names, "before-send", "not-committed",
          "definite-failure")
Latency(names) ==
    Fault("latency", names, "before-send", "unknown", "indeterminate")
CommitThenTimeout(names) ==
    Fault("commit-then-timeout", names, "after-commit-before-response", "committed",
          "indeterminate")
CommitThenDisconnect(names) ==
    Fault("commit-then-disconnect", names, "during-response", "committed",
          "indeterminate")
MalformedJson(names) ==
    Fault("malformed-json", names, "during-response", "unknown", "indeterminate")

\* responseFromFault: the faults that are answered instead of the provider.
ImmediateKinds == {"rate-limit", "http-error", "reject-before-commit"}
LossKinds == {"commit-then-timeout", "commit-then-disconnect"}

\* A variation has no phase and changes nothing on this path.
Kind(c) == IF IsFault(fault[c]) THEN fault[c].kind ELSE "none"

---------------------------------------------------------------------------
(* The runtime's steps *)

Settle(c, given) ==
    /\ pc' = [pc EXCEPT ![c] = "idle"]
    /\ answer' = [answer EXCEPT ![c] = given]

Go(c, place) == pc' = [pc EXCEPT ![c] = place]

NothingSent == [type |-> "fail", actual |-> "not-committed", source |-> "declared"]

\* Begin the operation, and the first eligible perturbation of any phase is
\* injected.
Accept(c, r) ==
    LET o == Indexed(r.name)
        taken == Taken(o, AnyPhase, AnyPhase)
    IN /\ pc[c] = "idle"
       /\ calls[c] < MaxCalls
       /\ CountOccurrence(r.name)
       /\ Activate(taken)
       /\ calls' = [calls EXCEPT ![c] = @ + 1]
       /\ request' = [request EXCEPT ![c] = r]
       /\ op' = [op EXCEPT ![c] = o]
       /\ fault' = [fault EXCEPT ![c] = IF taken = Nothing THEN NoFault ELSE scenario[taken]]
       /\ response' = [response EXCEPT ![c] = NoResponse]
       /\ effective' = [effective EXCEPT ![c] = FALSE]
       /\ UNCHANGED scenario

\* Nothing was answered yet; the call goes on at the given place.
Proceed(c, place) ==
    /\ Go(c, place)
    /\ completions' = [completions EXCEPT ![c] = <<>>]
    /\ UNCHANGED answer

\* The call is settled in the step it began in.
SettleAtOnce(c, entry, given) ==
    /\ Settle(c, given)
    /\ completions' = [completions EXCEPT ![c] = <<entry>>]

\* Up to the first await, for an adapter without an execute of its own.
Begin(c, r) ==
    /\ Accept(c, r)
    /\ LET kind == IF IsFault(fault'[c]) THEN fault'[c].kind ELSE "none"
       IN \/ /\ kind = "timeout-before-send"
             /\ SettleAtOnce(c, NothingSent, "not sent")
          \/ /\ kind # "timeout-before-send"
             /\ Proceed(c, CASE kind \in ImmediateKinds -> "refusing"
                             [] kind = "latency" -> "delaying"
                             [] OTHER -> "sent")

callKept == <<scenario, activations, occurrences, request, op, fault, response,
              effective, calls>>

Truth(c) == IF effective[c] THEN "committed" ELSE "not-committed"

\* askOracle: an oracle may know nothing of the token, or be out of reach.
Privileged(c) == IF HasOracle THEN {Truth(c), NoAnswer} ELSE {NoAnswer}

CompleteAs(c, type, declared, inferred) ==
    \E told \in Privileged(c) :
        Complete(c, OutcomeMetadata(type, told, declared, inferred))

\* What an immediate fault declares if it says nothing: that nothing was sent.
DeclaredOrNotSent(c) ==
    IF fault[c].actual = "unknown" THEN "not-committed" ELSE fault[c].actual

\* The fault's own response is given in place of the provider's.
Refuse(c) ==
    /\ pc[c] = "refusing"
    /\ CompleteAs(c, "fail", DeclaredOrNotSent(c), "unknown")
    /\ Settle(c, "refusal")
    /\ UNCHANGED callKept

\* The latency is over; the request is sent as if there had been none.
Resume(c) ==
    /\ pc[c] = "delaying"
    /\ Go(c, "sent")
    /\ UNCHANGED <<callKept, completions, answer>>

\* Mutant: whatever the provider answered, it is done.
InferredAlways(c) == "committed"

InferredFrom(c) ==
    IF request[c].effect = "query" \/ ~response[c].ok THEN "unknown" ELSE "committed"

\* The provider's response, or what the fault makes of it, goes to the caller.
Answer(c) ==
    /\ pc[c] = "replied"
    /\ \/ /\ Kind(c) = "malformed-json"
          /\ CompleteAs(c, "info", fault[c].actual, "unknown")
          /\ Settle(c, "malformed")
       \/ /\ Kind(c) \in LossKinds
          /\ CompleteAs(c, "info", fault[c].actual, "unknown")
          /\ Settle(c, "indeterminate")
       \/ /\ Kind(c) \notin LossKinds \cup {"malformed-json"}
          /\ CompleteAs(c, IF response[c].ok THEN "ok" ELSE "fail", "unknown",
                        InferredFrom(c))
          /\ Settle(c, "response")
    /\ UNCHANGED callKept

\* The network loses the request or the response and upstream() rejects.
Lose(c) ==
    /\ LossyNetwork
    /\ pc[c] \in {"sent", "replied"}
    /\ Go(c, "lost")
    /\ UNCHANGED <<callKept, completions, answer>>

\* Mutant: an error of the transport is recorded as a definite failure.
CatchAsFailure(c) ==
    /\ pc[c] = "lost"
    /\ CompleteAs(c, "fail", "unknown", "unknown")
    /\ Settle(c, "thrown")
    /\ UNCHANGED callKept

\* The catch of fetch: nobody but an oracle knows what happened.
Catch(c) ==
    /\ pc[c] = "lost"
    /\ CompleteAs(c, "info", "unknown", "unknown")
    /\ Settle(c, "thrown")
    /\ UNCHANGED callKept

Runtime(c) == Refuse(c) \/ Resume(c) \/ Answer(c) \/ Catch(c)

Settled(c) == pc[c] = "idle" /\ calls[c] > 0
=============================================================================

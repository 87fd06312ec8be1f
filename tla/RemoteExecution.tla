---------------------------- MODULE RemoteExecution ----------------------------
(***************************************************************************)
(* Scenarios executed by an agent elsewhere: NegotiatedRemoteBackend and   *)
(* SignedRemoteBackend at one end, createRemoteExecutionHandler with       *)
(* createSignedRemoteAuthorizer and its cache of nonces at the other       *)
(* (packages/core/src).  The network between them loses requests and       *)
(* answers, delivers a request again, and takes its time; so may the        *)
(* headers function and the decode function that a caller gives a backend.  *)
(***************************************************************************)
EXTENDS Integers, FiniteSets

CONSTANTS Calls,      \* calls of execute
          Timed,      \* those with timeoutMs
          Features,   \* features an agent may have
          Copies,     \* deliveries of one request
          MaxSkew,    \* maxSkewMs
          Ahead,      \* how far the caller's clock is ahead of the agent's, or behind
          MaxClock    \* bound: the agent's clock

VARIABLES signed,     \* SignedRemoteBackend, or NegotiatedRemoteBackend
          decodes,    \* the backend was given a decode function
          available, required,   \* features
          negotiation,           \* the memoised promise
          queries,    \* capability queries sent
          call,       \* where a call of execute is
          sent,       \* per request, when it was signed, or Unsent
          handler,    \* where the agent is with a copy of a request
          checkedAt,  \* when the authorizer looked at its clock for a copy
          nonces,     \* MemoryRemoteReplayCache: when a nonce expires, or Unsent
          overlapped, \* requests of which two copies were being authorised at once
          clock

remoteVars == <<signed, decodes, available, required, negotiation, queries, call, sent, handler,
          checkedAt, nonces, overlapped, clock>>
environment == <<signed, decodes, available, required>>
agent == <<handler, checkedAt, nonces, overlapped>>

Query == "capabilities"
Requests == Calls \cup {Query}

\* Before any time a clock may show.
Unsent == IF Ahead < 0 THEN Ahead - 1 ELSE -1

ASSUME RemoteAssumption ==
    /\ Query \notin Calls
    /\ MaxSkew \in Nat /\ MaxClock \in Nat /\ Ahead \in Int

Compatible == required \subseteq available
NegotiationSettled == negotiation \in {"compatible", "incompatible", "failed"}

---------------------------------------------------------------------------
(* The caller *)

Send(request) == sent' = [sent EXCEPT ![request] = clock + Ahead]

\* Mutant: what was negotiated is remembered when it is known.
StartUnmemoised(c) ==
    /\ call[c] = "new"
    /\ call' = [call EXCEPT ![c] = "negotiating"]
    /\ IF ~NegotiationSettled
       THEN negotiation' = "preparing" ELSE UNCHANGED negotiation
    /\ UNCHANGED <<environment, queries, sent, agent, clock>>

\* capabilities() of the first call starts the handshake; the others wait for it too.
Start(c) ==
    /\ call[c] = "new"
    /\ call' = [call EXCEPT ![c] = "negotiating"]
    /\ IF negotiation = "none"
       THEN negotiation' = "preparing" ELSE UNCHANGED negotiation
    /\ UNCHANGED <<environment, queries, sent, agent, clock>>

\* The headers of the query are awaited before it is signed and sent.
SendQuery ==
    /\ negotiation = "preparing"
    /\ negotiation' = "pending" /\ queries' = queries + 1 /\ Send(Query)
    /\ UNCHANGED <<environment, call, agent, clock>>

\* The handshake has no timeout.  A rejected promise stays: the calls to come reject too.
Negotiated(outcome) ==
    /\ negotiation \in {"preparing", "pending"}
    /\ negotiation' = outcome
    /\ UNCHANGED <<environment, queries, call, sent, agent, clock>>

\* Mutant: only a handshake that failed keeps a scenario from being sent.
SendsAnyway == negotiation # "failed"

Sends == negotiation = "compatible"

Proceed(c) ==
    /\ call[c] = "negotiating" /\ NegotiationSettled
    /\ call' = [call EXCEPT ![c] = IF Sends THEN "preparing" ELSE "error"]
    /\ UNCHANGED <<environment, negotiation, queries, sent, agent, clock>>

\* The headers of a request are awaited before its timer is set; then it is sent.
SendRequest(c) ==
    /\ call[c] = "preparing"
    /\ call' = [call EXCEPT ![c] = "waiting"] /\ Send(c)
    /\ UNCHANGED <<environment, negotiation, queries, agent, clock>>

\* Mutant: the timer is cleared when the request is sent.
TimerRunsBefore(c) == FALSE

\* Mutant: both backends clear their timer when the headers of the answer are there.
TimerStopsAtHeaders(c) == c \in Timed /\ call[c] = "waiting"

\* The signed backend clears its timer when the headers of the answer are there; the
\* other one when it has read the text of a refusal, or a result it does not decode: the
\* promise of decode is returned without being awaited.
TimerRuns(c) ==
    /\ c \in Timed
    /\ \/ call[c] = "waiting"
       \/ ~signed /\ call[c] = "refused"
       \/ ~signed /\ call[c] = "reading" /\ ~decodes

Settle(c, outcome) ==
    /\ call' = [call EXCEPT ![c] = outcome]
    /\ UNCHANGED <<environment, negotiation, queries, sent, agent, clock>>

Timeout(c) == TimerRuns(c) /\ Settle(c, "error")

\* The answer of any copy reaches the caller, as headers and then as a body.
Answered(request, status) == \E k \in Copies : handler[request][k] = status

HeadersArrive(c) ==
    /\ call[c] = "waiting"
    /\ \/ Answered(c, "executed") /\ Settle(c, "reading")
       \/ (Answered(c, "refused") \/ Answered(c, "threw")) /\ Settle(c, "refused")
BodyArrives(c) ==
    \/ call[c] = "reading" /\ Settle(c, "result")
    \/ call[c] = "refused" /\ Settle(c, "error")
\* The connection breaks, or one of the caller's two functions rejects.
Breaks(c) ==
    call[c] \in {"preparing", "waiting", "refused", "reading"} /\ Settle(c, "error")

NegotiationAnswered ==
    \/ Answered(Query, "executed") /\ Negotiated(IF Compatible THEN "compatible" ELSE "incompatible")
    \/ Answered(Query, "refused") /\ Negotiated("failed")
    \/ Negotiated("failed")     \* the connection breaks, or the headers are rejected

---------------------------------------------------------------------------
(* The agent *)

Handle(request, k, from, to) ==
    /\ handler[request][k] = from
    /\ handler' = [handler EXCEPT ![request][k] = to]
    /\ UNCHANGED <<environment, negotiation, queries, call, sent, clock>>

\* A copy arrives, possibly long after the caller has given up.
Arrive(request, k) ==
    /\ sent[request] # Unsent
    /\ Handle(request, k, "underway", "arrived")
    /\ UNCHANGED <<checkedAt, nonces, overlapped>>

Distance(m, n) == IF m < n THEN n - m ELSE m - n
Pruned == [r \in Requests |-> IF nonces[r] < clock THEN Unsent ELSE nonces[r]]
Known(request) == Pruned[request] # Unsent

\* The authorizer up to the nonce, which is looked up before the body is read.
CheckNonce(request, k) ==
    /\ signed
    /\ IF Distance(clock, sent[request]) > MaxSkew
       THEN /\ Handle(request, k, "arrived", "refused")
            /\ UNCHANGED <<checkedAt, nonces, overlapped>>
       ELSE /\ Handle(request, k, "arrived", IF Known(request) THEN "refused" ELSE "checked")
            /\ checkedAt' = [checkedAt EXCEPT ![request][k] = clock]
            /\ nonces' = Pruned
            /\ overlapped' = IF ~Known(request) /\ Answered(request, "checked")
                             THEN overlapped \cup {request} ELSE overlapped

\* Mutant: a nonce is kept as long as the clock may differ.
ExpiryTooEarly(current) == current + MaxSkew

\* A timestamp ahead of the agent's clock is still accepted MaxSkew after it.
Expiry(current) == current + MaxSkew * 2

\* The body has been read and the signature compared.
Authorise(request, k) ==
    /\ Handle(request, k, "checked", "authorised")
    /\ nonces' = [nonces EXCEPT ![request] = Expiry(checkedAt[request][k])]
    /\ UNCHANGED <<checkedAt, overlapped>>

Unauthorised(request, k) ==
    ~signed /\ Handle(request, k, "arrived", "authorised") /\ UNCHANGED <<checkedAt, nonces, overlapped>>

\* A body that is too long is refused; a scenario is executed or throws.
Execute(request, k) ==
    /\ \/ Handle(request, k, "authorised", "executing")
       \/ Handle(request, k, "authorised", "refused")
    /\ UNCHANGED <<checkedAt, nonces, overlapped>>
Executed(request, k) ==
    /\ \/ Handle(request, k, "executing", "executed")
       \/ request # Query /\ Handle(request, k, "executing", "threw")
    /\ UNCHANGED <<checkedAt, nonces, overlapped>>

\* Only the signed backend and its agent look at the time.
Tick == /\ signed /\ clock < MaxClock /\ clock' = clock + 1
        /\ UNCHANGED <<environment, negotiation, queries, call, sent, agent>>

---------------------------------------------------------------------------
AgentStep(request, k) ==
    \/ Arrive(request, k) \/ CheckNonce(request, k) \/ Authorise(request, k)
    \/ Unauthorised(request, k) \/ Execute(request, k) \/ Executed(request, k)

CallStep(c) ==
    \/ Start(c) \/ Proceed(c) \/ SendRequest(c) \/ Timeout(c)
    \/ HeadersArrive(c) \/ BodyArrives(c) \/ Breaks(c)

RemoteInit ==
    /\ signed \in BOOLEAN /\ decodes \in BOOLEAN
    /\ available \in SUBSET Features /\ required \in SUBSET Features
    /\ negotiation = "none" /\ queries = 0 /\ clock = 0 /\ overlapped = {}
    /\ call = [c \in Calls |-> "new"]
    /\ sent = [r \in Requests |-> Unsent] /\ nonces = [r \in Requests |-> Unsent]
    /\ handler \in [Requests -> [Copies -> {"underway", "lost"}]]
    /\ checkedAt = [r \in Requests |-> [k \in Copies |-> 0]]

RemoteNext ==
    \/ \E c \in Calls : CallStep(c)
    \/ SendQuery \/ NegotiationAnswered
    \/ \E request \in Requests, k \in Copies : AgentStep(request, k)
    \/ Tick

\* Continuations and timers of the caller run; nothing is assumed of network and agent,
\* nor of the caller's own functions.
Fairness ==
    \A c \in Calls : /\ WF_remoteVars(Start(c)) /\ WF_remoteVars(Proceed(c))
                     /\ WF_remoteVars(Timeout(c))

RemoteSpec == RemoteInit /\ [][RemoteNext]_remoteVars /\ Fairness

---------------------------------------------------------------------------
(* Properties *)

Runs(request) == {k \in Copies : handler[request][k] \in {"executing", "executed", "threw"}}

\* No scenario runs on an agent that lacks a required feature, whatever calls overlap the
\* handshake; there is one handshake; a result is that of a scenario executed to its end
\* (negotiated-remote.ts NegotiatedRemoteBackend.execute).
RunsWhereItCan ==
    /\ queries <= 1
    /\ \A c \in Calls : Runs(c) # {} => Compatible
    /\ \A c \in Calls : call[c] = "result" => Answered(c, "executed")

\* A signed request that is delivered again is not executed again, however long the copy
\* took and whatever the clocks say, unless the copies were being authorised at the same
\* time (secure-remote.ts createSignedRemoteAuthorizer).
ExecutedOnceUnlessOverlapped ==
    signed => \A r \in Requests \ overlapped : Cardinality(Runs(r)) <= 1

\* A scenario is executed where it can be, and once.
AgentsRunOnce == RunsWhereItCan /\ ExecutedOnceUnlessOverlapped

\* The stages of a call that its timer bounds, after the handshake and the headers of the
\* request: the headers of the answer in every backend, in the unsigned one the text of a
\* refusal as well, and the result unless a decode function reads it.
BoundedStages ==
    {"waiting"} \cup (IF signed THEN {} ELSE {"refused"})
                \cup (IF signed \/ decodes THEN {} ELSE {"reading"})

\* A call with a timeout gets through the stages the timer bounds, also when the agent
\* never answers or an answer breaks off; in the unsigned backend without decode it has
\* settled then.  Nothing ends the waits before and after them (backend.ts
\* RemoteHttpBackend.execute, secure-remote.ts SignedRemoteBackend.execute).
TimedCallsSettle ==
    \A c \in Timed : (call[c] \in BoundedStages) ~> (call[c] \notin BoundedStages)
================================================================================

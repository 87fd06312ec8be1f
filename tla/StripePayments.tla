--------------------------- MODULE StripePayments ---------------------------
(***************************************************************************)
(* Callers that pay through the adapter runtime and StripeMemoryBackend    *)
(* (packages/stripe/src/index.ts), the stateful provider of the checkout   *)
(* examples.  The backend's fetch gives up the thread to read a body and   *)
(* to copy a response, so that requests interleave inside it; callers may  *)
(* retry what they could not see the outcome of, with or without the       *)
(* idempotency key of the first attempt.                                   *)
(***************************************************************************)
EXTENDS AdapterRuntime, WellFoundedInduction, TLAPS

CONSTANTS OverlappingKeys   \* may two requests with one key be in flight?

\* The operations, as the adapter names them.
Creation == <<"stripe", "payment_intent.create">>
Confirmation == <<"stripe", "payment_intent.confirm">>
Retrieval == <<"stripe", "payment_intent.retrieve">>

\* All creations have one path, and have an effect.
ASSUME RequestAssumption ==
    \A r \in Requests : r.name = Creation => r.intent = 0 /\ r.effect # "query"

\* What the adapter's faults declare: one that loses a response that the request is
\* committed, the others nothing or that it is not.
ASSUME FaultAssumption ==
    \A s \in Scenarios : DOMAIN s \subseteq Nat \ {0} /\ \A i \in DOMAIN s :
        /\ s[i].kind \in LossKinds => s[i].actual = "committed"
        /\ s[i].kind \in ImmediateKinds => s[i].actual \in {"not-committed", "unknown"}
        /\ s[i].kind = "malformed-json" => s[i].actual = "unknown"

VARIABLES intents,       \* #paymentIntents: the charges of each, by sequence number
          idempotency,   \* #idempotency, by path and key
          charges        \* how often each key's creations charged (for the property)

backendVars == <<intents, idempotency, charges>>
vars == <<controllerVars, runtimeVars, backendVars>>

NoKey == "no key"
Keys == {r.key : r \in Requests} \ {NoKey}

\* The cache's key: the path tells creations and each intent's confirmation apart.
Slot(r) == <<r.name, r.intent, r.key>>
Slots == {Slot(r) : r \in {q \in Requests : q.key # NoKey}}

Init ==
    /\ RuntimeInit
    /\ intents = <<>>
    /\ idempotency = [s \in Slots |-> NoResponse]
    /\ charges = [k \in Keys |-> 0]

Cached(r) == r.key # NoKey /\ idempotency[Slot(r)] # NoResponse

\* Mutant: nothing is stored.
AlwaysReplied(r) == "replied"

\* Whether the response is stored before it is returned.
AfterEffect(r) == IF r.key # NoKey THEN "storing" ELSE "replied"

Reply(c, ok, intent) ==
    /\ response' = [response EXCEPT ![c] = [ok |-> ok, intent |-> intent]]
    /\ effective' = [effective EXCEPT ![c] = ok /\ request[c].effect # "query"]

backendKept == <<controllerVars, request, op, fault, answer, calls>>

\* The response of the first attempt with this key is given again.
ReplayCached(c) ==
    /\ pc[c] = "sent"
    /\ Cached(request[c])
    /\ LET kept == idempotency[Slot(request[c])] IN Reply(c, kept.ok, kept.intent)
    /\ Go(c, "replied")
    /\ UNCHANGED <<backendKept, backendVars>>

\* A creation reads the body first.
AcceptCreate(c) ==
    /\ pc[c] = "sent"
    /\ ~Cached(request[c])
    /\ request[c].name = Creation
    /\ Go(c, "reading")
    /\ UNCHANGED <<backendKept, backendVars, response, effective>>

\* The intent is created and, as the body asks, confirmed and charged at once.
Create(c) ==
    /\ pc[c] = "reading"
    /\ intents' = Append(intents, IF request[c].confirm THEN 1 ELSE 0)
    /\ charges' = IF request[c].key # NoKey /\ request[c].confirm
                  THEN [charges EXCEPT ![request[c].key] = @ + 1] ELSE charges
    /\ Reply(c, TRUE, Len(intents) + 1)
    /\ Go(c, AfterEffect(request[c]))
    /\ UNCHANGED <<backendKept, idempotency>>

Unpaid(i) == i \in DOMAIN intents /\ intents[i] = 0

\* A confirmation charges the intent unless that was done already.
Confirm(c) ==
    LET i == request[c].intent
    IN /\ pc[c] = "sent"
       /\ ~Cached(request[c])
       /\ request[c].name = Confirmation
       /\ intents' = IF Unpaid(i) THEN [intents EXCEPT ![i] = @ + 1] ELSE intents
       /\ Reply(c, i \in DOMAIN intents, i)
       /\ Go(c, AfterEffect(request[c]))
       /\ UNCHANGED <<backendKept, idempotency, charges>>

Retrieve(c) ==
    LET i == request[c].intent
    IN /\ pc[c] = "sent"
       /\ request[c].name = Retrieval
       /\ Reply(c, i \in DOMAIN intents, i)
       /\ Go(c, "replied")
       /\ UNCHANGED <<backendKept, backendVars>>

\* The response's body was copied, a failure's as well, and is remembered.
Store(c) ==
    /\ pc[c] = "storing"
    /\ idempotency' = [idempotency EXCEPT ![Slot(request[c])] = response[c]]
    /\ Go(c, "replied")
    /\ UNCHANGED <<backendKept, intents, charges, response, effective>>

Backend(c) ==
    ReplayCached(c) \/ AcceptCreate(c) \/ Create(c) \/ Confirm(c) \/ Retrieve(c) \/ Store(c)

\* Callers send what they like, one request at a time each.  A key in flight is
\* not used again by a workload that waits for an answer before it retries.
MaySend(r) ==
    \/ OverlappingKeys
    \/ r.key = NoKey
    \/ \A d \in Callers : pc[d] # "idle" => request[d].key # r.key

Send(c) ==
    /\ \E r \in Requests : MaySend(r) /\ Begin(c, r)
    /\ UNCHANGED backendVars

RuntimeStep(c) == Runtime(c) /\ UNCHANGED backendVars
NetworkFails(c) == Lose(c) /\ UNCHANGED backendVars

Next ==
    \E c \in Callers : Send(c) \/ RuntimeStep(c) \/ Backend(c) \/ NetworkFails(c)

Spec == Init /\ [][Next]_vars

---------------------------------------------------------------------------

\* One of the workload's requests is over.
Answered(c) == Settled(c) /\ request[c] \in Requests

\* A stable idempotency key pays once: however many attempts the faults and the
\* network make their caller repeat, a key's creations charge at most once.
OneChargePerKey == \A k \in Keys : charges[k] <= 1

\* What the history claims of a request is what the provider holds: the declared
\* outcome of a fault is sound "only because CloudFault chose this moment itself".
ClaimedOutcomeIsTrue ==
    \A c \in Callers : Answered(c) =>
        LET entry == completions[c][1]
        IN entry.source # "unknown" => entry.actual = Truth(c)

\* A caller whose payment went through and who got no usable answer is on record
\* as ambiguous, and a definite failure means that nothing happened: this is the
\* distinction that the runtime is documented to preserve.
AmbiguityIsRecorded ==
    \A c \in Callers : Answered(c) =>
        /\ Len(completions[c]) = 1
        /\ effective[c] /\ answer[c] # "response" => completions[c][1].type = "info"
        /\ completions[c][1].type = "fail" => ~effective[c]

PaymentClaimsAreTrue == ClaimedOutcomeIsTrue /\ AmbiguityIsRecorded

---------------------------------------------------------------------------
(* A key charges once, for any number of callers, requests and faults.  The property
   is not inductive: what keeps a second creation from charging is that the first
   one's response is found, or is about to be stored by a caller with whom nobody
   shares the key. *)

Busy(c) == pc[c] # "idle"
Creates(r, k) == r.name = Creation /\ r.key = k

Remembered(k) == \A r \in Requests : Creates(r, k) => Cached(r)
BeingStored(k) == \E c \in Callers : pc[c] = "storing" /\ Creates(request[c], k)

PaymentTypes ==
    /\ DOMAIN pc = Callers
    /\ DOMAIN request = Callers
    /\ DOMAIN response = Callers
    /\ DOMAIN idempotency = Slots
    /\ charges \in [Keys -> {0, 1}]
    /\ \A c \in Callers : Busy(c) => request[c] \in Requests

KeysAreExclusive ==
    \A c, d \in Callers :
        (c # d /\ Busy(c) /\ Busy(d) /\ request[c].key = request[d].key)
            => request[c].key = NoKey

ChargeInv ==
    /\ PaymentTypes
    /\ KeysAreExclusive
    /\ \A c \in Callers :
          /\ pc[c] = "reading" => request[c].name = Creation /\ ~Cached(request[c])
          /\ pc[c] = "storing" =>
                /\ request[c].key # NoKey
                /\ request[c].name = Creation => response[c].ok
    /\ \A k \in Keys : charges[k] = 0 \/ Remembered(k) \/ BeingStored(k)

LEMMA OperationsDiffer == Creation # Confirmation /\ Creation # Retrieval
  BY DEF Creation, Confirmation, Retrieval

\* The runtime and the network leave the backend alone.
LEMMA OutsideKeepsCharges ==
    ASSUME ChargeInv, NEW c \in Callers, RuntimeStep(c) \/ NetworkFails(c)
    PROVE  ChargeInv'
<1>1. PICK place \in {"idle", "sent", "lost"} : pc' = [pc EXCEPT ![c] = place]
  BY DEF RuntimeStep, NetworkFails, Runtime, Refuse, Resume, Answer, Catch, Lose, Settle, Go
<1>2. pc[c] \in {"refusing", "delaying", "replied", "lost", "sent"}
  BY DEF RuntimeStep, NetworkFails, Runtime, Refuse, Resume, Answer, Catch, Lose
<1>3. UNCHANGED <<request, response, idempotency, charges>>
  BY DEF RuntimeStep, NetworkFails, Runtime, Refuse, Resume, Answer, Catch, Lose, callKept,
         backendVars
<1>4. PaymentTypes'
  BY <1>1, <1>2, <1>3 DEF ChargeInv, PaymentTypes, Busy
<1>5. KeysAreExclusive'
  BY <1>1, <1>2, <1>3 DEF ChargeInv, PaymentTypes, KeysAreExclusive, Busy
<1>6. \A r : Cached(r)' <=> Cached(r)
  BY <1>3 DEF Cached
<1>7. \A k \in Keys : (Remembered(k)' <=> Remembered(k)) /\ (BeingStored(k) => BeingStored(k)')
  BY <1>1, <1>2, <1>3, <1>6 DEF Remembered, BeingStored, Creates, ChargeInv, PaymentTypes
<1> QED BY <1>1, <1>2, <1>3, <1>4, <1>5, <1>6, <1>7 DEF ChargeInv, PaymentTypes

LEMMA SendingKeepsCharges ==
    ASSUME ~OverlappingKeys, ChargeInv, NEW c \in Callers, Send(c)
    PROVE  ChargeInv'
<1>1. PICK r \in Requests : MaySend(r) /\ Begin(c, r)
  BY DEF Send
<1>2. /\ pc[c] = "idle"
      /\ request' = [request EXCEPT ![c] = r]
      /\ response' = [response EXCEPT ![c] = NoResponse]
      /\ UNCHANGED <<idempotency, charges>>
  BY <1>1 DEF Begin, Accept, Send, backendVars
<1>3. PICK place \in {"idle", "refusing", "delaying", "sent"} : pc' = [pc EXCEPT ![c] = place]
  BY <1>1 DEF Begin, SettleAtOnce, Settle, Proceed, Go
<1>4. PaymentTypes'
  BY <1>2, <1>3 DEF ChargeInv, PaymentTypes, Busy
<1>5. \A d \in Callers \ {c} : pc'[d] = pc[d] /\ request'[d] = request[d] /\ response'[d] = response[d]
  BY <1>2, <1>3 DEF ChargeInv, PaymentTypes
<1>6. \A d \in Callers : Busy(d) => r.key = NoKey \/ request[d].key # r.key
  BY <1>1 DEF MaySend, Busy
<1>7. KeysAreExclusive'
  BY <1>2, <1>3, <1>5, <1>6 DEF ChargeInv, PaymentTypes, KeysAreExclusive, Busy
<1>8. \A q : Cached(q)' <=> Cached(q)
  BY <1>2 DEF Cached
<1>9. \A k \in Keys : (Remembered(k)' <=> Remembered(k)) /\ (BeingStored(k) => BeingStored(k)')
  BY <1>2, <1>5, <1>8 DEF Remembered, BeingStored, Creates
<1> QED BY <1>2, <1>3, <1>4, <1>5, <1>7, <1>8, <1>9 DEF ChargeInv, PaymentTypes

\* The backend's steps that neither charge a key nor store anything.
LEMMA AnsweringKeepsCharges ==
    ASSUME ChargeInv, NEW c \in Callers,
           ReplayCached(c) \/ AcceptCreate(c) \/ Confirm(c) \/ Retrieve(c)
    PROVE  ChargeInv'
<1>1. PICK place \in {"replied", "reading", "storing"} : pc' = [pc EXCEPT ![c] = place]
  BY DEF ReplayCached, AcceptCreate, Confirm, Retrieve, AfterEffect, Go
<1>2. pc[c] = "sent" /\ UNCHANGED <<request, idempotency, charges>>
  BY DEF ReplayCached, AcceptCreate, Confirm, Retrieve, backendKept, backendVars
<1>3. /\ place = "reading" => request[c].name = Creation /\ ~Cached(request[c])
      /\ place = "storing" => request[c].name = Confirmation /\ request[c].key # NoKey
  BY <1>1, <1>2 DEF ReplayCached, AcceptCreate, Confirm, Retrieve, AfterEffect, Go, ChargeInv,
                    PaymentTypes
<1>4. DOMAIN response' = Callers /\ \A d \in Callers \ {c} : response'[d] = response[d]
  BY DEF ReplayCached, AcceptCreate, Confirm, Retrieve, Reply, ChargeInv, PaymentTypes
<1>5. PaymentTypes'
  BY <1>1, <1>2, <1>4 DEF ChargeInv, PaymentTypes, Busy
<1>6. KeysAreExclusive'
  BY <1>1, <1>2 DEF ChargeInv, PaymentTypes, KeysAreExclusive, Busy
<1>7. \A r : Cached(r)' <=> Cached(r)
  BY <1>2 DEF Cached
<1>8. \A k \in Keys : (Remembered(k)' <=> Remembered(k)) /\ (BeingStored(k) => BeingStored(k)')
  BY <1>1, <1>2, <1>7 DEF Remembered, BeingStored, Creates, ChargeInv, PaymentTypes
<1> QED BY <1>1, <1>2, <1>3, <1>4, <1>5, <1>6, <1>7, <1>8, OperationsDiffer
        DEF ChargeInv, PaymentTypes

\* A creation that got this far is the first one of its key.
LEMMA CreatingKeepsCharges ==
    ASSUME ChargeInv, NEW c \in Callers, Create(c)
    PROVE  ChargeInv'
<1> DEFINE r == request[c]
<1>1. /\ pc[c] = "reading" /\ r \in Requests /\ r.name = Creation /\ ~Cached(r)
      /\ UNCHANGED <<request, idempotency>>
      /\ pc' = [pc EXCEPT ![c] = AfterEffect(r)]
  BY DEF Create, Go, backendKept, ChargeInv, PaymentTypes, Busy
<1>2. DOMAIN response' = Callers /\ response'[c].ok
      /\ \A d \in Callers \ {c} : response'[d] = response[d]
  BY DEF Create, Reply, ChargeInv, PaymentTypes
<1>3. AfterEffect(r) \in {"storing", "replied"} /\ (AfterEffect(r) = "storing" <=> r.key # NoKey)
  BY DEF AfterEffect
<1>4. \A d \in Callers \ {c} : Busy(d) => r.key = NoKey \/ request[d].key # r.key
  BY <1>1 DEF ChargeInv, KeysAreExclusive, Busy
<1>5. r.key # NoKey => r.key \in Keys /\ charges[r.key] = 0
  <2> SUFFICES ASSUME r.key # NoKey PROVE r.key \in Keys /\ charges[r.key] = 0
    OBVIOUS
  <2>1. r.key \in Keys
    BY <1>1 DEF Keys
  <2>2. ~Remembered(r.key)
    BY <1>1 DEF Remembered, Creates
  <2>3. ~BeingStored(r.key)
    BY <1>1, <1>4 DEF BeingStored, Creates, Busy
  <2> QED BY <2>1, <2>2, <2>3 DEF ChargeInv
<1>6. charges' \in [Keys -> {0, 1}] /\ \A k \in Keys : k # r.key => charges'[k] = charges[k]
  BY <1>5 DEF Create, ChargeInv, PaymentTypes
<1>7. PaymentTypes'
  BY <1>1, <1>2, <1>3, <1>6 DEF ChargeInv, PaymentTypes, Busy
<1>8. KeysAreExclusive'
  BY <1>1, <1>3 DEF ChargeInv, PaymentTypes, KeysAreExclusive, Busy
<1>9. \A q : Cached(q)' <=> Cached(q)
  BY <1>1 DEF Cached
<1>10. \A k \in Keys : (Remembered(k)' <=> Remembered(k)) /\ (BeingStored(k) => BeingStored(k)')
  BY <1>1, <1>9 DEF Remembered, BeingStored, Creates, ChargeInv, PaymentTypes
<1>11. r.key \in Keys => BeingStored(r.key)'
  BY <1>1, <1>3 DEF BeingStored, Creates, ChargeInv, PaymentTypes, Keys
<1> QED BY <1>1, <1>2, <1>3, <1>6, <1>7, <1>8, <1>9, <1>10, <1>11 DEF ChargeInv, PaymentTypes

\* What a creation leaves behind is found by every later one of its key.
LEMMA StoringKeepsCharges ==
    ASSUME ChargeInv, NEW c \in Callers, Store(c)
    PROVE  ChargeInv'
<1> DEFINE r == request[c]
<1>1. /\ pc[c] = "storing" /\ r \in Requests /\ r.key # NoKey
      /\ r.name = Creation => response[c].ok
      /\ UNCHANGED <<request, response, charges>>
      /\ pc' = [pc EXCEPT ![c] = "replied"]
      /\ idempotency' = [idempotency EXCEPT ![Slot(r)] = response[c]]
  BY DEF Store, Go, backendKept, ChargeInv, PaymentTypes, Busy
<1>2. Slot(r) \in Slots
  BY <1>1 DEF Slots
<1>3. \A q \in Requests : q.key # r.key => (Cached(q)' <=> Cached(q))
  <2> SUFFICES ASSUME NEW q \in Requests, q.key # r.key PROVE Cached(q)' <=> Cached(q)
    OBVIOUS
  <2>1. Slot(q) # Slot(r)
    BY DEF Slot
  <2>2. q.key # NoKey => idempotency'[Slot(q)] = idempotency[Slot(q)]
    <3> SUFFICES ASSUME q.key # NoKey PROVE idempotency'[Slot(q)] = idempotency[Slot(q)]
      OBVIOUS
    <3>1. Slot(q) \in Slots
      BY DEF Slots
    <3> HIDE DEF r
    <3> QED BY <1>1, <2>1, <3>1 DEF ChargeInv, PaymentTypes
  <2> QED BY <2>2 DEF Cached
<1>4. \A q \in Requests : q.name = Creation /\ Cached(q) => Cached(q)'
  <2> SUFFICES ASSUME NEW q \in Requests, q.name = Creation, Cached(q) PROVE Cached(q)'
    OBVIOUS
  <2>1. q.key # NoKey /\ Slot(q) \in Slots
    BY DEF Cached, Slots
  <2>2. CASE Slot(q) = Slot(r)
    <3>1. r.name = Creation
      BY <2>2 DEF Slot
    <3>2. idempotency'[Slot(q)] = response[c] /\ response[c] # NoResponse
      BY <1>1, <1>2, <2>2, <3>1 DEF ChargeInv, PaymentTypes, NoResponse
    <3> QED BY <2>1, <3>2 DEF Cached
  <2>3. CASE Slot(q) # Slot(r)
    <3>1. idempotency'[Slot(q)] = idempotency[Slot(q)]
      BY <1>1, <2>1, <2>3 DEF ChargeInv, PaymentTypes
    <3> QED BY <2>1, <3>1 DEF Cached
  <2> QED BY <2>2, <2>3
<1>5. \A k \in Keys : Creates(r, k) => Remembered(k)'
  <2> SUFFICES ASSUME NEW k \in Keys, Creates(r, k), NEW q \in Requests, Creates(q, k)
               PROVE  Cached(q)'
    BY DEF Remembered, Creates
  <2>1. Slot(q) = Slot(r) /\ q.key # NoKey
    BY <1>1, RequestAssumption DEF Creates, Slot
  <2>2. idempotency'[Slot(q)] = response[c] /\ response[c] # NoResponse
    BY <1>1, <1>2, <2>1 DEF Creates, ChargeInv, PaymentTypes, NoResponse
  <2> QED BY <2>1, <2>2 DEF Cached
<1>6. PaymentTypes'
  BY <1>1 DEF ChargeInv, PaymentTypes, Busy
<1>7. KeysAreExclusive'
  BY <1>1 DEF ChargeInv, PaymentTypes, KeysAreExclusive, Busy
<1>8. \A d \in Callers : pc'[d] = "reading" =>
        pc[d] = "reading" /\ request[d] \in Requests /\ request[d].key # r.key
  BY <1>1 DEF ChargeInv, PaymentTypes, KeysAreExclusive, Busy
<1>9. \A k \in Keys : charges[k] = 0 \/ Remembered(k)' \/ BeingStored(k)'
  <2> SUFFICES ASSUME NEW k \in Keys, charges[k] # 0, ~Creates(r, k)
               PROVE  Remembered(k)' \/ BeingStored(k)'
    BY <1>5
  <2>1. CASE Remembered(k)
    BY <1>4, <2>1 DEF Remembered, Creates
  <2>2. CASE BeingStored(k)
    BY <1>1, <2>2 DEF BeingStored, Creates, ChargeInv, PaymentTypes
  <2> QED BY <2>1, <2>2 DEF ChargeInv
<1> QED BY <1>1, <1>3, <1>6, <1>7, <1>8, <1>9 DEF ChargeInv, PaymentTypes

LEMMA ChargeInvHolds ==
    ASSUME ~OverlappingKeys
    PROVE  Spec => []ChargeInv
<1>1. Init => ChargeInv
  BY DEF Init, RuntimeInit, ChargeInv, PaymentTypes, KeysAreExclusive, Busy
<1>2. ChargeInv /\ [Next]_vars => ChargeInv'
  <2> SUFFICES ASSUME ChargeInv, [Next]_vars PROVE ChargeInv'
    OBVIOUS
  <2>1. ASSUME NEW c \in Callers, Send(c) \/ RuntimeStep(c) \/ Backend(c) \/ NetworkFails(c)
        PROVE  ChargeInv'
    BY <2>1, OutsideKeepsCharges, SendingKeepsCharges, AnsweringKeepsCharges,
       CreatingKeepsCharges, StoringKeepsCharges DEF Backend
  <2>2. CASE UNCHANGED vars
    BY <2>2 DEF vars, runtimeVars, backendVars, ChargeInv, PaymentTypes, KeysAreExclusive, Busy,
                Cached, Remembered, BeingStored, Creates
  <2> QED BY <2>1, <2>2 DEF Next
<1> QED BY <1>1, <1>2, PTL DEF Spec

\* "a stable idempotency key remains correct": as long as a caller waits for an answer
\* before it repeats a request, its key pays once, through any number of attempts,
\* callers and faults (StripeMemoryBackend.fetch).
THEOREM KeysChargeOnce ==
    ASSUME ~OverlappingKeys
    PROVE  Spec => []OneChargePerKey
<1>1. ChargeInv => OneChargePerKey
  BY DEF ChargeInv, PaymentTypes, OneChargePerKey
<1> QED BY <1>1, ChargeInvHolds, PTL

---------------------------------------------------------------------------
(* What the history says is true, for any number of callers, overlapping keys and an
   oracle that may or may not know. *)

\* A response is lost only by requests that take effect whenever they are answered:
\* of a confirmation, which may be answered with 404, commit-then-timeout declares
\* what did not happen (adapter-sdk/src/index.ts:622).
LossesOnCreations ==
    \A s \in Scenarios : \A i \in DOMAIN s :
        s[i].kind \in LossKinds => s[i].names \subseteq {Creation}

\* What the fault a call was given declares, when it comes to that.
FaultFits(c) ==
    /\ Kind(c) \in LossKinds => fault[c].actual = "committed" /\ request[c].name = Creation
    /\ Kind(c) \in ImmediateKinds => fault[c].actual \in {"not-committed", "unknown"}
    /\ Kind(c) = "malformed-json" => fault[c].actual = "unknown"

SettledTruly(c) ==
    /\ Len(completions[c]) = 1
    /\ completions[c][1].source # "unknown" => completions[c][1].actual = Truth(c)
    /\ effective[c] /\ answer[c] # "response" => completions[c][1].type = "info"
    /\ completions[c][1].type = "fail" => ~effective[c]

\* How far a call is determines what is in effect and what is on record.
CallerTruth(c) ==
    /\ pc[c] = "idle" /\ calls[c] > 0 => SettledTruly(c)
    /\ pc[c] # "idle" => completions[c] = <<>> /\ FaultFits(c) /\ request[c] \in Requests
    /\ pc[c] \in {"refusing", "delaying", "sent", "reading"} => ~effective[c]
    /\ pc[c] = "refusing" => Kind(c) \in ImmediateKinds
    /\ pc[c] = "reading" => request[c].name = Creation
    /\ pc[c] \in {"storing", "replied"} =>
          /\ effective[c] = (response[c].ok /\ request[c].effect # "query")
          /\ request[c].name = Creation => response[c].ok
    /\ pc[c] = "storing" => request[c].key # NoKey

TruthTypes ==
    /\ scenario \in Scenarios
    /\ DOMAIN pc = Callers /\ DOMAIN request = Callers /\ DOMAIN fault = Callers
    /\ DOMAIN response = Callers /\ DOMAIN answer = Callers /\ DOMAIN calls = Callers
    /\ DOMAIN completions = Callers
    /\ effective \in [Callers -> BOOLEAN]
    /\ DOMAIN idempotency = Slots

CreationsKept ==
    \A r \in Requests : r.name = Creation /\ Cached(r) => idempotency[Slot(r)].ok

ClaimInv == TruthTypes /\ CreationsKept /\ \A c \in Callers : CallerTruth(c)

\* A step of one caller leaves what the others know.
Untouched(d) ==
    /\ pc'[d] = pc[d] /\ request'[d] = request[d] /\ fault'[d] = fault[d]
    /\ response'[d] = response[d] /\ effective'[d] = effective[d] /\ answer'[d] = answer[d]
    /\ calls'[d] = calls[d] /\ completions'[d] = completions[d]

LEMMA UntouchedStaysTrue ==
    ASSUME NEW d \in Callers, CallerTruth(d), Untouched(d)
    PROVE  CallerTruth(d)'
  BY DEF CallerTruth, Untouched, SettledTruly, FaultFits, Kind, IsFault, Truth

\* The least of a set of numbers is one of them.
LEMMA FirstIsMember ==
    ASSUME NEW S \in SUBSET Nat, S # {}
    PROVE  FirstOf(S) \in S
<1> DEFINE Below == {pair \in Nat \X Nat : pair[1] < pair[2]}
<1>1. IsWellFoundedOn(Below, Nat)
  BY NatLessThanWellFounded DEF OpToRel
<1>2. PICK i \in S : \A j \in S : ~(<<j, i>> \in Below)
  <2> HIDE DEF Below
  <2> QED BY <1>1, WFMin
<1>3. ASSUME NEW j \in S PROVE i <= j
  <2>1. <<j, i>> \in Nat \X Nat /\ <<j, i>>[1] = j /\ <<j, i>>[2] = i
    OBVIOUS
  <2>2. ~(j < i)
    BY <2>1, <1>2, Zenon
  <2> QED BY <2>2
<1> QED BY <1>3 DEF FirstOf

\* take answers with a perturbation whose selector matches, or with none.
LEMMA TakenMatches ==
    ASSUME scenario \in Scenarios, NEW o
    PROVE  LET i == Taken(o, AnyPhase, AnyPhase)
           IN  i = Nothing \/ (i \in DOMAIN scenario /\ o.name \in scenario[i].names)
<1>1. Eligible(o, AnyPhase) \in SUBSET Nat
  BY FaultAssumption DEF Eligible
<1>2. Eligible(o, AnyPhase) # {} => FirstOf(Eligible(o, AnyPhase)) \in Eligible(o, AnyPhase)
  BY <1>1, FirstIsMember
<1>3. \A i \in Eligible(o, AnyPhase) : i \in DOMAIN scenario /\ o.name \in scenario[i].names
  BY DEF Eligible, MatchesSelector
<1> QED BY <1>2, <1>3 DEF Taken

\* What a completion says comes from the oracle, which knows, from the fault's
\* declaration or from an inference.
LEMMA CompletionSays ==
    ASSUME NEW c \in Callers, DOMAIN completions = Callers, completions[c] = <<>>,
           NEW type, NEW declared, NEW inferred, CompleteAs(c, type, declared, inferred)
    PROVE  \E entry :
              /\ completions' = [completions EXCEPT ![c] = <<entry>>]
              /\ entry.type = type
              /\ entry.source # "unknown" =>
                    \/ entry.actual = Truth(c)
                    \/ declared # "unknown" /\ entry.actual = declared
                    \/ declared = "unknown" /\ inferred # "unknown" /\ entry.actual = inferred
<1>1. PICK told \in Privileged(c) :
        Complete(c, OutcomeMetadata(type, told, declared, inferred))
  BY DEF CompleteAs
<1> DEFINE e == OutcomeMetadata(type, told, declared, inferred)
<1>2. told = NoAnswer \/ told = Truth(c)
  BY DEF Privileged
<1>3. Append(<<>>, e) = <<e>>
  OBVIOUS
<1>4. completions' = [completions EXCEPT ![c] = <<e>>]
  BY <1>1, <1>3 DEF Complete
<1> SUFFICES /\ e.type = type
             /\ e.source # "unknown" =>
                   \/ e.actual = Truth(c)
                   \/ declared # "unknown" /\ e.actual = declared
                   \/ declared = "unknown" /\ inferred # "unknown" /\ e.actual = inferred
  <2> HIDE DEF e
  <2> QED BY <1>4
<1>5. CASE told # NoAnswer
  BY <1>2, <1>5 DEF OutcomeMetadata
<1>6. CASE told = NoAnswer /\ declared # "unknown"
  BY <1>6 DEF OutcomeMetadata
<1>7. CASE told = NoAnswer /\ declared = "unknown" /\ inferred # "unknown"
  BY <1>7 DEF OutcomeMetadata
<1>8. CASE told = NoAnswer /\ declared = "unknown" /\ inferred = "unknown"
  BY <1>8 DEF OutcomeMetadata
<1> QED BY <1>5, <1>6, <1>7, <1>8

LEMMA SendingStaysTrue ==
    ASSUME LossesOnCreations, ClaimInv, NEW c \in Callers, Send(c)
    PROVE  ClaimInv'
<1>1. PICK r \in Requests : Begin(c, r)
  BY DEF Send
<1> DEFINE o == Indexed(r.name)
           taken == Taken(o, AnyPhase, AnyPhase)
           given == IF taken = Nothing THEN NoFault ELSE scenario[taken]
           kind == IF IsFault(given) THEN given.kind ELSE "none"
<1>2. /\ pc[c] = "idle"
      /\ request' = [request EXCEPT ![c] = r]
      /\ fault' = [fault EXCEPT ![c] = given]
      /\ response' = [response EXCEPT ![c] = NoResponse]
      /\ effective' = [effective EXCEPT ![c] = FALSE]
      /\ calls' = [calls EXCEPT ![c] = @ + 1]
      /\ UNCHANGED <<scenario, idempotency>>
  BY <1>1 DEF Begin, Accept, Send, backendVars
<1>3. TruthTypes
  BY DEF ClaimInv
<1>4. fault'[c] = given /\ Kind(c)' = kind
  BY <1>2, <1>3 DEF TruthTypes, Kind
<1>5. taken = Nothing \/ (taken \in DOMAIN scenario /\ r.name \in scenario[taken].names)
  BY <1>3, TakenMatches DEF TruthTypes, Indexed
<1>6. /\ kind \in LossKinds => given.actual = "committed" /\ r.name = Creation
      /\ kind \in ImmediateKinds => given.actual \in {"not-committed", "unknown"}
      /\ kind = "malformed-json" => given.actual = "unknown"
  <2>1. CASE taken = Nothing
    <3>1. kind = "none"
      BY <2>1 DEF NoFault, IsFault
    <3> HIDE DEF kind
    <3> QED BY <3>1 DEF LossKinds, ImmediateKinds
  <2>2. CASE taken # Nothing
    <3>1. given = scenario[taken] /\ taken \in DOMAIN scenario /\ r.name \in scenario[taken].names
      BY <1>5, <2>2
    <3>2. kind = given.kind \/ kind = "none"
      OBVIOUS
    <3>3. /\ given.kind \in LossKinds => given.actual = "committed" /\ given.names \subseteq {Creation}
          /\ given.kind \in ImmediateKinds => given.actual \in {"not-committed", "unknown"}
          /\ given.kind = "malformed-json" => given.actual = "unknown"
      <4> HIDE DEF given, taken, kind
      <4> QED BY <1>3, <3>1, FaultAssumption DEF LossesOnCreations, TruthTypes
    <3> HIDE DEF given, taken, kind
    <3> QED BY <3>1, <3>2, <3>3 DEF LossKinds, ImmediateKinds
  <2> QED BY <2>1, <2>2
<1>7. \/ /\ pc' = [pc EXCEPT ![c] = "idle"]
         /\ answer' = [answer EXCEPT ![c] = "not sent"]
         /\ completions' = [completions EXCEPT ![c] = <<NothingSent>>]
      \/ /\ \E place \in {"refusing", "delaying", "sent"} :
              /\ pc' = [pc EXCEPT ![c] = place]
              /\ place = "refusing" => kind \in ImmediateKinds
         /\ completions' = [completions EXCEPT ![c] = <<>>]
         /\ UNCHANGED answer
  <2> HIDE DEF kind, given
  <2> QED BY <1>1, <1>4 DEF Begin, SettleAtOnce, Settle, Proceed, Go, Kind
<1> HIDE DEF o, taken, given, kind
<1>8. TruthTypes'
  BY <1>2, <1>3, <1>7 DEF TruthTypes
<1>9. CreationsKept'
  BY <1>2 DEF ClaimInv, CreationsKept, Cached
<1>10. \A d \in Callers \ {c} : CallerTruth(d)'
  <2> SUFFICES ASSUME NEW d \in Callers \ {c} PROVE Untouched(d)
    BY UntouchedStaysTrue DEF ClaimInv
  <2> QED BY <1>2, <1>3, <1>7 DEF TruthTypes, Untouched
<1>11. request'[c] = r /\ effective'[c] = FALSE
  BY <1>2, <1>3 DEF TruthTypes
<1>12. FaultFits(c)'
  BY <1>4, <1>6, <1>11 DEF FaultFits
<1>13. CASE /\ pc' = [pc EXCEPT ![c] = "idle"]
            /\ answer' = [answer EXCEPT ![c] = "not sent"]
            /\ completions' = [completions EXCEPT ![c] = <<NothingSent>>]
  <2>1. pc'[c] = "idle" /\ completions'[c] = <<NothingSent>>
    BY <1>3, <1>13 DEF TruthTypes
  <2>2. SettledTruly(c)'
    BY <1>11, <2>1 DEF SettledTruly, NothingSent, Truth
  <2> QED BY <1>8, <1>9, <1>10, <2>1, <2>2 DEF ClaimInv, CallerTruth
<1>14. CASE /\ \E place \in {"refusing", "delaying", "sent"} :
                 /\ pc' = [pc EXCEPT ![c] = place]
                 /\ place = "refusing" => kind \in ImmediateKinds
            /\ completions' = [completions EXCEPT ![c] = <<>>]
  <2>1. /\ pc'[c] \in {"refusing", "delaying", "sent"} /\ completions'[c] = <<>>
        /\ pc'[c] = "refusing" => kind \in ImmediateKinds
    BY <1>3, <1>14 DEF TruthTypes
  <2>2. CallerTruth(c)'
    BY <1>4, <1>11, <1>12, <2>1 DEF CallerTruth
  <2> QED BY <1>8, <1>9, <1>10, <2>2 DEF ClaimInv
<1> QED BY <1>7, <1>13, <1>14

\* A call is settled with an entry that says what is so.
LEMMA SettlingStaysTrue ==
    ASSUME ClaimInv, NEW c \in Callers, UNCHANGED <<callKept, backendVars>>,
           NEW place, Settle(c, place),
           NEW entry, completions' = [completions EXCEPT ![c] = <<entry>>],
           entry.source # "unknown" => entry.actual = Truth(c),
           effective[c] /\ place # "response" => entry.type = "info",
           entry.type = "fail" => ~effective[c]
    PROVE  ClaimInv'
<1>1. TruthTypes
  BY DEF ClaimInv
<1>2. /\ pc' = [pc EXCEPT ![c] = "idle"] /\ answer' = [answer EXCEPT ![c] = place]
      /\ UNCHANGED <<scenario, request, fault, response, effective, calls, idempotency>>
  BY DEF Settle, callKept, backendVars
<1>3. TruthTypes'
  BY <1>1, <1>2 DEF TruthTypes
<1>4. CreationsKept'
  BY <1>2 DEF ClaimInv, CreationsKept, Cached
<1>5. \A d \in Callers \ {c} : CallerTruth(d)'
  <2> SUFFICES ASSUME NEW d \in Callers \ {c} PROVE Untouched(d)
    BY UntouchedStaysTrue DEF ClaimInv
  <2> QED BY <1>1, <1>2 DEF TruthTypes, Untouched
<1>6. pc'[c] = "idle" /\ completions'[c] = <<entry>> /\ answer'[c] = place
  BY <1>1, <1>2 DEF TruthTypes
<1>7. SettledTruly(c)'
  BY <1>2, <1>6 DEF SettledTruly, Truth
<1>8. CallerTruth(c)'
  BY <1>6, <1>7 DEF CallerTruth
<1> QED BY <1>3, <1>4, <1>5, <1>8 DEF ClaimInv

LEMMA RuntimeStaysTrue ==
    ASSUME ClaimInv, NEW c \in Callers, RuntimeStep(c)
    PROVE  ClaimInv'
<1>1. TruthTypes /\ CallerTruth(c) /\ UNCHANGED <<callKept, backendVars>>
  BY DEF ClaimInv, RuntimeStep, Runtime, Refuse, Resume, Answer, Catch
<1>2. pc[c] # "idle" /\ completions[c] = <<>> /\ FaultFits(c) /\ DOMAIN completions = Callers
  BY <1>1 DEF RuntimeStep, Runtime, Refuse, Resume, Answer, Catch, CallerTruth, TruthTypes
<1>3. effective[c] \in BOOLEAN /\ Truth(c) = IF effective[c] THEN "committed" ELSE "not-committed"
  BY <1>1 DEF TruthTypes, Truth
<1>4. CASE Refuse(c)
  <2>1. /\ ~effective[c] /\ DeclaredOrNotSent(c) = "not-committed"
        /\ CompleteAs(c, "fail", DeclaredOrNotSent(c), "unknown") /\ Settle(c, "refusal")
    BY <1>1, <1>2, <1>4 DEF Refuse, CallerTruth, FaultFits, DeclaredOrNotSent
  <2>2. PICK entry : /\ completions' = [completions EXCEPT ![c] = <<entry>>]
                     /\ entry.type = "fail"
                     /\ entry.source # "unknown" =>
                           entry.actual = Truth(c) \/ entry.actual = "not-committed"
    BY <1>2, <2>1, CompletionSays
  <2> QED BY <1>1, <1>3, <2>1, <2>2, SettlingStaysTrue
<1>5. CASE Resume(c)
  <2>1. /\ pc[c] = "delaying" /\ pc' = [pc EXCEPT ![c] = "sent"]
        /\ UNCHANGED <<scenario, request, fault, response, effective, calls, idempotency,
                       completions, answer>>
    BY <1>1, <1>5 DEF Resume, Go, callKept, backendVars
  <2>2. \A d \in Callers \ {c} : CallerTruth(d)'
    <3> SUFFICES ASSUME NEW d \in Callers \ {c} PROVE Untouched(d)
      BY UntouchedStaysTrue DEF ClaimInv
    <3> QED BY <1>1, <2>1 DEF TruthTypes, Untouched
  <2>3. CallerTruth(c)'
    BY <1>1, <1>2, <2>1 DEF CallerTruth, TruthTypes, FaultFits, Kind
  <2>4. TruthTypes' /\ CreationsKept'
    BY <1>1, <2>1 DEF ClaimInv, TruthTypes, CreationsKept, Cached
  <2> QED BY <2>2, <2>3, <2>4 DEF ClaimInv
<1>6. CASE Answer(c)
  <2>1. /\ effective[c] = (response[c].ok /\ request[c].effect # "query")
        /\ request[c].name = Creation => response[c].ok
        /\ request[c] \in Requests
    BY <1>1, <1>2, <1>6 DEF Answer, CallerTruth
  <2>2. CASE /\ Kind(c) = "malformed-json"
             /\ CompleteAs(c, "info", fault[c].actual, "unknown")
             /\ Settle(c, "malformed")
    <3>1. PICK entry : /\ completions' = [completions EXCEPT ![c] = <<entry>>]
                       /\ entry.type = "info"
                       /\ entry.source # "unknown" => entry.actual = Truth(c)
      BY <1>2, <2>2, CompletionSays DEF FaultFits
    <3> QED BY <1>1, <2>2, <3>1, SettlingStaysTrue
  <2>3. CASE /\ Kind(c) \in LossKinds
             /\ CompleteAs(c, "info", fault[c].actual, "unknown")
             /\ Settle(c, "indeterminate")
    <3>1. fault[c].actual = "committed" /\ Truth(c) = "committed"
      BY <1>2, <1>3, <2>1, <2>3, RequestAssumption DEF FaultFits
    <3>2. PICK entry : /\ completions' = [completions EXCEPT ![c] = <<entry>>]
                       /\ entry.type = "info"
                       /\ entry.source # "unknown" => entry.actual = Truth(c)
      BY <1>2, <2>3, <3>1, CompletionSays
    <3> QED BY <1>1, <2>3, <3>2, SettlingStaysTrue
  <2>4. CASE /\ Kind(c) \notin LossKinds \cup {"malformed-json"}
             /\ CompleteAs(c, IF response[c].ok THEN "ok" ELSE "fail", "unknown",
                           InferredFrom(c))
             /\ Settle(c, "response")
    <3>1. InferredFrom(c) # "unknown" => Truth(c) = InferredFrom(c)
      BY <1>3, <2>1 DEF InferredFrom
    <3>2. PICK entry : /\ completions' = [completions EXCEPT ![c] = <<entry>>]
                       /\ entry.type = IF response[c].ok THEN "ok" ELSE "fail"
                       /\ entry.source # "unknown" => entry.actual = Truth(c)
      BY <1>2, <2>4, <3>1, CompletionSays
    <3>3. entry.type = "fail" => ~effective[c]
      BY <2>1, <3>2
    <3> QED BY <1>1, <2>4, <3>2, <3>3, SettlingStaysTrue
  <2> QED BY <1>6, <2>2, <2>3, <2>4 DEF Answer
<1>7. CASE Catch(c)
  <2>1. PICK entry : /\ completions' = [completions EXCEPT ![c] = <<entry>>]
                     /\ entry.type = "info"
                     /\ entry.source # "unknown" => entry.actual = Truth(c)
    BY <1>2, <1>7, CompletionSays DEF Catch
  <2> QED BY <1>1, <1>7, <2>1, SettlingStaysTrue DEF Catch
<1> QED BY <1>4, <1>5, <1>6, <1>7 DEF RuntimeStep, Runtime

\* The backend answers: what it says of a request that is not a query is in effect.
LEMMA ReplyingStaysTrue ==
    ASSUME ClaimInv, NEW c \in Callers, pc[c] \in {"sent", "reading"},
           NEW ok, NEW intent, Reply(c, ok, intent),
           NEW place \in {"replied", "storing"}, Go(c, place),
           place = "storing" => request[c].key # NoKey,
           request[c].name = Creation => ok,
           UNCHANGED <<backendKept, idempotency>>
    PROVE  ClaimInv'
<1>1. TruthTypes /\ CallerTruth(c)
  BY DEF ClaimInv
<1>2. /\ pc' = [pc EXCEPT ![c] = place]
      /\ response' = [response EXCEPT ![c] = [ok |-> ok, intent |-> intent]]
      /\ effective' = [effective EXCEPT ![c] = ok /\ request[c].effect # "query"]
      /\ UNCHANGED <<scenario, request, fault, calls, completions, answer, idempotency>>
  BY DEF Go, Reply, backendKept, controllerVars
<1>3. \A d \in Callers \ {c} : CallerTruth(d)'
  <2> SUFFICES ASSUME NEW d \in Callers \ {c} PROVE Untouched(d)
    BY UntouchedStaysTrue DEF ClaimInv
  <2> QED BY <1>1, <1>2 DEF TruthTypes, Untouched
<1>4. TruthTypes'
  BY <1>1, <1>2 DEF TruthTypes
<1>5. CreationsKept'
  BY <1>2 DEF ClaimInv, CreationsKept, Cached
<1>6. /\ pc'[c] = place /\ response'[c].ok = ok
      /\ effective'[c] = (ok /\ request[c].effect # "query")
  BY <1>1, <1>2 DEF TruthTypes
<1>7. FaultFits(c)' /\ completions'[c] = <<>> /\ request'[c] \in Requests
  BY <1>1, <1>2 DEF CallerTruth, FaultFits, Kind
<1>8. CallerTruth(c)'
  BY <1>2, <1>6, <1>7 DEF CallerTruth
<1> QED BY <1>3, <1>4, <1>5, <1>8 DEF ClaimInv

\* Steps after which a request is still without an answer, or has lost it.
LEMMA WaitingStaysTrue ==
    ASSUME ClaimInv, NEW c \in Callers, AcceptCreate(c) \/ NetworkFails(c)
    PROVE  ClaimInv'
<1>1. TruthTypes /\ CallerTruth(c)
  BY DEF ClaimInv
<1>2. /\ UNCHANGED <<scenario, request, fault, response, effective, calls, completions,
                     answer, idempotency>>
      /\ pc[c] \in {"sent", "replied"}
  BY DEF AcceptCreate, NetworkFails, Lose, callKept, backendKept, controllerVars, backendVars
<1>3. \/ pc' = [pc EXCEPT ![c] = "lost"]
      \/ pc' = [pc EXCEPT ![c] = "reading"] /\ pc[c] = "sent" /\ request[c].name = Creation
  BY DEF AcceptCreate, NetworkFails, Lose, Go
<1>4. \A d \in Callers \ {c} : CallerTruth(d)'
  <2> SUFFICES ASSUME NEW d \in Callers \ {c} PROVE Untouched(d)
    BY UntouchedStaysTrue DEF ClaimInv
  <2> QED BY <1>1, <1>2, <1>3 DEF TruthTypes, Untouched
<1>5. TruthTypes' /\ CreationsKept'
  BY <1>1, <1>2, <1>3 DEF ClaimInv, TruthTypes, CreationsKept, Cached
<1>6. FaultFits(c)' /\ completions'[c] = <<>> /\ request'[c] \in Requests
  BY <1>1, <1>2 DEF CallerTruth, FaultFits, Kind
<1>7. pc'[c] = "lost" \/ (pc'[c] = "reading" /\ ~effective[c] /\ request[c].name = Creation)
  BY <1>1, <1>3 DEF CallerTruth, TruthTypes
<1>8. CallerTruth(c)'
  BY <1>2, <1>6, <1>7 DEF CallerTruth
<1> QED BY <1>4, <1>5, <1>8 DEF ClaimInv

LEMMA StoringStaysTrue ==
    ASSUME ClaimInv, NEW c \in Callers, Store(c)
    PROVE  ClaimInv'
<1> DEFINE r == request[c]
<1>1. TruthTypes /\ CallerTruth(c) /\ pc[c] = "storing"
  BY DEF ClaimInv, Store
<1>2. /\ pc' = [pc EXCEPT ![c] = "replied"]
      /\ idempotency' = [idempotency EXCEPT ![Slot(r)] = response[c]]
      /\ UNCHANGED <<scenario, request, fault, response, effective, calls, completions, answer>>
  BY DEF Store, Go, backendKept, controllerVars
<1>3. r \in Requests /\ (r.name = Creation => response[c].ok) /\ r.key # NoKey
  BY <1>1 DEF CallerTruth
<1>4. \A d \in Callers \ {c} : CallerTruth(d)'
  <2> SUFFICES ASSUME NEW d \in Callers \ {c} PROVE Untouched(d)
    BY UntouchedStaysTrue DEF ClaimInv
  <2> QED BY <1>1, <1>2 DEF TruthTypes, Untouched
<1>5. TruthTypes'
  BY <1>1, <1>2 DEF TruthTypes
<1>6. CreationsKept'
  <2> SUFFICES ASSUME NEW q \in Requests, q.name = Creation, Cached(q)'
               PROVE  idempotency'[Slot(q)].ok
    BY DEF CreationsKept
  <2>1. q.key # NoKey /\ Slot(q) \in Slots
    BY DEF Cached, Slots
  <2>2. CASE Slot(q) = Slot(r)
    <3>1. r.name = Creation
      BY <2>2 DEF Slot
    <3>2. idempotency'[Slot(q)] = response[c]
      BY <1>1, <1>2, <2>1, <2>2 DEF TruthTypes
    <3> QED BY <1>3, <3>1, <3>2
  <2>3. CASE Slot(q) # Slot(r)
    <3>1. idempotency'[Slot(q)] = idempotency[Slot(q)]
      BY <1>1, <1>2, <2>1, <2>3 DEF TruthTypes
    <3> QED BY <2>1, <3>1 DEF Cached, ClaimInv, CreationsKept
  <2> QED BY <2>2, <2>3
<1>7. FaultFits(c)' /\ completions'[c] = <<>> /\ pc'[c] = "replied"
  BY <1>1, <1>2 DEF CallerTruth, FaultFits, Kind, TruthTypes
<1>8. CallerTruth(c)'
  BY <1>1, <1>2, <1>3, <1>7 DEF CallerTruth
<1> QED BY <1>4, <1>5, <1>6, <1>8 DEF ClaimInv

LEMMA BackendStaysTrue ==
    ASSUME ClaimInv, NEW c \in Callers, Backend(c)
    PROVE  ClaimInv'
<1>1. CallerTruth(c)
  BY DEF ClaimInv
<1>2. CASE ReplayCached(c)
  <2> DEFINE kept == idempotency[Slot(request[c])]
  <2>1. /\ pc[c] = "sent" /\ Cached(request[c]) /\ Reply(c, kept.ok, kept.intent)
        /\ Go(c, "replied") /\ UNCHANGED <<backendKept, idempotency>>
    BY <1>2 DEF ReplayCached, backendVars
  <2>2. request[c] \in Requests
    BY <1>1, <2>1 DEF CallerTruth
  <2>3. request[c].name = Creation => kept.ok
    BY <2>1, <2>2 DEF ClaimInv, CreationsKept
  <2> HIDE DEF kept
  <2> QED BY <2>1, <2>3, ReplyingStaysTrue
<1>3. CASE Create(c)
  <2>1. AfterEffect(request[c]) \in {"replied", "storing"}
        /\ (AfterEffect(request[c]) = "storing" => request[c].key # NoKey)
    BY DEF AfterEffect
  <2> QED BY <1>3, <2>1, ReplyingStaysTrue DEF Create
<1>4. CASE Confirm(c)
  <2>1. AfterEffect(request[c]) \in {"replied", "storing"}
        /\ (AfterEffect(request[c]) = "storing" => request[c].key # NoKey)
    BY DEF AfterEffect
  <2> QED BY <1>4, <2>1, ReplyingStaysTrue, OperationsDiffer DEF Confirm
<1>5. CASE Retrieve(c)
  BY <1>5, ReplyingStaysTrue, OperationsDiffer DEF Retrieve, backendVars
<1> QED BY <1>2, <1>3, <1>4, <1>5, WaitingStaysTrue, StoringStaysTrue DEF Backend

\* The invariant behind the claims: AdapterRuntime.fetch over StripeMemoryBackend.fetch.
LEMMA ClaimInvHolds ==
    ASSUME LossesOnCreations
    PROVE  Spec => []ClaimInv
<1>1. Init => ClaimInv
  <2> SUFFICES ASSUME Init PROVE ClaimInv
    OBVIOUS
  <2>1. TruthTypes
    BY DEF Init, RuntimeInit, ControllerInit, TruthTypes
  <2>2. CreationsKept
    BY DEF Init, CreationsKept, Cached, Slots
  <2>3. \A c \in Callers : CallerTruth(c)
    BY DEF Init, RuntimeInit, CallerTruth
  <2> QED BY <2>1, <2>2, <2>3 DEF ClaimInv
<1>2. ClaimInv /\ [Next]_vars => ClaimInv'
  <2> SUFFICES ASSUME ClaimInv, [Next]_vars PROVE ClaimInv'
    OBVIOUS
  <2>1. ASSUME NEW c \in Callers, Send(c) \/ RuntimeStep(c) \/ Backend(c) \/ NetworkFails(c)
        PROVE  ClaimInv'
    BY <2>1, SendingStaysTrue, RuntimeStaysTrue, BackendStaysTrue, WaitingStaysTrue
  <2>2. CASE UNCHANGED vars
    <3>1. UNCHANGED <<scenario, pc, request, fault, response, effective, answer, calls,
                      completions, idempotency>>
      BY <2>2 DEF vars, controllerVars, runtimeVars, backendVars
    <3>2. \A d \in Callers : CallerTruth(d)'
      BY <3>1, UntouchedStaysTrue DEF ClaimInv, Untouched
    <3> QED BY <3>1, <3>2 DEF ClaimInv, TruthTypes, CreationsKept, Cached
  <2> QED BY <2>1, <2>2 DEF Next
<1> QED BY <1>1, <1>2, PTL DEF Spec

\* The history of a payment is true: whatever the provider did, the network lost and
\* the faults cut off, an outcome on record is the one in effect, an ambiguous request is
\* recorded as one, and a definite failure did nothing (AdapterRuntime.fetch).
THEOREM PaymentsAreOnRecord ==
    ASSUME LossesOnCreations
    PROVE  Spec => []PaymentClaimsAreTrue
<1>1. ClaimInv => PaymentClaimsAreTrue
  BY DEF ClaimInv, CallerTruth, SettledTruly, PaymentClaimsAreTrue, ClaimedOutcomeIsTrue,
         AmbiguityIsRecorded, Answered, Settled
<1> QED BY <1>1, ClaimInvHolds, PTL
=============================================================================

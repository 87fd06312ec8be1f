--------------------------- MODULE QueueLifecycle ---------------------------
(***************************************************************************)
(* dispatchQueueUntilSettled (packages/cloudflare/src/miniflare.ts): a     *)
(* Queue consumer is given its messages round after round until each is    *)
(* acknowledged or has used up its retries, and what is dead is handed to  *)
(* the dead-letter consumer.  The consumer is the program under test: what *)
(* it answers a batch with is any result its two formats can express.      *)
(***************************************************************************)
EXTENDS Naturals, Sequences

CONSTANTS Ids,          \* message ids
          Inputs,       \* the message lists to deliver: sequences of [id, attempts]
          MaxRetries,   \* options.maxRetries, made a natural number
          Rounds,       \* the maxRounds a run may have, made positive
          HasDlq        \* is a dead-letter queue configured?

ASSUME QueueAssumption ==
    /\ \A input \in Inputs : input \in Seq([id : Ids, attempts : Nat])
    /\ MaxRetries \in Nat
    /\ \A limit \in Rounds : limit \in Nat \ {0}

VARIABLES messages,     \* what was to be delivered
          maxRounds,    \* options.maxRounds, or its default
          pending,      \* what the next round delivers
          acknowledged, deadLettered,
          round,
          pc,
          delivered,    \* how often each of `messages' was dispatched
          dlq           \* what the dead-letter consumer was given

lifecycleVars == <<messages, maxRounds, pending, acknowledged, deadLettered, round, pc,
                   delivered, dlq>>

\* Batch-wide fields of both formats (retryAll, retryBatch.retry) and the ids named
\* one by one (explicitRetries, retryMessages) mean the same to retryIds.
\* A result's outcome is not among them: the loop does not look at it.
Result == [retryAll : BOOLEAN, ackAll : BOOLEAN, retries : SUBSET Ids, acks : SUBSET Ids]

\* Each message keeps its place in `messages' as `at', to tell equal ids apart.
Placed(given) == [i \in DOMAIN given |-> [at |-> i, id |-> given[i].id,
                                          attempts |-> given[i].attempts]]

LifecycleInit ==
    /\ messages \in {Placed(given) : given \in Inputs}
    /\ maxRounds \in Rounds
    /\ pending = messages
    /\ acknowledged = <<>>
    /\ deadLettered = <<>>
    /\ round = 1
    /\ pc = "rounds"
    /\ delivered = [i \in DOMAIN messages |-> 0]
    /\ dlq = <<>>

---------------------------------------------------------------------------
RetryIds(result) ==
    IF result.retryAll THEN {m.id : m \in {pending[i] : i \in DOMAIN pending}}
    ELSE result.retries

RetriesSoFar(m) == IF m.attempts = 0 THEN 0 ELSE m.attempts - 1

\* Mutant: one retry too many.
OverBudget(m) == RetriesSoFar(m) > MaxRetries

Exhausted(m) == RetriesSoFar(m) >= MaxRetries

\* The loop over the batch, for one message: the order of its tests counts.
Verdict(m, result) ==
    CASE m.id \notin RetryIds(result) -> "acknowledged"
      [] m.id \in RetryIds(result) /\ Exhausted(m) -> "deadLettered"
      [] /\ m.id \in RetryIds(result)
         /\ ~Exhausted(m)
         /\ m.id \in result.acks
         /\ ~result.retryAll -> "acknowledged"
      [] OTHER -> "next"

\* Mutant: without the `continue' after a dead letter, it is retried as well.
PushedOn(lists, m, verdict) ==
    CASE verdict = "next" -> [lists EXCEPT !.next = Append(@, [m EXCEPT !.attempts = @ + 1])]
      [] verdict = "acknowledged" -> [lists EXCEPT !.acknowledged = Append(@, m)]
      [] OTHER -> [lists EXCEPT !.deadLettered = Append(@, m),
                                !.next = Append(@, [m EXCEPT !.attempts = @ + 1])]

\* Each verdict pushes the message to a list of its own.
Pushed(lists, m, verdict) ==
    CASE verdict = "next" -> [lists EXCEPT !.next = Append(@, [m EXCEPT !.attempts = @ + 1])]
      [] verdict = "acknowledged" -> [lists EXCEPT !.acknowledged = Append(@, m)]
      [] OTHER -> [lists EXCEPT !.deadLettered = Append(@, m)]

Lists == [acknowledged |-> acknowledged, deadLettered |-> deadLettered, next |-> <<>>]

\* The three lists after the loop saw the first i messages of the batch.
Settling(result) ==
    LET after[i \in 0 .. Len(pending)] ==
            IF i = 0 THEN Lists
            ELSE Pushed(after[i - 1], pending[i], Verdict(pending[i], result))
    IN  after

RoundsOver == pending = <<>> \/ round > maxRounds

\* One round: worker.queue is awaited, and its result settles the batch.
DeliverRound(result) ==
    /\ pc = "rounds"
    /\ ~RoundsOver
    /\ round' = round + 1
    /\ delivered' = [i \in DOMAIN delivered |->
                       IF \E j \in DOMAIN pending : pending[j].at = i
                       THEN delivered[i] + 1 ELSE delivered[i]]
    /\ LET lists == Settling(result)[Len(pending)]
       IN  /\ acknowledged' = lists.acknowledged
           /\ deadLettered' = lists.deadLettered
           /\ pending' = lists.next
    /\ UNCHANGED <<messages, maxRounds, pc, dlq>>

\* Mutant: what is still pending is dead, too.
DlqGetsAll == deadLettered \o pending

DlqBatch == deadLettered

\* After the last round the dead letters go to their consumer in one batch.
Close ==
    /\ pc = "rounds"
    /\ RoundsOver
    /\ dlq' = IF HasDlq THEN DlqBatch ELSE dlq
    /\ pc' = "done"
    /\ UNCHANGED <<messages, maxRounds, pending, acknowledged, deadLettered, round,
                   delivered>>

\* worker.queue rejects, for a round or for the dead letters: so does the function.
RejectRound ==
    /\ pc = "rounds"
    /\ ~RoundsOver \/ (HasDlq /\ deadLettered # <<>>)
    /\ pc' = "rejected"
    /\ UNCHANGED <<messages, maxRounds, pending, acknowledged, deadLettered, round,
                   delivered, dlq>>

LifecycleNext == Close \/ RejectRound \/ \E result \in Result : DeliverRound(result)

LifecycleSpec == LifecycleInit /\ [][LifecycleNext]_lifecycleVars

---------------------------------------------------------------------------

Places(s) == {s[i].at : i \in DOMAIN s}
EachOnce(s) == \A i, j \in DOMAIN s : s[i].at = s[j].at => i = j
Apart(s, t) == Places(s) \cap Places(t) = {}

\* Every message is in exactly one of the three lists of the result, once, whatever
\* its consumer answers and however many messages share an id; and the dead-letter
\* consumer sees no message that was acknowledged or that is still to be retried.
EveryMessageIsAccountedFor ==
    /\ EachOnce(acknowledged) /\ EachOnce(deadLettered) /\ EachOnce(pending)
    /\ Apart(acknowledged, deadLettered)
    /\ Apart(acknowledged, pending)
    /\ Apart(deadLettered, pending)
    /\ Places(acknowledged) \cup Places(deadLettered) \cup Places(pending) = DOMAIN messages
    /\ EachOnce(dlq) /\ Apart(dlq, acknowledged) /\ Apart(dlq, pending)

\* Counting what it was before, a message is dispatched at most MaxRetries + 1 times,
\* and once if its retries were used up already, so that a consumer that always asks
\* for a retry cannot keep it alive.
DeliveriesWithinBudget ==
    \A i \in DOMAIN messages :
        \/ delivered[i] <= 1
        \/ delivered[i] + messages[i].attempts <= MaxRetries + 2

\* dispatchQueueUntilSettled settles each message once and within its budget.
MessagesAreSettled == EveryMessageIsAccountedFor /\ DeliveriesWithinBudget
=============================================================================

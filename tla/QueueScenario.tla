--------------------------- MODULE QueueScenario ---------------------------
(***************************************************************************)
(* dispatchQueueScenario and dispatchScheduledScenario (packages/          *)
(* cloudflare/src/miniflare.ts, queue.ts): what a scenario makes of one    *)
(* list of messages, or of one scheduled event, is dispatched to a Worker, *)
(* one dispatch after the other, and any of them may reject.               *)
(***************************************************************************)
EXTENDS Naturals, Sequences, FiniteSets, SequencesExt

CONSTANTS Messages,    \* the lists to dispatch: sequences of ids
          Variations   \* the perturbations of a scenario that are for the target

VARIABLES scheduled,   \* is this about a scheduled event?
          active,      \* activeForTarget, in the order of the scenario
          input,       \* options.messages
          sent,        \* what was dispatched so far: batches, or times
          progress     \* "dispatching", "done" or "rejected"

vars == <<scheduled, active, input, sent, progress>>

Every == {"every"}
NoVariation == [kind |-> "none", ids |-> {}, sizes |-> <<>>, delay |-> 0]

Init ==
    /\ scheduled \in BOOLEAN
    /\ active \in Variations
    /\ input \in Messages
    /\ sent = <<>>
    /\ progress = "dispatching"

---------------------------------------------------------------------------
(* Batches *)

\* active.find
Found(kind) ==
    LET places == {i \in DOMAIN active : active[i].kind = kind}
    IN IF places = {} THEN NoVariation
       ELSE active[CHOOSE i \in places : \A j \in places : i <= j]

\* Every message if the metadata names none.
DuplicateIds ==
    LET ids == Found("duplicate-delivery").ids
    IN IF ids = Every THEN Range(input) ELSE ids

\* A copy comes right after its message.
Expanded ==
    FlattenSeq([i \in DOMAIN input |->
                  IF input[i] \in DuplicateIds THEN <<input[i], input[i]>> ELSE <<input[i]>>])

\* Without sizes, or with none in the list, each message is a batch; the metadata's
\* sizes are at least one, and [1, 2, 1] if there are none.
BatchSizes ==
    LET rebatch == Found("rebatch")
    IN IF rebatch = NoVariation \/ rebatch.sizes = <<>> THEN <<1>> ELSE rebatch.sizes

\* The size of the batch that follows k others.
SizeAfter(k) == BatchSizes[(k % Len(BatchSizes)) + 1]

OffsetOf(batches) == FoldLeft(LAMBDA n, batch : n + Len(batch), 0, batches)

\* Mutant: the next batch starts one place too far.
SkippingBatch ==
    LET from == OffsetOf(sent) + (IF sent = <<>> THEN 0 ELSE 1)
        to == from + SizeAfter(Len(sent))
    IN SubSeq(Expanded, from + 1, IF to < Len(Expanded) THEN to ELSE Len(Expanded))

\* The last batch may be smaller than its size.
NextBatch ==
    LET from == OffsetOf(sent)
        to == from + SizeAfter(Len(sent))
    IN SubSeq(Expanded, from + 1, IF to < Len(Expanded) THEN to ELSE Len(Expanded))

Dispatch ==
    /\ ~scheduled
    /\ progress = "dispatching"
    /\ OffsetOf(sent) < Len(Expanded)
    /\ sent' = Append(sent, NextBatch)
    /\ UNCHANGED <<scheduled, active, input, progress>>

---------------------------------------------------------------------------
(* Scheduled events *)

\* Every execution is given the same, possibly later, time.
Executions ==
    IF Found("duplicate-scheduled-execution") = NoVariation THEN 1 ELSE 2

Fire ==
    /\ scheduled
    /\ progress = "dispatching"
    /\ Len(sent) < Executions
    /\ sent' = Append(sent, Found("delayed-scheduled-execution").delay)
    /\ UNCHANGED <<scheduled, active, input, progress>>

AllSent ==
    IF scheduled THEN Len(sent) = Executions ELSE OffsetOf(sent) = Len(Expanded)

Return ==
    /\ progress = "dispatching"
    /\ AllSent
    /\ progress' = "done"
    /\ UNCHANGED <<scheduled, active, input, sent>>

\* The Worker rejects: so does the function, and the rest is never dispatched.
Reject ==
    /\ progress = "dispatching"
    /\ sent # <<>>
    /\ progress' = "rejected"
    /\ UNCHANGED <<scheduled, active, input, sent>>

Next == Dispatch \/ Fire \/ Return \/ Reject

Spec == Init /\ [][Next]_vars

---------------------------------------------------------------------------

Delivered == FlattenSeq(sent)
Copies(id, s) == Cardinality({i \in DOMAIN s : s[i] = id})

\* What the consumer gets is what a Queue may do and the scenario asks for: no batch is
\* empty, no message overtakes an earlier one, and when the dispatch is over every
\* message has come once, or twice where the scenario duplicates it, with its copy
\* right behind it.
DispatchIsLegal ==
    scheduled \/
      /\ \A k \in DOMAIN sent : sent[k] # <<>>
      /\ \A i, j \in DOMAIN Delivered :
           i < j => \E m, n \in DOMAIN input :
                      m <= n /\ input[m] = Delivered[i] /\ input[n] = Delivered[j]
      /\ progress = "done" =>
           \A id \in Range(input) :
             Copies(id, Delivered) =
               Copies(id, input) * (IF id \in DuplicateIds THEN 2 ELSE 1)
=============================================================================

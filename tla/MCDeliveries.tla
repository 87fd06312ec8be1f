---------------------------- MODULE MCDeliveries ----------------------------
(***************************************************************************)
(* One of four: a workload of events, a Queue consumer that is asked until *)
(* its messages are settled, one dispatch of a Queue or a schedule under a *)
(* scenario, or the clients of a concurrent workload.                      *)
(***************************************************************************)
EXTENDS EventDelivery, QueueLifecycle, ConcurrentWorkload

VARIABLES about,  \* which of the four
          scheduled, active, input, sent, progress

dispatchVars == <<scheduled, active, input, sent, progress>>

---------------------------------------------------------------------------
(* Events *)

MCNames == 1 .. 3
ByIndex == <<0, 1, 2>>

Shaping(e) == {EventFault("duplicate", e, 1), EventFault("delay", e, 1),
               EventFault("delay", e, 5), EventFault("reorder", e, 1),
               EventFault("reorder", e, 2)}

Everywhere == {WebhookFault("duplicate", 2), WebhookFault("reorder", 1),
               WebhookFault("delay", 3)}

AllShapes == Everywhere \cup UNION {Shaping(e) : e \in MCNames}

\* No perturbation, each of them, and each pair of two kinds or two events.
MCScenarios ==
    {<<>>} \cup {<<p>> : p \in AllShapes}
        \cup {s \in {<<p, q>> : p, q \in {r \in AllShapes : r.amount < 3}} :
                s[1].id # s[2].id}

---------------------------------------------------------------------------
(* Queue consumers: two messages with one id, some delivered before *)

Message(id, n) == [id |-> id, attempts |-> n]

MCInputs == {<<Message("m1", 0), Message("m2", 2)>>,
             <<Message("m1", 1), Message("m2", 1), Message("m1", 3)>>}

---------------------------------------------------------------------------
(* Dispatches *)

Variation(kind, ids, sizes, delay) ==
    [kind |-> kind, ids |-> ids, sizes |-> sizes, delay |-> delay]

Duplicates == {Variation("duplicate-delivery", ids, <<>>, 0) :
                 ids \in {{"every"}, {}, {"m1"}, {"m2", "m9"}}}
Rebatches == {Variation("rebatch", {}, sizes, 0) : sizes \in {<<1, 2, 1>>, <<2>>, <<3, 1>>, <<>>}}
Schedules == {Variation("duplicate-scheduled-execution", {}, <<>>, 0),
              Variation("delayed-scheduled-execution", {}, <<>>, 60)}

D == INSTANCE QueueScenario WITH
       Messages <- {<<>>, <<"m1">>, <<"m1", "m2", "m3">>, <<"m2", "m1", "m2", "m3", "m4">>},
       Variations <- {<<>>} \cup {<<v>> : v \in Duplicates \cup Rebatches \cup Schedules}
                       \cup {<<v, w>> : v \in Duplicates, w \in Rebatches}
                       \cup {<<v, w>> : v, w \in Schedules}

---------------------------------------------------------------------------
(* Workloads *)

NoWorkload == [clients |-> 1, stepsPerClient |-> 0]

MCWorkloads == {NoWorkload, [clients |-> 2, stepsPerClient |-> 2],
                [clients |-> 1, stepsPerClient |-> 4]}

---------------------------------------------------------------------------

\* What a run is not about starts, and stays, where nothing is to be done.
LifecycleRests ==
    /\ messages = <<>> /\ maxRounds = 1 /\ pending = <<>> /\ acknowledged = <<>>
    /\ deadLettered = <<>> /\ round = 1 /\ pc = "done" /\ delivered = <<>> /\ dlq = <<>>
DispatchRests ==
    scheduled = FALSE /\ active = <<>> /\ input = <<>> /\ sent = <<>> /\ progress = "done"
WorkloadRests ==
    /\ options = NoWorkload /\ aborted = FALSE /\ history = <<>> /\ results = <<>> /\ outcome = "resolved"
    /\ awaits = [c \in {0} |-> "returned"] /\ step = [c \in {0} |-> 0]
    /\ latest = [c \in {0} |-> NoOperation]

MCInit ==
    /\ DeliveryInit
    /\ \/ about = "events" /\ LifecycleRests /\ DispatchRests /\ WorkloadRests
       \/ /\ scenario = <<>>
          /\ \/ about = "lifecycle" /\ LifecycleInit /\ DispatchRests /\ WorkloadRests
             \/ about = "dispatch" /\ LifecycleRests /\ D!Init /\ WorkloadRests
             \/ about = "workload" /\ LifecycleRests /\ DispatchRests /\ WorkloadInit

MCNext ==
    /\ \/ about = "events" /\ DeliveryNext /\ UNCHANGED <<lifecycleVars, dispatchVars, workloadVars>>
       \/ about = "lifecycle" /\ LifecycleNext /\ UNCHANGED <<deliveryVars, dispatchVars, workloadVars>>
       \/ about = "dispatch" /\ D!Next /\ UNCHANGED <<deliveryVars, lifecycleVars, workloadVars>>
       \/ about = "workload" /\ WorkloadNext /\ UNCHANGED <<deliveryVars, lifecycleVars, dispatchVars>>
    /\ UNCHANGED about

MCSpec == MCInit /\ [][MCNext]_<<about, deliveryVars, lifecycleVars, dispatchVars, workloadVars>>

\* What is delivered is what a scenario makes of it: of the events of a workload
\* (events.ts), and of a Queue or a schedule (queue.ts, scheduled.ts).
DeliveriesFollowTheScenario == MoveLandsBehind /\ D!DispatchIsLegal
=============================================================================

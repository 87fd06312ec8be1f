--------------------------- MODULE EventDelivery ---------------------------
(***************************************************************************)
(* runEventWorkload and the delivery checkers (packages/core/src/events.ts): *)
(* a workload emits several related events, the scenario's perturbations   *)
(* duplicate, delay and reorder their deliveries, an application's handler *)
(* receives them one after the other, and three checkers judge what the    *)
(* history says of it.  `effects' is what the application really did, which *)
(* the history knows only through the handler's answers.                   *)
(*                                                                         *)
(* An operation's name is the event it emits, the resource by which a      *)
(* perturbation is addressed to one event.                                 *)
(***************************************************************************)
EXTENDS ScenarioController, SequencesExt

CONSTANTS CreatedAt,       \* when each event was created; its index by default
          Idempotent,      \* does the handler recognise what it applied before?
          LateErrors       \* may the handler fail after it applied an event?

ASSUME DeliveryAssumption == CreatedAt \in Seq(Nat) /\ Names = DOMAIN CreatedAt

VARIABLES emitted,    \* how many events have been emitted
          modifiers,  \* perEvent: what the perturbations do to each event
          plan,       \* the deliveries, each with its position
          trace,      \* deliveryTrace: the completions of the deliveries
          effects     \* the events the application applied, in that order

deliveryVars == <<controllerVars, emitted, modifiers, plan, trace, effects>>

DeliveryPhase == "delivery"
Emitter == CHOOSE c \in Callers : TRUE

NoModifiers ==
    [duplicates |-> 0, delay |-> 0, moves |-> 0, reverse |-> FALSE, causes |-> {}]

DeliveryInit ==
    /\ ControllerInit
    /\ emitted = 0
    /\ modifiers = [e \in Names |-> NoModifiers]
    /\ plan = {}
    /\ trace = <<>>
    /\ effects = <<>>

---------------------------------------------------------------------------
(* The perturbations of one event and of the whole workload *)

EventFault(kind, event, amount) ==
    [id |-> <<kind, event>>, kind |-> kind, names |-> {event}, amount |-> amount,
     phase |-> DeliveryPhase, occurrence |-> 0, max |-> 1]

\* A reordering that names no event reverses the workload.
WebhookFault(kind, amount) ==
    [EventFault(kind, 0, amount) EXCEPT !.names = Names]

Scoped(p) == p.names # Names

\* applyPerturbation, for every perturbation of the event.
ModifiersOf(places) ==
    LET total(kind) ==
            MapThenSumSet(LAMBDA i : scenario[i].amount,
                          {i \in places : scenario[i].kind = kind
                                          /\ (kind = "reorder" => Scoped(scenario[i]))})
    IN [duplicates |-> total("duplicate"),
        delay      |-> total("delay"),
        moves      |-> total("reorder"),
        reverse    |-> \E i \in places :
                           scenario[i].kind = "reorder" /\ ~Scoped(scenario[i]),
        causes     |-> {scenario[i].id : i \in places}]

\* One turn of the emitting loop: begin, activate what is eligible, complete.
Emit ==
    LET event == emitted + 1
        places == Eligible(Indexed(event), DeliveryPhase)
        spent(id) == Cardinality({i \in places : scenario[i].id = id})
    IN /\ emitted < Len(CreatedAt)
       /\ emitted' = event
       /\ CountOccurrence(event)
       /\ activations' = [id \in DOMAIN activations |-> activations[id] + spent(id)]
       /\ modifiers' = [modifiers EXCEPT ![event] = ModifiersOf(places)]
       /\ Complete(Emitter, [type |-> "ok", actual |-> "unknown", source |-> "unknown"])
       /\ UNCHANGED <<scenario, plan, trace, effects>>

---------------------------------------------------------------------------
(* planEventDeliveries *)

\* Mutant: without the half-step, a moved event ties with the one it should pass.
ShiftToTie(m) == 2 * m.moves

\* The move of an event, in half-steps: N and a half positions.
Shift(m) == IF m.moves = 0 THEN 0 ELSE 2 * m.moves + 1

\* Logical arrival, in half-steps.
DeliverAt(event) ==
    2 * (CreatedAt[event] + modifiers[event].delay) + Shift(modifiers[event])

\* An event and its copies.
Expanded ==
    UNION {{[event |-> event, attempt |-> attempt] :
               attempt \in 1 .. modifiers[event].duplicates + 1} : event \in Names}

\* "Stable by arrival time, so equal times preserve creation order."
ArrivesBefore(a, b) ==
    \/ DeliverAt(a.event) < DeliverAt(b.event)
    \/ DeliverAt(a.event) = DeliverAt(b.event) /\ a.event < b.event
    \/ a.event = b.event /\ a.attempt < b.attempt

ReverseAll == \E event \in Names : modifiers[event].reverse

\* A delivery comes after those that arrive before it, or the other way round.
Position(d) ==
    1 + Cardinality({other \in Expanded : IF ReverseAll THEN ArrivesBefore(d, other)
                                          ELSE ArrivesBefore(other, d)})

PlanEventDeliveries ==
    {[event |-> d.event, attempt |-> d.attempt, position |-> Position(d)] : d \in Expanded}

Plan ==
    /\ emitted = Len(CreatedAt)
    /\ plan = {}
    /\ plan' = PlanEventDeliveries
    /\ UNCHANGED <<controllerVars, emitted, modifiers, trace, effects>>

---------------------------------------------------------------------------
(* Delivering *)

Known(event) == \E i \in DOMAIN effects : effects[i] = event

\* What the handler may do with an event: whether it takes effect and what the
\* history then says of it.  An idempotent one applies an event once.
Handlings(event) ==
    LET applies  == [effect |-> TRUE, status |-> "ok", applied |-> TRUE]
        discards == [effect |-> FALSE, status |-> "ok", applied |-> FALSE]
        fails    == [effect |-> FALSE, status |-> "fail", applied |-> FALSE]
        late     == [effect |-> TRUE, status |-> "fail", applied |-> FALSE]
    IN {h \in {applies, discards, fails, late} :
           /\ h.effect /\ h.status = "fail" => LateErrors
           /\ Idempotent => (h.effect => ~Known(event))
           /\ Idempotent => (h = discards => Known(event))}

Deliver(delivery) ==
    /\ delivery.position = Len(trace) + 1
    /\ \E handled \in Handlings(delivery.event) :
          /\ trace' = Append(trace, [event |-> delivery.event,
                                     status |-> handled.status,
                                     applied |-> handled.applied])
          /\ effects' = IF handled.effect THEN Append(effects, delivery.event) ELSE effects
    /\ UNCHANGED <<controllerVars, emitted, modifiers, plan>>

DeliveryNext == Emit \/ Plan \/ \E delivery \in plan : Deliver(delivery)

DeliverySpec == DeliveryInit /\ [][DeliveryNext]_deliveryVars

---------------------------------------------------------------------------
(* The checkers *)

\* Mutant: whatever the handler answered counts.
Answered == {i \in DOMAIN trace : trace[i].status = "ok"}

\* What the checkers look at: deliveries that succeeded and were not discarded.
Applied == {i \in DOMAIN trace : trace[i].status = "ok" /\ trace[i].applied}

\* The applied deliveries that have no other one between them.
Neighbours ==
    {pair \in Applied \X Applied :
        pair[1] < pair[2] /\ \A k \in Applied : ~(pair[1] < k /\ k < pair[2])}

\* Mutant: each event is compared with the first one.
ValidAgainstFirst ==
    \A i, j \in Applied :
        (\A k \in Applied : i <= k) => trace[i].event <= trace[j].event

\* checkDeliveryOrder: no event was created before its predecessor.
DeliveryOrderValid ==
    \A pair \in Neighbours : trace[pair[1]].event <= trace[pair[2]].event

\* checkDeliveryUniqueness
DeliveryUniquenessValid ==
    \A e \in Names : Cardinality({i \in Applied : trace[i].event = e}) <= 1

\* checkDeliveryCompleteness
DeliveryCompletenessValid ==
    \A e \in Names : \E i \in Applied : trace[i].event = e

---------------------------------------------------------------------------

PositionOf(event) == (CHOOSE d \in plan : d.event = event /\ d.attempt = 1).position

Unperturbed(e) == modifiers[e].causes = {}

\* "A move of N lands the event a half-step past the Nth following event, so it
\* arrives strictly after it", and before the one after that: all three unmoved
\* in every other way.
MoveLandsBehind ==
    plan # {} /\ ~ReverseAll =>
        \A e, other \in Names :
            LET n == modifiers[e].moves
            IN (/\ n > 0
                /\ modifiers[e].delay = 0
                /\ other > e
                /\ Unperturbed(other))
               => (other <= e + n <=> PositionOf(other) < PositionOf(e))

\* The order checker compares neighbours only, and yet fails exactly the histories
\* in which some event, however far back, took effect after one created later; and the
\* other two pass an event when its effect is there once, however often it was
\* delivered.
DeliveryChecksAreTrue ==
    /\ DeliveryOrderValid <=>
         \A i, j \in DOMAIN effects : i < j => effects[i] <= effects[j]
    /\ DeliveryUniquenessValid <=> IsInjective(effects)
    /\ DeliveryCompletenessValid <=> \A e \in Names : Known(e)

=============================================================================

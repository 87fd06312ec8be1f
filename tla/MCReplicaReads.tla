---------------------------- MODULE MCReplicaReads ----------------------------
(***************************************************************************)
(* Replicated state as CloudFault models it in the process of a test and   *)
(* in Workers of its own.  In the process there are two observers, one of  *)
(* them with a clock ahead; a behaviour uses one of the two stores, which  *)
(* share nothing but the trace.                                            *)
(***************************************************************************)
EXTENDS ReplicaReads, NemesisWorkers

VARIABLE store   \* "kv", "d1", or "workers"

---------------------------------------------------------------------------
(* Workers *)

Route(method, path) == [method |-> method, path |-> path]
Create == Route("POST", "/orders")
Look == Route("GET", "/orders")
Anywhere == Route("any", "any")

Perturb(target, kind) ==
    [target |-> target, selected |-> "none", kind |-> kind, operation |-> "none", route |-> Anywhere,
     occurrence |-> 0, key |-> "*", region |-> "cloudfault", behind |-> 1, reads |-> 0]
Service(kind, operation, occurrence) ==
    [Perturb("service", kind) EXCEPT !.operation = operation, !.occurrence = occurrence]
Stale(kind, key, region, behind, reads) ==
    [Perturb("kv", kind) EXCEPT !.key = key, !.region = region, !.behind = behind, !.reads = reads]

MCChoices ==
    {<<Service("service-timeout", "create", 2),
       [Service("latency", "look", 1) EXCEPT !.target = "d1", !.selected = "service"]>>,
     <<[Service("service-unavailable", "none", 1) EXCEPT !.route = Create],
       Service("commit-then-error", "create", 1)>>,
     <<Stale("stale-read", "k", "far", 1, 2), Service("latency", "none", 0)>>,
     <<Stale("stale-read", "k", "far", 2, 1), Stale("stale-read", "*", "cloudfault", 1, 1)>>,
     <<Stale("stale-negative-read", "*", "far", 0, 1), Stale("stale-read", "k", "far", 1, 1),
       Perturb("queue", "duplicate-delivery")>>,
     <<Perturb("queue", "producer-failure"), Service("timeout-before-send", "look", 2)>>}

\* observerRegionProfiles
MCProfiles ==
    {[id |-> "local", behind |-> 0, negative |-> FALSE, latency |-> 5],
     [id |-> "far", behind |-> 1, negative |-> TRUE, latency |-> 100],
     [id |-> "far", behind |-> 2, negative |-> TRUE, latency |-> 400]}

MCTexts == STRING
MCRoutes == {Create, Look}
MCOperations == [create |-> Create, look |-> Look]
MCKeyLists == {<<>>, <<"k">>}

---------------------------------------------------------------------------

MCInit ==
    /\ ReplicaInit /\ NemesisInit
    /\ skew = [o \in Observers |-> o - 1]
    /\ store \in {"kv", "d1", "workers"}

MCNext ==
    /\ UNCHANGED store
    /\ \/ store = "kv" /\ KvStep /\ UNCHANGED nemesisVars
       \/ store = "d1" /\ D1Step /\ UNCHANGED nemesisVars
       \/ store \in {"kv", "d1"} /\ Tick /\ UNCHANGED nemesisVars
       \/ store = "workers" /\ NemesisNext /\ UNCHANGED replicaVars

MCSpec == MCInit /\ [][MCNext]_<<replicaVars, store, nemesisVars>>
===============================================================================

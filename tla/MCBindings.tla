----------------------------- MODULE MCBindings -----------------------------
(* One or two callers, and for each question a run with the operations and *)
(* the scenarios it is about.  A setup bounds the calls of each caller.    *)
EXTENDS Bindings

Run == <<"d1.run", 0>>
BatchName == <<"d1.batch", 0>>
Select == <<"select", 0>>
Update == <<"update", 0>>

MCStatements == [n \in {Run, BatchName} |-> IF n = BatchName THEN 2 ELSE 1]
MCBatch == {BatchName}
MCQueries == {Select, Update}
MCReads == {Select}

(* The proxies' modules for the sake of the faults they define: the constants that
   are given values below do not depend on themselves this way. *)
D1Faults == INSTANCE D1FaultProxy
    WITH Names <- {}, Scenarios <- {}, Setups <- {}, Statements <- MCStatements,
         Batch <- MCBatch
R2Faults == INSTANCE R2FaultProxy
    WITH Names <- {}, Scenarios <- {}, Setups <- {}
PgFaults == INSTANCE HyperdriveProxy
    WITH Names <- {}, Scenarios <- {}, Setups <- {}, Queries <- MCQueries,
         Reads <- MCReads

MCNames == DOMAIN MCStatements \cup R2Faults!R2Names \cup MCQueries

Setup(perturbations, menu, bound) ==
    [scenario |-> perturbations, menu |-> menu, calls |-> bound,
     probes |-> FALSE, oracle |-> TRUE, lossy |-> TRUE]
\* Probes are allowed, and the proxies have to say themselves what landed.
Probing(perturbations, menu, bound) ==
    [Setup(perturbations, menu, bound) EXCEPT !.probes = TRUE, !.oracle = FALSE]
Everyone(names) == [c \in Callers |-> names]
Only(caller, names) == [c \in Callers |-> IF c = caller THEN names ELSE {}]

D1Scenarios ==
    {<<D1Faults!D1Fault("transient-network-error")>>, <<D1Faults!D1ReplicaLag>>,
     <<D1Faults!D1CommitThenTimeout(Run), D1Faults!D1BatchErrorAfterCommit>>,
     <<D1Faults!D1BatchRejectBeforeCommit, D1Faults!D1BatchCommitThenResponseLost>>,
     <<[D1Faults!D1PartialBatchApplication EXCEPT !.occurrence = 2],
       [D1Faults!D1Fault("storage-reset") EXCEPT !.max = 2, !.occurrence = 1]>>}
\* Among them probes aimed where the proxy finds them after the call only: at a
\* statement, and at the response of a batch.
D1Probes ==
    {<<D1Faults!D1PartialBatchApplication, D1Faults!D1BatchErrorAfterCommit>>,
     <<[D1Faults!D1PartialBatchApplication EXCEPT !.names = {Run}, !.id[3] = 1],
       [D1Faults!D1PartialBatchApplication EXCEPT !.phase = "during-response"]>>}

R2Scenarios ==
    {<<R2Faults!R2CommitThenTimeout(R2Faults!CompleteUpload), R2Faults!R2PartUploadError(2)>>,
     <<R2Faults!R2CommitThenTimeout(R2Faults!CreateUpload),
       R2Faults!R2CommitThenTimeout(R2Faults!HeadObject)>>,
     <<R2Faults!R2PartialMultipartCompletion>>}
R2Probes ==
    {<<[R2Faults!R2PartialMultipartCompletion EXCEPT !.max = 2],
       R2Faults!R2CommitThenTimeout(R2Faults!UploadPart(1))>>}

HyperdriveScenarios ==
    {<<PgFaults!HyperdrivePoolExhausted, PgFaults!HyperdriveCachedRead>>,
     <<PgFaults!HyperdriveQueryTimeout,
       [PgFaults!HyperdriveCachedRead EXCEPT !.max = 2]>>,
     <<PgFaults!HyperdriveCommitThenTimeout, PgFaults!HyperdriveOriginUnavailable>>}

\* Selectors that name no binding: all of them compete for two injections.
AnyBinding ==
    {<<[D1Faults!D1Fault("operation-timeout") EXCEPT !.names = MCNames]>>,
     <<[R2Faults!R2CommitThenTimeout(R2Faults!Put) EXCEPT !.names = MCNames, !.max = 2]>>}

CONSTANTS c1, c2
Uploads == R2Faults!R2Names \ {R2Faults!Put}
Plain == {R2Faults!Put, R2Faults!HeadObject}
Mixed == {Run, R2Faults!Put, Update, Select}

MCSetups ==
    {Setup(s, Everyone(DOMAIN Statements), 2) : s \in D1Scenarios \cup D1Probes}
    \cup {Probing(s, Everyone(DOMAIN Statements), 2) : s \in D1Probes}
    \cup {Setup(s, Only(c1, Uploads), 6) : s \in R2Scenarios}
    \cup {Probing(s, Only(c1, Uploads), 6) : s \in R2Probes}
    \cup {Setup(<<R2Faults!R2CapacityError>>, Everyone(Plain), 2)}
    \cup {Setup(s, Everyone(Queries), 2) : s \in HyperdriveScenarios}
    \cup {Setup(s, Everyone(Mixed), 1) : s \in AnyBinding}

\* The latency of incidents.ts, around a write.
LatencySetups == {Setup(<<R2Faults!IncidentLatency>>, Only(c1, Plain), 2)}

MCScenarios == {s.scenario : s \in MCSetups}
LatencyScenarios == {s.scenario : s \in LatencySetups}
=============================================================================

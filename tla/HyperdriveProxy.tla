--------------------------- MODULE HyperdriveProxy ---------------------------
(***************************************************************************)
(* createHyperdriveFaultProxy (packages/cloudflare/src/hyperdrive.ts): a   *)
(* Postgres client whose queries the scenario interrupts, and whose reads  *)
(* it may answer from the last result of the same text.  The database is   *)
(* reduced to a version number that every write increases; a read returns  *)
(* the version it ran at.                                                  *)
(***************************************************************************)
EXTENDS BindingProxy

CONSTANTS Queries, \* the names of the queries, one text each
          Reads    \* those that READ_ONLY matches

VARIABLES version, \* the version each caller's query ran at or was served, 0 before
          own,     \* the version of the caller's last write that was acknowledged
          origin,  \* the database's version
          cache,   \* [Reads -> version], 0 where nothing is cached
          served   \* the versions the database has answered reads of a text with

hyperdriveVars == <<version, own, origin, cache, served>>
vars == <<controllerVars, proxyVars, hyperdriveVars>>

Mine(c) == op[c].name \in Queries
ReadOnly(c) == op[c].name \in Reads

\* What an oracle that knows the database answers: a read commits nothing.
Truth(c) == IF version[c] > 0 /\ ~ReadOnly(c) THEN "committed" ELSE "not-committed"

Init ==
    /\ ProxyInit
    /\ version = [c \in Callers |-> 0]
    /\ own = [c \in Callers |-> 0]
    /\ origin = 1
    /\ cache = [r \in Reads |-> 0]
    /\ served = [r \in Reads |-> {}]

---------------------------------------------------------------------------
(* The faults and the variation of the module *)

HyperdriveFault(kind, phase, actual, observed) ==
    [id |-> <<kind, "hyperdrive", 0>>, kind |-> kind, names |-> Queries, phase |-> phase,
     actual |-> actual, observed |-> observed, occurrence |-> 0, max |-> 1]

HyperdriveOriginUnavailable ==
    HyperdriveFault("origin-unavailable", "before-send", "not-committed", "definite-failure")

HyperdrivePoolExhausted ==
    HyperdriveFault("connection-pool-exhausted", "before-send", "not-committed",
                    "definite-failure")

HyperdriveQueryTimeout ==
    HyperdriveFault("query-timeout", "during-response", "unknown", "indeterminate")

HyperdriveCommitThenTimeout ==
    HyperdriveFault("commit-then-timeout", "after-commit-before-response", "committed",
                    "indeterminate")

HyperdriveCachedRead ==
    HyperdriveFault("cached-read", SemanticPhase, "unknown", "definite-failure")

---------------------------------------------------------------------------
(* run *)

FaultsAt(o, phase) == {i \in Eligible(o, phase) : IsFault(scenario[i])}

\* `faultAt(phase) ?? faultAt(otherwise)': unlike take, it spends nothing.
FaultAt(o, phase, otherwise) ==
    LET now == FaultsAt(o, phase)
        later == FaultsAt(o, otherwise)
    IN IF now # {} THEN FirstOf(now)
       ELSE IF later # {} THEN FirstOf(later)
       ELSE Nothing

\* Mutant: a text that is in the cache is served from it whatever is planned.
ServedAlways(o) == IF o.name \in Reads /\ cache[o.name] > 0 THEN {1} ELSE {}

\* The variations that may answer this query from the cache.
CachedReadsAt(o) ==
    {i \in Eligible(o, AnyPhase) :
        /\ o.name \in Reads /\ cache[o.name] > 0
        /\ scenario[i].kind = "cached-read"}

CachedEntry == [type |-> "ok", actual |-> "not-committed", source |-> "declared"]

\* run up to its first await: a fault before the query wins over the cache, and the
\* cache over the origin.  `fail' spends the fault at once.
Begin(c, name) ==
    LET o == Indexed(name)
        before == FaultAt(o, "before-send", "before-commit")
        hit == before = Nothing /\ CachedReadsAt(o) # {}
        given == IF hit THEN FirstOf(CachedReadsAt(o)) ELSE before
    IN /\ pc[c] = "idle"
       /\ MayCall(c, name)
       /\ CountOccurrence(name)
       /\ op' = [op EXCEPT ![c] = o]
       /\ calls' = [calls EXCEPT ![c] = @ + 1]
       /\ version' = [version EXCEPT ![c] = IF hit THEN cache[name] ELSE 0]
       /\ fault' = [fault EXCEPT ![c] = given]
       /\ Activate(given)
       /\ completions' = [completions EXCEPT ![c] = IF hit THEN <<CachedEntry>> ELSE <<>>]
       /\ IF hit THEN Settle(c, "cached")
          ELSE Go(c, IF given = Nothing THEN "dispatched" ELSE "failing")
       /\ UNCHANGED <<scenario, setup, own, origin, cache, served>>

\* The database runs the query.
Apply(c) ==
    /\ pc[c] = "dispatched"
    /\ version[c] = 0
    /\ IF ReadOnly(c)
       THEN /\ version' = [version EXCEPT ![c] = origin]
            /\ served' = [served EXCEPT ![op[c].name] = @ \cup {origin}]
            /\ UNCHANGED origin
       ELSE /\ version' = [version EXCEPT ![c] = origin + 1]
            /\ origin' = origin + 1
            /\ UNCHANGED served
    /\ UNCHANGED <<controllerVars, proxyVars, own, cache>>

\* cache.set: a read whose result reaches the caller is remembered.
Remembered(c) ==
    IF ReadOnly(c) THEN [cache EXCEPT ![op[c].name] = version[c]] ELSE cache

\* The driver returned.  A read that loses its result is not remembered.
Return(c) ==
    LET after == FaultAt(op[c], "after-commit-before-response", "during-response")
    IN /\ pc[c] = "dispatched"
       /\ version[c] > 0
       /\ Activate(after)
       /\ fault' = [fault EXCEPT ![c] = after]
       /\ cache' = IF after = Nothing THEN Remembered(c) ELSE cache
       /\ Go(c, IF after = Nothing THEN "asking" ELSE "failing")
       /\ UNCHANGED <<scenario, occurrences, completions, setup, op, calls, version,
                      own, origin, served>>

\* The driver threw, before or after the database ran the query.
Reject(c) ==
    /\ pc[c] = "dispatched"
    /\ Complete(c, UnknownEntry)
    /\ Settle(c, "rejected")
    /\ UNCHANGED <<scenario, activations, occurrences, setup, op, fault, calls, hyperdriveVars>>

\* Mutant: whatever returned is inferred to be committed.
InferredAlways(c) == "committed"

Inferred(c) == IF ReadOnly(c) THEN "not-committed" ELSE "committed"

Succeed(c) ==
    /\ pc[c] = "asking"
    /\ \E said \in Told(Truth(c)) :
           Complete(c, OutcomeMetadata("ok", said, "unknown", Inferred(c)))
    /\ Settle(c, "result")
    /\ own' = [own EXCEPT ![c] = IF ReadOnly(c) THEN @ ELSE version[c]]
    /\ UNCHANGED <<scenario, activations, occurrences, setup, op, fault, calls, version,
                   origin, cache, served>>

Fail(c) ==
    /\ pc[c] = "failing"
    /\ \E said \in Told(Truth(c)) : Complete(c, InjectedEntry(c, said))
    /\ Settle(c, IF Ambiguous(c) THEN "indeterminate" ELSE "injected")
    /\ UNCHANGED <<scenario, activations, occurrences, setup, op, fault, calls, hyperdriveVars>>

---------------------------------------------------------------------------
Progress(c) == Mine(c) /\ (Return(c) \/ Reject(c) \/ Succeed(c) \/ Fail(c))

Next(c) ==
    \/ Progress(c)
    \/ Mine(c) /\ Apply(c)
    \/ \E name \in Queries : Begin(c, name)

---------------------------------------------------------------------------
\* A caller reads its own acknowledged writes, whatever the other callers do in
\* between, unless the scenario plans a read from the cache: the proxy is no source
\* of staleness of its own.
ReadsSeeOwnWrites ==
    \A c \in Callers :
        (Mine(c) /\ Settled(c) /\ ReadOnly(c) /\ answer[c] \in {"result", "cached"}) =>
            \/ version[c] >= own[c]
            \/ fault[c] # Nothing /\ Perturbed(c).kind = "cached-read"

\* What the history claims to know about a write, or about a query that returned,
\* is true of the database.
ClaimedOutcomeIsTrue ==
    \A c \in Callers :
        LET entry == completions[c][1]
        IN (/\ Mine(c) /\ Settled(c)
            /\ ReadOnly(c) => entry.type = "ok"
            /\ entry.source # "unknown") => entry.actual = Truth(c)
=============================================================================

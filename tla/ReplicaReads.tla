----------------------------- MODULE ReplicaReads -----------------------------
(***************************************************************************)
(* Observers of replicated state (packages/cloudflare/src): the key-value  *)
(* model EventuallyConsistentKvStore (kv.ts, regions.ts), the database     *)
(* model D1SessionModel (d1.ts), and the checkers that judge what the      *)
(* observers saw (consistency.ts), on the order things happened in and on  *)
(* the order the observers' merged histories have.                         *)
(***************************************************************************)
EXTENDS Integers, Sequences, FiniteSets

CONSTANTS Observers,   \* numbers: ids sort like them
          Keys,        \* keys of the key-value store
          Database,    \* what writes and reads of D1 are recorded under
          MaxLag,      \* bound: the lag a region profile asks for
          MaxEvents,   \* bound: the reads and writes of one behaviour
          Skews        \* how far an observer's clock may be ahead

ASSUME ReplicaAssumption ==
    Observers \subseteq Nat /\ Database \notin Keys /\ Skews \subseteq Nat

VARIABLES versions,    \* per key, how many have been written; a deletion is one
          view,        \* the version an observer of a key was set to, or Latest
          primary, sessions,  \* D1SessionModel
          replica,     \* the version its replica has, or Latest
          clock, skew, \* Date.now() where an observer runs
          trace        \* ObserverConsistencyTracker, in the order of the calls

replicaVars == <<versions, view, primary, sessions, replica, clock, skew, trace>>

Latest == -1  \* not a version
Larger(m, n) == IF m < n THEN n ELSE m
Behind(version, lag) == IF version < lag THEN 0 ELSE version - lag

---------------------------------------------------------------------------
(* The stores *)

Recorded(kind, observer, key, version, authoritative, session) ==
    /\ Len(trace) < MaxEvents
    /\ trace' = Append(trace, [kind |-> kind, observer |-> observer, key |-> key,
                               version |-> version, authoritative |-> authoritative,
                               session |-> session, at |-> clock + skew[observer]])

\* put and delete.
Put(observer, key) ==
    /\ versions' = [versions EXCEPT ![key] = @ + 1]
    /\ Recorded("write", observer, key, versions'[key], versions'[key], 0)
    /\ UNCHANGED <<view, primary, sessions, replica, clock, skew>>

\* setObserverVersion pins an observer: later writes stay invisible to it until it is
\* set again.
SetObserverVersion(observer, key, version) ==
    /\ version <= versions[key]
    /\ view' = [view EXCEPT ![observer][key] = version]
    /\ UNCHANGED <<versions, primary, sessions, replica, clock, skew, trace>>

\* applyObserverRegionToKv: setObserverLag for every key.
ApplyRegion(observer, lag) ==
    /\ view' = [view EXCEPT ![observer] = [key \in Keys |-> Behind(versions[key], lag)]]
    /\ UNCHANGED <<versions, primary, sessions, replica, clock, skew, trace>>

\* Only the keys that were written have a list of versions to converge to.
Converge(observer) ==
    /\ view' = [view EXCEPT ![observer] =
                  [key \in Keys |-> IF versions[key] > 0 THEN versions[key] ELSE @[key]]]
    /\ UNCHANGED <<versions, primary, sessions, replica, clock, skew, trace>>

Visible(observer, key) ==
    IF view[observer][key] = Latest THEN versions[key] ELSE view[observer][key]

Read(observer, key) ==
    /\ Recorded("read", observer, key, Visible(observer, key), versions[key], 0)
    /\ UNCHANGED <<versions, view, primary, sessions, replica, clock, skew>>

\* commit and recordWrite.
RecordWrite(observer) ==
    /\ primary' = primary + 1
    /\ sessions' = [sessions EXCEPT ![observer] = Larger(@, primary + 1)]
    /\ Recorded("write", observer, Database, primary + 1, primary + 1, 0)
    /\ UNCHANGED <<versions, view, replica, clock, skew>>

SetReplicaVersion(version) ==
    /\ version <= primary
    /\ replica' = version
    /\ UNCHANGED <<versions, view, primary, sessions, clock, skew, trace>>

ReplicaVersion == IF replica = Latest THEN primary ELSE replica

\* Mutant: the bookmark is moved and not waited for.
SessionVersionUnheld(observer) == ReplicaVersion

\* observe: the replica answers from the bookmark on.
SessionVersion(observer) == Larger(ReplicaVersion, sessions[observer])

Observe(observer) ==
    /\ sessions' = [sessions EXCEPT ![observer] = SessionVersion(observer)]
    /\ Recorded("read", observer, Database, SessionVersion(observer), primary, sessions[observer])
    /\ UNCHANGED <<versions, view, primary, replica, clock, skew>>

\* A read without a session moves no bookmark.
ObserveUnbound(observer) ==
    /\ Recorded("read", observer, Database, ReplicaVersion, primary, 0)
    /\ UNCHANGED <<versions, view, primary, sessions, replica, clock, skew>>

\* Several calls may share a timestamp.
Tick ==
    /\ clock < Len(trace)
    /\ clock' = clock + 1
    /\ UNCHANGED <<versions, view, primary, sessions, replica, skew, trace>>

ReplicaInit ==
    /\ versions = [key \in Keys |-> 0]
    /\ view = [observer \in Observers |-> [key \in Keys |-> Latest]]
    /\ primary = 0 /\ sessions = [observer \in Observers |-> 0] /\ replica = Latest
    /\ clock = 0 /\ skew \in [Observers -> Skews] /\ trace = <<>>

KvStep ==
    \E observer \in Observers :
        \/ \E key \in Keys :
              \/ Put(observer, key)
              \/ \E version \in 0 .. MaxEvents : SetObserverVersion(observer, key, version)
              \/ Read(observer, key)
        \/ \E lag \in 0 .. MaxLag : ApplyRegion(observer, lag)
        \/ Converge(observer)

D1Step ==
    \/ \E observer \in Observers :
          RecordWrite(observer) \/ Observe(observer) \/ ObserveUnbound(observer)
    \/ \E version \in 0 .. MaxEvents : SetReplicaVersion(version)

ReplicaNext == KvStep \/ D1Step \/ Tick

ReplicaSpec == ReplicaInit /\ [][ReplicaNext]_replicaVars

---------------------------------------------------------------------------
(* The checkers, on the events of the trace in a given order: a set of pairs *)

Calls == DOMAIN trace
Reads == {i \in Calls : trace[i].kind = "read"}
Writes == {i \in Calls : trace[i].kind = "write"}

\* The order of the calls.
Called == {p \in Calls \X Calls : p[1] < p[2]}

\* [...].sort((a, b) => a.at - b.at) keeps the order of equal timestamps.
SortedByTime(order) ==
    {p \in Calls \X Calls :
        \/ trace[p[1]].at < trace[p[2]].at
        \/ trace[p[1]].at = trace[p[2]].at /\ p \in order}

\* `${observer}|${key}'
SameKey(i, j) == trace[i].key = trace[j].key
Same(i, j) == trace[i].observer = trace[j].observer /\ SameKey(i, j)

EventuallyConsistentReads ==
    \A i \in Reads : trace[i].version <= trace[i].authoritative

\* Mutant: one last read for all observers of a key.
MonotonicForAll(order) ==
    LET sorted == SortedByTime(order)
    IN  \A i, j \in Reads :
            /\ <<i, j>> \in sorted /\ SameKey(i, j)
            /\ \A k \in Reads : <<i, k>> \in sorted /\ <<k, j>> \in sorted => ~SameKey(k, j)
            => trace[i].version <= trace[j].version

\* A read is compared with the last one of the same observer and key.
MonotonicObserverReads(order) ==
    LET sorted == SortedByTime(order)
    IN  \A i, j \in Reads :
            /\ <<i, j>> \in sorted /\ Same(i, j)
            /\ \A k \in Reads : <<i, k>> \in sorted /\ <<k, j>> \in sorted => ~Same(k, j)
            => trace[i].version <= trace[j].version

\* The writes of the same observer and key that are not later than the read.
OwnWrites(read) == {w \in Writes : Same(w, read) /\ trace[w].at <= trace[read].at}

\* A read is compared with the last of them.
ReadYourWrites(order) ==
    LET sorted == SortedByTime(order)
    IN  \A read \in Reads : \A last \in OwnWrites(read) :
            (\A w \in OwnWrites(read) : <<last, w>> \notin sorted)
            => trace[read].version >= trace[last].version

SequentialSession == \A i \in Reads : trace[i].version >= trace[i].session

Checks(order) == <<EventuallyConsistentReads, MonotonicObserverReads(order),
                   ReadYourWrites(order), SequentialSession>>

\* mergeObserverHistories: by timestamp, then observer, then the observer's own order.
MergedWith(own) ==
    {p \in Calls \X Calls :
        LET left == trace[p[1]]
            right == trace[p[2]]
        IN  \/ left.at < right.at
            \/ left.at = right.at /\ left.observer < right.observer
            \/ left.at = right.at /\ left.observer = right.observer /\ p \in own}

\* Mutant: the last comparison is the wrong way round.
MergedBackwards == MergedWith({p \in Calls \X Calls : p[1] > p[2]})

Merged == MergedWith(Called)

\* observerDivergence: the distance between the last reads of a key.
LastReads(order, key) ==
    LET sorted == SortedByTime(order)
        last == {i \in Reads : /\ trace[i].key = key
                               /\ \A j \in Reads : <<i, j>> \in sorted => ~Same(i, j)}
    IN  {trace[i].version : i \in last}

Divergence(order) ==
    [key \in {trace[i].key : i \in Reads} |->
        LET last == LastReads(order, key)
        IN  (CHOOSE v \in last : \A w \in last : w <= v)
            - (CHOOSE v \in last : \A w \in last : v <= w)]

---------------------------------------------------------------------------
(* Properties *)

\* A read regressed, or missed a write of its own observer, in the order of the calls.
Regressed ==
    \E i, j \in Reads : i < j /\ Same(i, j) /\ trace[j].version < trace[i].version

MissedOwnWrite ==
    \E i \in Writes, j \in Reads :
        i < j /\ Same(i, j) /\ trace[j].version < trace[i].version

\* A write follows a read of the same observer and key within one timestamp.
Ambiguous ==
    \E i \in Reads, j \in Writes : i < j /\ Same(i, j) /\ trace[i].at = trace[j].at

\* Two events come one after the other, and those of an observer as it called them.
IsTimeline(order) ==
    \A i, j \in Calls :
        /\ i # j => (<<i, j>> \in order <=> <<j, i>> \notin order)
        /\ \A k \in Calls : <<i, j>> \in order /\ <<j, k>> \in order => <<i, k>> \in order
        /\ trace[i].observer = trace[j].observer => (<<i, j>> \in order <=> i < j)

\* The checkers answer what happened in the order of the calls, although they see
\* timestamps of clocks that disagree: the regression verdict is exact, a missed write is
\* never passed over, a false alarm needs a tie, and nothing from the future is read
\* (consistency.ts checkMonotonicObserverReads, checkReadYourWrites).  Merging the
\* observers' histories into one timeline keeps the order of each and changes no check
\* and no divergence (mergeObserverHistories, observerTraceFromHistory).
ChecksAreTrue ==
    /\ EventuallyConsistentReads
    /\ MonotonicObserverReads(Called) <=> ~Regressed
    /\ MissedOwnWrite => ~ReadYourWrites(Called)
    /\ ~ReadYourWrites(Called) => MissedOwnWrite \/ Ambiguous
    /\ IsTimeline(Merged)
    /\ Checks(Merged) = Checks(Called)
    /\ Divergence(Merged) = Divergence(Called)

\* Reads through a session implement sessions of a replicated database, whatever the
\* replica has (d1.ts D1SessionModel).
Abstract == INSTANCE SessionReads WITH
    Sessions <- Observers, committed <- primary, bookmark <- sessions

ImplementsSessions == Abstract!Spec

===============================================================================

------------------------- MODULE ConcurrentWorkload -------------------------
(***************************************************************************)
(* runConcurrentWorkload (packages/core/src/workload.ts): every client     *)
(* runs its commands as an asynchronous sequence of its own, all write to  *)
(* one History (history.ts), and the lineage of operations (lineage.ts) is *)
(* read off that history, at any time, by who began under whom.  Commands  *)
(* and hooks are the test's: they may reject, and a signal may abort them. *)
(***************************************************************************)
EXTENDS Integers, Sequences, FiniteSets, SequencesExt

CONSTANT Workloads  \* what may be asked for: [clients, stepsPerClient]

ASSUME WorkloadAssumption ==
    \A w \in Workloads : w.clients \in Nat /\ w.stepsPerClient \in Nat

VARIABLES options,   \* the workload of this call
          aborted,   \* signal.aborted
          awaits,    \* what each client awaits: a hook, next or its command
          step,      \* its loop counter
          latest,    \* its parentId
          history,   \* #events, the invocations and completions of operations
          results,
          outcome    \* the promise the function returned

workloadVars == <<options, aborted, awaits, step, latest, history, results, outcome>>

Clients == 0 .. options.clients - 1
NoOperation == <<-1, -1>>

\* The head of the loop: the signal is looked at there and nowhere else.
AtHead(n) ==
    IF n = options.stepsPerClient THEN "returned" ELSE IF aborted THEN "thrown" ELSE "beforeStep"

WorkloadInit ==
    /\ options \in Workloads
    /\ aborted \in BOOLEAN
    /\ step = [c \in Clients |-> 0]
    /\ awaits = [c \in Clients |-> AtHead(0)]
    /\ latest = [c \in Clients |-> NoOperation]
    /\ history = <<>>
    /\ results = <<>>
    /\ outcome = "pending"

---------------------------------------------------------------------------
(* Clients *)

Go(c, to) == awaits' = [awaits EXCEPT ![c] = to]

NextStep(c) ==
    /\ step' = [step EXCEPT ![c] = @ + 1]
    /\ Go(c, AtHead(step[c] + 1))

Event(type, id, parent) == [type |-> type, id |-> id, parent |-> parent]

BeforeStep(c) ==
    /\ awaits[c] = "beforeStep"
    /\ Go(c, "next")
    /\ UNCHANGED <<options, aborted, step, latest, history, results, outcome>>

\* `next' may have nothing to do; afterStep is not called then.
Skip(c) ==
    /\ awaits[c] = "next"
    /\ NextStep(c)
    /\ UNCHANGED <<options, aborted, latest, history, results, outcome>>

\* Mutant: the clients share one parent.
LastBegun(c) ==
    LET invoked == {i \in DOMAIN history : history[i].type = "invoke"}
    IN IF invoked = {} THEN NoOperation
       ELSE history[CHOOSE i \in invoked : \A j \in invoked : j <= i].id

ParentOf(c) == latest[c]

\* The operation begins before its command is asked to run, in the same turn.
Begin(c) ==
    LET id == <<c, step[c]>>
    IN /\ awaits[c] = "next"
       /\ history' = Append(history, Event("invoke", id, ParentOf(c)))
       /\ latest' = [latest EXCEPT ![c] = id]
       /\ Go(c, "command")
       /\ UNCHANGED <<options, aborted, step, results, outcome>>

\* A command that rejects fails its operation, and the client goes on.
CommandSettles(c) ==
    LET id == <<c, step[c]>>
        begun == history[CHOOSE i \in DOMAIN history : history[i].id = id]
    IN /\ awaits[c] = "command"
       /\ \E status \in {"ok", "fail"} :
            /\ history' = Append(history, Event(status, id, begun.parent))
            /\ results' = Append(results, [id |-> id, status |-> status])
       /\ Go(c, "afterStep")
       /\ UNCHANGED <<options, aborted, step, latest, outcome>>

AfterStep(c) ==
    /\ awaits[c] = "afterStep"
    /\ NextStep(c)
    /\ UNCHANGED <<options, aborted, latest, history, results, outcome>>

\* A rejection of anything but a command ends the client.
Throw(c) ==
    /\ awaits[c] \in {"beforeStep", "next", "afterStep"}
    /\ Go(c, "thrown")
    /\ UNCHANGED <<options, aborted, step, latest, history, results, outcome>>

Abort ==
    /\ ~aborted
    /\ aborted' = TRUE
    /\ UNCHANGED <<options, awaits, step, latest, history, results, outcome>>

\* Mutant: one client is enough.
SomeReturned == \E c \in Clients : awaits[c] = "returned"

AllReturned == \A c \in Clients : awaits[c] = "returned"

\* Promise.all: the other clients are not stopped by a rejection.
Settle ==
    /\ outcome = "pending"
    /\ \/ AllReturned /\ outcome' = "resolved"
       \/ (\E c \in Clients : awaits[c] = "thrown") /\ outcome' = "rejected"
    /\ UNCHANGED <<options, aborted, awaits, step, latest, history, results>>

WorkloadNext ==
    \/ Abort \/ Settle
    \/ \E c \in Clients :
         BeforeStep(c) \/ Skip(c) \/ Begin(c) \/ CommandSettles(c) \/ AfterStep(c) \/ Throw(c)

WorkloadSpec == WorkloadInit /\ [][WorkloadNext]_workloadVars

---------------------------------------------------------------------------
(* buildOperationLineage, and what is read off it *)

InvokedAt(id) ==
    CHOOSE i \in DOMAIN history : history[i].type = "invoke" /\ history[i].id = id

Nodes == {history[i].id : i \in DOMAIN history}

Parent == [id \in Nodes |-> history[InvokedAt(id)].parent]

\* Linked as they are met, and once more at the end for parents that came later.
Children == [id \in Nodes |-> {child \in Nodes : Parent[child] = id}]

Completions(id) == {i \in DOMAIN history : history[i].id = id /\ history[i].type # "invoke"}

\* operationAncestors, the nearest first.  An operation of a workload is never its
\* own ancestor, so that no path comes back to a node it has visited.
Ancestors ==
    LET f[id \in Nodes] ==
            IF Parent[id] \notin Nodes THEN <<>> ELSE <<Parent[id]>> \o f[Parent[id]]
    IN f

\* operationDescendants
Descendants ==
    LET f[id \in Nodes] == Children[id] \cup UNION {f[child] : child \in Children[id]}
    IN f

---------------------------------------------------------------------------

\* However the clients interleave, an operation's ancestors in the history are the
\* earlier operations of its own client, all of them, each complete before the next
\* began, and seen from above they are its descendants: the lineage shows what a
\* client did one after the other and nothing that happened to run beside it.
LineageIsPerClient ==
    \A id \in Nodes :
        LET line == Ancestors[id]
            earlier == {other \in Nodes : other[1] = id[1] /\ other[2] < id[2]}
        IN /\ ToSet(line) = earlier
           /\ \A i, j \in DOMAIN line : i < j => line[i][2] > line[j][2]
           /\ \A other \in Nodes : other \in earlier <=> id \in Descendants[other]
           /\ \A other \in earlier :
                \E i \in Completions(other) : i < InvokedAt(id)

\* A workload that resolves hands a whole history to the checkers: every operation
\* has completed once, in the history and in the results and with one status, and
\* nothing is written any more.  A rejected one promises none of this.
ResolvedMeansComplete ==
    outcome = "resolved" =>
         /\ \A id \in Nodes : Cardinality(Completions(id)) = 1
         /\ {[id |-> history[i].id, status |-> history[i].type] :
               i \in UNION {Completions(id) : id \in Nodes}} = ToSet(results)
         /\ Len(results) = Cardinality(Nodes)
         /\ \A c \in Clients : awaits[c] = "returned"

\* What runConcurrentWorkload leaves on record is whole when it is over, and the lineage
\* read off it is true at any time.
WorkloadsAreOnRecord == LineageIsPerClient /\ ResolvedMeansComplete
=============================================================================

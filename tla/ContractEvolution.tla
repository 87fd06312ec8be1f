-------------------------- MODULE ContractEvolution --------------------------
(***************************************************************************)
(* The contract an adapter makes with its users, release after release     *)
(* (packages/adapter-sdk/src/contracts.ts and conformance.ts): a snapshot  *)
(* of what the adapter makes of some cases, the comparison of a snapshot   *)
(* with the last one on record, and the registry of them.  A fingerprint   *)
(* stands for the snapshot it is computed from.                            *)
(***************************************************************************)
EXTENDS Naturals, Sequences, FiniteSets

CONSTANTS NumCases,      \* the cases, in their order
          Matches,       \* what `match' and `faultSpace' may make of a case
          Expected,      \* the operation each case expects
          Capabilities,  \* what a manifest may declare
          Versions,      \* numbers, the contractVersion of a manifest
          MaxReleases    \* bound: the releases

ASSUME ContractAssumption == NumCases \in Nat /\ \A v \in Versions : v \in Nat

VARIABLES contracts,  \* a registry: #snapshots of the one adapter
          releases   \* the adapters released, each with its manifest

contractVars == <<contracts, releases>>

Cases == 1 .. NumCases
NoMatch == [op |-> "none", effect |-> "none", retry |-> "none", kinds |-> {}]

AdapterVersions ==
    [version : Versions, capabilities : SUBSET Capabilities,
     match : [Cases -> Matches \cup {NoMatch}]]

ContractInit == contracts = <<>> /\ releases = <<>>

CommitFaults == {"commit-then-timeout", "commit-then-disconnect"}

\* runAdapterConformance.  Two classifications of one case never differ here, and a
\* fault space is a set.
Conforms(a) ==
    /\ a.capabilities # {}
    /\ \A c \in Cases :
         /\ a.match[c] # NoMatch
         /\ a.match[c].op = Expected[c]
         /\ a.match[c].effect = "query" => a.match[c].kinds \cap CommitFaults = {}

CasesOf(a, op) == {c \in Cases : a.match[c] # NoMatch /\ a.match[c].op = op}
OperationsOf(a) == {a.match[c].op : c \in {d \in Cases : a.match[d] # NoMatch}}
LastOf(S) == CHOOSE c \in S : \A d \in S : d <= c

\* Mutant: an operation has the faults of its last case.
KindsOfLast(a, op) == a.match[LastOf(CasesOf(a, op))].kinds

KindsOf(a, op) == UNION {a.match[c].kinds : c \in CasesOf(a, op)}

\* snapshotSemanticContract: the last case of an operation says what it is, all of them
\* say what may happen to it.
SnapshotOf(a) ==
    [version |-> a.version, capabilities |-> a.capabilities, conforms |-> Conforms(a),
     operations |-> [op \in OperationsOf(a) |->
         [effect |-> a.match[LastOf(CasesOf(a, op))].effect,
          retry |-> a.match[LastOf(CasesOf(a, op))].retry,
          kinds |-> KindsOf(a, op)]]]

\* Mutant: an operation that is still there has not been changed.
RemovedOnly(previous, next) ==
    \/ ~(DOMAIN previous.operations \subseteq DOMAIN next.operations)
    \/ ~(previous.capabilities \subseteq next.capabilities)

\* compareSemanticContracts: is anything in `breaking'?
Breaking(previous, next) ==
    \/ ~(DOMAIN previous.operations \subseteq DOMAIN next.operations)
    \/ ~(previous.capabilities \subseteq next.capabilities)
    \/ \E op \in DOMAIN previous.operations \cap DOMAIN next.operations :
         LET before == previous.operations[op]
             after == next.operations[op]
         IN \/ <<before.effect, before.retry>> # <<after.effect, after.retry>>
            \/ ~(before.kinds \subseteq after.kinds)

\* validateContractEvolution, for snapshots of one adapter.
ValidEvolution(previous, next) ==
    ~Breaking(previous, next) \/ previous.version # next.version

\* Mutant: the contract on record is the oldest.
FirstOnRecord(reg) == reg[1]

LatestSnapshot(reg) == reg[Len(reg)]

\* SemanticContractRegistry.add: a snapshot is on record once, wherever that is.
Add(reg, snapshot) ==
    IF \E i \in DOMAIN reg : reg[i] = snapshot THEN reg ELSE Append(reg, snapshot)

\* An adapter is released when its snapshot is a valid evolution of the latest one on
\* record.  A contract version is never used again.
Release(a) ==
    /\ Len(releases) < MaxReleases
    /\ \A i \in DOMAIN releases : releases[i].version <= a.version
    /\ contracts # <<>> => ValidEvolution(LatestSnapshot(contracts), SnapshotOf(a))
    /\ contracts' = Add(contracts, SnapshotOf(a))
    /\ releases' = Append(releases, a)

ContractNext == \E a \in AdapterVersions : Release(a)

ContractSpec == ContractInit /\ [][ContractNext]_contractVars

---------------------------------------------------------------------------

\* Whoever relies on a contract may rely on every later release of its version: each
\* operation is still there, with every fault any case of it was offered and, where
\* its cases agreed on what it is, still being that; and the capabilities are.  The
\* latest snapshot describes the latest release, but for its conformance, which may have
\* been lost by going back to a snapshot already on record (contracts.ts:81, 105, 118).
ContractsAreKept ==
    /\ releases # <<>> =>
         LatestSnapshot(contracts) =
             [SnapshotOf(releases[Len(releases)]) EXCEPT !.conforms = LatestSnapshot(contracts).conforms]
    /\ \A i, j \in DOMAIN releases :
         LET old == releases[i]
             new == releases[j]
         IN i < j /\ old.version = new.version =>
              /\ old.capabilities \subseteq new.capabilities
              /\ \A op \in OperationsOf(old) :
                   /\ CasesOf(new, op) # {}
                   /\ \A c \in CasesOf(old, op), kind \in UNION {m.kinds : m \in Matches} :
                        kind \in old.match[c].kinds =>
                            \E d \in CasesOf(new, op) : kind \in new.match[d].kinds
                   /\ \A c \in CasesOf(old, op) :
                        (\A d \in CasesOf(old, op) : old.match[d].effect = old.match[c].effect)
                        => \E d \in CasesOf(new, op) : new.match[d].effect = old.match[c].effect
=============================================================================

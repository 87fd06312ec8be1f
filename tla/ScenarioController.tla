------------------------- MODULE ScenarioController -------------------------
(***************************************************************************)
(* The controller of one scenario (packages/core/src/controller.ts): the   *)
(* perturbations still to be injected, how often each one was, and the     *)
(* completions recorded in the history.  It has no actions of its own: the *)
(* fault proxies extend this module and call begin, take and complete from *)
(* theirs.  JavaScript runs each of these to its end, so that a proxy's    *)
(* step between two awaits may combine several of them.                    *)
(***************************************************************************)
EXTENDS Naturals, Sequences, FiniteSets

CONSTANTS Callers,     \* the workload's concurrent users of the binding
          Names,       \* the operations' names; one resource and callsite each
          Scenarios    \* the perturbation lists a run may start with

VARIABLES scenario,     \* the perturbations, in the order they were planned
          activations,  \* #activations: how often each perturbation was injected
          occurrences,  \* #operationOccurrences
          completions   \* the history's completions of each caller's operation

controllerVars == <<scenario, activations, occurrences, completions>>

\* A semantic variation has no phase, no declared and no observed outcome.
SemanticPhase == "none"

IsFault(p) == p.phase # SemanticPhase

ControllerInit ==
    /\ scenario \in Scenarios
    /\ activations = [id \in UNION {{s[i].id : i \in DOMAIN s} : s \in Scenarios} |-> 0]
    /\ occurrences = [n \in Names |-> 0]
    /\ completions = [c \in Callers |-> <<>>]

---------------------------------------------------------------------------
(* Selecting a perturbation *)

\* The phase of a question that leaves the argument out.
AnyPhase == "any"

\* matchesSelector: a variation matches whatever the phase is, and occurrence 0
\* stands for a selector that names none.
MatchesSelector(p, op, phase) ==
    /\ op.name \in p.names
    /\ IsFault(p) => phase \in {AnyPhase, p.phase}
    /\ p.occurrence \in {0, op.occurrence}

\* Mutant: the limit is compared with <=.
EligibleOnceMore(op, phase) ==
    {i \in DOMAIN scenario :
        /\ activations[scenario[i].id] <= scenario[i].max
        /\ MatchesSelector(scenario[i], op, phase)}

\* The places of the perturbations that may still be injected here.
Eligible(op, phase) ==
    {i \in DOMAIN scenario :
        /\ activations[scenario[i].id] < scenario[i].max
        /\ MatchesSelector(scenario[i], op, phase)}

FirstOf(S) == CHOOSE i \in S : \A j \in S : i <= j

Nothing == 0

\* `take(op, phase) ?? take(op, otherwise)`: the place of what is taken, if any.
Taken(op, phase, otherwise) ==
    LET now == Eligible(op, phase)
        later == Eligible(op, otherwise)
    IN IF now # {} THEN FirstOf(now)
       ELSE IF later # {} THEN FirstOf(later)
       ELSE Nothing

Activate(i) ==
    activations' = IF i = Nothing THEN activations
                   ELSE [activations EXCEPT ![scenario[i].id] = @ + 1]

---------------------------------------------------------------------------
(* Operations and their outcomes *)

\* The operation `begin` returns for the next call of this name.
Indexed(name) == [name |-> name, occurrence |-> occurrences[name] + 1]

CountOccurrence(name) == occurrences' = [occurrences EXCEPT ![name] = @ + 1]

NoAnswer == "no answer"

\* outcomeMetadata: what the oracle says, else what the harness declares, else
\* what a proxy infers; "unknown" is nobody's answer.
OutcomeMetadata(type, privileged, declared, inferred) ==
    CASE privileged # NoAnswer ->
            [type |-> type, actual |-> privileged, source |-> "oracle"]
      [] privileged = NoAnswer /\ declared # "unknown" ->
            [type |-> type, actual |-> declared, source |-> "declared"]
      [] privileged = NoAnswer /\ declared = "unknown" /\ inferred # "unknown" ->
            [type |-> type, actual |-> inferred, source |-> "inferred"]
      [] OTHER -> [type |-> type, actual |-> "unknown", source |-> "unknown"]

Complete(c, entry) == completions' = [completions EXCEPT ![c] = Append(@, entry)]

\* However the callers interleave, a perturbation is injected no more often than
\* its selector allows: eligibility is decided and spent without an await between.
InjectedWithinLimit ==
    \A i \in DOMAIN scenario : activations[scenario[i].id] <= scenario[i].max
=============================================================================

-------------------------- MODULE MCStripePayments --------------------------
(***************************************************************************)
(* Either two callers that create, confirm and look up payments at Stripe, *)
(* or one request of any kind to any provider of the catalog or to an      *)
(* adapter of a plugin, which serves hosts the catalog serves as well, or  *)
(* the releases of one adapter.                                            *)
(***************************************************************************)
EXTENDS StripePayments, ProviderSemantics, ContractEvolution, TLC

VARIABLE about  \* "stripe", "catalog" or "contracts"

Symmetry == Permutations(Callers)

---------------------------------------------------------------------------
(* Payments *)

CreateWith(k) == [name |-> Creation, key |-> k, intent |-> 0, confirm |-> TRUE,
                  effect |-> "external-side-effect"]
Draft == [CreateWith(NoKey) EXCEPT !.confirm = FALSE]
ConfirmWith(k) == [CreateWith(k) EXCEPT !.name = Confirmation, !.intent = 1]
Lookup == [CreateWith(NoKey) EXCEPT !.name = Retrieval, !.intent = 1, !.effect = "query"]

\* One caller pays with a key it keeps while the other confirms the same intent.
MCRequests == {CreateWith("k1"), ConfirmWith(NoKey), ConfirmWith("k2"), Draft, Lookup}

\* One scenario for each kind of fault; two may be injected one after the other.
Payments == {Creation, Confirmation, Retrieval}
PaymentScenarios ==
    {<<RejectBeforeCommit(Payments), TimeoutBeforeSend({Confirmation})>>,
     <<RateLimit({Creation}), CommitThenTimeout({Creation})>>,
     <<Latency(Payments), MalformedJson(Payments)>>,
     <<HttpError({Creation}), CommitThenDisconnect({Creation})>>}

---------------------------------------------------------------------------
(* Providers *)

\* A plugin's adapter for everything below github.com, with faults of its own.
Proxy == Adapter("proxy", {Under(<<"github", "com">>), Exactly(<<"slack", "com">>)}, {},
                   <<Post("graphql", "query", "query")>>)

MCAdapters ==
    [n \in {a.name : a \in InCatalog} \cup {"proxy"} |->
        IF n = "proxy" THEN Proxy ELSE CHOOSE a \in InCatalog : a.name = n]
CatalogNames == [i \in DOMAIN FirstParty |-> FirstParty[i].name]
MCBatches == {CatalogNames, <<"proxy", "slack">>}

MCOwnFaults(a, o) ==
    {TimeoutBeforeSend({o.name}), Latency({o.name}), MalformedJson({o.name})}

MCNames ==
    UNION {{<<n, MCAdapters[n].rules[i].op>> : i \in DOMAIN MCAdapters[n].rules}
             \cup {<<n, "query">>, <<n, "mutation">>} : n \in DOMAIN MCAdapters}

\* A catalog's scenario is planned later: these only give its perturbations their ids.
PlannedLater ==
    {<<>>} \cup {<<Fault(k, {}, "none", "committed", "unknown")>> :
                    k \in FaultKinds \ (ImmediateKinds \cup {"malformed-json"})}
MCScenarios == PaymentScenarios \cup PlannedLater

---------------------------------------------------------------------------
(* Contracts *)

Pay(effect, kinds) ==
    [op |-> "pay", effect |-> effect, retry |-> "unknown", kinds |-> kinds]

MCExpected == <<"pay", "pay">>
MCMatches == {Pay("mutation", {}), Pay("mutation", {"commit-then-timeout"}),
              Pay("query", {"commit-then-timeout"})}

---------------------------------------------------------------------------

Unused == /\ intents = <<>> /\ idempotency = [s \in Slots |-> NoResponse]
          /\ charges = [k \in Keys |-> 0]

MCInit ==
    /\ registry = <<>> /\ planned = NotPlanned
    /\ ContractInit
    /\ \/ about = "stripe" /\ Init /\ scenario \in PaymentScenarios
       \/ about \in {"catalog", "contracts"} /\ ProviderInit /\ Unused

MCNext ==
    /\ UNCHANGED about
    /\ \/ about = "stripe" /\ Next /\ UNCHANGED <<registry, planned, contractVars>>
       \/ about = "catalog" /\ ProviderNext /\ UNCHANGED <<backendVars, contractVars>>
       \/ about = "contracts" /\ ContractNext /\ UNCHANGED <<vars, registry, planned>>

MCSpec == MCInit /\ [][MCNext]_<<vars, about, registry, planned, contractVars>>
=============================================================================

------------------------- MODULE ProviderSemantics -------------------------
(***************************************************************************)
(* One request to a provider of the catalog, from the registry to the      *)
(* history, through withProviderSemantics (packages/adapters/src/          *)
(* semantics.ts): the adapter that classifies it offers its fault space, a *)
(* scenario injects one perturbation of it, and genericExecute does what   *)
(* the perturbation asks for.  Adapters are registered in batches, of      *)
(* which one that names a known adapter fails halfway.                     *)
(***************************************************************************)
EXTENDS AdapterRuntime, AdapterCatalog, WellFoundedInduction, TLAPS

CONSTANTS Adapters,        \* the catalog's and others: adapters by their name
          Batches,         \* what is registered at once: sequences of names
          OwnFaults(_, _)  \* the `faults' option of an adapter that is not the catalog's

VARIABLES registry,  \* #adapters: the names, in the order of their registration
          planned    \* the request the scenario was planned for

providerVars == <<controllerVars, runtimeVars, registry, planned>>

NotPlanned == [method |-> "none"]

ProviderInit ==
    /\ RuntimeInit
    /\ scenario = <<>>
    /\ registry = <<>>
    /\ planned = NotPlanned

---------------------------------------------------------------------------
(* The registry *)

Registered == [i \in DOMAIN registry |-> Adapters[registry[i]]]

\* Mutant: what is registered later is asked first.
AskedFirst(batch) == batch \o registry

\* registerAll throws at the first known name and keeps what came before it.
AfterBatch(batch) ==
    LET Known(i) == \/ \E j \in DOMAIN registry : registry[j] = batch[i]
                    \/ \E j \in 1 .. i - 1 : batch[j] = batch[i]
        known == {i \in DOMAIN batch : Known(i)}
    IN IF known = {} THEN registry \o batch
       ELSE registry \o SubSeq(batch, 1, FirstOf(known) - 1)

NothingSentYet == \A c \in Callers : calls[c] = 0

RegisterAll ==
    /\ \E batch \in Batches : registry' = AfterBatch(batch)
    /\ NothingSentYet
    /\ UNCHANGED <<controllerVars, runtimeVars, planned>>

---------------------------------------------------------------------------
(* Fault spaces *)

\* Mutant: reads are offered faults of writes.
RulesFaultsOfAny(o) ==
    {RateLimit({o.name}), HttpError({o.name}),
     CommitThenTimeout({o.name}), CommitThenDisconnect({o.name})}

\* defineRulesAdapter: only what changes something can commit and lose its answer.
RulesFaults(o) ==
    {RateLimit({o.name}), HttpError({o.name})}
        \cup (IF o.effect = "query" THEN {}
              ELSE {CommitThenTimeout({o.name}), CommitThenDisconnect({o.name})})

\* Stripe's own space rejects where the others are unavailable.
StripeFaults(o) ==
    {RateLimit({o.name}), RejectBeforeCommit({o.name})}
        \cup (IF o.effect = "query" THEN {}
              ELSE {CommitThenTimeout({o.name}), CommitThenDisconnect({o.name})})

\* `fault': a response the provider itself would give.
Own(kind, o) == Fault(kind, {o.name}, "before-commit", "not-committed", "definite-failure")

StreamInterrupt(o) ==
    Fault("stream-interrupt", {o.name}, "during-response", "unknown", "indeterminate")
TokenFault(kind, o) ==
    Fault(kind, {o.name}, "before-send", "not-committed", "definite-failure")
LongRequest(o) ==
    Fault("openai-long-request-timeout", {o.name}, "during-response", "unknown",
          "indeterminate")

ProviderFaults(a, o) ==
    UNION {
      IF "streaming" \in a.capabilities THEN {StreamInterrupt(o)} ELSE {},
      IF "oauth" \in a.capabilities
        THEN {TokenFault("token-expired", o), TokenFault("token-revoked", o)} ELSE {},
      IF "regional-failures" \in a.capabilities THEN {Own("region-unavailable", o)} ELSE {},
      IF a.name = "anthropic" THEN {Own("anthropic-overloaded", o)} ELSE {},
      IF a.name = "github" THEN {Own("github-secondary-rate-limit", o)} ELSE {},
      IF a.name = "slack" THEN {Own("slack-application-error", o)} ELSE {},
      IF o.name = <<"shopify", "graphql.execute">>
        THEN {Own("shopify-graphql-throttled", o)} ELSE {},
      IF o.name = <<"openai", "response.create">> THEN {LongRequest(o)} ELSE {}}

BaseFaults(a, o) ==
    CASE a.name = "stripe" -> StripeFaults(o)
      [] a \in InCatalog /\ a.name # "stripe" -> RulesFaults(o)
      [] OTHER -> OwnFaults(a, o)

FaultSpace(a, o) == BaseFaults(a, o) \cup ProviderFaults(a, o)

\* What genericExecute knows to do something about.
FaultKinds ==
    {"rate-limit", "http-error", "reject-before-commit", "region-unavailable",
     "anthropic-overloaded", "github-secondary-rate-limit", "slack-application-error",
     "shopify-graphql-throttled", "openai-long-request-timeout", "token-expired",
     "token-revoked", "stream-interrupt", "timeout-before-send", "latency",
     "malformed-json", "commit-then-timeout", "commit-then-disconnect"}

\* A perturbation as the sdk's helpers make it: of a known kind, injected once and into
\* this operation, and if it loses a response it does not claim that there was none.
OfferedFor(f, name) ==
    /\ f.kind \in FaultKinds /\ f.id = f.kind /\ IsFault(f)
    /\ name \in f.names /\ f.occurrence = 0 /\ f.max = 1
    /\ f.kind \in LossKinds => f.actual # "not-committed"

\* Batches name adapters, and plugins make their faults with the sdk's helpers.
ASSUME ProviderAssumption ==
    /\ \A batch \in Batches : batch \in Seq(DOMAIN Adapters)
    /\ \A k \in FaultKinds : \E s \in Scenarios : \E i \in DOMAIN s : s[i].id = k
    /\ \A n, m \in DOMAIN Adapters : \A r \in RequestsTo(Adapters[m]) :
          LET o == Operation(Adapters[n], r)
          IN Serves(Adapters[n], r) => \A f \in OwnFaults(Adapters[n], o) : OfferedFor(f, o.name)

\* runAdapterConformance, for the case that is one request: it is matched, its faults
\* have ids of their own (made from the operation and the kind), and reads have none
\* that commits.
ConformsFor(a, r) ==
    LET faults == FaultSpace(a, Operation(a, r))
    IN /\ Serves(a, r)
       /\ Cardinality({f.kind : f \in faults}) = Cardinality(faults)
       /\ Operation(a, r).effect = "query" => \A f \in faults : f.kind \notin LossKinds

\* A scenario is planned from what a classified call offers.
PlanScenario ==
    /\ scenario = <<>>
    /\ NothingSentYet
    /\ \E n \in DOMAIN registry : \E r \in RequestsTo(Adapters[registry[n]]) :
         LET i == Classify(Registered, r)
             a == Adapters[registry[i]]
         IN /\ i # NoAdapter
            /\ \E f \in FaultSpace(a, Operation(a, r)) : scenario' = <<f>>
            /\ planned' = r
    /\ UNCHANGED <<activations, occurrences, completions, runtimeVars, registry>>

---------------------------------------------------------------------------
(* genericExecute *)

\* Mutant: what the provider-specific faults declare is not read.
GenericKinds == {"rate-limit", "http-error", "reject-before-commit"}

\* Those whose metadata has a status are answered by responseFromProviderFault.
StatusKinds ==
    {"rate-limit", "http-error", "reject-before-commit", "region-unavailable",
     "anthropic-overloaded", "github-secondary-rate-limit", "slack-application-error",
     "shopify-graphql-throttled", "openai-long-request-timeout"}
TokenKinds == {"token-expired", "token-revoked"}

\* Nobody is asked: the entry says what the fault declares, if it declares something.
Entry(type, actual) ==
    [type |-> type, actual |-> actual,
     source |-> IF actual = "unknown" THEN "unknown" ELSE "declared"]

\* What the registry makes of the planned request by the time it is sent.
Classified ==
    LET a == Adapters[registry[Classify(Registered, planned)]]
        o == Operation(a, planned)
    IN [name |-> o.name, effect |-> o.effect]

\* Up to the first await; two of the refusals come with status 200.  One request is
\* sent for each scenario: several compete in StripePayments.
Fetch(c) ==
    /\ scenario # <<>>
    /\ NothingSentYet
    /\ Accept(c, Classified)
    /\ LET kind == fault'[c].kind
       IN \/ /\ kind \in StatusKinds \cup TokenKinds
             /\ SettleAtOnce(c, Entry("fail", fault'[c].actual), "refusal")
          \/ /\ kind = "timeout-before-send"
             /\ SettleAtOnce(c, Entry("fail", "not-committed"), "not sent")
          \/ /\ kind \notin StatusKinds \cup TokenKinds \cup {"timeout-before-send"}
             /\ Proceed(c, IF kind = "latency" THEN "delaying" ELSE "sent")
    /\ UNCHANGED <<registry, planned>>

\* The provider acts or declines, and says so or not.
Serve(c) ==
    /\ pc[c] = "sent"
    /\ \E ok \in BOOLEAN, done \in BOOLEAN :
         /\ done => request[c].effect # "query"
         /\ ok /\ request[c].effect # "query" => done
         /\ response' = [response EXCEPT ![c] = [ok |-> ok, intent |-> 0]]
         /\ effective' = [effective EXCEPT ![c] = done]
    /\ Go(c, "replied")
    /\ UNCHANGED <<controllerVars, request, op, fault, answer, calls, registry, planned>>

CommittedUnlessQuery(c) == IF request[c].effect = "query" THEN "unknown" ELSE "committed"

\* The response, or what the perturbation makes of it, goes to the caller.  A stream
\* of fewer chunks than the interruption lets through ends as the provider ended it.
Deliver(c) ==
    /\ pc[c] = "replied"
    /\ \/ /\ Kind(c) = "stream-interrupt"
          /\ Complete(c, Entry("info", CommittedUnlessQuery(c)))
          /\ \E given \in {"interrupted", "response"} : Settle(c, given)
       \/ /\ Kind(c) = "malformed-json"
          /\ Complete(c, Entry("info", CommittedUnlessQuery(c)))
          /\ Settle(c, "malformed")
       \/ /\ Kind(c) \in LossKinds
          /\ Complete(c, Entry("info", fault[c].actual))
          /\ Settle(c, "indeterminate")
       \/ /\ Kind(c) \notin LossKinds \cup {"malformed-json", "stream-interrupt"}
          /\ Complete(c, Entry(IF response[c].ok THEN "ok" ELSE "fail", InferredFrom(c)))
          /\ Settle(c, "response")
    /\ UNCHANGED <<callKept, registry, planned>>

\* Mutant: what was lost counts as not done.
ThrownAsRefused(c) ==
    /\ pc[c] = "lost"
    /\ Complete(c, Entry("fail", "not-committed"))
    /\ Settle(c, "thrown")
    /\ UNCHANGED <<callKept, registry, planned>>

\* The catch of genericExecute.
Thrown(c) ==
    /\ pc[c] = "lost"
    /\ Complete(c, Entry("info", "unknown"))
    /\ Settle(c, "thrown")
    /\ UNCHANGED <<callKept, registry, planned>>

Wait(c) == Resume(c) /\ UNCHANGED <<registry, planned>>
Vanish(c) == Lose(c) /\ UNCHANGED <<registry, planned>>

ProviderNext ==
    \/ RegisterAll \/ PlanScenario
    \/ \E c \in Callers : Fetch(c) \/ Wait(c) \/ Serve(c) \/ Deliver(c) \/ Thrown(c) \/ Vanish(c)

ProviderSpec == ProviderInit /\ [][ProviderNext]_providerVars

---------------------------------------------------------------------------

IsPlanned == planned # NotPlanned

\* The catalog leaves nothing to the order in which it is registered: no two of its
\* adapters serve one host, and no rule is hidden behind an earlier one.  Its adapters
\* conform for every request they serve: each fault can be told from the others, and
\* none can commit what only reads (conformance.ts:124).  A call it describes as safe
\* to repeat is a query, and it asks for a key only where there is one.
CatalogIsUnambiguous ==
    (IsPlanned /\ NothingSentYet) =>
        LET serving == {a \in InCatalog : Serves(a, planned)}
        IN /\ Cardinality(serving) <= 1
           /\ \A a \in serving :
                /\ \A i \in DOMAIN a.rules :
                     \E r \in RequestsTo(a) : i \in RulesFor(a, r) /\ i = Deciding(a, r)
                /\ ConformsFor(a, planned)
                /\ LET o == Operation(a, planned)
                   IN /\ o.retry = "safe" => o.effect = "query"
                      /\ o.retry = "conditional" => planned.key

\* A request goes to the adapter it has always gone to, whatever is registered later
\* and however a batch fails: scenarios planned before stay meaningful.
RoutesAreKept ==
    [][IsPlanned /\ IsPlanned' =>
         registry'[Classify(Registered', planned)] = registry[Classify(Registered, planned)]]_providerVars

\* What a fault space offers is not only planned but happens: the perturbation is
\* injected once, and the caller does not get the provider's own response, except from
\* the one that only delays it and the one that a short stream escapes.
OfferedFaultsHappen ==
    \A c \in Callers : IsPlanned /\ Settled(c) =>
        /\ activations[scenario[1].id] = 1
        /\ answer[c] = "response" => Kind(c) \in {"latency", "stream-interrupt"}

\* A request on record as not committed has had no effect, and one that took effect
\* without the caller getting the response is on record as ambiguous.
RefusalsAreTrue ==
    \A c \in Callers : Settled(c) =>
        LET entry == completions[c][1]
        IN /\ Len(completions[c]) = 1
           /\ entry.actual = "not-committed" => ~effective[c]
           /\ effective[c] /\ answer[c] # "response" => entry.type = "info"

\* The catalog leaves nothing to chance, and what a request meets is what was planned
\* for it and is recorded truly.
CatalogIsSound == CatalogIsUnambiguous /\ OfferedFaultsHappen /\ RefusalsAreTrue

\* docs/adapter-authoring.md: "A proxied real provider may only allow actual=unknown,
\* which must remain unknown in the history": what is on record as committed is so.
CommitsAreTrue ==
    \A c \in Callers : Settled(c) => (completions[c][1].actual = "committed" => effective[c])

---------------------------------------------------------------------------
(* Routes are kept, and with them what was planned, for any catalog, any plugins and any
   batches.  What is planned is offered for the operation the request is classified as
   now; the one request there is carries it until it is settled. *)

ProviderTypes ==
    /\ registry \in Seq(DOMAIN Adapters)
    /\ calls \in [Callers -> Nat]
    /\ DOMAIN pc = Callers /\ DOMAIN fault = Callers /\ DOMAIN effective = Callers
    /\ DOMAIN answer = Callers /\ DOMAIN completions = Callers
    /\ FaultKinds \subseteq DOMAIN activations

\* What is planned can still happen, or has.
PlanStands ==
    /\ Classify(Registered, planned) # NoAdapter
    /\ scenario = <<scenario[1]>>
    /\ OfferedFor(scenario[1], Classified.name)
    /\ activations[scenario[1].id] = IF NothingSentYet THEN 0 ELSE 1

AnswersItself ==
    StatusKinds \cup TokenKinds \cup {"timeout-before-send"}

RecordIsTrue(c) ==
    /\ answer[c] = "response" => Kind(c) \in {"latency", "stream-interrupt"}
    /\ Len(completions[c]) = 1
    /\ completions[c][1].actual = "not-committed" => ~effective[c]
    /\ effective[c] /\ answer[c] # "response" => completions[c][1].type = "info"

RequestFaresAsPlanned(c) ==
    /\ fault[c] = scenario[1]
    /\ pc[c] \in {"idle", "delaying", "sent", "replied", "lost"}
    /\ pc[c] = "idle" => RecordIsTrue(c)
    /\ pc[c] # "idle" => completions[c] = <<>> /\ Kind(c) \notin AnswersItself
    /\ pc[c] \in {"delaying", "sent"} => ~effective[c]

ProviderInv ==
    /\ ProviderTypes
    /\ IsPlanned => PlanStands
    /\ ~IsPlanned =>
          scenario = <<>> /\ NothingSentYet /\ \A k \in FaultKinds : activations[k] = 0
    /\ \A c \in Callers :
          IF calls[c] = 0 THEN pc[c] = "idle" /\ completions[c] = <<>>
          ELSE RequestFaresAsPlanned(c)


LEMMA FirstIsLeast ==
    ASSUME NEW S \in SUBSET Nat, S # {}
    PROVE  FirstOf(S) \in S /\ \A i \in S : FirstOf(S) <= i
<1> DEFINE Below == {pair \in Nat \X Nat : pair[1] < pair[2]}
<1>1. IsWellFoundedOn(Below, Nat)
  BY NatLessThanWellFounded DEF OpToRel
<1>2. PICK i \in S : \A j \in S : ~(<<j, i>> \in Below)
  <2> HIDE DEF Below
  <2> QED BY <1>1, WFMin
<1>3. \A j \in S : i <= j
  <2> SUFFICES ASSUME NEW j \in S PROVE i <= j
    OBVIOUS
  <2>1. i \in Nat /\ j \in Nat /\ ~(<<j, i>> \in Below)
    BY <1>2
  <2> QED BY <2>1
<1> QED BY <1>2, <1>3 DEF FirstOf

\* A batch is registered behind what there is, all of it or its beginning.
LEMMA BatchGoesBehind ==
    ASSUME registry \in Seq(DOMAIN Adapters), NEW batch \in Batches
    PROVE  LET after == AfterBatch(batch)
           IN /\ after \in Seq(DOMAIN Adapters)
              /\ Len(registry) <= Len(after)
              /\ \A i \in 1 .. Len(registry) : after[i] = registry[i]
<1> DEFINE Known(i) == \/ \E j \in DOMAIN registry : registry[j] = batch[i]
                       \/ \E j \in 1 .. i - 1 : batch[j] = batch[i]
           known == {i \in DOMAIN batch : Known(i)}
           added == IF known = {} THEN batch ELSE SubSeq(batch, 1, FirstOf(known) - 1)
<1>1. batch \in Seq(DOMAIN Adapters)
  BY ProviderAssumption
<1>2. added \in Seq(DOMAIN Adapters)
  <2>1. CASE known = {}
    BY <1>1, <2>1
  <2>2. CASE known # {}
    <3>1. known \subseteq 1 .. Len(batch) /\ known \in SUBSET Nat
      BY <1>1
    <3>2. FirstOf(known) \in 1 .. Len(batch)
      <4> HIDE DEF known
      <4> QED BY <2>2, <3>1, FirstIsLeast
    <3>3. added = SubSeq(batch, 1, FirstOf(known) - 1)
      BY <2>2
    <3> HIDE DEF known, added
    <3> QED BY <1>1, <3>2, <3>3
  <2> QED BY <2>1, <2>2
<1>3. AfterBatch(batch) = registry \o added
  BY DEF AfterBatch
<1> HIDE DEF added
<1> QED BY <1>2, <1>3

\* What is first stays first when others come behind.
LEMMA FirstServingStays ==
    ASSUME NEW n \in Nat, NEW m \in Nat, n <= m, NEW all, NEW more, NEW r,
           DOMAIN all = 1 .. n, DOMAIN more = 1 .. m, \A i \in 1 .. n : more[i] = all[i],
           Classify(all, r) # NoAdapter
    PROVE  Classify(more, r) = Classify(all, r) /\ Classify(all, r) \in 1 .. n
<1> DEFINE before == Classifying(all, r)
           after == Classifying(more, r)
<1>1. before \subseteq after /\ before \subseteq 1 .. n /\ after \subseteq 1 .. m
      /\ \A i \in after : i <= n => i \in before
  BY DEF Classifying
<1>2. before # {} /\ after # {}
  BY <1>1 DEF Classify
<1>3. Classify(all, r) = FirstOf(before) /\ Classify(more, r) = FirstOf(after)
  BY <1>2 DEF Classify, FirstOf
<1> HIDE DEF before, after
<1>4. before \in SUBSET Nat /\ after \in SUBSET Nat
  BY <1>1
<1>5. /\ FirstOf(before) \in before /\ \A i \in before : FirstOf(before) <= i
      /\ FirstOf(after) \in after /\ \A i \in after : FirstOf(after) <= i
  BY <1>2, <1>4, FirstIsLeast
<1>6. ASSUME NEW b \in before, NEW a \in after, \A i \in before : b <= i, \A i \in after : a <= i
      PROVE  a = b
  <2>1. b \in 1 .. n /\ a \in 1 .. m /\ b \in after
    BY <1>1
  <2>2. a <= b /\ a \in before
    BY <1>1, <1>6, <2>1
  <2> QED BY <1>6, <2>1, <2>2
<1>7. FirstOf(before) = FirstOf(after)
  BY <1>5, <1>6
<1> QED BY <1>1, <1>3, <1>5, <1>7

\* What a registry classifies, a longer one classifies alike.
LEMMA LongerRoutesAlike ==
    ASSUME NEW batch \in Batches, registry \in Seq(DOMAIN Adapters),
           registry' = AfterBatch(batch), UNCHANGED planned,
           Classify(Registered, planned) # NoAdapter
    PROVE  /\ Classify(Registered', planned) = Classify(Registered, planned)
           /\ registry'[Classify(Registered', planned)] = registry[Classify(Registered, planned)]
<1>1. /\ registry' \in Seq(DOMAIN Adapters)
      /\ Len(registry) <= Len(registry')
      /\ \A i \in 1 .. Len(registry) : registry'[i] = registry[i]
  BY BatchGoesBehind
<1> DEFINE all == [i \in DOMAIN registry |-> Adapters[registry[i]]]
           more == [i \in DOMAIN registry' |-> Adapters[registry'[i]]]
<1>2. Registered = all /\ Registered' = more
  BY DEF Registered
<1>3. /\ DOMAIN all = 1 .. Len(registry) /\ DOMAIN more = 1 .. Len(registry')
      /\ Len(registry) \in Nat /\ Len(registry') \in Nat
      /\ \A i \in 1 .. Len(registry) : more[i] = all[i]
  BY <1>1
<1> HIDE DEF all, more
<1>4. Classify(all, planned) # NoAdapter
  BY <1>2
<1>5. Classify(more, planned) = Classify(all, planned)
      /\ Classify(all, planned) \in 1 .. Len(registry)
  BY <1>1, <1>3, <1>4, FirstServingStays
<1> QED BY <1>1, <1>2, <1>5


(* What is offered *)

LEMMA HelpersOffer ==
    ASSUME NEW k \in FaultKinds, NEW name, NEW phase, phase # SemanticPhase,
           NEW actual, NEW observed, k \in LossKinds => actual # "not-committed"
    PROVE  OfferedFor(Fault(k, {name}, phase, actual, observed), name)
  BY DEF OfferedFor, Fault, IsFault

LEMMA RulesFaultsAreOffered ==
    ASSUME NEW o, NEW f \in RulesFaults(o) \cup StripeFaults(o)
    PROVE  OfferedFor(f, o.name)
<1>1. /\ OfferedFor(RateLimit({o.name}), o.name)
      /\ OfferedFor(HttpError({o.name}), o.name)
      /\ OfferedFor(RejectBeforeCommit({o.name}), o.name)
      /\ OfferedFor(CommitThenTimeout({o.name}), o.name)
      /\ OfferedFor(CommitThenDisconnect({o.name}), o.name)
  BY HelpersOffer DEF RateLimit, HttpError, RejectBeforeCommit, CommitThenTimeout,
                      CommitThenDisconnect, FaultKinds, LossKinds, SemanticPhase
<1> QED BY <1>1, Zenon DEF RulesFaults, StripeFaults

LEMMA OwnFaultIsOffered ==
    ASSUME NEW o, NEW k \in FaultKinds \ LossKinds
    PROVE  OfferedFor(Own(k, o), o.name) /\ OfferedFor(TokenFault(k, o), o.name)
  BY HelpersOffer DEF Own, TokenFault, SemanticPhase

LEMMA ProviderFaultsAreOffered ==
    ASSUME NEW a, NEW o, NEW f \in ProviderFaults(a, o)
    PROVE  OfferedFor(f, o.name)
<1>1. OfferedFor(StreamInterrupt(o), o.name) /\ OfferedFor(LongRequest(o), o.name)
  BY HelpersOffer DEF StreamInterrupt, LongRequest, FaultKinds, LossKinds, SemanticPhase
<1>2. {"token-expired", "token-revoked", "region-unavailable", "anthropic-overloaded",
       "github-secondary-rate-limit", "slack-application-error",
       "shopify-graphql-throttled"} \subseteq FaultKinds \ LossKinds
  BY DEF FaultKinds, LossKinds
<1>3. \/ f \in {StreamInterrupt(o), LongRequest(o)}
      \/ f \in {TokenFault("token-expired", o), TokenFault("token-revoked", o)}
      \/ f \in {Own("region-unavailable", o), Own("anthropic-overloaded", o),
                Own("github-secondary-rate-limit", o), Own("slack-application-error", o),
                Own("shopify-graphql-throttled", o)}
  BY DEF ProviderFaults
<1> QED BY <1>1, <1>2, <1>3, OwnFaultIsOffered

\* What the fault space of a request's adapter has is offered for its operation.
LEMMA FaultSpaceIsOffered ==
    ASSUME NEW n \in DOMAIN Adapters, NEW m \in DOMAIN Adapters,
           NEW r \in RequestsTo(Adapters[m]), Serves(Adapters[n], r),
           NEW f \in FaultSpace(Adapters[n], Operation(Adapters[n], r))
    PROVE  OfferedFor(f, Operation(Adapters[n], r).name)
<1> DEFINE a == Adapters[n]
           o == Operation(Adapters[n], r)
<1>1. CASE f \in OwnFaults(a, o)
  BY <1>1, ProviderAssumption
<1>2. CASE f \in ProviderFaults(a, o)
  BY <1>2, ProviderFaultsAreOffered
<1>3. CASE f \in RulesFaults(o) \cup StripeFaults(o)
  BY <1>3, RulesFaultsAreOffered
<1>4. f \in OwnFaults(a, o) \cup ProviderFaults(a, o) \cup RulesFaults(o) \cup StripeFaults(o)
  BY DEF FaultSpace, BaseFaults
<1> QED BY <1>1, <1>2, <1>3, <1>4


(* The steps *)

LEMMA ProviderStarts == ProviderInit => ProviderInv
<1> SUFFICES ASSUME ProviderInit PROVE ProviderInv
  OBVIOUS
<1> DEFINE ids == UNION {{s[i].id : i \in DOMAIN s} : s \in Scenarios}
<1>1. activations = [id \in ids |-> 0]
  BY DEF ProviderInit, RuntimeInit, ControllerInit
<1>2. FaultKinds \subseteq ids
  BY ProviderAssumption
<1> HIDE DEF ids
<1>3. FaultKinds \subseteq DOMAIN activations /\ \A k \in FaultKinds : activations[k] = 0
  BY <1>1, <1>2
<1>4. /\ registry = <<>> /\ planned = NotPlanned /\ scenario = <<>>
      /\ pc = [c \in Callers |-> "idle"] /\ fault = [c \in Callers |-> NoFault]
      /\ effective = [c \in Callers |-> FALSE] /\ answer = [c \in Callers |-> "none"]
      /\ completions = [c \in Callers |-> <<>>] /\ calls = [c \in Callers |-> 0]
  BY DEF ProviderInit, RuntimeInit, ControllerInit
<1>5. NothingSentYet /\ ~IsPlanned
  BY <1>4 DEF NothingSentYet, IsPlanned
<1>6. ProviderTypes
  BY <1>3, <1>4 DEF ProviderTypes
<1> QED BY <1>3, <1>4, <1>5, <1>6 DEF ProviderInv

LEMMA RegisteringKeepsPlans ==
    ASSUME ProviderInv, RegisterAll
    PROVE  ProviderInv'
<1>1. PICK batch \in Batches : registry' = AfterBatch(batch)
  BY DEF RegisterAll
<1>2. UNCHANGED <<scenario, activations, completions, pc, fault, effective, answer, calls, planned>>
  BY DEF RegisterAll, controllerVars, runtimeVars
<1>3. ProviderTypes'
  BY <1>1, <1>2, BatchGoesBehind DEF ProviderInv, ProviderTypes
<1>4. (NothingSentYet' <=> NothingSentYet) /\ (IsPlanned' <=> IsPlanned)
  BY <1>2 DEF NothingSentYet, IsPlanned
<1>5. IsPlanned => PlanStands'
  <2> SUFFICES ASSUME IsPlanned PROVE PlanStands'
    OBVIOUS
  <2>1. PlanStands /\ registry \in Seq(DOMAIN Adapters)
    BY DEF ProviderInv, ProviderTypes
  <2>2. /\ Classify(Registered', planned) = Classify(Registered, planned)
        /\ registry'[Classify(Registered', planned)] = registry[Classify(Registered, planned)]
    BY <1>1, <1>2, <2>1, LongerRoutesAlike DEF PlanStands
  <2>3. Classified' = Classified
    BY <1>2, <2>2 DEF Classified
  <2> QED BY <1>2, <1>4, <2>1, <2>2, <2>3 DEF PlanStands
<1>6. \A c \in Callers : RequestFaresAsPlanned(c)' <=> RequestFaresAsPlanned(c)
  BY <1>2 DEF RequestFaresAsPlanned, RecordIsTrue, Kind
<1> QED BY <1>2, <1>3, <1>4, <1>5, <1>6 DEF ProviderInv

LEMMA PlanningStands ==
    ASSUME ProviderInv, PlanScenario
    PROVE  ProviderInv'
<1>0. PICK n \in DOMAIN registry : \E r \in RequestsTo(Adapters[registry[n]]) :
        LET i == Classify(Registered, r)
            a == Adapters[registry[i]]
        IN /\ i # NoAdapter
           /\ \E f \in FaultSpace(a, Operation(a, r)) : scenario' = <<f>>
           /\ planned' = r
  BY DEF PlanScenario
<1>1. PICK r \in RequestsTo(Adapters[registry[n]]) :
        LET i == Classify(Registered, r)
            a == Adapters[registry[i]]
        IN /\ i # NoAdapter
           /\ \E f \in FaultSpace(a, Operation(a, r)) : scenario' = <<f>>
           /\ planned' = r
  BY <1>0
<1> DEFINE i == Classify(Registered, r)
           a == Adapters[registry[i]]
<1>2. PICK f \in FaultSpace(a, Operation(a, r)) : scenario' = <<f>>
  BY <1>1
<1>3. /\ scenario = <<>> /\ NothingSentYet
      /\ UNCHANGED <<activations, completions, pc, fault, effective, answer, calls, registry>>
  BY DEF PlanScenario, runtimeVars
<1>4. ~IsPlanned
  <2>1. <<scenario[1]>> # <<>>
    OBVIOUS
  <2> QED BY <1>3, <2>1 DEF ProviderInv, PlanStands
<1>5. IsPlanned'
  <2>1. r.method \in Methods
    BY DEF RequestsTo
  <2>2. r.method # "none"
    BY <2>1 DEF Methods
  <2> QED BY <1>1, <2>2 DEF IsPlanned, NotPlanned
<1>6. i \in DOMAIN registry /\ Serves(a, r)
  <2>1. Classifying(Registered, r) # {} /\ i = FirstOf(Classifying(Registered, r))
    BY <1>1 DEF Classify, FirstOf
  <2>2. Classifying(Registered, r) \subseteq DOMAIN registry /\ DOMAIN registry \subseteq Nat
    BY DEF Classifying, Registered, ProviderInv, ProviderTypes
  <2>3. i \in Classifying(Registered, r)
    BY <2>1, <2>2, FirstIsLeast
  <2> QED BY <2>2, <2>3 DEF Classifying, Registered
<1>7. registry[i] \in DOMAIN Adapters /\ registry[n] \in DOMAIN Adapters
  BY <1>6 DEF ProviderInv, ProviderTypes
<1>8. OfferedFor(f, Operation(a, r).name)
  BY <1>6, <1>7, FaultSpaceIsOffered
<1>9. Classified'.name = Operation(a, r).name /\ Classify(Registered', planned') = i
  BY <1>1, <1>3 DEF Classified, Registered
<1>10. /\ NothingSentYet' /\ scenario'[1] = f /\ scenario' = <<f>>
       /\ activations'[f.id] = 0
  BY <1>2, <1>3, <1>4, <1>8 DEF NothingSentYet, ProviderInv, OfferedFor
<1>11. PlanStands'
  BY <1>1, <1>8, <1>9, <1>10 DEF PlanStands
<1>12. ProviderTypes'
  BY <1>3 DEF ProviderInv, ProviderTypes
<1>13. \A c \in Callers : calls'[c] = 0 /\ pc'[c] = "idle" /\ completions'[c] = <<>>
  BY <1>3 DEF NothingSentYet, ProviderInv
<1> QED BY <1>5, <1>11, <1>12, <1>13 DEF ProviderInv


\* The first request of the planned kind takes the perturbation, and spends it.
LEMMA RequestTakesThePlan ==
    ASSUME ProviderInv, NEW c \in Callers, NothingSentYet, scenario # <<>>,
           Accept(c, Classified)
    PROVE  /\ fault' = [fault EXCEPT ![c] = scenario[1]]
           /\ activations' = [activations EXCEPT ![scenario[1].id] = 1]
           /\ scenario' = scenario /\ OfferedFor(scenario[1], Classified.name)
<1>1. IsPlanned /\ PlanStands
  BY DEF ProviderInv
<1> DEFINE o == Indexed(Classified.name)
           f == scenario[1]
<1>2. /\ scenario = <<f>> /\ OfferedFor(f, Classified.name) /\ activations[f.id] = 0
  BY <1>1 DEF PlanStands
<1>3. Eligible(o, AnyPhase) = {1}
  <2>1. o.name = Classified.name
    BY DEF Indexed
  <2>2. MatchesSelector(f, o, AnyPhase) /\ f.max = 1
    BY <1>2, <2>1 DEF OfferedFor, MatchesSelector
  <2>3. DOMAIN scenario = {1}
    BY <1>2
  <2> HIDE DEF o
  <2> QED BY <1>2, <2>2, <2>3 DEF Eligible
<1>4. Taken(o, AnyPhase, AnyPhase) = 1
  <2>1. FirstOf({1}) = 1
    BY DEF FirstOf
  <2> HIDE DEF o
  <2> QED BY <1>3, <2>1 DEF Taken
<1>5. /\ Activate(1) /\ scenario' = scenario
      /\ fault' = [fault EXCEPT ![c] = f]
  BY <1>4 DEF Accept, Nothing
<1> QED BY <1>2, <1>5 DEF Activate, Nothing

LEMMA FetchFaresAsPlanned ==
    ASSUME ProviderInv, NEW c \in Callers, Fetch(c)
    PROVE  ProviderInv'
<1> DEFINE f == scenario[1]
<1>1. /\ NothingSentYet /\ scenario # <<>> /\ Accept(c, Classified)
      /\ UNCHANGED <<registry, planned>>
  BY DEF Fetch
<1>2. /\ fault' = [fault EXCEPT ![c] = f]
      /\ activations' = [activations EXCEPT ![f.id] = 1]
      /\ scenario' = scenario /\ OfferedFor(f, Classified.name)
  BY <1>1, RequestTakesThePlan
<1>3. /\ calls' = [calls EXCEPT ![c] = @ + 1]
      /\ effective' = [effective EXCEPT ![c] = FALSE]
  BY <1>1 DEF Accept
<1>4. ProviderTypes /\ IsPlanned /\ PlanStands /\ \A d \in Callers : calls[d] = 0
  BY <1>1 DEF ProviderInv, NothingSentYet
<1>5. fault'[c] = f /\ calls'[c] = 1 /\ ~effective'[c]
      /\ \A d \in Callers \ {c} : calls'[d] = 0
  BY <1>2, <1>3, <1>4 DEF ProviderTypes
<1>6. f.kind \in FaultKinds /\ f.id = f.kind /\ IsFault(f) /\ Kind(c)' = f.kind
  BY <1>2, <1>5 DEF OfferedFor, Kind
<1>7. \/ /\ f.kind \in AnswersItself
         /\ \E actual \in {f.actual, "not-committed"} :
              completions' = [completions EXCEPT ![c] = <<Entry("fail", actual)>>]
         /\ pc' = [pc EXCEPT ![c] = "idle"]
         /\ \E given \in {"refusal", "not sent"} : answer' = [answer EXCEPT ![c] = given]
      \/ /\ f.kind \notin AnswersItself
         /\ completions' = [completions EXCEPT ![c] = <<>>]
         /\ pc' = [pc EXCEPT ![c] = IF f.kind = "latency" THEN "delaying" ELSE "sent"]
         /\ answer' = answer
  <2>1. CASE f.kind \in StatusKinds \cup TokenKinds
             /\ SettleAtOnce(c, Entry("fail", f.actual), "refusal")
    BY <2>1 DEF SettleAtOnce, Settle, AnswersItself
  <2>2. CASE f.kind = "timeout-before-send"
             /\ SettleAtOnce(c, Entry("fail", "not-committed"), "not sent")
    BY <2>2 DEF SettleAtOnce, Settle, AnswersItself
  <2>3. CASE f.kind \notin StatusKinds \cup TokenKinds \cup {"timeout-before-send"}
             /\ Proceed(c, IF f.kind = "latency" THEN "delaying" ELSE "sent")
    BY <2>3 DEF Proceed, Go, AnswersItself
  <2> QED BY <1>5, <2>1, <2>2, <2>3 DEF Fetch
<1>8. \A d \in Callers \ {c} : pc'[d] = "idle" /\ completions'[d] = <<>>
  BY <1>4, <1>7 DEF ProviderInv, ProviderTypes
<1>9. ProviderTypes'
  <2>1. DOMAIN completions' = Callers /\ DOMAIN pc' = Callers /\ DOMAIN answer' = Callers
    BY <1>4, <1>7 DEF ProviderTypes
  <2>2. /\ calls' \in [Callers -> Nat] /\ DOMAIN fault' = Callers /\ DOMAIN effective' = Callers
        /\ DOMAIN activations' = DOMAIN activations
    BY <1>2, <1>3, <1>4 DEF ProviderTypes
  <2> QED BY <1>1, <1>4, <2>1, <2>2 DEF ProviderTypes
<1>10. RequestFaresAsPlanned(c)'
  <2>1. CASE f.kind \in AnswersItself
    <3>1. PICK actual : completions'[c] = <<Entry("fail", actual)>>
      BY <1>4, <1>7, <2>1 DEF ProviderTypes
    <3>2. pc'[c] = "idle" /\ answer'[c] # "response"
      BY <1>4, <1>7, <2>1 DEF ProviderTypes
    <3>3. Len(completions'[c]) = 1
      BY <3>1
    <3> QED BY <1>2, <1>5, <3>2, <3>3 DEF RequestFaresAsPlanned, RecordIsTrue
  <2>2. CASE f.kind \notin AnswersItself
    <3>1. pc'[c] \in {"delaying", "sent"} /\ completions'[c] = <<>>
      BY <1>4, <1>7, <2>2 DEF ProviderTypes
    <3> QED BY <1>2, <1>5, <1>6, <2>2, <3>1 DEF RequestFaresAsPlanned
  <2> QED BY <2>1, <2>2
<1>11. PlanStands' /\ IsPlanned'
  <2>1. ~NothingSentYet'
    BY <1>5 DEF NothingSentYet
  <2>2. Classified' = Classified /\ Classify(Registered', planned') = Classify(Registered, planned)
    BY <1>1 DEF Classified, Registered
  <2>3. activations'[f.id] = 1
    BY <1>2, <1>4, <1>6 DEF ProviderTypes
  <2> QED BY <1>1, <1>2, <1>4, <2>1, <2>2, <2>3 DEF PlanStands, IsPlanned
<1> QED BY <1>5, <1>8, <1>9, <1>10, <1>11 DEF ProviderInv

\* What a step does to one request alone.
LEMMA OneRequestAtATime ==
    ASSUME ProviderInv, NEW c \in Callers, pc[c] # "idle",
           UNCHANGED <<scenario, activations, fault, calls, registry, planned>>,
           DOMAIN pc' = Callers, DOMAIN effective' = Callers, DOMAIN answer' = Callers,
           DOMAIN completions' = Callers,
           \A d \in Callers \ {c} : /\ pc'[d] = pc[d] /\ effective'[d] = effective[d]
                                    /\ answer'[d] = answer[d]
                                    /\ completions'[d] = completions[d],
           RequestFaresAsPlanned(c) => RequestFaresAsPlanned(c)'
    PROVE  ProviderInv'
<1>1. ProviderTypes'
  BY DEF ProviderInv, ProviderTypes
<1>2. \A d \in Callers \ {c} : RequestFaresAsPlanned(d) => RequestFaresAsPlanned(d)'
  BY DEF RequestFaresAsPlanned, RecordIsTrue, Kind
<1>3. calls[c] # 0
  BY DEF ProviderInv
<1>4. /\ IsPlanned' <=> IsPlanned
      /\ NothingSentYet' <=> NothingSentYet
      /\ PlanStands' <=> PlanStands
  BY DEF IsPlanned, NothingSentYet, PlanStands, Classified, Registered
<1> QED BY <1>1, <1>2, <1>3, <1>4 DEF ProviderInv

LEMMA ProvidersFareAsPlanned ==
    ASSUME ProviderInv, NEW c \in Callers,
           Serve(c) \/ Deliver(c) \/ Thrown(c) \/ Wait(c) \/ Vanish(c)
    PROVE  ProviderInv'
<1>1. ProviderTypes
  BY DEF ProviderInv
<1>2. CASE Wait(c) \/ Vanish(c)
  <2>1. PICK place \in {"sent", "lost"} : pc' = [pc EXCEPT ![c] = place]
    BY <1>2 DEF Wait, Vanish, Resume, Lose, Go
  <2>2. /\ pc[c] \in {"delaying", "sent", "replied"} /\ (place = "sent" => pc[c] = "delaying")
        /\ UNCHANGED <<scenario, activations, fault, calls, registry, planned, effective, answer,
                       completions>>
    BY <1>1, <1>2, <2>1 DEF Wait, Vanish, Resume, Lose, Go, callKept, ProviderTypes
  <2>3. RequestFaresAsPlanned(c) => RequestFaresAsPlanned(c)'
    BY <1>1, <2>1, <2>2 DEF RequestFaresAsPlanned, Kind, ProviderTypes
  <2> QED BY <1>1, <2>1, <2>2, <2>3, OneRequestAtATime DEF ProviderTypes
<1>3. CASE Serve(c)
  <2>1. /\ pc[c] = "sent" /\ pc' = [pc EXCEPT ![c] = "replied"]
        /\ \E done \in BOOLEAN : effective' = [effective EXCEPT ![c] = done]
        /\ UNCHANGED <<scenario, activations, fault, calls, registry, planned, answer, completions>>
    BY <1>3 DEF Serve, Go, controllerVars
  <2>2. RequestFaresAsPlanned(c) => RequestFaresAsPlanned(c)'
    BY <1>1, <2>1 DEF RequestFaresAsPlanned, Kind, ProviderTypes
  <2> QED BY <1>1, <2>1, <2>2, OneRequestAtATime DEF ProviderTypes
<1>4. CASE Deliver(c) \/ Thrown(c)
  <2>1. /\ pc[c] \in {"replied", "lost"} /\ pc' = [pc EXCEPT ![c] = "idle"]
        /\ UNCHANGED <<scenario, activations, fault, calls, registry, planned, effective>>
    BY <1>4 DEF Deliver, Thrown, Settle, callKept
  <2>2. /\ RequestFaresAsPlanned(c) /\ Kind(c) = fault[c].kind /\ fault[c].kind \in FaultKinds
        /\ fault[c].kind \in LossKinds => fault[c].actual # "not-committed"
    <3>1. calls[c] # 0 /\ ~NothingSentYet
      BY <2>1 DEF ProviderInv, NothingSentYet
    <3>2. RequestFaresAsPlanned(c) /\ PlanStands
      BY <3>1 DEF ProviderInv
    <3>3. fault[c] = scenario[1] /\ OfferedFor(scenario[1], Classified.name)
      BY <3>2 DEF RequestFaresAsPlanned, PlanStands
    <3> QED BY <3>2, <3>3 DEF OfferedFor, Kind
  <2> DEFINE Told(type, actual, given) ==
          /\ completions' = [completions EXCEPT ![c] = Append(@, Entry(type, actual))]
          /\ answer' = [answer EXCEPT ![c] = given]
          /\ actual # "not-committed"
          /\ type = "info" \/ given = "response"
          /\ given = "response" => Kind(c) \in {"latency", "stream-interrupt"}
  <2> HIDE DEF Told
  <2>3. \E type, actual, given : Told(type, actual, given)
    <3>1. CASE Thrown(c)
      <4>1. Told("info", "unknown", "thrown")
        BY <3>1 DEF Told, Thrown, Complete, Settle
      <4> QED BY <4>1
    <3>2. CASE /\ Kind(c) = "stream-interrupt"
               /\ Complete(c, Entry("info", CommittedUnlessQuery(c)))
               /\ \E given \in {"interrupted", "response"} : Settle(c, given)
      <4>1. CommittedUnlessQuery(c) # "not-committed"
        BY DEF CommittedUnlessQuery
      <4>2. PICK given \in {"interrupted", "response"} : Settle(c, given)
        BY <3>2
      <4>3. Told("info", CommittedUnlessQuery(c), given)
        BY <3>2, <4>1, <4>2 DEF Told, Complete, Settle
      <4> QED BY <4>3
    <3>3. CASE /\ Complete(c, Entry("info", CommittedUnlessQuery(c)))
               /\ Settle(c, "malformed")
      <4>1. CommittedUnlessQuery(c) # "not-committed"
        BY DEF CommittedUnlessQuery
      <4>2. Told("info", CommittedUnlessQuery(c), "malformed")
        BY <3>3, <4>1 DEF Told, Complete, Settle
      <4> QED BY <4>2
    <3>4. CASE /\ Kind(c) \in LossKinds
               /\ Complete(c, Entry("info", fault[c].actual))
               /\ Settle(c, "indeterminate")
      <4>1. Told("info", fault[c].actual, "indeterminate")
        BY <2>2, <3>4 DEF Told, Complete, Settle
      <4> QED BY <4>1
    <3>5. CASE /\ Deliver(c)
               /\ Kind(c) \notin LossKinds \cup {"malformed-json", "stream-interrupt"}
               /\ Complete(c, Entry(IF response[c].ok THEN "ok" ELSE "fail", InferredFrom(c)))
               /\ Settle(c, "response")
      <4>1. InferredFrom(c) # "not-committed"
        BY DEF InferredFrom
      <4>2. Kind(c) \notin AnswersItself
        BY <2>2, <3>5 DEF RequestFaresAsPlanned, Deliver
      <4>3. Kind(c) = "latency"
        BY <2>2, <3>5, <4>2 DEF FaultKinds, LossKinds, AnswersItself, StatusKinds, TokenKinds
      <4>4. Told(IF response[c].ok THEN "ok" ELSE "fail", InferredFrom(c), "response")
        BY <3>5, <4>1, <4>3 DEF Told, Complete, Settle
      <4> QED BY <4>4
    <3> QED BY <1>4, <3>1, <3>2, <3>3, <3>4, <3>5 DEF Deliver
  <2>4. PICK type, actual, given : Told(type, actual, given)
    BY <2>3
  <2>5. /\ completions'[c] = <<Entry(type, actual)>> /\ answer'[c] = given
    <3>1. completions[c] = <<>> /\ c \in DOMAIN completions /\ c \in DOMAIN answer
      BY <1>1, <2>1, <2>2 DEF ProviderTypes, RequestFaresAsPlanned
    <3>2. Append(<<>>, Entry(type, actual)) = <<Entry(type, actual)>>
      OBVIOUS
    <3> QED BY <2>4, <3>1, <3>2 DEF Told
  <2>6. /\ Len(completions'[c]) = 1 /\ completions'[c][1].type = type
        /\ completions'[c][1].actual = actual
    BY <2>5 DEF Entry
  <2>7. RecordIsTrue(c)' /\ pc'[c] = "idle"
    BY <1>1, <2>1, <2>4, <2>5, <2>6 DEF Told, RecordIsTrue, Kind, ProviderTypes
  <2>8. RequestFaresAsPlanned(c)'
    BY <2>1, <2>2, <2>7 DEF RequestFaresAsPlanned
  <2> QED BY <1>1, <2>1, <2>4, <2>8, OneRequestAtATime DEF Told, ProviderTypes
<1> QED BY <1>2, <1>3, <1>4


\* The inductive invariant of the catalog's requests, with registrations before them that
\* succeed or fail halfway: the plan stands, and the request fares as it says.
THEOREM ProviderInvariant == ProviderSpec => []ProviderInv
<1>1. ProviderInv /\ [ProviderNext]_providerVars => ProviderInv'
  <2> SUFFICES ASSUME ProviderInv, [ProviderNext]_providerVars PROVE ProviderInv'
    OBVIOUS
  <2>1. CASE RegisterAll
    BY <2>1, RegisteringKeepsPlans
  <2>2. CASE PlanScenario
    BY <2>2, PlanningStands
  <2>3. ASSUME NEW c \in Callers, Fetch(c)
        PROVE  ProviderInv'
    BY <2>3, FetchFaresAsPlanned
  <2>4. ASSUME NEW c \in Callers,
               Serve(c) \/ Deliver(c) \/ Thrown(c) \/ Wait(c) \/ Vanish(c)
        PROVE  ProviderInv'
    BY <2>4, ProvidersFareAsPlanned
  <2>5. CASE UNCHANGED providerVars
    <3>1. UNCHANGED <<registry, planned, scenario, activations, completions, pc, fault, effective,
                      answer, calls>>
      BY <2>5 DEF providerVars, controllerVars, runtimeVars
    <3> QED BY <3>1 DEF ProviderInv, ProviderTypes, IsPlanned, PlanStands, NothingSentYet,
                        Classified, Registered, RequestFaresAsPlanned, RecordIsTrue, Kind
  <2> QED BY <2>1, <2>2, <2>3, <2>4, <2>5 DEF ProviderNext
<1> QED BY ProviderStarts, <1>1, PTL DEF ProviderSpec

\* A planned request keeps its adapter whatever is registered later, in whole or in part.
THEOREM RoutesStay == ProviderSpec => RoutesAreKept
<1> DEFINE Kept == IsPlanned /\ IsPlanned' =>
                     registry'[Classify(Registered', planned)]
                       = registry[Classify(Registered, planned)]
<1>1. ProviderInv /\ [ProviderNext]_providerVars => [Kept]_providerVars
  <2> SUFFICES ASSUME ProviderInv, ProviderNext, IsPlanned
               PROVE  registry'[Classify(Registered', planned)]
                        = registry[Classify(Registered, planned)]
    OBVIOUS
  <2>1. PlanStands /\ registry \in Seq(DOMAIN Adapters)
    BY DEF ProviderInv, ProviderTypes
  <2>2. CASE RegisterAll
    BY <2>1, <2>2, LongerRoutesAlike DEF RegisterAll, PlanStands
  <2>3. CASE registry' = registry
    BY <2>3 DEF Registered
  <2>4. RegisterAll \/ registry' = registry
    BY DEF ProviderNext, PlanScenario, Fetch, Serve, Deliver, Thrown, Wait, Vanish
  <2> QED BY <2>2, <2>3, <2>4
<1> QED BY ProviderInvariant, <1>1, PTL DEF ProviderSpec, RoutesAreKept

\* What was planned for a request happens to it, once, and what is recorded of it does not
\* deny an effect that it had.
THEOREM PlannedFaultsHappen == ProviderSpec => [](OfferedFaultsHappen /\ RefusalsAreTrue)
<1>1. ProviderInv => OfferedFaultsHappen /\ RefusalsAreTrue
  <2> SUFFICES ASSUME ProviderInv, NEW c \in Callers, Settled(c)
               PROVE  /\ activations[scenario[1].id] = 1
                      /\ RecordIsTrue(c)
    BY DEF OfferedFaultsHappen, RefusalsAreTrue, RecordIsTrue
  <2>1. calls[c] # 0 /\ ~NothingSentYet /\ pc[c] = "idle"
    BY DEF Settled, NothingSentYet, ProviderInv, ProviderTypes
  <2>2. RequestFaresAsPlanned(c) /\ PlanStands
    BY <2>1 DEF ProviderInv
  <2> QED BY <2>1, <2>2 DEF PlanStands, RequestFaresAsPlanned
<1> QED BY ProviderInvariant, <1>1, PTL

=============================================================================

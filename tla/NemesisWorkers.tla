--------------------------- MODULE NemesisWorkers ---------------------------
(***************************************************************************)
(* The auxiliary Workers that stand in for an application's bindings       *)
(* (packages/cloudflare/src/nemesis-templates.ts) and the control plane    *)
(* that prepares them for one scenario after the other: reset, seed, apply *)
(* (packages/cloudflare/src/scenario.ts).  The application may still be    *)
(* busy with an earlier scenario while the next one is prepared.           *)
(***************************************************************************)
EXTENDS Naturals, Sequences

CONSTANTS Clients,      \* concurrent requests of the application
          Routes,       \* the service's routes: records of a method and a path
          Operations,   \* `operations': routes by the names of operations
          KvKeys,       \* the keys of the KV namespace
          KeyLists,     \* the keys a binding may name
          Regions,      \* the observers
          Texts,        \* targets, kinds, operations, methods and paths
          Choices,    \* what may be applied: sequences of perturbations
          Profiles,     \* observer regions: what a scenario may be made of instead
          MaxRequests,  \* bound: requests to the service per scenario
          MaxVersions,  \* bound: versions of a key
          MaxSends,     \* bound: messages sent per scenario
          MaxScenarios  \* bound: scenarios

AnyOf == "any"
AnyKey == "*"

Perturbations ==
    [target : Texts, selected : Texts, kind : Texts, operation : Texts, occurrence : Nat,
     route : [method : Texts, path : Texts],
     key : KvKeys \cup {AnyKey}, region : Regions, behind : Nat, reads : Nat]

ASSUME NemesisAssumption ==
    /\ {AnyOf, "none", "kv", "d1", "service", "stale-read", "stale-negative-read",
        "replica-lag", "latency"} \subseteq Texts
    /\ Routes \subseteq [method : Texts \ {AnyOf}, path : Texts \ {AnyOf}]
    /\ {"local", "cloudfault"} \subseteq Regions
    /\ Choices \subseteq Seq(Perturbations)
    /\ Profiles \subseteq [id : Regions, behind : Nat, negative : BOOLEAN, latency : Nat]
    /\ KeyLists \subseteq Seq(KvKeys)

VARIABLES stage,        \* what the control plane does, and with which Worker next
          present,      \* the scenario, and how many there have been
          plan, requested, fired,                  \* the service's Worker, its `occurrences'
          requests,                                \* where its requests are
          histories, views, manual, observer,      \* KV's Worker
          stale, read,                             \* stale reads per perturbation, the last read
          mode, messages, sends                    \* the queue's Worker

serviceVars == <<plan, requested, fired, requests>>
kvVars == <<histories, views, manual, observer, stale, read>>
queueVars == <<mode, messages, sends>>
nemesisVars == <<stage, present, serviceVars, kvVars, queueVars>>

Deleted == 0
NoRule == [kind |-> "none", behind |-> 0, remaining |-> 0, of |-> 0, by |-> 0]
NoRead == [key |-> AnyKey, value |-> Deleted, kind |-> "none"]

Bindings == <<"service", "kv", "queue">>

ClearService == plan' = <<>> /\ fired' = <<>> /\ requested' = [r \in Routes |-> 0]

ClearKv ==
    /\ histories' = [k \in KvKeys |-> <<>>]
    /\ views' = [v \in Regions \X (KvKeys \cup {AnyKey}) |-> NoRule]
    /\ manual' = [k \in KvKeys \cup {AnyKey} |-> NoRule]
    /\ observer' = "local" /\ read' = NoRead

With(doing, binding) == [doing |-> doing, with |-> binding, told |-> 0, observing |-> FALSE]
From(doing) == With(doing, 1)

NemesisInit ==
    /\ stage = From("reset")
    /\ present = [scenario |-> <<>>, number |-> 0]
    /\ plan = <<>> /\ fired = <<>> /\ requested = [r \in Routes |-> 0]
    /\ requests = [c \in Clients |-> "idle"]
    /\ histories = [k \in KvKeys |-> <<>>]
    /\ views = [v \in Regions \X (KvKeys \cup {AnyKey}) |-> NoRule]
    /\ manual = [k \in KvKeys \cup {AnyKey} |-> NoRule]
    /\ observer = "local" /\ stale = <<>> /\ read = NoRead
    /\ mode = "pass" /\ messages = <<>> /\ sends = 0

---------------------------------------------------------------------------
(* The control plane *)

Doing(doing) == stage.doing = doing
Binding == Bindings[stage.with]

\* A loop over the bindings, with an await for each of them.
Advance(doing, then) ==
    stage' = IF stage.with < Len(Bindings) THEN With(doing, stage.with + 1) ELSE From(then)

\* Mutant: what KV's Worker was told to serve stale survives.
ResetKeepsViews ==
    /\ Doing("reset")
    /\ \/ Binding = "service" /\ ClearService /\ UNCHANGED <<requests, kvVars, queueVars>>
       \/ /\ Binding = "kv"
          /\ histories' = [k \in KvKeys |-> <<>>] /\ observer' = "local"
          /\ read' = NoRead /\ UNCHANGED <<views, manual, stale, serviceVars, queueVars>>
       \/ /\ Binding = "queue" /\ mode' = "pass" /\ messages' = <<>>
          /\ UNCHANGED <<sends, serviceVars, kvVars>>
    /\ Advance("reset", "seed")
    /\ UNCHANGED present

\* resetNemesisBindings, for one of them.
Reset ==
    /\ Doing("reset")
    /\ \/ Binding = "service" /\ ClearService /\ UNCHANGED <<requests, kvVars, queueVars>>
       \/ Binding = "kv" /\ ClearKv /\ UNCHANGED <<stale, serviceVars, queueVars>>
       \/ /\ Binding = "queue" /\ mode' = "pass" /\ messages' = <<>>
          /\ UNCHANGED <<sends, serviceVars, kvVars>>
    /\ Advance("reset", "seed")
    /\ UNCHANGED present

Blank ==
    [target |-> "none", selected |-> "none", kind |-> "none", operation |-> "none",
     occurrence |-> 0, route |-> [method |-> AnyOf, path |-> AnyOf],
     key |-> AnyKey, region |-> "cloudfault", behind |-> 1, reads |-> 0]

\* observerRegionPerturbations: what an observer of a region may see of each key, of a
\* replica and of a service, each in a perturbation of its own.
RegionPerturbations(profile, keys) ==
    LET Of(target, kind) ==
            [Blank EXCEPT !.target = target, !.kind = kind, !.region = profile.id]
        When(asked, p) == IF asked THEN <<p>> ELSE <<>>
        Lag(key) == [Of("kv", "stale-read")
                        EXCEPT !.key = key, !.behind = profile.behind, !.reads = 1]
        Negative(key) == [Of("kv", "stale-negative-read") EXCEPT !.key = key, !.reads = 1]
        ofKeys == CASE profile.behind > 0 /\ profile.negative ->
                          [i \in 1 .. 2 * Len(keys) |-> IF i % 2 = 1 THEN Lag(keys[(i + 1) \div 2])
                                                        ELSE Negative(keys[i \div 2])]
                    [] profile.behind > 0 /\ ~profile.negative -> [i \in DOMAIN keys |-> Lag(keys[i])]
                    [] profile.behind = 0 /\ profile.negative -> [i \in DOMAIN keys |-> Negative(keys[i])]
                    [] OTHER -> <<>>
    IN ofKeys
       \o When(profile.behind > 0, [Of("d1", "replica-lag") EXCEPT !.behind = profile.behind])
       \o When(profile.latency > 0, Of("service", "latency"))

\* A binding that names no keys is about any key.
RegionScenarios ==
    {RegionPerturbations(profile, IF keys = <<>> THEN <<AnyKey>> ELSE keys) :
        profile \in Profiles, keys \in KeyLists}

\* The test seeds some keys and chooses what to apply.
Seed ==
    /\ Doing("seed")
    /\ \E seeded \in SUBSET KvKeys :
         histories' = [k \in KvKeys |-> IF k \in seeded THEN <<1>> ELSE histories[k]]
    /\ \E s \in Choices \cup RegionScenarios :
         /\ present' = [scenario |-> s, number |-> present.number + 1]
         /\ stale' = [i \in DOMAIN s |-> 0]
    /\ stage' = From("apply")
    /\ read' = NoRead
    /\ UNCHANGED <<serviceVars, views, manual, observer, queueVars>>

\* matchesTarget: what is about the binding, by its target or by its selector's.
Active ==
    {i \in DOMAIN present.scenario :
        Binding \in {present.scenario[i].target, present.scenario[i].selected}}

FirstIn(S) == CHOOSE i \in S : \A j \in S : i <= j

\* serviceRule: the kind of the rule that stands for a kind of perturbation.
RuleKind(kind) ==
    CASE kind = "service-timeout" -> "commit-then-timeout"
      [] kind \in {"service-unavailable", "rate-limit", "reject-before-commit"} -> "http-error"
      [] kind = "timeout-before-send" -> "reject"
      [] OTHER -> kind

\* What the metadata says of the route, else what its operation is mapped to.
RouteOf(p) ==
    LET mapped == IF p.operation \in DOMAIN Operations THEN Operations[p.operation]
                  ELSE [method |-> AnyOf, path |-> AnyOf]
        Either(field) == IF p.route[field] # AnyOf THEN p.route[field] ELSE mapped[field]
    IN [method |-> Either("method"), path |-> Either("path")]

ServiceRule(p) ==
    [kind |-> RuleKind(p.kind), route |-> RouteOf(p), occurrence |-> p.occurrence,
     of |-> present.number]

ConfigureService ==
    /\ plan' = [i \in Active |-> ServiceRule(present.scenario[i])]
    /\ fired' = [i \in Active |-> 0]
    /\ requested' = [r \in Routes |-> 0]
    /\ UNCHANGED requests

\* The perturbations KV's Worker has not been told yet.
ToTell ==
    {i \in Active : /\ i > stage.told
                    /\ present.scenario[i].kind \in {"stale-read", "stale-negative-read"}}

\* configureKv makes two calls for each of them and awaits both.  setObserver: the
\* observer is the last perturbation's, whoever the others are about.
SetObserver ==
    /\ Doing("apply") /\ Binding = "kv" /\ ToTell # {} /\ ~stage.observing
    /\ observer' = present.scenario[FirstIn(ToTell)].region
    /\ stage' = [stage EXCEPT !.observing = TRUE]
    /\ UNCHANGED <<present, serviceVars, histories, views, manual, stale, read, queueVars>>

\* setLag or setNegative.
SetRule ==
    /\ Doing("apply") /\ Binding = "kv" /\ ToTell # {} /\ stage.observing
    /\ LET p == present.scenario[FirstIn(ToTell)]
           rule == [kind |-> p.kind, behind |-> p.behind, remaining |-> p.reads,
                    of |-> present.number, by |-> FirstIn(ToTell)]
       IN \/ /\ p.kind = "stale-read"
             /\ views' = [views EXCEPT ![<<p.region, p.key>>] = rule]
             /\ UNCHANGED manual
          \/ /\ p.kind = "stale-negative-read"
             /\ manual' = [manual EXCEPT ![p.key] = rule]
             /\ UNCHANGED views
    /\ stage' = [stage EXCEPT !.told = FirstIn(ToTell), !.observing = FALSE]
    /\ UNCHANGED <<present, serviceVars, histories, observer, stale, read, queueVars>>

Asked(kind) == \E i \in Active : present.scenario[i].kind = kind

ConfigureQueue ==
    /\ mode' = IF Asked("duplicate-delivery") THEN "duplicate"
               ELSE IF Asked("producer-failure") THEN "fail" ELSE "pass"
    /\ sends' = 0
    /\ UNCHANGED messages

\* applyScenarioToNemesisBindings, for one of them.
Apply ==
    /\ Doing("apply")
    /\ \/ Binding = "service" /\ ConfigureService /\ UNCHANGED <<kvVars, queueVars>>
       \/ Binding = "kv" /\ ToTell = {} /\ UNCHANGED <<kvVars, serviceVars, queueVars>>
       \/ Binding = "queue" /\ ConfigureQueue /\ UNCHANGED <<serviceVars, kvVars>>
    /\ Advance("apply", "run")
    /\ UNCHANGED present

\* The test has seen enough; the application may not have.
NextScenario ==
    /\ Doing("run")
    /\ present.number < MaxScenarios
    /\ stage' = From("reset")
    /\ UNCHANGED <<present, serviceVars, kvVars, queueVars>>

---------------------------------------------------------------------------
(* The service's Worker *)

MatchesRule(r, route, occurrence) ==
    /\ r.route.method \in {AnyOf, route.method}
    /\ r.route.path \in {AnyOf, route.path}
    /\ r.occurrence \in {0, occurrence}

\* Mutant: the request is counted after its rule was looked up.
RulesCountedLate(route) ==
    {i \in DOMAIN plan : MatchesRule(plan[i], route, requested[route])}

\* nextRule: what matches the request, which counts from one.
RulesFor(route) ==
    {i \in DOMAIN plan : MatchesRule(plan[i], route, requested[route] + 1)}

RefusingKinds == {"reject", "http-error"}
\* fetch, up to its first await; what the Worker has no case for is forwarded.
Request(c, route) ==
    /\ requests[c] = "idle"
    /\ requested[route] < MaxRequests
    /\ requested' = [requested EXCEPT ![route] = @ + 1]
    /\ LET rules == RulesFor(route)
           kind == IF rules = {} THEN "none" ELSE plan[FirstIn(rules)].kind
       IN /\ fired' = IF rules = {} THEN fired ELSE [fired EXCEPT ![FirstIn(rules)] = @ + 1]
          /\ requests' = [requests EXCEPT ![c] = IF kind = "latency" THEN "delayed"
                                           ELSE IF kind \in RefusingKinds THEN "idle"
                                           ELSE "upstream"]
    /\ UNCHANGED <<stage, present, plan, kvVars, queueVars>>

\* The delay is over, or the upstream has answered: its response is given or lost.
Proceed(c) ==
    /\ requests[c] # "idle"
    /\ requests' = [requests EXCEPT ![c] = IF @ = "delayed" THEN "upstream" ELSE "idle"]
    /\ UNCHANGED <<stage, present, plan, requested, fired, kvVars, queueVars>>

---------------------------------------------------------------------------
(* KV's Worker *)

ValueBehind(k, n) ==
    IF Len(histories[k]) > n THEN histories[k][Len(histories[k]) - n] ELSE Deleted

\* What is set for this key comes before what is set for any key.
Override(k) == IF manual[k].remaining > 0 THEN k ELSE AnyKey
View(k) == IF views[<<observer, k>>].remaining > 0 THEN <<observer, k>> ELSE <<observer, AnyKey>>

\* Mutant: a rule is served without being used up.
NotUsed(r) == r

Used(r) == IF r.remaining <= 1 THEN NoRule ELSE [r EXCEPT !.remaining = @ - 1]

\* get: an override first, then the observer's view, else the latest version.
Get(k) ==
    /\ \/ /\ manual[Override(k)].remaining > 0
          /\ manual' = [manual EXCEPT ![Override(k)] = Used(@)]
          /\ read' = [key |-> k, value |-> Deleted, kind |-> "stale-negative-read"]
          /\ stale' = [stale EXCEPT ![manual[Override(k)].by] = @ + 1]
          /\ UNCHANGED views
       \/ /\ manual[Override(k)].remaining = 0
          /\ views[View(k)].remaining > 0
          /\ views' = [views EXCEPT ![View(k)] = Used(@)]
          /\ read' = [key |-> k, value |-> ValueBehind(k, views[View(k)].behind), kind |-> "stale-read"]
          /\ stale' = [stale EXCEPT ![views[View(k)].by] = @ + 1]
          /\ UNCHANGED manual
       \/ /\ manual[Override(k)].remaining = 0
          /\ views[View(k)].remaining = 0
          /\ read' = [key |-> k, value |-> ValueBehind(k, 0), kind |-> "none"]
          /\ UNCHANGED <<views, manual, stale>>
    /\ UNCHANGED <<stage, present, histories, observer, serviceVars, queueVars>>

\* put and delete append a version.
Write(k, value) ==
    /\ Len(histories[k]) < MaxVersions
    /\ histories' = [histories EXCEPT ![k] = Append(@, value)]
    /\ read' = NoRead
    /\ UNCHANGED <<stage, present, views, manual, observer, stale, serviceVars, queueVars>>

---------------------------------------------------------------------------
(* The queue's Worker *)

Send ==
    /\ sends < MaxSends
    /\ sends' = sends + 1
    /\ messages' = CASE mode = "fail" -> messages
                     [] mode = "duplicate" -> messages \o <<sends, sends>>
                     [] OTHER -> Append(messages, sends)
    /\ UNCHANGED <<stage, present, mode, serviceVars, kvVars>>

Application ==
    \/ \E c \in Clients : Proceed(c) \/ \E route \in Routes : Request(c, route)
    \/ \E k \in KvKeys : Get(k) \/ \E value \in {Deleted, Len(histories[k]) + 1} : Write(k, value)
    \/ Send

NemesisNext ==
    Reset \/ Seed \/ SetObserver \/ SetRule \/ Apply \/ NextScenario \/ Application

NemesisSpec == NemesisInit /\ [][NemesisNext]_nemesisVars

---------------------------------------------------------------------------

\* Nothing an earlier scenario asked for is left in any Worker when the next one is
\* applied, however busy the application is with it during the change.
NothingIsLeftOver ==
    /\ \A i \in DOMAIN plan : plan[i].of = present.number
    /\ \A v \in DOMAIN views : views[v].of \in {0, present.number}
    /\ \A k \in DOMAIN manual : manual[k].of \in {0, present.number}

\* A rule that names a route and an occurrence is applied to that very request: once,
\* and as soon as the request has come, unless an earlier rule took it.
RulesFireOnTime ==
    \A i \in DOMAIN plan :
        LET r == plan[i]
            taken == \E j \in DOMAIN plan : j < i /\ MatchesRule(plan[j], r.route, r.occurrence)
        IN  r.occurrence > 0 /\ r.route \in Routes =>
                fired[i] = IF requested[r.route] >= r.occurrence /\ ~taken THEN 1 ELSE 0

AskedOf(kind) ==
    {i \in DOMAIN present.scenario : present.scenario[i].kind = kind}

\* Each perturbation makes as many reads stale as it asks for and no more, and what they
\* return has been the value of the key, no more versions ago than was asked for.
StaleReadsAreAsked ==
    /\ \A i \in DOMAIN present.scenario : stale[i] <= present.scenario[i].reads
    /\ read.kind = "stale-read" =>
         \E i \in AskedOf("stale-read") :
             LET p == present.scenario[i]
             IN  p.key \in {AnyKey, read.key} /\ read.value = ValueBehind(read.key, p.behind)
    /\ read.kind = "stale-negative-read" =>
         \E i \in AskedOf("stale-negative-read") :
             present.scenario[i].key \in {AnyKey, read.key} /\ read.value = Deleted

\* Workers do what the present scenario asks for and nothing else, as far as the rules
\* for a route's request and the stale reads go; the queue's mode and messages are not
\* compared with it.
WorkersObeyScenarios == NothingIsLeftOver /\ RulesFireOnTime /\ StaleReadsAreAsked
=============================================================================

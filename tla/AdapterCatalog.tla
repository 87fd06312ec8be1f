--------------------------- MODULE AdapterCatalog ---------------------------
(***************************************************************************)
(* The semantic adapters CloudFault ships (packages/adapters/src/          *)
(* catalog.ts and packages/stripe/src/index.ts) and how an adapter and a   *)
(* registry of them classify a request (packages/adapter-sdk/src/          *)
(* index.ts).  A host is the sequence of its labels; a path is a name for  *)
(* the paths that the same expressions match, so that a rule has the set   *)
(* of the paths its own expression matches.                                *)
(***************************************************************************)
EXTENDS Naturals, Sequences, FiniteSets

Methods == {"GET", "HEAD", "OPTIONS", "POST", "PUT", "PATCH", "DELETE"}

Exactly(labels) == [wild |-> FALSE, labels |-> labels]
Under(labels) == [wild |-> TRUE, labels |-> labels]

\* A rule; `keyed' if it names an idempotency header.
Rule(methods, paths, name, effect) ==
    [methods |-> methods, paths |-> paths, op |-> name, effect |-> effect, keyed |-> FALSE]
Post(path, name, effect) == Rule({"POST"}, {path}, name, effect)
Keyed(rule) == [rule EXCEPT !.keyed = TRUE]

Adapter(name, hosts, capabilities, rules) ==
    [name |-> name, hosts |-> hosts, capabilities |-> capabilities, rules |-> rules,
     keyed |-> FALSE, total |-> FALSE]

External == "external-side-effect"
Async == "async-side-effect"
Changes == {"POST", "PATCH", "PUT", "DELETE"}
EditOrDelete == {"POST", "PATCH", "DELETE"}

Elsewhere == "elsewhere"

---------------------------------------------------------------------------
(* The catalog *)

\* Stripe's match is written out; its last two branches take every request.
StripePaths == {"intents", "intent", "confirm", "refunds", Elsewhere}
Stripe ==
    [Adapter("stripe", {Exactly(<<"api", "stripe", "com">>)}, {},
       <<Post("confirm", "payment_intent.confirm", External),
         Post("intents", "payment_intent.create", External),
         Rule({"GET"}, {"intent"}, "payment_intent.retrieve", "query"),
         Post("refunds", "refund.create", External),
         Rule({"GET"}, StripePaths, "stripe.query", "query"),
         Rule(Methods, StripePaths, "stripe.mutation", "mutation")>>)
     EXCEPT !.keyed = TRUE, !.total = TRUE]

Github == Adapter("github", {Exactly(<<"api", "github", "com">>)}, {},
    <<Post("issues", "issue.create", External),
      Post("comments", "issue.comment.create", External),
      Post("pulls", "pull_request.create", External),
      Post("graphql", "graphql.execute", "mutation")>>)

OpenAI == Adapter("openai", {Exactly(<<"api", "openai", "com">>)}, {"streaming"},
    <<Keyed(Post("responses", "response.create", External)),
      Keyed(Post("completions", "chat_completion.create", External)),
      Post("embeddings", "embedding.create", External),
      Post("batches", "batch.mutate", Async)>>)

Anthropic == Adapter("anthropic", {Exactly(<<"api", "anthropic", "com">>)}, {"streaming"},
    <<Post("messages", "message.create", External),
      Post("batches", "message_batch.mutate", Async)>>)

Slack == Adapter("slack", {Exactly(<<"slack", "com">>)}, {},
    <<Post("postMessage", "message.post", External),
      Post("update", "message.update", External),
      Post("upload", "file.upload", External)>>)

Google == Adapter("google",
    {Exactly(<<h, "googleapis", "com">>) : h \in {"www", "gmail", "calendar", "people", "drive"}},
    {"oauth"},
    <<Post("send", "gmail.message.send", External),
      Post("events", "calendar.event.create", External),
      Rule(Changes, {"files"}, "drive.file.mutate", "mutation")>>)

\* The last rule's expression matches what the first two match as well.
MicrosoftGraph == Adapter("microsoft-graph", {Exactly(<<"graph", "microsoft", "com">>)}, {"oauth"},
    <<Post("sendMail", "mail.send", External),
      Post("events", "calendar.event.create", External),
      Rule(Changes, {"sendMail", "events", "v1.0"}, "graph.mutate", "mutation")>>)

\* Mutant: the rule for any path comes first.
AwsAnyPathFirst == Adapter("aws", {Under(<<"amazonaws", "com">>)}, {"regional-failures"},
    <<Rule({"PUT", "POST", "DELETE"}, {"root", Elsewhere}, "aws.resource.mutate", "mutation"),
      Post("root", "aws.action", "mutation")>>)

Aws == Adapter("aws", {Under(<<"amazonaws", "com">>)}, {"regional-failures"},
    <<Post("root", "aws.action", "mutation"),
      Rule({"PUT", "POST", "DELETE"}, {"root", Elsewhere}, "aws.resource.mutate", "mutation")>>)

Twilio == Adapter("twilio", {Exactly(<<"api", "twilio", "com">>)}, {},
    <<Post("messages", "message.send", External), Post("calls", "call.create", External)>>)

Sendgrid == Adapter("sendgrid", {Exactly(<<"api", "sendgrid", "com">>)}, {},
    <<Post("send", "mail.send", External)>>)

Resend == [Adapter("resend", {Exactly(<<"api", "resend", "com">>)}, {},
    <<Keyed(Post("emails", "email.send", External))>>) EXCEPT !.keyed = TRUE]

Paypal == [Adapter("paypal",
    {Exactly(<<"api-m", "paypal", "com">>), Exactly(<<"api-m", "sandbox", "paypal", "com">>)}, {},
    <<Keyed(Post("orders", "order.create", External)),
      Keyed(Post("capture", "order.capture", External)),
      Keyed(Post("refund", "refund.create", External))>>) EXCEPT !.keyed = TRUE]

Shopify == Adapter("shopify", {Under(<<"myshopify", "com">>)}, {},
    <<Post("orders", "order.create", External),
      Post("refunds", "refund.create", External),
      Post("graphql", "graphql.execute", "mutation")>>)

Clerk == Adapter("clerk", {Exactly(<<"api", "clerk", "com">>)}, {},
    <<Rule(EditOrDelete, {"users"}, "user.mutate", External),
      Rule({"POST", "DELETE"}, {"sessions"}, "session.mutate", External)>>)

Auth0 == Adapter("auth0", {Under(<<"auth0", "com">>)}, {"oauth"},
    <<Post("token", "oauth.token", External),
      Rule(EditOrDelete, {"users"}, "user.mutate", External)>>)

WorkOS == Adapter("workos", {Exactly(<<"api", "workos", "com">>)}, {},
    <<Post("users", "user.mutate", External), Post("authorize", "sso.authorize", External)>>)

Okta == Adapter("okta", {Under(<<"okta", "com">>)}, {"oauth"},
    <<Rule({"POST", "PUT", "DELETE"}, {"users"}, "user.mutate", External),
      Rule({"POST", "DELETE"}, {"sessions"}, "session.mutate", External)>>)

Supabase == Adapter("supabase", {Under(<<"supabase", "co">>)}, {},
    <<Rule(Changes, {"rest"}, "database.mutate", "mutation"),
      Rule({"POST", "PUT", "DELETE"}, {"storage"}, "storage.mutate", "mutation"),
      Post("auth", "auth.mutate", External)>>)

Firebase == Adapter("firebase",
    {Exactly(<<h, "googleapis", "com">>) : h \in {"firestore", "identitytoolkit", "securetoken"}}, {},
    <<Rule(EditOrDelete, {"documents"}, "firestore.mutate", "mutation"),
      Post("accounts", "identity.mutate", External)>>)

MongodbAtlas == Adapter("mongodb-atlas", {Exactly(<<"cloud", "mongodb", "com">>)}, {},
    <<Rule(EditOrDelete, {"v2"}, "atlas.resource.mutate", Async)>>)

Vercel == Adapter("vercel", {Exactly(<<"api", "vercel", "com">>)}, {},
    <<Post("deployments", "deployment.create", Async),
      Rule({"DELETE"}, {"deployment"}, "deployment.delete", External)>>)

Linear == Adapter("linear", {Exactly(<<"api", "linear", "app">>)}, {},
    <<Post("graphql", "graphql.execute", "mutation")>>)

Discord == Adapter("discord", {Exactly(<<"discord", "com">>)}, {},
    <<Post("messages", "message.create", External), Post("webhooks", "webhook.execute", External)>>)

Cloudinary == Adapter("cloudinary", {Exactly(<<"api", "cloudinary", "com">>)}, {},
    <<Post("upload", "asset.upload", External),
      Rule({"POST", "DELETE"}, {"resources"}, "asset.mutate", "mutation")>>)

\* A search is a POST, and its path is also one of the second rule.
Algolia == Adapter("algolia", {Under(<<"algolia", "net">>), Under(<<"algolianet", "com">>)}, {},
    <<Post("query", "index.query", "query"),
      Rule({"POST", "PUT", "DELETE"}, {"query", "indexes"}, "index.mutate", Async)>>)

FirstParty ==
    <<Stripe, Github, OpenAI, Anthropic, Slack, Google, MicrosoftGraph, Aws, Twilio, Sendgrid,
      Resend, Paypal, Shopify, Clerk, Auth0, WorkOS, Okta, Supabase, Firebase, MongodbAtlas,
      Vercel, Linear, Discord, Cloudinary, Algolia>>
InCatalog == {FirstParty[i] : i \in DOMAIN FirstParty}

---------------------------------------------------------------------------
(* Classification *)

\* Mutant: a wildcard also stands for a host that only ends like it.
MatchesLastLabel(pattern, host) ==
    IF pattern.wild THEN host[Len(host)] = pattern.labels[Len(pattern.labels)]
    ELSE host = pattern.labels

\* matchesHost: *.x.com is any host below x.com, and not x.com itself.
MatchesHost(pattern, host) ==
    \/ ~pattern.wild /\ host = pattern.labels
    \/ /\ pattern.wild /\ Len(host) > Len(pattern.labels)
       /\ SubSeq(host, Len(host) - Len(pattern.labels) + 1, Len(host)) = pattern.labels

Serves(a, r) == \E pattern \in a.hosts : MatchesHost(pattern, r.host)

RulesFor(a, r) ==
    {i \in DOMAIN a.rules : r.method \in a.rules[i].methods /\ r.path \in a.rules[i].paths}

\* The first rule that matches decides.
Deciding(a, r) == CHOOSE i \in RulesFor(a, r) : \A j \in RulesFor(a, r) : i <= j

\* What a rule that says nothing of retries says of them.
DefaultRetry(r, keyed) ==
    CASE r.method \in {"GET", "HEAD"} -> "safe"
      [] r.method \notin {"GET", "HEAD"} /\ keyed /\ r.key -> "conditional"
      [] OTHER -> "unknown"

\* Stripe's own match: what moves money may not be repeated without a key.
StripeRetry(r, rule) ==
    CASE rule.effect = "query" -> "safe"
      [] rule.effect # "query" /\ r.key -> "conditional"
      [] rule.effect = External /\ ~r.key -> "unsafe"
      [] OTHER -> "unknown"

RuleOperation(a, r) ==
    LET rule == a.rules[Deciding(a, r)]
    IN [name |-> <<a.name, rule.op>>, effect |-> rule.effect,
        retry |-> IF a.total THEN StripeRetry(r, rule) ELSE DefaultRetry(r, rule.keyed)]

\* The fallback tells reads from writes by their method.
FallbackOperation(a, r) ==
    LET query == r.method \in {"GET", "HEAD", "OPTIONS"}
    IN [name |-> <<a.name, IF query THEN "query" ELSE "mutation">>,
        effect |-> IF query THEN "query" ELSE "mutation",
        retry |-> IF query THEN "safe" ELSE DefaultRetry(r, a.keyed)]

Operation(a, r) == IF RulesFor(a, r) # {} THEN RuleOperation(a, r) ELSE FallbackOperation(a, r)

\* registry.classify: the first adapter that serves the host, by its place.
Classifying(registry, r) == {i \in DOMAIN registry : Serves(registry[i], r)}
NoAdapter == 0
Classify(registry, r) ==
    IF Classifying(registry, r) = {} THEN NoAdapter
    ELSE CHOOSE i \in Classifying(registry, r) : \A j \in Classifying(registry, r) : i <= j

---------------------------------------------------------------------------
(* Every kind of request the catalog can tell apart *)

HostsOf(a) ==
    {IF p.wild THEN <<"eu">> \o p.labels ELSE p.labels : p \in a.hosts}
        \cup {p.labels : p \in {q \in a.hosts : q.wild}}
PathsOf(a) == {Elsewhere} \cup UNION {a.rules[i].paths : i \in DOMAIN a.rules}

RequestsTo(a) ==
    [host : HostsOf(a), method : Methods, path : PathsOf(a), key : BOOLEAN]
=============================================================================

---------------------------- MODULE BindingProxy ----------------------------
(***************************************************************************)
(* What the fault proxies of the Cloudflare bindings have in common        *)
(* (packages/cloudflare/src/d1.ts, r2.ts, hyperdrive.ts): they share one   *)
(* controller, and a caller has one call under way,                        *)
(*   begin and take  --  the awaited call  --  take  --  the awaited       *)
(*   oracle  --  complete and settle.                                      *)
(* A step of the proxies is the code between two awaits.                   *)
(***************************************************************************)
EXTENDS ScenarioController

CONSTANT Setups \* bound: the runs to consider, each a record as `setup' below

VARIABLES setup,  \* the run's scenario and options, and the bound on its workload
          pc,     \* where each caller's call is
          op,     \* its operation
          fault,  \* the place of the perturbation it was given
          answer, \* what the last call gave its caller
          calls   \* how many calls the caller has made

proxyVars == <<setup, pc, op, fault, answer, calls>>

\* The options the proxies were created with ...
AllowContractProbes == setup.probes
HasOracle == setup.oracle         \* an oracle, and a token to ask it with
\* ... whether a dependency may fail after it applied a call ...
AppliedMayReject == setup.lossy
\* ... and the bound: which operations each caller calls, and how many in all.
MayCall(c, name) == name \in setup.menu[c] /\ calls[c] < setup.calls

NoOperation == [name |-> <<"none", 0>>, occurrence |-> 0]

Perturbed(c) == scenario[fault[c]]

ProxyInit ==
    /\ ControllerInit
    /\ setup \in {s \in Setups : s.scenario = scenario}
    /\ pc = [c \in Callers |-> "idle"]
    /\ op = [c \in Callers |-> NoOperation]
    /\ fault = [c \in Callers |-> Nothing]
    /\ answer = [c \in Callers |-> "none"]
    /\ calls = [c \in Callers |-> 0]

\* The call settles: its caller gets the answer and may make the next call.
Settle(c, given) ==
    /\ pc' = [pc EXCEPT ![c] = "idle"]
    /\ answer' = [answer EXCEPT ![c] = given]

Go(c, place) == pc' = [pc EXCEPT ![c] = place] /\ UNCHANGED answer

\* Mutant: the answer never comes.
SilentOracle(truth) == {}

\* askOracle: without a token there is nothing to ask, and no answer is none.
Told(truth) == IF HasOracle THEN {truth, NoAnswer} ELSE {NoAnswer}

RefusalEntry == [type |-> "fail", actual |-> "not-committed", source |-> "declared"]
UnknownEntry == [type |-> "fail", actual |-> "unknown", source |-> "unknown"]

Ambiguous(c) == Perturbed(c).observed = "indeterminate"

\* Mutant: the observed outcome is not looked at.
DefiniteEntry(c, told) == OutcomeMetadata("fail", told, Perturbed(c).actual, "unknown")

\* completeFailure, injected and fail: what the perturbation says was observed
\* decides between an ambiguous completion and a definite one.
InjectedEntry(c, told) ==
    OutcomeMetadata(IF Ambiguous(c) THEN "info" ELSE "fail", told,
                    Perturbed(c).actual, "unknown")

Settled(c) == pc[c] = "idle" /\ calls[c] > 0
=============================================================================

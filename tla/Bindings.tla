------------------------------ MODULE Bindings ------------------------------
(***************************************************************************)
(* A workload of several callers that uses a D1 database, an R2 bucket and *)
(* a Postgres client at once, each behind its fault proxy, under the one   *)
(* controller of the scenario (packages/cloudflare/src).  A caller has one *)
(* call under way and may turn to another binding for the next one; the    *)
(* proxies compete for the perturbations that match more than one of them. *)
(***************************************************************************)
EXTENDS BindingProxy

CONSTANTS Statements, Batch, NumParts, Queries, Reads

VARIABLES applied, index, rejected, committed,
          landed, failed, handle, told, upload, stored, object,
          version, own, origin, cache, served

d1Vars == <<applied, index, rejected, committed>>
r2Vars == <<landed, failed, handle, told, upload, stored, object>>
hyperdriveVars == <<version, own, origin, cache, served>>
vars == <<controllerVars, proxyVars, d1Vars, r2Vars, hyperdriveVars>>

D1 == INSTANCE D1FaultProxy
R2 == INSTANCE R2FaultProxy
Hyperdrive == INSTANCE HyperdriveProxy

\* Every name belongs to one binding.
ASSUME BindingsAssumption ==
    /\ Names = D1!D1Names \cup R2!R2Names \cup Queries
    /\ Batch \subseteq D1!D1Names /\ Reads \subseteq Queries
    /\ D1!D1Names \cap (R2!R2Names \cup Queries) = {} /\ R2!R2Names \cap Queries = {}
    /\ NumParts \in Nat \ {0}

\* A scenario does not use an id twice: the controller counts activations by id.
ASSUME ScenarioAssumption ==
    \A s \in Scenarios :
        /\ DOMAIN s \subseteq Nat \ {0}
        /\ \A i \in DOMAIN s : s[i].max \in Nat
        /\ \A i, j \in DOMAIN s : s[i].id = s[j].id => i = j

\* A perturbation declares of the outcome only what the moment of its failure makes
\* true, as every fault of the three modules does: the call is not committed before the
\* dependency runs it, and committed once it has.
ASSUME DeclarationAssumption ==
    \A s \in Scenarios : \A i \in DOMAIN s :
        /\ s[i].actual \in {"committed", "not-committed", "unknown"}
        /\ s[i].actual = "committed" =>
               s[i].phase \in {"after-commit-before-response", "during-response"}
        /\ s[i].actual = "not-committed" => s[i].phase \in {"before-send", "before-commit"}

Init == D1!Init /\ R2!Init /\ Hyperdrive!Init

Progress(c) ==
    \/ D1!Progress(c) /\ UNCHANGED <<r2Vars, hyperdriveVars>>
    \/ R2!Progress(c) /\ UNCHANGED <<d1Vars, hyperdriveVars>>
    \/ Hyperdrive!Progress(c) /\ UNCHANGED <<d1Vars, r2Vars>>

Next ==
    \E c \in Callers :
        \/ D1!Next(c) /\ UNCHANGED <<r2Vars, hyperdriveVars>>
        \/ R2!Next(c) /\ UNCHANGED <<d1Vars, hyperdriveVars>>
        \/ Hyperdrive!Next(c) /\ UNCHANGED <<d1Vars, r2Vars>>

\* Every promise a proxy awaits, a dependency's or an oracle's, settles.
Spec == Init /\ [][Next]_vars /\ \A c \in Callers : WF_vars(Progress(c))

---------------------------------------------------------------------------
\* A settled call has one completion in the history and an unsettled one none,
\* whichever of its proxy's ways out it took, although the code that injects a
\* failure completes the operation and throws through a catch that completes it too.
\* One way out does complete it twice: a D1 statement for which a contract probe is found,
\* and refused, after it ran.  And what the caller was told is what every completion
\* says: checkers take "ok" for acknowledged, "fail" for refused and "info" for
\* ambiguous.
HistoryMatchesAnswers ==
    \A c \in Callers :
      /\ Len(completions[c]) = IF ~Settled(c) THEN 0
                               ELSE IF D1!CompletedTwice(c) THEN 2 ELSE 1
      /\ Settled(c) => \A i \in DOMAIN completions[c] :
        LET type == completions[c][i].type
        IN /\ answer[c] \in {"result", "cached"} <=> type = "ok"
           /\ answer[c] = "indeterminate" => type = "info"
           /\ answer[c] \in {"injected", "refused"} => type = "fail"

\* Whatever the history claims to know of a call, from an oracle, a declaration or
\* an inference, is true of the dependency, however the call was cut off; the exceptions
\* are declarations about contract probes, named in the modules: one refused after the
\* call committed (D1), and one whose own call landed and threw (D1 and R2).
ClaimedOutcomesAreTrue ==
    D1!ClaimedOutcomeIsTrue /\ R2!ClaimedOutcomeIsTrue /\ Hyperdrive!ClaimedOutcomeIsTrue

\* What callers find in the dependencies is what a program may rely on: contract
\* probes apart, faults never leave a batch or a multipart completion applied in part,
\* and a read is answered from the cache only where the scenario says so.
DataIsWhole == D1!BatchesAreAtomic /\ R2!ObjectIsWhole /\ Hyperdrive!ReadsSeeOwnWrites

\* Every call that was begun is answered, whatever is injected into it.
CallsSettle == \A c \in Callers : pc[c] # "idle" ~> pc[c] = "idle"

\* types.ts: "omitting [the occurrence] means the first matching operation".
FirstMatchIsInterrupted == R2!FirstMatchIsInterrupted
=============================================================================

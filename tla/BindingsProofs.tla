--------------------------- MODULE BindingsProofs ---------------------------
(***************************************************************************)
(* Theorems about Bindings, for any callers, scenarios and operations:     *)
(* how often perturbations are injected, what the history records of a     *)
(* call, that what it claims is true, and that data are whole.  And about  *)
(* NemesisWorkers, the bindings' stand-ins in Workers of their own: what   *)
(* they hold is what the present scenario asks for.                        *)
(***************************************************************************)
EXTENDS Bindings, NemesisWorkers, WellFoundedInduction, TLAPS

(* No perturbation is injected more often than its selector allows, for any callers,
   scenarios and bindings.  Every step spends at most one perturbation, and that one
   is available at the moment it is spent. *)

Ids == UNION {{s[i].id : i \in DOMAIN s} : s \in Scenarios}

Available == {i \in DOMAIN scenario : activations[scenario[i].id] < scenario[i].max}

\* A step that injects at most one perturbation, one that may still be injected.
Spends == scenario' = scenario /\ \E i \in Available \cup {Nothing} : Activate(i)

SpendInv ==
    /\ scenario \in Scenarios
    /\ activations \in [Ids -> Nat]
    /\ InjectedWithinLimit

\* FirstOf chooses one of its candidates.
LEMMA FirstIsMember ==
    ASSUME NEW S \in SUBSET Nat, S # {}
    PROVE  FirstOf(S) \in S
<1> DEFINE Below == {pair \in Nat \X Nat : pair[1] < pair[2]}
<1>1. IsWellFoundedOn(Below, Nat)
  BY NatLessThanWellFounded DEF OpToRel
<1>2. PICK i \in S : \A j \in S : ~(<<j, i>> \in Below)
  <2> HIDE DEF Below
  <2> QED BY <1>1, WFMin
<1>3. ASSUME NEW j \in S PROVE i <= j
  <2>1. <<j, i>> \in Nat \X Nat /\ <<j, i>>[1] = j /\ <<j, i>>[2] = i
    OBVIOUS
  <2>2. ~(j < i)
    BY <2>1, <1>2, Zenon
  <2> QED BY <2>2
<1> QED BY <1>3 DEF FirstOf

\* take answers with a perturbation that may still be injected, or with none.
LEMMA TakenIsAvailable ==
    ASSUME SpendInv, NEW o, NEW phase, NEW otherwise
    PROVE  Taken(o, phase, otherwise) \in Available \cup {Nothing}
<1>1. \A p : Eligible(o, p) \subseteq Available /\ Eligible(o, p) \in SUBSET Nat
  BY ScenarioAssumption DEF Eligible, Available, SpendInv
<1>2. \A p : Eligible(o, p) # {} => FirstOf(Eligible(o, p)) \in Available
  BY <1>1, FirstIsMember
<1> QED BY <1>2 DEF Taken

\* Spending an available perturbation keeps every count within its limit.
LEMMA SpendingKeepsLimits ==
    ASSUME SpendInv, Spends
    PROVE  SpendInv'
<1>1. PICK i \in Available \cup {Nothing} : Activate(i)
  BY DEF Spends
<1>2. CASE i = Nothing
  BY <1>1, <1>2 DEF Activate, Spends, SpendInv, InjectedWithinLimit
<1>3. CASE i # Nothing
  <2>1. /\ i \in DOMAIN scenario /\ scenario[i].id \in Ids
        /\ activations[scenario[i].id] < scenario[i].max
        /\ activations' = [activations EXCEPT ![scenario[i].id] = @ + 1]
    BY <1>1, <1>3 DEF Activate, Available, SpendInv, Ids
  <2>2. activations' \in [Ids -> Nat]
    BY <2>1 DEF SpendInv
  <2>3. ASSUME NEW j \in DOMAIN scenario
        PROVE  activations'[scenario[j].id] <= scenario[j].max
    <3>1. scenario[j].id \in Ids /\ scenario[j].max \in Nat /\ scenario[i].max \in Nat
      BY <2>1, ScenarioAssumption DEF SpendInv, Ids
    <3>2. CASE i = j
      BY <2>1, <3>1, <3>2 DEF SpendInv
    <3>3. CASE i # j
      <4>1. scenario[i].id # scenario[j].id
        BY <2>1, <3>3, ScenarioAssumption DEF SpendInv
      <4> QED BY <2>1, <3>1, <4>1 DEF SpendInv, InjectedWithinLimit
    <3> QED BY <3>2, <3>3
  <2> QED BY <2>2, <2>3 DEF Spends, SpendInv, InjectedWithinLimit
<1> QED BY <1>2, <1>3

\* A step that does not look at the scenario spends nothing.
LEMMA UntouchedIsSpent ==
    ASSUME UNCHANGED <<scenario, activations>>
    PROVE  Spends
BY DEF Spends, Activate

\* The three proxies.
LEMMA D1Spends ==
    ASSUME SpendInv, NEW c \in Callers, D1!Next(c)
    PROVE  Spends
<1>1. ASSUME NEW name, D1!Begin(c, name) PROVE Spends
  <2> DEFINE before == Taken(Indexed(name), "before-commit", "before-send")
             probes == D1!ProbesAt(Indexed(name))
             probe == IF probes = {} THEN Nothing ELSE FirstOf(probes)
  <2>1. before \in Available \cup {Nothing}
    BY TakenIsAvailable
  <2>2. probe \in Available \cup {Nothing}
    <3>1. probes \subseteq Available /\ probes \in SUBSET Nat
      BY ScenarioAssumption DEF D1!ProbesAt, D1!Eligible, Available, SpendInv
    <3> HIDE DEF probes
    <3> QED BY <3>1, FirstIsMember
  <2>3. ASSUME NEW given \in Available \cup {Nothing}, NEW interrupts,
               D1!Decide(c, given, interrupts)
        PROVE  \E i \in Available \cup {Nothing} : Activate(i)
    BY <2>3 DEF D1!Decide, D1!Activate, Activate, D1!Nothing, Nothing
  <2>4. D1!Decide(c, before, TRUE) \/ D1!Decide(c, probe, FALSE)
    BY <1>1 DEF D1!Begin, D1!Taken, Taken, D1!Eligible, Eligible, D1!FirstOf, FirstOf,
                D1!Indexed, Indexed, D1!MatchesSelector, MatchesSelector, D1!AnyPhase,
                AnyPhase, D1!Nothing, Nothing, D1!IsFault, IsFault, D1!SemanticPhase, SemanticPhase
  <2>5. scenario' = scenario
    BY <1>1 DEF D1!Begin
  <2> HIDE DEF before, probe
  <2> QED BY <2>1, <2>2, <2>3, <2>4, <2>5 DEF Spends
<1>2. CASE D1!Return(c)
  <2> DEFINE after == Taken(op[c], "after-commit-before-response", "during-response")
  <2>1. after \in Available \cup {Nothing}
    BY TakenIsAvailable
  <2>2. Activate(after) /\ scenario' = scenario
    BY <1>2 DEF D1!Return, D1!Taken, Taken, D1!Eligible, Eligible, D1!FirstOf, FirstOf,
                D1!MatchesSelector, MatchesSelector, D1!AnyPhase, AnyPhase, D1!Nothing,
                Nothing, D1!IsFault, IsFault, D1!SemanticPhase, SemanticPhase, D1!Activate, Activate
  <2> QED BY <2>1, <2>2 DEF Spends
<1>3. CASE D1!Apply(c) \/ D1!Reject(c) \/ D1!Succeed(c) \/ D1!CompleteFailure(c)
           \/ D1!StatementRuns(c) \/ D1!StatementRejects(c) \/ D1!DropTheRest(c)
           \/ D1!CompletePrefix(c)
  BY <1>3, UntouchedIsSpent DEF D1!Apply, D1!Reject, D1!Succeed, D1!CompleteFailure,
     D1!StatementRuns, D1!StatementRejects, D1!DropTheRest, D1!CompletePrefix,
     D1!controllerVars
<1> QED BY <1>1, <1>2, <1>3 DEF D1!Next, D1!Progress

\* r2.ts, invoke.
LEMMA R2Spends ==
    ASSUME SpendInv, NEW c \in Callers, R2!Next(c)
    PROVE  Spends
<1>1. ASSUME NEW name, R2!Begin(c, name) PROVE Spends
  <2> DEFINE before == R2!TakenBefore(Indexed(name))
             probes == R2!ProbesAt(Indexed(name))
             probe == IF before # Nothing \/ probes = {} THEN Nothing ELSE FirstOf(probes)
             given == IF before # Nothing THEN before ELSE probe
  <2>1. before \in Available \cup {Nothing}
    <3>1. before = Taken(Indexed(name), IF R2!IsMutation(Indexed(name).name) THEN "before-commit"
                                        ELSE "before-send", "before-commit")
      BY DEF R2!TakenBefore, R2!Taken, Taken, R2!Eligible, Eligible, R2!FirstOf, FirstOf,
             R2!MatchesSelector, MatchesSelector, R2!AnyPhase, AnyPhase, R2!Nothing, Nothing,
             R2!IsFault, IsFault, R2!SemanticPhase, SemanticPhase
    <3> QED BY <3>1, TakenIsAvailable
  <2>2. probe \in Available \cup {Nothing}
    <3>1. probes \subseteq Available /\ probes \in SUBSET Nat
      BY ScenarioAssumption DEF R2!ProbesAt, R2!Eligible, Available, SpendInv
    <3> HIDE DEF probes, before
    <3> QED BY <3>1, FirstIsMember
  <2>3. scenario' = scenario /\ \E spent \in {given, Nothing} : R2!Activate(spent)
    <3>1. R2!Activate(given) \/ R2!Activate(Nothing)
      BY <1>1, Zenon DEF R2!Begin, R2!Indexed, Indexed, R2!FirstOf, FirstOf, R2!Nothing, Nothing
    <3> HIDE DEF given
    <3> QED BY <1>1, <3>1 DEF R2!Begin
  <2> HIDE DEF before, probe
  <2>4. given \in Available \cup {Nothing}
    BY <2>1, <2>2
  <2> HIDE DEF given
  <2> QED BY <2>3, <2>4 DEF Spends, Activate, Nothing, R2!Activate, R2!Nothing
<1>2. CASE R2!Return(c)
  <2> DEFINE after == Taken(op[c], "after-commit-before-response", "during-response")
  <2>1. after \in Available \cup {Nothing}
    BY TakenIsAvailable
  <2>2. R2!TakenAfter(op[c]) \in {after, Nothing}
    BY DEF R2!TakenAfter, R2!Taken, Taken, R2!Eligible, Eligible, R2!FirstOf, FirstOf,
           R2!MatchesSelector, MatchesSelector, R2!AnyPhase, AnyPhase, R2!Nothing, Nothing,
           R2!IsFault, IsFault, R2!SemanticPhase, SemanticPhase
  <2>3. scenario' = scenario /\ R2!Activate(R2!TakenAfter(op[c]))
    BY <1>2 DEF R2!Return
  <2> HIDE DEF after
  <2> QED BY <2>1, <2>2, <2>3 DEF Spends, Activate, Nothing, R2!Activate, R2!Nothing
<1>3. CASE R2!Apply(c) \/ R2!Reject(c) \/ R2!Succeed(c) \/ R2!Injected(c)
           \/ R2!PrefixApplies(c) \/ R2!PrefixSettles(c) \/ R2!CompletePrefix(c)
  BY <1>3, UntouchedIsSpent DEF R2!Apply, R2!Reject, R2!Succeed, R2!Injected,
     R2!PrefixApplies, R2!PrefixSettles, R2!CompletePrefix, R2!controllerVars
<1> QED BY <1>1, <1>2, <1>3 DEF R2!Next, R2!Progress

\* fault() and cachedRead() of Hyperdrive look for themselves instead of taking.
LEMMA FaultAtIsAvailable ==
    ASSUME SpendInv, NEW o, NEW phase, NEW otherwise
    PROVE  Hyperdrive!FaultAt(o, phase, otherwise) \in Available \cup {Nothing}
<1> DEFINE At(p) == Hyperdrive!FaultsAt(o, p)
<1>1. \A p : At(p) \subseteq Available /\ At(p) \in SUBSET Nat
  BY ScenarioAssumption DEF Hyperdrive!FaultsAt, Hyperdrive!Eligible, Available, SpendInv
<1>2. Hyperdrive!FaultAt(o, phase, otherwise) =
        IF At(phase) # {} THEN FirstOf(At(phase))
        ELSE IF At(otherwise) # {} THEN FirstOf(At(otherwise)) ELSE Nothing
  BY DEF Hyperdrive!FaultAt, Hyperdrive!FirstOf, FirstOf, Hyperdrive!Nothing, Nothing
<1> HIDE DEF At
<1>3. \A p : At(p) # {} => FirstOf(At(p)) \in Available
  BY <1>1, FirstIsMember
<1> QED BY <1>2, <1>3

\* hyperdrive.ts, run.
LEMMA HyperdriveSpends ==
    ASSUME SpendInv, NEW c \in Callers, Hyperdrive!Next(c)
    PROVE  Spends
<1>1. ASSUME NEW name, Hyperdrive!Begin(c, name) PROVE Spends
  <2> DEFINE before == Hyperdrive!FaultAt(Indexed(name), "before-send", "before-commit")
             hits == Hyperdrive!CachedReadsAt(Indexed(name))
             given == IF before = Nothing /\ hits # {} THEN FirstOf(hits) ELSE before
  <2>1. before \in Available \cup {Nothing}
    BY FaultAtIsAvailable
  <2>2. hits # {} => FirstOf(hits) \in Available
    <3>1. hits \subseteq Available /\ hits \in SUBSET Nat
      BY ScenarioAssumption DEF Hyperdrive!CachedReadsAt, Hyperdrive!Eligible, Available, SpendInv
    <3> HIDE DEF hits
    <3> QED BY <3>1, FirstIsMember
  <2>3. scenario' = scenario /\ Activate(given)
    BY <1>1 DEF Hyperdrive!Begin, Hyperdrive!Indexed, Indexed, Hyperdrive!FirstOf, FirstOf,
                Hyperdrive!Nothing, Nothing, Hyperdrive!Activate, Activate
  <2> HIDE DEF before, hits
  <2> QED BY <2>1, <2>2, <2>3 DEF Spends
<1>2. CASE Hyperdrive!Return(c)
  <2> DEFINE after == Hyperdrive!FaultAt(op[c], "after-commit-before-response", "during-response")
  <2>1. after \in Available \cup {Nothing}
    BY FaultAtIsAvailable
  <2>2. scenario' = scenario /\ Activate(after)
    BY <1>2 DEF Hyperdrive!Return, Hyperdrive!Nothing, Nothing, Hyperdrive!Activate, Activate
  <2> HIDE DEF after
  <2> QED BY <2>1, <2>2 DEF Spends
<1>3. CASE Hyperdrive!Apply(c) \/ Hyperdrive!Reject(c) \/ Hyperdrive!Succeed(c)
           \/ Hyperdrive!Fail(c)
  BY <1>3, UntouchedIsSpent DEF Hyperdrive!Apply, Hyperdrive!Reject, Hyperdrive!Succeed,
     Hyperdrive!Fail, Hyperdrive!controllerVars
<1> QED BY <1>1, <1>2, <1>3 DEF Hyperdrive!Next, Hyperdrive!Progress

\* However many callers use the three bindings at once, a perturbation is injected at
\* most maxActivations times (controller.ts take, d1.ts, r2.ts, hyperdrive.ts).
THEOREM InjectionsAreLimited == Spec => []InjectedWithinLimit
<1>1. Init => SpendInv
  <2> SUFFICES ASSUME Init PROVE SpendInv
    OBVIOUS
  <2>1. scenario \in Scenarios /\ activations = [id \in Ids |-> 0]
    BY DEF Init, D1!Init, D1!ProxyInit, D1!ControllerInit, Ids
  <2>2. \A i \in DOMAIN scenario : scenario[i].id \in Ids /\ scenario[i].max \in Nat
    BY <2>1, ScenarioAssumption DEF Ids
  <2> QED BY <2>1, <2>2 DEF SpendInv, InjectedWithinLimit
<1>2. SpendInv /\ [Next]_vars => SpendInv'
  <2> SUFFICES ASSUME SpendInv, [Next]_vars PROVE SpendInv'
    OBVIOUS
  <2>1. ASSUME NEW c \in Callers, D1!Next(c) \/ R2!Next(c) \/ Hyperdrive!Next(c)
        PROVE  SpendInv'
    BY <2>1, D1Spends, R2Spends, HyperdriveSpends, SpendingKeepsLimits
  <2>2. CASE UNCHANGED vars
    BY <2>2, UntouchedIsSpent, SpendingKeepsLimits DEF vars, controllerVars
  <2> QED BY <2>1, <2>2 DEF Next
<1>3. SpendInv => InjectedWithinLimit
  BY DEF SpendInv
<1> QED BY <1>1, <1>2, <1>3, PTL DEF Spec

---------------------------------------------------------------------------
(* A call's history and its answer. *)

\* What an answer says of the completion's type.
Fits(given, type) ==
    /\ given \in {"result", "cached"} <=> type = "ok"
    /\ given = "indeterminate" => type = "info"
    /\ given \in {"injected", "refused"} => type = "fail"

\* The calls of the callers, and of nobody else.
Total ==
    /\ DOMAIN pc = Callers /\ DOMAIN op = Callers /\ DOMAIN fault = Callers
    /\ DOMAIN answer = Callers /\ DOMAIN calls = Callers /\ DOMAIN completions = Callers
    /\ DOMAIN applied = Callers

\* Completed once, or twice by terminal.
Once(c) == completions[c] = <<completions[c][1]>> /\ Fits(answer[c], completions[c][1].type)

Twice(c) ==
    /\ completions[c] = <<D1!RefusalEntry, D1!UnknownEntry>>
    /\ Fits(answer[c], D1!RefusalEntry.type) /\ Fits(answer[c], D1!UnknownEntry.type)

\* A call under way has no completion, a settled one exactly one, or two.
CallIsRecorded(c) ==
    /\ calls[c] \in Nat
    /\ pc[c] # "idle" => calls[c] > 0
    /\ pc[c] # "idle" \/ calls[c] = 0 => completions[c] = <<>>
    /\ Settled(c) => IF D1!CompletedTwice(c) THEN Twice(c) ELSE Once(c)

HistoryInv == Total /\ \A c \in Callers : CallIsRecorded(c)

\* A step of caller c leaves the calls of the others alone.
OthersWait(c) ==
    \A d \in Callers \ {c} :
        /\ pc'[d] = pc[d] /\ op'[d] = op[d] /\ fault'[d] = fault[d]
        /\ answer'[d] = answer[d] /\ calls'[d] = calls[d]
        /\ completions'[d] = completions[d] /\ applied'[d] = applied[d]

\* The five things a step does to the call of its caller.
Opens(c) ==
    /\ pc'[c] # "idle" /\ calls'[c] = calls[c] + 1
    /\ completions'[c] = <<>>

AnswersAtOnce(c) ==
    /\ pc'[c] = "idle" /\ calls'[c] = calls[c] + 1
    /\ ~D1!CompletedTwice(c)'
    /\ \E entry : completions'[c] = <<entry>> /\ Fits(answer'[c], entry.type)

GoesOn(c) ==
    /\ pc[c] # "idle" /\ pc'[c] # "idle" /\ calls'[c] = calls[c]
    /\ completions'[c] = completions[c]

Ends(c) ==
    /\ pc[c] # "idle" /\ pc'[c] = "idle" /\ calls'[c] = calls[c]
    /\ ~D1!CompletedTwice(c)'
    /\ \E entry : /\ completions'[c] = Append(completions[c], entry)
                  /\ Fits(answer'[c], entry.type)

EndsTwice(c) ==
    /\ pc[c] # "idle" /\ pc'[c] = "idle" /\ calls'[c] = calls[c]
    /\ D1!CompletedTwice(c)'
    /\ completions'[c] = completions[c] \o <<D1!RefusalEntry, D1!UnknownEntry>>
    /\ answer'[c] = "refused"

CallStep(c) ==
    /\ Total'
    /\ UNCHANGED <<scenario, setup>>
    /\ OthersWait(c)
    /\ Opens(c) \/ AnswersAtOnce(c) \/ GoesOn(c) \/ Ends(c) \/ EndsTwice(c)

\* Whatever a binding does, as long as it does one of the five.
LEMMA StepIsRecorded ==
    ASSUME HistoryInv, NEW c \in Callers, CallStep(c)
    PROVE  HistoryInv'
<1>1. ASSUME NEW d \in Callers \ {c} PROVE CallIsRecorded(d)'
  <2>1. D1!CompletedTwice(d)' = D1!CompletedTwice(d) /\ Settled(d)' = Settled(d)
    BY <1>1 DEF CallStep, OthersWait, D1!CompletedTwice, D1!Mine, D1!Settled, D1!RefusedLate, Settled
  <2>2. Once(d)' = Once(d) /\ Twice(d)' = Twice(d)
    BY <1>1 DEF CallStep, OthersWait, Once, Twice, D1!RefusalEntry, D1!UnknownEntry
  <2>3. CallIsRecorded(d) /\ pc'[d] = pc[d] /\ calls'[d] = calls[d] /\ completions'[d] = completions[d]
    BY <1>1 DEF HistoryInv, CallStep, OthersWait
  <2> QED BY <2>1, <2>2, <2>3 DEF CallIsRecorded
<1>2. CallIsRecorded(c)'
  <2>1. CallIsRecorded(c)
    BY DEF HistoryInv
  <2>2. CASE Opens(c)
    BY <2>1, <2>2 DEF Opens, CallIsRecorded, Settled
  <2>3. CASE AnswersAtOnce(c)
    BY <2>1, <2>3 DEF AnswersAtOnce, CallIsRecorded, Once, Settled
  <2>4. CASE GoesOn(c)
    BY <2>1, <2>4 DEF GoesOn, CallIsRecorded, Settled
  <2>5. CASE Ends(c)
    <3>1. PICK entry : completions'[c] = Append(<<>>, entry) /\ Fits(answer'[c], entry.type)
      BY <2>1, <2>5 DEF Ends, CallIsRecorded
    <3>2. completions'[c] = <<entry>>
      BY <3>1
    <3> QED BY <2>1, <2>5, <3>1, <3>2 DEF Ends, CallIsRecorded, Once, Settled
  <2>6. CASE EndsTwice(c)
    <3> DEFINE entries == <<D1!RefusalEntry, D1!UnknownEntry>>
    <3>1. completions'[c] = <<>> \o entries
      BY <2>1, <2>6 DEF EndsTwice, CallIsRecorded
    <3>2. completions'[c] = <<D1!RefusalEntry, D1!UnknownEntry>>
      BY <3>1
    <3>3. Twice(c)'
      BY <2>6, <3>2 DEF EndsTwice, Twice, Fits, D1!RefusalEntry, D1!UnknownEntry
    <3> QED BY <2>1, <2>6, <3>3 DEF EndsTwice, CallIsRecorded, Settled
  <2> QED BY <2>2, <2>3, <2>4, <2>5, <2>6 DEF CallStep
<1> QED BY <1>1, <1>2 DEF HistoryInv, CallStep

\* terminal and batch: the call goes on its way or is refused with its completion.
LEMMA D1Begins ==
    ASSUME HistoryInv, NEW c \in Callers, NEW name, D1!Begin(c, name)
    PROVE  CallStep(c)
<1>1. \E given : \E interrupts \in BOOLEAN :
         D1!Decide(c, given, interrupts) /\ fault' = [fault EXCEPT ![c] = given]
  BY Zenon DEF D1!Begin
<1>2. /\ UNCHANGED <<scenario, setup>> /\ pc[c] = "idle"
      /\ op' = [op EXCEPT ![c] = D1!Indexed(name)]
      /\ calls' = [calls EXCEPT ![c] = @ + 1]
      /\ applied' = [applied EXCEPT ![c] = {}]
  BY DEF D1!Begin
<1>3. \/ /\ \E place \in {"dispatched", "failing", "prefix"} : pc' = [pc EXCEPT ![c] = place]
         /\ answer' = answer /\ completions' = [completions EXCEPT ![c] = <<>>]
      \/ /\ pc' = [pc EXCEPT ![c] = "idle"]
         /\ answer' = [answer EXCEPT ![c] = "refused"]
         /\ completions' = [completions EXCEPT ![c] = <<D1!RefusalEntry>>]
  BY <1>1 DEF D1!Decide, D1!Go, D1!Settle
<1> QED
  BY <1>1, <1>2, <1>3 DEF HistoryInv, Total, CallStep, OthersWait, Opens, AnswersAtOnce, Fits,
     D1!RefusalEntry, D1!CompletedTwice, D1!RefusedLate

\* d1.ts completes a call where it settles it, and nowhere else; only terminal completes
\* it twice, when it refuses a probe late.
LEMMA D1IsRecorded ==
    ASSUME HistoryInv, NEW c \in Callers, D1!Next(c)
    PROVE  CallStep(c)
<1> USE DEF HistoryInv, Total, CallStep, OthersWait
<1>1. CASE D1!DropTheRest(c)
  BY <1>1 DEF D1!DropTheRest, D1!Go, D1!controllerVars, D1!d1Vars, GoesOn
<1>7. CASE D1!Mine(c) /\ D1!Return(c)
  <2>1. /\ UNCHANGED <<scenario, setup, op, calls, applied>>
        /\ pc[c] = "dispatched" /\ applied[c] # {}
        /\ DOMAIN fault' = Callers /\ \A d \in Callers \ {c} : fault'[d] = fault[d]
        /\ \/ \E place \in {"asking", "failing"} :
                 pc' = [pc EXCEPT ![c] = place] /\ UNCHANGED <<answer, completions>>
           \/ /\ completions' = [completions EXCEPT ![c] = @ \o D1!LateRefusal(c)]
              /\ pc' = [pc EXCEPT ![c] = "idle"] /\ answer' = [answer EXCEPT ![c] = "refused"]
    BY <1>7 DEF D1!Return, D1!Go, D1!Settle, D1!d1Vars
  <2>2. CASE UNCHANGED <<answer, completions>> /\ pc'[c] # "idle"
    BY <2>1, <2>2 DEF GoesOn
  <2>3. CASE /\ completions' = [completions EXCEPT ![c] = @ \o D1!LateRefusal(c)]
             /\ pc' = [pc EXCEPT ![c] = "idle"] /\ answer' = [answer EXCEPT ![c] = "refused"]
    <3>1. D1!CompletedTwice(c)' <=> op[c].name \notin Batch
      <4>1. calls[c] > 0
        BY <2>1 DEF CallIsRecorded
      <4> QED BY <1>7, <2>1, <2>3, <4>1 DEF D1!CompletedTwice, D1!Mine, D1!Settled, D1!RefusedLate
    <3>2. CASE op[c].name \in Batch
      <4>1. completions'[c] = Append(completions[c], D1!RefusalEntry)
        <5>1. completions[c] = <<>> /\ completions'[c] = completions[c] \o <<D1!RefusalEntry>>
          BY <2>1, <2>3, <3>2 DEF D1!LateRefusal, CallIsRecorded
        <5> QED BY <5>1
      <4> QED BY <2>1, <2>3, <3>1, <3>2, <4>1 DEF Ends, Fits, D1!RefusalEntry
    <3>3. CASE op[c].name \notin Batch
      BY <2>1, <2>3, <3>1, <3>3 DEF EndsTwice, D1!LateRefusal
    <3> QED BY <3>2, <3>3
  <2> QED BY <2>1, <2>2, <2>3
<1>2. CASE D1!Apply(c) \/ D1!StatementRuns(c) \/ D1!StatementRejects(c)
  BY <1>2 DEF D1!Apply, D1!StatementRuns, D1!StatementRejects, D1!Running, D1!controllerVars,
              D1!proxyVars, GoesOn
<1>3. CASE D1!Reject(c)
  BY <1>3 DEF D1!Reject, D1!Complete, D1!Settle, D1!UnknownEntry, D1!d1Vars, Ends, Fits,
              D1!CompletedTwice, D1!RefusedLate
<1>4. CASE D1!Succeed(c)
  <2>1. PICK heard : D1!Complete(c, D1!OutcomeMetadata("ok", heard, "unknown", "committed"))
    BY <1>4 DEF D1!Succeed
  <2>2. D1!OutcomeMetadata("ok", heard, "unknown", "committed").type = "ok"
    BY DEF D1!OutcomeMetadata
  <2> QED BY <1>4, <2>1, <2>2 DEF D1!Succeed, D1!Complete, D1!Settle, D1!d1Vars,
           Ends, Fits, D1!CompletedTwice, D1!RefusedLate
<1>5. CASE D1!CompleteFailure(c)
  <2>1. PICK heard : D1!Complete(c, D1!InjectedEntry(c, heard))
    BY <1>5 DEF D1!CompleteFailure
  <2>2. D1!InjectedEntry(c, heard).type = IF D1!Ambiguous(c) THEN "info" ELSE "fail"
    BY DEF D1!InjectedEntry, D1!OutcomeMetadata
  <2> QED BY <1>5, <2>1, <2>2 DEF D1!CompleteFailure, D1!Complete, D1!Settle,
           D1!d1Vars, Ends, Fits, D1!CompletedTwice, D1!RefusedLate
<1>6. CASE D1!CompletePrefix(c)
  <2>1. PICK heard : D1!Complete(c,
                      D1!OutcomeMetadata("info", heard, D1!DeclaredOfPrefix(c), "unknown"))
    BY <1>6 DEF D1!CompletePrefix
  <2>2. D1!OutcomeMetadata("info", heard, D1!DeclaredOfPrefix(c), "unknown").type = "info"
    BY DEF D1!OutcomeMetadata
  <2> QED BY <1>6, <2>1, <2>2 DEF D1!CompletePrefix, D1!Complete, D1!Settle,
           D1!d1Vars, Ends, Fits, D1!CompletedTwice, D1!RefusedLate
<1> QED BY <1>1, <1>2, <1>3, <1>4, <1>5, <1>6, <1>7, D1Begins DEF D1!Next, D1!Progress

\* The call a step is about is one of its binding's.
LEMMA CallBelongs ==
    ASSUME Total, NEW c \in Callers
    PROVE  /\ D1!Next(c) => op'[c].name \in D1!D1Names
           /\ R2!Next(c) => op'[c].name \in R2!R2Names
           /\ Hyperdrive!Next(c) => op'[c].name \in Queries
<1> USE DEF Total
<1>1. ASSUME D1!Next(c) PROVE op'[c].name \in D1!D1Names
  <2>1. CASE D1!Mine(c) /\ op' = op
    BY <2>1 DEF D1!Mine
  <2>2. ASSUME NEW name \in D1!D1Names, D1!Begin(c, name) PROVE op'[c].name \in D1!D1Names
    BY <2>2 DEF D1!Begin, D1!Indexed
  <2> QED
    BY <1>1, <2>1, <2>2 DEF D1!Next, D1!Progress, D1!Return, D1!Reject, D1!Succeed,
       D1!CompleteFailure,
       D1!StatementRuns, D1!StatementRejects, D1!DropTheRest, D1!CompletePrefix, D1!Apply,
       D1!proxyVars
<1>2. ASSUME R2!Next(c) PROVE op'[c].name \in R2!R2Names
  <2>1. CASE R2!Mine(c) /\ op' = op
    BY <2>1 DEF R2!Mine
  <2>2. ASSUME NEW name \in R2!R2Names, R2!Begin(c, name) PROVE op'[c].name \in R2!R2Names
    BY <2>2 DEF R2!Begin, R2!Indexed
  <2> QED
    BY <1>2, <2>1, <2>2 DEF R2!Next, R2!Progress, R2!Return, R2!Reject, R2!Succeed, R2!Injected,
       R2!PrefixApplies, R2!PrefixSettles, R2!CompletePrefix, R2!Apply, R2!proxyVars
<1>3. ASSUME Hyperdrive!Next(c) PROVE op'[c].name \in Queries
  <2>1. CASE Hyperdrive!Mine(c) /\ op' = op
    BY <2>1 DEF Hyperdrive!Mine
  <2>2. ASSUME NEW name \in Queries, Hyperdrive!Begin(c, name) PROVE op'[c].name \in Queries
    BY <2>2 DEF Hyperdrive!Begin, Hyperdrive!Indexed
  <2> QED
    BY <1>3, <2>1, <2>2 DEF Hyperdrive!Next, Hyperdrive!Progress, Hyperdrive!Return,
       Hyperdrive!Reject,
       Hyperdrive!Succeed, Hyperdrive!Fail, Hyperdrive!Apply, Hyperdrive!proxyVars
<1> QED BY <1>1, <1>2, <1>3

\* r2.ts: `injected' completes the call, and the catch does not again.
LEMMA R2IsRecorded ==
    ASSUME HistoryInv, NEW c \in Callers, R2!Next(c), UNCHANGED d1Vars
    PROVE  CallStep(c)
<1> USE DEF HistoryInv, Total, CallStep, OthersWait
<1>0. applied' = applied /\ ~D1!CompletedTwice(c)'
  <2>1. op'[c].name \in R2!R2Names
    BY CallBelongs
  <2> QED BY <2>1, BindingsAssumption DEF d1Vars, D1!CompletedTwice, D1!Mine
<1>1. ASSUME NEW name \in R2!R2Names, R2!Begin(c, name) PROVE CallStep(c)
  <2>1. \E given : fault' = [fault EXCEPT ![c] = given]
    BY <1>1, Zenon DEF R2!Begin
  <2>2. /\ UNCHANGED <<scenario, setup>> /\ pc[c] = "idle"
        /\ op' = [op EXCEPT ![c] = R2!Indexed(name)]
        /\ calls' = [calls EXCEPT ![c] = @ + 1]
    BY <1>1 DEF R2!Begin
  <2>3. \/ /\ \E place \in {"dispatched", "failing", "prefix"} : pc' = [pc EXCEPT ![c] = place]
           /\ answer' = answer /\ completions' = [completions EXCEPT ![c] = <<>>]
        \/ /\ pc' = [pc EXCEPT ![c] = "idle"]
           /\ answer' = [answer EXCEPT ![c] = "refused"]
           /\ completions' = [completions EXCEPT ![c] = <<R2!RefusalEntry>>]
    BY <1>1 DEF R2!Begin, R2!Go, R2!Settle
  <2> QED BY <1>0, <2>1, <2>2, <2>3 DEF Opens, AnswersAtOnce, Fits, R2!RefusalEntry
<1>2. CASE R2!Return(c) \/ R2!PrefixSettles(c)
  BY <1>0, <1>2 DEF R2!Return, R2!PrefixSettles, R2!Go, R2!controllerVars, GoesOn
<1>3. CASE R2!Apply(c) \/ R2!PrefixApplies(c)
  BY <1>0, <1>3 DEF R2!Apply, R2!PrefixApplies, R2!controllerVars, R2!proxyVars, GoesOn
<1>4. CASE R2!Reject(c)
  BY <1>0, <1>4 DEF R2!Reject, R2!Complete, R2!Settle, R2!UnknownEntry, Ends, Fits
<1>5. CASE R2!Succeed(c)
  <2>1. PICK said : R2!Complete(c,
                      R2!OutcomeMetadata("ok", said, "unknown", R2!Inferred(op[c].name)))
    BY <1>5 DEF R2!Succeed
  <2>2. R2!OutcomeMetadata("ok", said, "unknown", R2!Inferred(op[c].name)).type = "ok"
    BY DEF R2!OutcomeMetadata
  <2> QED BY <1>0, <1>5, <2>1, <2>2 DEF R2!Succeed, R2!Complete, R2!Settle, Ends, Fits
<1>6. CASE R2!Injected(c)
  <2>1. PICK said : R2!Complete(c, R2!InjectedEntry(c, said))
    BY <1>6 DEF R2!Injected
  <2>2. R2!InjectedEntry(c, said).type = IF R2!Ambiguous(c) THEN "info" ELSE "fail"
    BY DEF R2!InjectedEntry, R2!OutcomeMetadata
  <2> QED BY <1>0, <1>6, <2>1, <2>2 DEF R2!Injected, R2!Complete, R2!Settle, Ends, Fits
<1>7. CASE R2!CompletePrefix(c)
  <2>1. PICK said : R2!Complete(c,
                      R2!OutcomeMetadata("info", said, R2!DeclaredOfPrefix(c), "unknown"))
    BY <1>7 DEF R2!CompletePrefix
  <2>2. R2!OutcomeMetadata("info", said, R2!DeclaredOfPrefix(c), "unknown").type = "info"
    BY DEF R2!OutcomeMetadata
  <2> QED BY <1>0, <1>7, <2>1, <2>2 DEF R2!CompletePrefix, R2!Complete, R2!Settle, Ends, Fits
<1> QED BY <1>1, <1>2, <1>3, <1>4, <1>5, <1>6, <1>7 DEF R2!Next, R2!Progress

\* hyperdrive.ts: a cached answer is completed at once.
LEMMA HyperdriveIsRecorded ==
    ASSUME HistoryInv, NEW c \in Callers, Hyperdrive!Next(c), UNCHANGED d1Vars
    PROVE  CallStep(c)
<1> USE DEF HistoryInv, Total, CallStep, OthersWait
<1>0. applied' = applied /\ ~D1!CompletedTwice(c)'
  <2>1. op'[c].name \in Queries
    BY CallBelongs
  <2> QED BY <2>1, BindingsAssumption DEF d1Vars, D1!CompletedTwice, D1!Mine
<1>1. ASSUME NEW name \in Queries, Hyperdrive!Begin(c, name) PROVE CallStep(c)
  <2>1. \E given : fault' = [fault EXCEPT ![c] = given]
    BY <1>1, Zenon DEF Hyperdrive!Begin
  <2>2. /\ UNCHANGED <<scenario, setup>> /\ pc[c] = "idle"
        /\ op' = [op EXCEPT ![c] = Hyperdrive!Indexed(name)]
        /\ calls' = [calls EXCEPT ![c] = @ + 1]
    BY <1>1 DEF Hyperdrive!Begin
  <2>3. \/ /\ \E place \in {"dispatched", "failing"} : pc' = [pc EXCEPT ![c] = place]
           /\ answer' = answer /\ completions' = [completions EXCEPT ![c] = <<>>]
        \/ /\ pc' = [pc EXCEPT ![c] = "idle"]
           /\ answer' = [answer EXCEPT ![c] = "cached"]
           /\ completions' = [completions EXCEPT ![c] = <<Hyperdrive!CachedEntry>>]
    BY <1>1 DEF Hyperdrive!Begin, Hyperdrive!Go, Hyperdrive!Settle
  <2> QED BY <1>0, <2>1, <2>2, <2>3 DEF Opens, AnswersAtOnce, Fits, Hyperdrive!CachedEntry
<1>2. CASE Hyperdrive!Return(c)
  BY <1>0, <1>2 DEF Hyperdrive!Return, Hyperdrive!Go, GoesOn
<1>3. CASE Hyperdrive!Apply(c)
  BY <1>0, <1>3 DEF Hyperdrive!Apply, Hyperdrive!controllerVars, Hyperdrive!proxyVars, GoesOn
<1>4. CASE Hyperdrive!Reject(c)
  BY <1>0, <1>4 DEF Hyperdrive!Reject, Hyperdrive!Complete, Hyperdrive!Settle, Hyperdrive!UnknownEntry,
              Ends, Fits
<1>5. CASE Hyperdrive!Succeed(c)
  <2>1. PICK said : Hyperdrive!Complete(c,
                      Hyperdrive!OutcomeMetadata("ok", said, "unknown", Hyperdrive!Inferred(c)))
    BY <1>5 DEF Hyperdrive!Succeed
  <2>2. Hyperdrive!OutcomeMetadata("ok", said, "unknown", Hyperdrive!Inferred(c)).type = "ok"
    BY DEF Hyperdrive!OutcomeMetadata
  <2> QED BY <1>0, <1>5, <2>1, <2>2 DEF Hyperdrive!Succeed, Hyperdrive!Complete, Hyperdrive!Settle,
             Ends, Fits
<1>6. CASE Hyperdrive!Fail(c)
  <2>1. PICK said : Hyperdrive!Complete(c, Hyperdrive!InjectedEntry(c, said))
    BY <1>6 DEF Hyperdrive!Fail
  <2>2. Hyperdrive!InjectedEntry(c, said).type = IF Hyperdrive!Ambiguous(c) THEN "info" ELSE "fail"
    BY DEF Hyperdrive!InjectedEntry, Hyperdrive!OutcomeMetadata
  <2> QED BY <1>0, <1>6, <2>1, <2>2 DEF Hyperdrive!Fail, Hyperdrive!Complete, Hyperdrive!Settle, Ends,
             Fits
<1> QED BY <1>1, <1>2, <1>3, <1>4, <1>5, <1>6 DEF Hyperdrive!Next, Hyperdrive!Progress

\* No call was made yet.
LEMMA InitIsRecorded == Init => HistoryInv
BY DEF Init, D1!Init, D1!ProxyInit, D1!ControllerInit, HistoryInv, Total, CallIsRecorded, Settled

\* The three bindings keep the record of every call.
LEMMA RecordIsKept == HistoryInv /\ [Next]_vars => HistoryInv'
<1> SUFFICES ASSUME HistoryInv, [Next]_vars PROVE HistoryInv'
  OBVIOUS
<1>1. ASSUME NEW c \in Callers,
             \/ D1!Next(c)
             \/ (R2!Next(c) \/ Hyperdrive!Next(c)) /\ UNCHANGED d1Vars
      PROVE  HistoryInv'
  BY <1>1, D1IsRecorded, R2IsRecorded, HyperdriveIsRecorded, StepIsRecorded
<1>2. CASE UNCHANGED vars
  <2>1. \A c \in Callers : D1!CompletedTwice(c)' = D1!CompletedTwice(c) /\ Settled(c)' = Settled(c)
    BY <1>2 DEF vars, controllerVars, proxyVars, d1Vars, D1!CompletedTwice, D1!Mine, D1!Settled,
                D1!RefusedLate, Settled
  <2>2. \A c \in Callers : Once(c)' = Once(c) /\ Twice(c)' = Twice(c)
    BY <1>2 DEF vars, controllerVars, proxyVars, Once, Twice, D1!RefusalEntry, D1!UnknownEntry
  <2>3. UNCHANGED <<pc, op, fault, answer, calls, completions, applied>>
    BY <1>2 DEF vars, controllerVars, proxyVars, d1Vars
  <2>4. ASSUME NEW c \in Callers PROVE CallIsRecorded(c)'
    <3>1. CallIsRecorded(c) /\ D1!CompletedTwice(c)' = D1!CompletedTwice(c)
          /\ Settled(c)' = Settled(c) /\ Once(c)' = Once(c) /\ Twice(c)' = Twice(c)
      BY <2>1, <2>2 DEF HistoryInv
    <3> QED BY <2>3, <3>1 DEF CallIsRecorded
  <2> QED BY <2>3, <2>4 DEF HistoryInv, Total
<1> QED BY <1>1, <1>2 DEF Next

\* Every call under way is open in the history, every settled one completed: once, or twice
\* where D1 refuses a probe for a statement that ran.
THEOREM HistoryInvariant == Spec => []HistoryInv
<1> QED BY InitIsRecorded, RecordIsKept, PTL DEF Spec

\* Whichever of its proxy's ways out a call takes, the history has one completion of it, or
\* two where D1 refuses a probe for a statement that ran, and each says what the caller was
\* told.
THEOREM HistoriesMatchAnswers == Spec => []HistoryMatchesAnswers
<1>1. HistoryInv => HistoryMatchesAnswers
  <2> SUFFICES ASSUME HistoryInv, NEW c \in Callers
               PROVE  /\ Len(completions[c]) = IF ~Settled(c) THEN 0
                                               ELSE IF D1!CompletedTwice(c) THEN 2 ELSE 1
                      /\ Settled(c) => \A i \in DOMAIN completions[c] :
                                          Fits(answer[c], completions[c][i].type)
    BY Zenon DEF HistoryMatchesAnswers, Fits
  <2>1. CallIsRecorded(c)
    BY DEF HistoryInv
  <2>2. CASE Settled(c)
    <3>1. CASE D1!CompletedTwice(c)
      <4> DEFINE first == D1!RefusalEntry
                 second == D1!UnknownEntry
      <4>1. /\ completions[c] = <<first, second>>
            /\ Fits(answer[c], first.type) /\ Fits(answer[c], second.type)
        BY <2>1, <2>2, <3>1 DEF CallIsRecorded, Twice
      <4> HIDE DEF first, second
      <4>2. /\ Len(completions[c]) = 2 /\ DOMAIN completions[c] = 1 .. 2
            /\ completions[c][1] = first /\ completions[c][2] = second
        BY <4>1
      <4>3. \A i \in DOMAIN completions[c] : Fits(answer[c], completions[c][i].type)
        <5>1. \A i \in 1 .. 2 : i = 1 \/ i = 2
          OBVIOUS
        <5> QED BY <4>1, <4>2, <5>1, Zenon
      <4> QED BY <2>2, <3>1, <4>2, <4>3
    <3>2. CASE ~D1!CompletedTwice(c)
      <4>1. PICK entry : completions[c] = <<entry>> /\ Fits(answer[c], entry.type)
        <5>1. Once(c)
          BY <2>1, <2>2, <3>2 DEF CallIsRecorded
        <5> QED BY <5>1 DEF Once
      <4>2. Len(completions[c]) = 1 /\ DOMAIN completions[c] = 1 .. 1 /\ completions[c][1] = entry
        BY <4>1
      <4>3. \A i \in DOMAIN completions[c] : Fits(answer[c], completions[c][i].type)
        <5>1. \A i \in 1 .. 1 : i = 1
          OBVIOUS
        <5> QED BY <4>1, <4>2, <5>1, Zenon
      <4> QED BY <2>2, <3>2, <4>2, <4>3
    <3> QED BY <3>1, <3>2
  <2>3. CASE ~Settled(c)
    <3>1. completions[c] = <<>>
      BY <2>1, <2>3 DEF CallIsRecorded, Settled
    <3> QED BY <2>3, <3>1
  <2> QED BY <2>2, <2>3
<1> QED BY <1>1, HistoryInvariant, PTL

---------------------------------------------------------------------------
(* What the history claims is true, and data are whole. *)

\* What a perturbation declares, by the moment of its injection.
LEMMA TakenIsEligible ==
    ASSUME scenario \in Scenarios, NEW o, NEW phase, NEW otherwise
    PROVE  Taken(o, phase, otherwise)
               \in Eligible(o, phase) \cup Eligible(o, otherwise) \cup {Nothing}
<1>1. \A p : Eligible(o, p) \in SUBSET Nat
  BY ScenarioAssumption DEF Eligible
<1>2. \A p : Eligible(o, p) # {} => FirstOf(Eligible(o, p)) \in Eligible(o, p)
  BY <1>1, FirstIsMember
<1> QED BY <1>2 DEF Taken

\* A perturbation taken before dispatch does not declare the call committed.
LEMMA BeforeDeclares ==
    ASSUME scenario \in Scenarios, NEW o,
           NEW i \in Eligible(o, "before-send") \cup Eligible(o, "before-commit")
    PROVE  i # Nothing /\ scenario[i].actual \in {"unknown", "not-committed"}
BY ScenarioAssumption, DeclarationAssumption
   DEF Eligible, MatchesSelector, IsFault, SemanticPhase, AnyPhase, Nothing

\* A perturbation taken after the dependency ran does not declare it not committed.
LEMMA AfterDeclares ==
    ASSUME scenario \in Scenarios, NEW o,
           NEW i \in Eligible(o, "after-commit-before-response") \cup Eligible(o, "during-response")
    PROVE  i # Nothing /\ scenario[i].actual \in {"unknown", "committed"}
BY ScenarioAssumption, DeclarationAssumption
   DEF Eligible, MatchesSelector, IsFault, SemanticPhase, AnyPhase, Nothing

\* The call of d is where it was.
Waits(d) ==
    /\ UNCHANGED <<scenario, setup>>
    /\ pc'[d] = pc[d] /\ op'[d] = op[d] /\ fault'[d] = fault[d]
    /\ answer'[d] = answer[d] /\ calls'[d] = calls[d]
    /\ completions'[d] = completions[d]

\* outcomeMetadata of true answers, declarations and inferences is true.
LEMMA MetadataIsTrue ==
    ASSUME NEW type, NEW truth, NEW heard \in {truth, NoAnswer},
           NEW declared \in {"unknown", truth}, NEW inferred \in {"unknown", truth},
           OutcomeMetadata(type, heard, declared, inferred).source # "unknown"
    PROVE  OutcomeMetadata(type, heard, declared, inferred).actual = truth
BY DEF OutcomeMetadata

\* Whatever a proxy declares, what its history has from an oracle is true.
LEMMA OnlyDeclarationsErr ==
    ASSUME NEW type, NEW truth, NEW heard \in {truth, NoAnswer}, NEW declared,
           OutcomeMetadata(type, heard, declared, "unknown").source # "unknown"
    PROVE  \/ OutcomeMetadata(type, heard, declared, "unknown").actual = truth
           \/ OutcomeMetadata(type, heard, declared, "unknown").source = "declared"
BY DEF OutcomeMetadata

\* What the invariants of the three bindings take from their run.
Context == HistoryInv /\ scenario \in Scenarios /\ setup \in Setups

---------------------------------------------------------------------------

(* D1.  How far a call of d1.ts is says how much of it is in the database: nothing
   before it is dispatched, all of it when it returned and, under a contract probe, at
   least what applyPrefix saw succeed.  So a perturbation's declaration is true from the moment it
   is taken. *)

D1Claim(c) ==
    Settled(c) => \A i \in DOMAIN completions[c] :
        completions[c][i].source # "unknown" =>
            \/ completions[c][i].actual = D1!Truth(c)
            \/ /\ completions[c][i].source = "declared"
               /\ D1!RefusedLate(c) \/ D1!LandedUnseen(c)

\* The call was given a contract probe, and probes are allowed.
ProbeGiven(c) == AllowContractProbes /\ fault[c] # Nothing /\ D1!IsProbe(Perturbed(c))

D1Call(c) ==
    /\ pc[c] = "dispatched" => fault[c] = Nothing
    /\ pc[c] = "asking" => applied[c] # {}
    /\ pc[c] = "failing" => Perturbed(c).actual \in {"unknown", D1!Truth(c)}
    /\ pc[c] \in {"prefix", "prefix asking"} =>
           /\ ProbeGiven(c) /\ committed[c] \subseteq applied[c]
           /\ committed[c] # {} \/ applied[c] = {} \/ rejected[c]
    /\ applied[c] \in {{}, D1!All(c)} \/ ProbeGiven(c)
    /\ D1Claim(c)

D1Inv ==
    /\ DOMAIN applied = Callers /\ DOMAIN committed = Callers /\ DOMAIN rejected = Callers
    /\ \A c \in Callers : D1!Mine(c) => D1Call(c)

\* A call that no step touched is as it was.
LEMMA D1Waits ==
    ASSUME NEW d \in Callers, Waits(d), applied'[d] = applied[d], committed'[d] = committed[d],
           rejected'[d] = rejected[d], D1!Mine(d) => D1Call(d)
    PROVE  (D1!Mine(d) => D1Call(d))'
BY DEF Waits, D1!Mine, D1Call, D1Claim, ProbeGiven, D1!Truth, D1!All, Settled, Perturbed,
       AllowContractProbes, D1!RefusedLate, D1!LandedUnseen

\* Nothing is in the database when a call begins.
LEMMA D1BeginsTruly ==
    ASSUME Context, NEW c \in Callers, NEW name, D1!Begin(c, name), D1Inv
    PROVE  D1Call(c)'
<1> DEFINE before == Taken(Indexed(name), "before-commit", "before-send")
           probes == D1!ProbesAt(Indexed(name))
           probe == IF probes = {} THEN Nothing ELSE FirstOf(probes)
<1>1. before \in Eligible(Indexed(name), "before-send")
                 \cup Eligible(Indexed(name), "before-commit") \cup {Nothing}
  BY TakenIsEligible DEF Context
<1>2. before # Nothing => scenario[before].actual \in {"unknown", "not-committed"}
  BY <1>1, BeforeDeclares DEF Context
<1>3. probe # Nothing => D1!IsProbe(scenario[probe])
  <2>1. probes \in SUBSET Nat /\ \A i \in probes : D1!IsProbe(scenario[i])
    BY ScenarioAssumption DEF D1!ProbesAt, D1!Eligible, Context
  <2> HIDE DEF probes
  <2> QED BY <2>1, FirstIsMember
<1>4. \/ before # Nothing /\ fault' = [fault EXCEPT ![c] = before] /\ D1!Decide(c, before, TRUE)
      \/ fault' = [fault EXCEPT ![c] = probe] /\ D1!Decide(c, probe, FALSE)
  BY DEF D1!Begin, D1!Taken, Taken, D1!Eligible, Eligible, D1!FirstOf, FirstOf,
         D1!Indexed, Indexed, D1!MatchesSelector, MatchesSelector, D1!AnyPhase,
         AnyPhase, D1!Nothing, Nothing, D1!IsFault, IsFault, D1!SemanticPhase, SemanticPhase
<1> HIDE DEF before, probe
<1>5. /\ UNCHANGED <<scenario, setup>>
      /\ applied'[c] = {} /\ committed'[c] = {}
  BY DEF D1!Begin, D1Inv
<1>6. \/ pc'[c] = "dispatched" /\ fault'[c] = Nothing
      \/ pc'[c] = "idle" /\ completions'[c] = <<D1!RefusalEntry>>
      \/ pc'[c] = "failing" /\ scenario[fault'[c]].actual \in {"unknown", "not-committed"}
      \/ /\ pc'[c] = "prefix" /\ AllowContractProbes
         /\ fault'[c] # Nothing /\ D1!IsProbe(scenario[fault'[c]])
  BY <1>2, <1>3, <1>4 DEF D1!Decide, D1!Go, D1!Settle, D1!Refused, D1!AllowContractProbes,
     AllowContractProbes, D1!Nothing, Nothing, Context, HistoryInv, Total
<1>7. D1!Truth(c)' = "not-committed"
  BY <1>5 DEF D1!Truth
<1>8. D1Claim(c)'
  <2>1. pc'[c] # "idle" \/ completions'[c] = <<D1!RefusalEntry>>
    BY <1>6
  <2> QED BY <1>7, <2>1 DEF D1Claim, Settled, D1!RefusalEntry
<1>9. ProbeGiven(c)' \/ pc'[c] \notin {"prefix", "prefix asking"}
  BY <1>5, <1>6 DEF ProbeGiven, Perturbed, AllowContractProbes
<1>10. pc'[c] = "failing" => Perturbed(c)'.actual \in {"unknown", "not-committed"}
  BY <1>5, <1>6 DEF Perturbed
<1> QED BY <1>5, <1>6, <1>7, <1>8, <1>9, <1>10 DEF D1Call

\* A step that completes the call with a true entry.
LEMMA D1EndsTruly ==
    ASSUME HistoryInv, D1Inv, NEW c \in Callers, D1!Mine(c), pc[c] # "idle",
           UNCHANGED <<scenario, setup>>, UNCHANGED <<op, fault, applied, committed, rejected>>,
           pc'[c] = "idle",
           NEW entry, completions' = [completions EXCEPT ![c] = Append(@, entry)],
           entry.source # "unknown" => \/ entry.actual = D1!Truth(c)
                                       \/ entry.source = "declared" /\ D1!LandedUnseen(c)
    PROVE  D1Call(c)'
<1>1. completions'[c] = <<entry>>
  <2>1. completions[c] = <<>> /\ completions'[c] = Append(completions[c], entry)
    BY DEF HistoryInv, Total, CallIsRecorded
  <2> QED BY <2>1
<1>2. D1Claim(c)'
  <2>1. D1!Truth(c)' = D1!Truth(c) /\ D1!LandedUnseen(c)' = D1!LandedUnseen(c)
    BY DEF D1!Truth, D1!LandedUnseen
  <2> QED BY <1>1, <2>1 DEF D1Claim
<1>3. applied[c] \in {{}, D1!All(c)} \/ ProbeGiven(c)
  BY DEF D1Inv, D1Call
<1>4. ProbeGiven(c)' = ProbeGiven(c) /\ D1!All(c)' = D1!All(c)
  BY DEF ProbeGiven, D1!All, Perturbed, AllowContractProbes
<1> QED BY <1>2, <1>3, <1>4 DEF D1Call

\* Every step of a D1 call keeps what is claimed of it true.
LEMMA D1StepsTruly ==
    ASSUME Context, D1Inv, NEW c \in Callers, D1!Mine(c), D1!Progress(c) \/ D1!Apply(c)
    PROVE  D1Call(c)'
<1> USE DEF Context, HistoryInv, Total
<1>1. /\ D1Call(c) /\ DOMAIN applied = Callers /\ DOMAIN committed = Callers
      /\ DOMAIN rejected = Callers
  BY DEF D1Inv
<1>2. CASE D1!Apply(c)
  <2>1. /\ UNCHANGED <<scenario, setup, pc, op, fault, completions>> /\ pc[c] = "dispatched"
        /\ applied'[c] = D1!All(c)
    BY <1>1, <1>2 DEF D1!Apply, D1!controllerVars, D1!proxyVars
  <2>2. applied'[c] = D1!All(c)' /\ pc'[c] = "dispatched"
    BY <2>1 DEF D1!All
  <2>3. fault'[c] = Nothing
    BY <1>1, <2>1 DEF D1Call
  <2> QED BY <2>2, <2>3 DEF D1Call, D1Claim, Settled
<1>3. CASE D1!Return(c)
  <2> DEFINE after == Taken(op[c], "after-commit-before-response", "during-response")
  <2>1. after = Nothing \/ scenario[after].actual \in {"unknown", "committed"}
    BY TakenIsEligible, AfterDeclares
  <2>2. /\ UNCHANGED <<scenario, setup, op, applied, committed>>
        /\ pc[c] = "dispatched" /\ applied[c] # {} /\ fault'[c] = after
        /\ \/ pc'[c] = "asking"
           \/ pc'[c] = "failing" /\ after # Nothing
           \/ /\ pc'[c] = "idle" /\ answer'[c] = "refused"
              /\ completions'[c] = completions[c] \o D1!LateRefusal(c)
    BY <1>3 DEF D1!Return, D1!Taken, Taken, D1!Eligible, Eligible, D1!FirstOf, FirstOf,
                D1!MatchesSelector, MatchesSelector, D1!AnyPhase, AnyPhase, D1!Nothing, Nothing,
                D1!IsFault, IsFault, D1!SemanticPhase, SemanticPhase, D1!Go, D1!Settle, D1!d1Vars
  <2> HIDE DEF after
  <2>3. applied[c] \in {{}, D1!All(c)}
    BY <1>1, <2>2 DEF D1Call, ProbeGiven
  <2>4. D1!Truth(c)' = "committed" /\ applied'[c] \in {{}, D1!All(c)'}
    BY <2>2, <2>3 DEF D1!Truth, D1!All
  <2>5. pc'[c] = "failing" => Perturbed(c)'.actual \in {"unknown", D1!Truth(c)'}
    BY <2>1, <2>2, <2>4 DEF Perturbed
  <2>6. pc'[c] = "idle" => D1Claim(c)'
    <3> SUFFICES ASSUME pc'[c] = "idle" PROVE D1Claim(c)'
      OBVIOUS
    <3>1. completions[c] = <<>>
      BY <2>2 DEF CallIsRecorded
    <3>2. completions'[c] = <<>> \o D1!LateRefusal(c) /\ D1!RefusedLate(c)'
      BY <2>2, <3>1 DEF D1!RefusedLate
    <3>3. \/ completions'[c] = <<D1!RefusalEntry>>
          \/ completions'[c] = <<D1!RefusalEntry, D1!UnknownEntry>>
      BY <3>2 DEF D1!LateRefusal
    <3>4. D1!RefusalEntry.source = "declared" /\ D1!UnknownEntry.source = "unknown"
      BY DEF D1!RefusalEntry, D1!UnknownEntry
    <3>5. \A i \in DOMAIN completions'[c] :
             completions'[c][i].source # "unknown" => completions'[c][i].source = "declared"
      BY <3>3, <3>4
    <3> QED BY <3>2, <3>5 DEF D1Claim
  <2>7. D1Claim(c)'
    BY <2>2, <2>6 DEF D1Claim, Settled
  <2> QED BY <2>2, <2>4, <2>5, <2>7 DEF D1Call
<1>4. CASE D1!Reject(c)
  <2>1. D1!UnknownEntry.source = "unknown"
    BY DEF D1!UnknownEntry
  <2> QED BY <1>4, <2>1, D1EndsTruly DEF D1!Reject, D1!Complete, D1!Settle, D1!d1Vars
<1>5. CASE D1!Succeed(c)
  <2>1. PICK heard \in D1!Told(D1!Truth(c)) :
          D1!Complete(c, D1!OutcomeMetadata("ok", heard, "unknown", "committed"))
    BY <1>5 DEF D1!Succeed
  <2> DEFINE entry == OutcomeMetadata("ok", heard, "unknown", "committed")
  <2>2. D1!Truth(c) = "committed" /\ heard \in {D1!Truth(c), NoAnswer}
    BY <1>1, <1>5 DEF D1Call, D1!Succeed, D1!Truth, D1!Told, D1!NoAnswer, NoAnswer
  <2>3. entry.source # "unknown" => entry.actual = D1!Truth(c)
    BY <2>2, MetadataIsTrue
  <2>4. D1!Complete(c, entry)
    BY <2>1 DEF D1!OutcomeMetadata, OutcomeMetadata, D1!NoAnswer, NoAnswer
  <2> HIDE DEF entry
  <2> QED BY <1>5, <2>3, <2>4, D1EndsTruly DEF D1!Succeed, D1!Complete, D1!Settle, D1!d1Vars
<1>6. CASE D1!CompleteFailure(c)
  <2>1. PICK heard \in D1!Told(D1!Truth(c)) : D1!Complete(c, D1!InjectedEntry(c, heard))
    BY <1>6 DEF D1!CompleteFailure
  <2> DEFINE entry == OutcomeMetadata(IF Ambiguous(c) THEN "info" ELSE "fail", heard,
                                      Perturbed(c).actual, "unknown")
  <2>2. Perturbed(c).actual \in {"unknown", D1!Truth(c)} /\ heard \in {D1!Truth(c), NoAnswer}
    BY <1>1, <1>6 DEF D1Call, D1!CompleteFailure, D1!Told, D1!NoAnswer, NoAnswer
  <2>3. entry.source # "unknown" => entry.actual = D1!Truth(c)
    BY <2>2, MetadataIsTrue
  <2>4. D1!Complete(c, entry)
    BY <2>1 DEF D1!InjectedEntry, D1!OutcomeMetadata, OutcomeMetadata, D1!NoAnswer, NoAnswer,
                D1!Ambiguous, Ambiguous, D1!Perturbed, Perturbed
  <2> HIDE DEF entry
  <2> QED BY <1>6, <2>3, <2>4, D1EndsTruly DEF D1!CompleteFailure, D1!Complete, D1!Settle,
             D1!d1Vars
<1>7. CASE D1!CompletePrefix(c)
  <2>1. PICK heard \in D1!Told(D1!Truth(c)) :
          D1!Complete(c, D1!OutcomeMetadata("info", heard, D1!DeclaredOfPrefix(c), "unknown"))
    BY <1>7 DEF D1!CompletePrefix
  <2> DEFINE entry == OutcomeMetadata("info", heard, D1!DeclaredOfPrefix(c), "unknown")
  <2>2. /\ D1!DeclaredOfPrefix(c) = D1!Truth(c) \/ D1!LandedUnseen(c)
        /\ heard \in {D1!Truth(c), NoAnswer}
    BY <1>1, <1>7 DEF D1Call, D1!CompletePrefix, D1!Told, D1!NoAnswer, NoAnswer,
                      D1!DeclaredOfPrefix, D1!Truth, D1!LandedUnseen
  <2>3. entry.source # "unknown" => \/ entry.actual = D1!Truth(c)
                                    \/ entry.source = "declared" /\ D1!LandedUnseen(c)
    <3>1. CASE D1!DeclaredOfPrefix(c) = D1!Truth(c)
      BY <2>2, <3>1, MetadataIsTrue
    <3>2. CASE D1!LandedUnseen(c)
      BY <2>2, <3>2, OnlyDeclarationsErr
    <3> QED BY <2>2, <3>1, <3>2
  <2>4. D1!Complete(c, entry)
    BY <2>1 DEF D1!OutcomeMetadata, OutcomeMetadata, D1!NoAnswer, NoAnswer
  <2> HIDE DEF entry
  <2> QED BY <1>7, <2>3, <2>4, D1EndsTruly DEF D1!CompletePrefix, D1!Complete, D1!Settle,
             D1!d1Vars
<1>8. CASE D1!StatementRuns(c) \/ D1!StatementRejects(c) \/ D1!DropTheRest(c)
  <2>1. UNCHANGED <<scenario, setup, op, fault>> /\ pc[c] = "prefix"
    BY <1>8 DEF D1!StatementRuns, D1!StatementRejects, D1!DropTheRest, D1!Running,
                D1!controllerVars, D1!proxyVars
  <2>2. /\ ProbeGiven(c) /\ committed[c] \subseteq applied[c]
        /\ committed[c] # {} \/ applied[c] = {} \/ rejected[c]
    BY <1>1, <2>1 DEF D1Call
  <2>3. ProbeGiven(c)'
    BY <2>1, <2>2 DEF ProbeGiven, Perturbed, AllowContractProbes
  <2>4. pc'[c] \in {"prefix", "prefix asking"}
    BY <1>8, <2>1 DEF D1!StatementRuns, D1!StatementRejects, D1!DropTheRest, D1!Go,
                D1!controllerVars, D1!proxyVars
  <2>5. /\ committed'[c] \subseteq applied'[c]
        /\ committed'[c] # {} \/ applied'[c] = {} \/ rejected'[c]
    <3>1. CASE D1!StatementRuns(c)
      BY <1>1, <2>2, <3>1 DEF D1!StatementRuns
    <3>2. CASE D1!StatementRejects(c)
      <4>1. PICK more : applied' = [applied EXCEPT ![c] = @ \cup more]
        BY <3>2 DEF D1!StatementRejects
      <4> QED BY <1>1, <2>2, <3>2, <4>1 DEF D1!StatementRejects
    <3>3. CASE D1!DropTheRest(c)
      BY <1>1, <2>2, <3>3 DEF D1!DropTheRest, D1!d1Vars
    <3> QED BY <1>8, <3>1, <3>2, <3>3
  <2> QED BY <2>3, <2>4, <2>5 DEF D1Call, D1Claim, Settled
<1> QED BY <1>2, <1>3, <1>4, <1>5, <1>6, <1>7, <1>8 DEF D1!Progress

\* So does every step of D1 for the calls of all callers.
LEMMA D1KeepsInv ==
    ASSUME Context, D1Inv, NEW c \in Callers, D1!Next(c)
    PROVE  D1Inv'
<1>1. CallStep(c)
  BY D1IsRecorded DEF Context
<1>2. /\ DOMAIN applied' = Callers /\ DOMAIN committed' = Callers /\ DOMAIN rejected' = Callers
      /\ \A d \in Callers \ {c} :
            applied'[d] = applied[d] /\ committed'[d] = committed[d] /\ rejected'[d] = rejected[d]
  BY DEF D1Inv, D1!Next, D1!Progress, D1!Begin, D1!Return, D1!Reject, D1!Succeed,
     D1!CompleteFailure,
     D1!StatementRuns, D1!StatementRejects, D1!DropTheRest, D1!CompletePrefix, D1!Apply, D1!d1Vars
<1>3. ASSUME NEW d \in Callers \ {c} PROVE (D1!Mine(d) => D1Call(d))'
  BY <1>1, <1>2, <1>3, D1Waits DEF CallStep, OthersWait, Waits, D1Inv
<1>4. (D1!Mine(c) => D1Call(c))'
  BY D1BeginsTruly, D1StepsTruly DEF D1!Next, D1!Progress
<1> QED BY <1>2, <1>3, <1>4 DEF D1Inv

---------------------------------------------------------------------------
(* R2.  The same of invoke, where a read is never committed and applyPartPrefix knows
   from an error that nothing landed, unless the call landed and threw. *)

R2Claim(c) ==
    Settled(c) => \A i \in DOMAIN completions[c] :
        completions[c][i].source # "unknown" =>
            \/ completions[c][i].actual = R2!Truth(c)
            \/ completions[c][i].source = "declared" /\ R2!LandedUnseen(c)

R2Call(c) ==
    /\ pc[c] = "asking" => landed[c]
    /\ pc[c] = "failing" => Perturbed(c).actual \in {"unknown", R2!Truth(c)}
    /\ pc[c] \in {"prefix", "prefix asking"} => AllowContractProbes /\ R2!IsMutation(op[c].name)
    /\ pc[c] = "prefix asking" => failed[c] \/ landed[c]
    /\ R2Claim(c)

R2Inv ==
    /\ DOMAIN landed = Callers /\ DOMAIN failed = Callers
    /\ \A c \in Callers : R2!Mine(c) => R2Call(c)
    /\ R2!ObjectIsWhole

\* A call that no step touched is as it was.
LEMMA R2Waits ==
    ASSUME NEW d \in Callers, Waits(d), landed'[d] = landed[d], failed'[d] = failed[d],
           R2!Mine(d) => R2Call(d)
    PROVE  (R2!Mine(d) => R2Call(d))'
BY DEF Waits, R2!Mine, R2Call, R2Claim, R2!Truth, R2!LandedUnseen, Settled, Perturbed,
       AllowContractProbes

\* Nothing has landed in the bucket when a call begins.
LEMMA R2BeginsTruly ==
    ASSUME Context, R2Inv, NEW c \in Callers, NEW name, R2!Begin(c, name)
    PROVE  R2Call(c)'
<1> DEFINE o == Indexed(name)
           before == R2!TakenBefore(o)
           probes == R2!ProbesAt(o)
           probe == IF before # Nothing \/ probes = {} THEN Nothing ELSE FirstOf(probes)
           given == IF before # Nothing THEN before ELSE probe
           refusal == given # Nothing /\ R2!Refused(scenario[given])
<1>1. before # Nothing => scenario[before].actual \in {"unknown", "not-committed"}
  <2>1. before = Taken(o, IF R2!IsMutation(o.name) THEN "before-commit" ELSE "before-send",
                       "before-commit")
    BY DEF R2!TakenBefore, R2!Taken, Taken, R2!Eligible, Eligible, R2!FirstOf, FirstOf,
           R2!MatchesSelector, MatchesSelector, R2!AnyPhase, AnyPhase, R2!Nothing, Nothing,
           R2!IsFault, IsFault, R2!SemanticPhase, SemanticPhase
  <2> HIDE DEF o
  <2> QED BY <2>1, TakenIsEligible, BeforeDeclares DEF Context
<1>2. probe # Nothing => R2!IsProbe(scenario[probe]) /\ o.name = R2!CompleteUpload
  <2>1. probes \in SUBSET Nat
        /\ \A i \in probes : R2!IsProbe(scenario[i]) /\ o.name = R2!CompleteUpload
    BY ScenarioAssumption DEF R2!ProbesAt, R2!Eligible, Context
  <2> HIDE DEF probes
  <2> QED BY <2>1, FirstIsMember
<1>3. /\ UNCHANGED <<scenario, setup>> /\ landed'[c] = FALSE
      /\ op' = [op EXCEPT ![c] = o]
  BY DEF R2!Begin, R2Inv, R2!Indexed, Indexed
<1>4. /\ fault' = [fault EXCEPT ![c] = given]
      /\ completions' = [completions EXCEPT ![c] = IF refusal THEN <<R2!RefusalEntry>> ELSE <<>>]
      /\ IF refusal THEN pc' = [pc EXCEPT ![c] = "idle"]
         ELSE pc' = [pc EXCEPT ![c] = IF given = Nothing THEN "dispatched"
                                      ELSE IF before # Nothing THEN "failing" ELSE "prefix"]
  BY DEF R2!Begin, R2!Settle, R2!Go, R2!Indexed, Indexed, R2!FirstOf, FirstOf, R2!Nothing, Nothing
<1> HIDE DEF before, probe, o
<1>5. \/ pc'[c] = "dispatched"
      \/ pc'[c] = "idle" /\ completions'[c] = <<R2!RefusalEntry>>
      \/ pc'[c] = "failing" /\ scenario[fault'[c]].actual \in {"unknown", "not-committed"}
      \/ pc'[c] = "prefix" /\ AllowContractProbes /\ R2!IsMutation(op'[c].name)
  <2>1. R2!IsMutation(R2!CompleteUpload)
    BY DEF R2!IsMutation, R2!CompleteUpload, R2!HeadObject
  <2> QED BY <1>1, <1>2, <1>3, <1>4, <2>1 DEF R2!Refused, R2!AllowContractProbes,
     AllowContractProbes, Context, HistoryInv, Total
<1>6. R2!Truth(c)' = "not-committed"
  BY <1>3 DEF R2!Truth
<1>7. R2Claim(c)'
  <2>1. pc'[c] # "idle" \/ completions'[c] = <<R2!RefusalEntry>>
    BY <1>5
  <2> QED BY <1>6, <2>1 DEF R2Claim, Settled, R2!RefusalEntry
<1>8. pc'[c] = "failing" => Perturbed(c)'.actual \in {"unknown", "not-committed"}
  BY <1>3, <1>5 DEF Perturbed
<1> QED BY <1>3, <1>5, <1>6, <1>7, <1>8 DEF R2Call, AllowContractProbes

\* A step that completes the call with a true entry.
LEMMA R2EndsTruly ==
    ASSUME HistoryInv, NEW c \in Callers, pc[c] # "idle",
           UNCHANGED <<op, landed, failed>>, pc'[c] = "idle",
           NEW entry, completions' = [completions EXCEPT ![c] = Append(@, entry)],
           entry.source # "unknown" => \/ entry.actual = R2!Truth(c)
                                       \/ entry.source = "declared" /\ R2!LandedUnseen(c)
    PROVE  R2Call(c)'
<1>1. completions'[c] = <<entry>>
  <2>1. completions[c] = <<>> /\ completions'[c] = Append(completions[c], entry)
    BY DEF HistoryInv, Total, CallIsRecorded
  <2> QED BY <2>1
<1>2. R2Claim(c)'
  <2>1. R2!Truth(c)' = R2!Truth(c) /\ R2!LandedUnseen(c)' = R2!LandedUnseen(c)
    BY DEF R2!Truth, R2!LandedUnseen
  <2> QED BY <1>1, <2>1 DEF R2Claim
<1> QED BY <1>2 DEF R2Call

\* Every step of an R2 call keeps what is claimed of it true.
LEMMA R2StepsTruly ==
    ASSUME Context, R2Inv, NEW c \in Callers, R2!Mine(c),
           R2!Progress(c) \/ R2!Apply(c) \/ R2!PrefixApplies(c)
    PROVE  R2Call(c)'
<1> USE DEF Context, HistoryInv, Total
<1>1. R2Call(c) /\ DOMAIN landed = Callers /\ DOMAIN failed = Callers
  BY DEF R2Inv
<1>2. CASE R2!Apply(c) \/ R2!PrefixApplies(c)
  <2>1. /\ UNCHANGED <<scenario, setup, pc, op>> /\ pc[c] \in {"dispatched", "prefix"}
    BY <1>2 DEF R2!Apply, R2!PrefixApplies, R2!controllerVars, R2!proxyVars
  <2> QED BY <1>1, <2>1 DEF R2Call, R2Claim, Settled, AllowContractProbes
<1>3. CASE R2!Return(c)
  <2> DEFINE after == R2!TakenAfter(op[c])
  <2>1. \/ after = Nothing
        \/ scenario[after].actual \in {"unknown", "committed"} /\ R2!IsMutation(op[c].name)
    <3>1. after = IF R2!IsMutation(op[c].name)
                  THEN Taken(op[c], "after-commit-before-response", "during-response") ELSE Nothing
      BY DEF R2!TakenAfter, R2!Taken, Taken, R2!Eligible, Eligible, R2!FirstOf, FirstOf,
             R2!MatchesSelector, MatchesSelector, R2!AnyPhase, AnyPhase, R2!Nothing, Nothing,
             R2!IsFault, IsFault, R2!SemanticPhase, SemanticPhase
    <3> DEFINE taken == Taken(op[c], "after-commit-before-response", "during-response")
    <3>2. taken = Nothing \/ scenario[taken].actual \in {"unknown", "committed"}
      BY TakenIsEligible, AfterDeclares
    <3> HIDE DEF after, taken
    <3> QED BY <3>1, <3>2 DEF taken
  <2>2. /\ UNCHANGED <<scenario, op, landed>> /\ landed[c] /\ fault'[c] = after
        /\ pc'[c] = IF after = Nothing THEN "asking" ELSE "failing"
    BY <1>3 DEF R2!Return, R2!Nothing, Nothing, R2!Go, R2!callVars
  <2> HIDE DEF after
  <2>3. R2!IsMutation(op[c].name) => R2!Truth(c)' = "committed"
    BY <2>2 DEF R2!Truth
  <2>4. pc'[c] = "failing" => Perturbed(c)'.actual \in {"unknown", R2!Truth(c)'}
    BY <2>1, <2>2, <2>3 DEF Perturbed
  <2> QED BY <2>2, <2>4 DEF R2Call, R2Claim, Settled
<1>4. CASE R2!Reject(c)
  <2>1. R2!UnknownEntry.source = "unknown"
    BY DEF R2!UnknownEntry
  <2> QED BY <1>4, <2>1, R2EndsTruly DEF R2!Reject, R2!Complete, R2!Settle, R2!callVars
<1>5. CASE R2!Succeed(c)
  <2>1. PICK said \in R2!Told(R2!Truth(c)) :
          R2!Complete(c, R2!OutcomeMetadata("ok", said, "unknown", R2!Inferred(op[c].name)))
    BY <1>5 DEF R2!Succeed
  <2> DEFINE entry == OutcomeMetadata("ok", said, "unknown", R2!Inferred(op[c].name))
  <2>2. R2!Inferred(op[c].name) \in {"unknown", R2!Truth(c)} /\ said \in {R2!Truth(c), NoAnswer}
    BY <1>1, <1>5 DEF R2Call, R2!Succeed, R2!Truth, R2!Told, R2!NoAnswer, NoAnswer, R2!Inferred
  <2>3. entry.source # "unknown" => entry.actual = R2!Truth(c)
    BY <2>2, MetadataIsTrue
  <2>4. R2!Complete(c, entry)
    BY <2>1 DEF R2!OutcomeMetadata, OutcomeMetadata, R2!NoAnswer, NoAnswer
  <2> HIDE DEF entry
  <2> QED BY <1>5, <2>3, <2>4, R2EndsTruly DEF R2!Succeed, R2!Complete, R2!Settle, R2!callVars
<1>6. CASE R2!Injected(c)
  <2>1. PICK said \in R2!Told(R2!Truth(c)) : R2!Complete(c, R2!InjectedEntry(c, said))
    BY <1>6 DEF R2!Injected
  <2> DEFINE entry == OutcomeMetadata(IF Ambiguous(c) THEN "info" ELSE "fail", said,
                                      Perturbed(c).actual, "unknown")
  <2>2. Perturbed(c).actual \in {"unknown", R2!Truth(c)} /\ said \in {R2!Truth(c), NoAnswer}
    BY <1>1, <1>6 DEF R2Call, R2!Injected, R2!Told, R2!NoAnswer, NoAnswer
  <2>3. entry.source # "unknown" => entry.actual = R2!Truth(c)
    BY <2>2, MetadataIsTrue
  <2>4. R2!Complete(c, entry)
    BY <2>1 DEF R2!InjectedEntry, R2!OutcomeMetadata, OutcomeMetadata, R2!NoAnswer, NoAnswer,
                R2!Ambiguous, Ambiguous, R2!Perturbed, Perturbed
  <2> HIDE DEF entry
  <2> QED BY <1>6, <2>3, <2>4, R2EndsTruly DEF R2!Injected, R2!Complete, R2!Settle, R2!callVars
<1>7. CASE R2!CompletePrefix(c)
  <2>1. PICK said \in R2!Told(R2!Truth(c)) :
          R2!Complete(c, R2!OutcomeMetadata("info", said, R2!DeclaredOfPrefix(c), "unknown"))
    BY <1>7 DEF R2!CompletePrefix
  <2> DEFINE entry == OutcomeMetadata("info", said, R2!DeclaredOfPrefix(c), "unknown")
  <2>2. /\ R2!DeclaredOfPrefix(c) = R2!Truth(c) \/ R2!LandedUnseen(c)
        /\ said \in {R2!Truth(c), NoAnswer}
    BY <1>1, <1>7 DEF R2Call, R2!CompletePrefix, R2!Told, R2!NoAnswer, NoAnswer,
                      R2!DeclaredOfPrefix, R2!Truth, R2!LandedUnseen
  <2>3. entry.source # "unknown" => \/ entry.actual = R2!Truth(c)
                                    \/ entry.source = "declared" /\ R2!LandedUnseen(c)
    <3>1. CASE R2!DeclaredOfPrefix(c) = R2!Truth(c)
      BY <2>2, <3>1, MetadataIsTrue
    <3>2. CASE R2!LandedUnseen(c)
      BY <2>2, <3>2, OnlyDeclarationsErr
    <3> QED BY <2>2, <3>1, <3>2
  <2>4. R2!Complete(c, entry)
    BY <2>1 DEF R2!OutcomeMetadata, OutcomeMetadata, R2!NoAnswer, NoAnswer
  <2> HIDE DEF entry
  <2> QED BY <1>7, <2>3, <2>4, R2EndsTruly DEF R2!CompletePrefix, R2!Complete, R2!Settle,
             R2!callVars
<1>8. CASE R2!PrefixSettles(c)
  <2>1. /\ UNCHANGED <<scenario, setup, op, landed>> /\ pc[c] = "prefix" /\ pc'[c] = "prefix asking"
    BY <1>8 DEF R2!PrefixSettles, R2!Go, R2!controllerVars
  <2>2. AllowContractProbes /\ R2!IsMutation(op[c].name)
    BY <1>1, <2>1 DEF R2Call
  <2>3. failed'[c] \/ landed[c]
    BY <1>1, <1>8 DEF R2!PrefixSettles
  <2> QED BY <2>1, <2>2, <2>3 DEF R2Call, R2Claim, Settled, AllowContractProbes
<1> QED BY <1>2, <1>3, <1>4, <1>5, <1>6, <1>7, <1>8 DEF R2!Progress

\* Only a probe leaves an object with fewer parts than were listed.
LEMMA R2KeepsObject ==
    ASSUME Context, R2Inv, NEW c \in Callers, R2!Next(c), UNCHANGED d1Vars
    PROVE  R2!ObjectIsWhole'
<1>1. setup' = setup /\ R2!ObjectIsWhole
  BY R2IsRecorded DEF Context, CallStep, R2Inv
<1>2. CASE R2!Apply(c)
  <2>1. R2!Perform(c, op[c].name, told[c], {})
    BY <1>2 DEF R2!Apply
  <2> QED BY <1>1, <2>1 DEF R2!Perform, R2!ObjectIsWhole, R2!AllowContractProbes
<1>3. CASE R2!Mine(c) /\ R2!PrefixApplies(c)
  <2>1. AllowContractProbes
    BY <1>3 DEF R2Inv, R2Call, R2!PrefixApplies
  <2> QED BY <1>1, <2>1 DEF R2!ObjectIsWhole, R2!AllowContractProbes, AllowContractProbes
<1>4. CASE object' = object
  BY <1>1, <1>4 DEF R2!ObjectIsWhole, R2!AllowContractProbes
<1> QED BY <1>2, <1>3, <1>4 DEF R2!Next, R2!Progress, R2!Begin, R2!Return, R2!Reject, R2!Succeed,
     R2!Injected, R2!PrefixSettles, R2!CompletePrefix, R2!bucketVars

\* Every step of R2 keeps the invariant for the calls of all callers.
LEMMA R2KeepsInv ==
    ASSUME Context, R2Inv, NEW c \in Callers, R2!Next(c), UNCHANGED d1Vars
    PROVE  R2Inv'
<1>1. CallStep(c)
  BY R2IsRecorded DEF Context
<1>2. /\ DOMAIN landed' = Callers /\ DOMAIN failed' = Callers
      /\ \A d \in Callers \ {c} : landed'[d] = landed[d] /\ failed'[d] = failed[d]
  BY DEF R2Inv, R2!Next, R2!Progress, R2!Begin, R2!Return, R2!Reject, R2!Succeed, R2!Injected,
     R2!PrefixApplies, R2!PrefixSettles, R2!CompletePrefix, R2!Apply, R2!callVars
<1>3. ASSUME NEW d \in Callers \ {c} PROVE (R2!Mine(d) => R2Call(d))'
  BY <1>1, <1>2, <1>3, R2Waits DEF CallStep, OthersWait, Waits, R2Inv
<1>4. (R2!Mine(c) => R2Call(c))'
  BY R2BeginsTruly, R2StepsTruly DEF R2!Next, R2!Progress
<1> QED BY <1>2, <1>3, <1>4, R2KeepsObject DEF R2Inv

---------------------------------------------------------------------------
(* Hyperdrive.  A query under way either has not run or ran at a version of the
   database.  A read that ran while its caller waits is no older than the caller's last
   acknowledged write, because the caller has made no other call since. *)

HyperdriveClaim(c) ==
    (/\ Settled(c)
     /\ Hyperdrive!ReadOnly(c) => completions[c][1].type = "ok"
     /\ completions[c][1].source # "unknown") =>
        completions[c][1].actual = Hyperdrive!Truth(c)

HyperdriveRead(c) ==
    (Settled(c) /\ Hyperdrive!ReadOnly(c) /\ answer[c] \in {"result", "cached"}) =>
        \/ version[c] >= own[c]
        \/ fault[c] # Nothing /\ Perturbed(c).kind = "cached-read"

HyperdriveCall(c) ==
    /\ pc[c] = "asking" => version[c] > 0
    /\ (pc[c] \in {"dispatched", "asking"} /\ Hyperdrive!ReadOnly(c) /\ version[c] > 0) =>
           version[c] >= own[c]
    /\ (pc[c] = "failing" /\ ~Hyperdrive!ReadOnly(c)) =>
           Perturbed(c).actual \in {"unknown", Hyperdrive!Truth(c)}
    /\ HyperdriveClaim(c)
    /\ HyperdriveRead(c)

\* No version is ahead of the database's.
VersionsExist ==
    /\ origin \in Nat
    /\ version \in [Callers -> 0 .. origin]
    /\ own \in [Callers -> 0 .. origin]
    /\ cache \in [Reads -> 0 .. origin]

HyperdriveInv ==
    /\ VersionsExist
    /\ \A c \in Callers : Hyperdrive!Mine(c) => HyperdriveCall(c)

\* A call that no step touched is as it was.
LEMMA HyperdriveWaits ==
    ASSUME NEW d \in Callers, Waits(d), version'[d] = version[d], own'[d] = own[d],
           Hyperdrive!Mine(d) => HyperdriveCall(d)
    PROVE  (Hyperdrive!Mine(d) => HyperdriveCall(d))'
BY DEF Waits, Hyperdrive!Mine, HyperdriveCall, HyperdriveClaim, HyperdriveRead, Hyperdrive!Truth,
       Hyperdrive!ReadOnly, Settled, Perturbed

\* What the looking fault() finds is what take would.
LEMMA FoundIsEligible ==
    ASSUME scenario \in Scenarios, NEW o, NEW phase, NEW otherwise
    PROVE  Hyperdrive!FaultAt(o, phase, otherwise)
               \in Eligible(o, phase) \cup Eligible(o, otherwise) \cup {Nothing}
<1> DEFINE At(p) == Hyperdrive!FaultsAt(o, p)
<1>1. \A p : At(p) \subseteq Eligible(o, p)
  BY DEF Hyperdrive!FaultsAt, Hyperdrive!Eligible, Eligible, Hyperdrive!MatchesSelector,
         MatchesSelector, Hyperdrive!IsFault, IsFault, Hyperdrive!SemanticPhase, SemanticPhase,
         Hyperdrive!AnyPhase, AnyPhase
<1>2. \A p : At(p) \in SUBSET Nat
  BY ScenarioAssumption DEF Hyperdrive!FaultsAt, Hyperdrive!Eligible
<1>3. Hyperdrive!FaultAt(o, phase, otherwise) =
        IF At(phase) # {} THEN FirstOf(At(phase))
        ELSE IF At(otherwise) # {} THEN FirstOf(At(otherwise)) ELSE Nothing
  BY DEF Hyperdrive!FaultAt, Hyperdrive!FirstOf, FirstOf, Hyperdrive!Nothing, Nothing
<1> HIDE DEF At
<1>4. \A p : At(p) # {} => FirstOf(At(p)) \in At(p)
  BY <1>2, FirstIsMember
<1> QED BY <1>1, <1>3, <1>4

\* A query that begins has not run, or is answered by a cached-read variation.
LEMMA HyperdriveBeginsTruly ==
    ASSUME Context, HyperdriveInv, NEW c \in Callers, NEW name, Hyperdrive!Begin(c, name)
    PROVE  HyperdriveCall(c)'
<1> DEFINE o == Indexed(name)
           before == Hyperdrive!FaultAt(o, "before-send", "before-commit")
           hits == Hyperdrive!CachedReadsAt(o)
           hit == before = Nothing /\ hits # {}
           given == IF hit THEN FirstOf(hits) ELSE before
<1>1. before # Nothing => scenario[before].actual \in {"unknown", "not-committed"}
  <2> HIDE DEF o
  <2> QED BY FoundIsEligible, BeforeDeclares DEF Context
<1>2. hit => given # Nothing /\ scenario[given].kind = "cached-read" /\ name \in Reads
  <2>1. hits \in SUBSET (Nat \ {0})
        /\ \A i \in hits : scenario[i].kind = "cached-read" /\ name \in Reads
    BY ScenarioAssumption DEF Hyperdrive!CachedReadsAt, Hyperdrive!Eligible, Context, Indexed
  <2> HIDE DEF hits, before
  <2> QED BY <2>1, FirstIsMember DEF Nothing
<1>3. /\ UNCHANGED <<scenario, setup>>
      /\ op' = [op EXCEPT ![c] = o]
  BY DEF Hyperdrive!Begin, Hyperdrive!Indexed, Indexed
<1>4. /\ fault' = [fault EXCEPT ![c] = given]
      /\ version' = [version EXCEPT ![c] = IF hit THEN cache[name] ELSE 0]
      /\ completions' = [completions EXCEPT ![c] = IF hit THEN <<Hyperdrive!CachedEntry>> ELSE <<>>]
      /\ IF hit THEN pc' = [pc EXCEPT ![c] = "idle"]
         ELSE pc' = [pc EXCEPT ![c] = IF given = Nothing THEN "dispatched" ELSE "failing"]
  BY DEF Hyperdrive!Begin, Hyperdrive!Settle, Hyperdrive!Go, Hyperdrive!Indexed, Indexed,
         Hyperdrive!FirstOf, FirstOf, Hyperdrive!Nothing, Nothing
<1> HIDE DEF before, hits
<1>5. o.name = name
  BY DEF Indexed
<1> HIDE DEF o
<1>6. op'[c].name = name /\ fault'[c] = given
  BY <1>3, <1>4, <1>5 DEF Context, HistoryInv, Total
<1>7. CASE hit
  <2>1. pc'[c] = "idle" /\ completions'[c] = <<Hyperdrive!CachedEntry>>
    BY <1>4, <1>7 DEF Context, HistoryInv, Total
  <2>2. Hyperdrive!Truth(c)' = "not-committed"
    BY <1>2, <1>6, <1>7 DEF Hyperdrive!Truth, Hyperdrive!ReadOnly
  <2>3. HyperdriveClaim(c)'
    BY <2>1, <2>2 DEF HyperdriveClaim, Hyperdrive!CachedEntry
  <2>4. HyperdriveRead(c)'
    BY <1>2, <1>3, <1>6, <1>7 DEF HyperdriveRead, Perturbed
  <2> QED BY <2>1, <2>3, <2>4 DEF HyperdriveCall
<1>8. CASE ~hit
  <2>1. /\ pc'[c] = IF before = Nothing THEN "dispatched" ELSE "failing"
        /\ fault'[c] = before /\ version'[c] = 0
    BY <1>4, <1>8 DEF Context, HistoryInv, Total, HyperdriveInv, VersionsExist
  <2>2. Hyperdrive!Truth(c)' = "not-committed"
    BY <2>1 DEF Hyperdrive!Truth
  <2>3. pc'[c] = "failing" => Perturbed(c)'.actual \in {"unknown", "not-committed"}
    BY <1>1, <1>3, <2>1 DEF Perturbed
  <2> QED BY <2>1, <2>2, <2>3 DEF HyperdriveCall, HyperdriveClaim, HyperdriveRead, Settled
<1> QED BY <1>7, <1>8

\* A step that completes the query with a true entry.
LEMMA HyperdriveEndsTruly ==
    ASSUME HistoryInv, HyperdriveInv, NEW c \in Callers, pc[c] # "idle",
           UNCHANGED <<op, version>>, pc'[c] = "idle",
           NEW entry, completions' = [completions EXCEPT ![c] = Append(@, entry)],
           (entry.source # "unknown" /\ (Hyperdrive!ReadOnly(c) => entry.type = "ok")) =>
               entry.actual = Hyperdrive!Truth(c),
           HyperdriveRead(c)'
    PROVE  HyperdriveCall(c)'
<1>1. completions'[c] = <<entry>>
  <2>1. completions[c] = <<>> /\ completions'[c] = Append(completions[c], entry)
    BY DEF HistoryInv, Total, CallIsRecorded
  <2> QED BY <2>1
<1>2. Hyperdrive!Truth(c)' = Hyperdrive!Truth(c) /\ Hyperdrive!ReadOnly(c)' = Hyperdrive!ReadOnly(c)
  BY DEF Hyperdrive!Truth, Hyperdrive!ReadOnly
<1>3. HyperdriveClaim(c)'
  BY <1>1, <1>2 DEF HyperdriveClaim
<1> QED BY <1>3 DEF HyperdriveCall

\* Every step of a query keeps what is claimed of it true, and its read fresh.
LEMMA HyperdriveStepsTruly ==
    ASSUME Context, HyperdriveInv, NEW c \in Callers, Hyperdrive!Mine(c),
           Hyperdrive!Progress(c) \/ Hyperdrive!Apply(c)
    PROVE  HyperdriveCall(c)'
<1> USE DEF Context, HistoryInv, Total
<1>1. HyperdriveCall(c) /\ VersionsExist
  BY DEF HyperdriveInv
<1>2. version[c] \in 0 .. origin /\ own[c] \in 0 .. origin /\ origin \in Nat
  BY <1>1 DEF VersionsExist
<1>3. CASE Hyperdrive!Apply(c)
  <2>1. /\ UNCHANGED <<scenario, setup, pc, op, own>> /\ pc[c] = "dispatched"
        /\ version'[c] = IF Hyperdrive!ReadOnly(c) THEN origin ELSE origin + 1
    BY <1>1, <1>3 DEF Hyperdrive!Apply, Hyperdrive!controllerVars, Hyperdrive!proxyVars,
       VersionsExist
  <2>2. Hyperdrive!ReadOnly(c)' => version'[c] >= own'[c]
    BY <1>2, <2>1 DEF Hyperdrive!ReadOnly
  <2> QED BY <2>1, <2>2 DEF HyperdriveCall, HyperdriveClaim, HyperdriveRead, Settled
<1>4. CASE Hyperdrive!Return(c)
  <2> DEFINE after == Hyperdrive!FaultAt(op[c], "after-commit-before-response", "during-response")
  <2>1. after = Nothing \/ scenario[after].actual \in {"unknown", "committed"}
    BY FoundIsEligible, AfterDeclares
  <2>2. /\ UNCHANGED <<scenario, op, version, own>> /\ version[c] > 0 /\ fault'[c] = after
        /\ pc[c] = "dispatched" /\ pc'[c] = IF after = Nothing THEN "asking" ELSE "failing"
    BY <1>4 DEF Hyperdrive!Return, Hyperdrive!Nothing, Nothing, Hyperdrive!Go
  <2> HIDE DEF after
  <2>3. ~Hyperdrive!ReadOnly(c)' => Hyperdrive!Truth(c)' = "committed"
    BY <2>2 DEF Hyperdrive!Truth, Hyperdrive!ReadOnly
  <2>4. pc'[c] = "failing" /\ ~Hyperdrive!ReadOnly(c)' =>
          Perturbed(c)'.actual \in {"unknown", Hyperdrive!Truth(c)'}
    BY <2>1, <2>2, <2>3 DEF Perturbed
  <2>5. Hyperdrive!ReadOnly(c)' => version'[c] >= own'[c]
    BY <1>1, <2>2 DEF HyperdriveCall, Hyperdrive!ReadOnly
  <2> QED BY <2>2, <2>4, <2>5 DEF HyperdriveCall, HyperdriveClaim, HyperdriveRead, Settled
<1>5. CASE Hyperdrive!Reject(c)
  <2>1. Hyperdrive!UnknownEntry.source = "unknown"
    BY DEF Hyperdrive!UnknownEntry
  <2>2. HyperdriveRead(c)'
    BY <1>5 DEF Hyperdrive!Reject, Hyperdrive!Settle, HyperdriveRead
  <2> QED BY <1>5, <2>1, <2>2, HyperdriveEndsTruly DEF Hyperdrive!Reject, Hyperdrive!Complete,
       Hyperdrive!Settle, Hyperdrive!hyperdriveVars
<1>6. CASE Hyperdrive!Succeed(c)
  <2>1. PICK said \in Hyperdrive!Told(Hyperdrive!Truth(c)) :
          Hyperdrive!Complete(c,
            Hyperdrive!OutcomeMetadata("ok", said, "unknown", Hyperdrive!Inferred(c)))
    BY <1>6 DEF Hyperdrive!Succeed
  <2> DEFINE entry == OutcomeMetadata("ok", said, "unknown", Hyperdrive!Inferred(c))
  <2>2. version[c] > 0 /\ (Hyperdrive!ReadOnly(c) => version[c] >= own[c])
    BY <1>1, <1>6 DEF HyperdriveCall, Hyperdrive!Succeed
  <2>3. Hyperdrive!Inferred(c) = Hyperdrive!Truth(c) /\ said \in {Hyperdrive!Truth(c), NoAnswer}
    BY <2>2 DEF Hyperdrive!Truth, Hyperdrive!Told, Hyperdrive!NoAnswer, NoAnswer,
       Hyperdrive!Inferred
  <2>4. entry.source # "unknown" => entry.actual = Hyperdrive!Truth(c)
    BY <2>3, MetadataIsTrue
  <2>5. Hyperdrive!Complete(c, entry)
    BY <2>1 DEF Hyperdrive!OutcomeMetadata, OutcomeMetadata, Hyperdrive!NoAnswer, NoAnswer
  <2>6. HyperdriveRead(c)'
    BY <1>1, <1>6, <2>2 DEF Hyperdrive!Succeed, HyperdriveRead, Hyperdrive!ReadOnly, VersionsExist
  <2> HIDE DEF entry
  <2> QED BY <1>6, <2>4, <2>5, <2>6, HyperdriveEndsTruly DEF Hyperdrive!Succeed,
             Hyperdrive!Complete,
       Hyperdrive!Settle
<1>7. CASE Hyperdrive!Fail(c)
  <2>1. PICK said \in Hyperdrive!Told(Hyperdrive!Truth(c)) :
          Hyperdrive!Complete(c, Hyperdrive!InjectedEntry(c, said))
    BY <1>7 DEF Hyperdrive!Fail
  <2> DEFINE type == IF Ambiguous(c) THEN "info" ELSE "fail"
             entry == OutcomeMetadata(type, said, Perturbed(c).actual, "unknown")
  <2>2. ~Hyperdrive!ReadOnly(c) => Perturbed(c).actual \in {"unknown", Hyperdrive!Truth(c)}
    BY <1>1, <1>7 DEF HyperdriveCall, Hyperdrive!Fail
  <2>3. said \in {Hyperdrive!Truth(c), NoAnswer}
    BY DEF Hyperdrive!Told, Hyperdrive!NoAnswer, NoAnswer
  <2>4. ~Hyperdrive!ReadOnly(c) /\ entry.source # "unknown" => entry.actual = Hyperdrive!Truth(c)
    BY <2>2, <2>3, MetadataIsTrue
  <2>5. entry.type # "ok"
    BY DEF OutcomeMetadata
  <2>6. Hyperdrive!Complete(c, entry)
    BY <2>1 DEF Hyperdrive!InjectedEntry, Hyperdrive!OutcomeMetadata, OutcomeMetadata,
                Hyperdrive!NoAnswer, NoAnswer, Hyperdrive!Ambiguous, Ambiguous,
                Hyperdrive!Perturbed, Perturbed
  <2>7. HyperdriveRead(c)'
    BY <1>7 DEF Hyperdrive!Fail, Hyperdrive!Settle, HyperdriveRead
  <2> HIDE DEF entry
  <2> QED BY <1>7, <2>4, <2>5, <2>6, <2>7, HyperdriveEndsTruly DEF Hyperdrive!Fail,
       Hyperdrive!Complete, Hyperdrive!Settle, Hyperdrive!hyperdriveVars
<1> QED BY <1>3, <1>4, <1>5, <1>6, <1>7 DEF Hyperdrive!Progress

\* No step makes up a version the database did not have.
LEMMA VersionsKeepExisting ==
    ASSUME VersionsExist, NEW c \in Callers, Hyperdrive!Next(c)
    PROVE  /\ VersionsExist'
           /\ \A d \in Callers \ {c} : version'[d] = version[d] /\ own'[d] = own[d]
<1> USE DEF VersionsExist
<1>1. ASSUME NEW name \in Queries, Hyperdrive!Begin(c, name)
      PROVE  /\ UNCHANGED <<origin, own, cache>>
             /\ version' \in [Callers -> 0 .. origin]
             /\ \A d \in Callers \ {c} : version'[d] = version[d]
  <2>1. /\ UNCHANGED <<origin, own, cache>>
        /\ \/ version' = [version EXCEPT ![c] = 0]
           \/ name \in Reads /\ version' = [version EXCEPT ![c] = cache[name]]
    BY <1>1 DEF Hyperdrive!Begin, Hyperdrive!CachedReadsAt, Hyperdrive!Indexed
  <2> QED BY <2>1
<1>2. CASE Hyperdrive!Apply(c)
  BY <1>2 DEF Hyperdrive!Apply
<1>3. CASE Hyperdrive!Return(c)
  BY <1>3 DEF Hyperdrive!Return, Hyperdrive!Remembered, Hyperdrive!ReadOnly
<1>4. CASE Hyperdrive!Succeed(c)
  BY <1>4 DEF Hyperdrive!Succeed
<1>5. CASE Hyperdrive!Reject(c) \/ Hyperdrive!Fail(c)
  BY <1>5 DEF Hyperdrive!Reject, Hyperdrive!Fail, Hyperdrive!hyperdriveVars
<1> QED BY <1>1, <1>2, <1>3, <1>4, <1>5 DEF Hyperdrive!Next, Hyperdrive!Progress

\* Every step of Hyperdrive keeps the invariant for the queries of all callers.
LEMMA HyperdriveKeepsInv ==
    ASSUME Context, HyperdriveInv, NEW c \in Callers, Hyperdrive!Next(c), UNCHANGED d1Vars
    PROVE  HyperdriveInv'
<1>1. CallStep(c)
  BY HyperdriveIsRecorded DEF Context
<1>2. /\ VersionsExist'
      /\ \A d \in Callers \ {c} : version'[d] = version[d] /\ own'[d] = own[d]
  BY VersionsKeepExisting DEF HyperdriveInv
<1>3. ASSUME NEW d \in Callers \ {c} PROVE (Hyperdrive!Mine(d) => HyperdriveCall(d))'
  BY <1>1, <1>2, <1>3, HyperdriveWaits DEF CallStep, OthersWait, Waits, HyperdriveInv
<1>4. (Hyperdrive!Mine(c) => HyperdriveCall(c))'
  BY HyperdriveBeginsTruly, HyperdriveStepsTruly DEF Hyperdrive!Next, Hyperdrive!Progress
<1> QED BY <1>2, <1>3, <1>4 DEF HyperdriveInv

---------------------------------------------------------------------------

(* The three together.  A step of one binding leaves the others' data alone, and turns
   its caller's call into one of its own. *)

TruthInv == Context /\ D1Inv /\ R2Inv /\ HyperdriveInv

\* A step of another binding.
LEMMA OthersKeepD1 ==
    ASSUME D1Inv, NEW c \in Callers, CallStep(c), UNCHANGED d1Vars,
           op'[c].name \notin D1!D1Names
    PROVE  D1Inv'
<1>1. \A d \in Callers :
         applied'[d] = applied[d] /\ committed'[d] = committed[d] /\ rejected'[d] = rejected[d]
  BY DEF d1Vars
<1>2. ASSUME NEW d \in Callers \ {c} PROVE (D1!Mine(d) => D1Call(d))'
  BY <1>1, <1>2, D1Waits DEF CallStep, OthersWait, Waits, D1Inv
<1> QED BY <1>2 DEF D1Inv, D1!Mine, d1Vars

\* The same for R2.
LEMMA OthersKeepR2 ==
    ASSUME R2Inv, NEW c \in Callers, CallStep(c), UNCHANGED r2Vars,
           op'[c].name \notin R2!R2Names
    PROVE  R2Inv'
<1>1. \A d \in Callers : landed'[d] = landed[d] /\ failed'[d] = failed[d]
  BY DEF r2Vars
<1>2. ASSUME NEW d \in Callers \ {c} PROVE (R2!Mine(d) => R2Call(d))'
  BY <1>1, <1>2, R2Waits DEF CallStep, OthersWait, Waits, R2Inv
<1>3. R2!ObjectIsWhole'
  BY DEF R2Inv, R2!ObjectIsWhole, R2!AllowContractProbes, CallStep, r2Vars
<1> QED BY <1>2, <1>3 DEF R2Inv, R2!Mine, r2Vars

\* The same for Hyperdrive.
LEMMA OthersKeepHyperdrive ==
    ASSUME HyperdriveInv, NEW c \in Callers, CallStep(c), UNCHANGED hyperdriveVars,
           op'[c].name \notin Queries
    PROVE  HyperdriveInv'
<1>1. \A d \in Callers : version'[d] = version[d] /\ own'[d] = own[d]
  BY DEF hyperdriveVars
<1>2. ASSUME NEW d \in Callers \ {c} PROVE (Hyperdrive!Mine(d) => HyperdriveCall(d))'
  BY <1>1, <1>2, HyperdriveWaits DEF CallStep, OthersWait, Waits, HyperdriveInv
<1>3. VersionsExist'
  BY DEF HyperdriveInv, VersionsExist, hyperdriveVars
<1> QED BY <1>2, <1>3 DEF HyperdriveInv, Hyperdrive!Mine, hyperdriveVars

\* Nothing was called, so that nothing is claimed.
LEMMA InitIsTrue == Init => TruthInv
<1> SUFFICES ASSUME Init PROVE TruthInv
  OBVIOUS
<1>1. HistoryInv
  BY InitIsRecorded
<1>2. /\ scenario \in Scenarios /\ setup \in Setups
      /\ \A c \in Callers : pc[c] = "idle" /\ calls[c] = 0
  BY DEF Init, D1!Init, D1!ProxyInit, D1!ControllerInit
<1>3. D1Inv
  <2>1. /\ applied = [c \in Callers |-> {}] /\ committed = [c \in Callers |-> {}]
        /\ rejected = [c \in Callers |-> FALSE]
    BY DEF Init, D1!Init
  <2>2. ASSUME NEW c \in Callers PROVE D1Call(c)
    <3>1. pc[c] = "idle" /\ ~Settled(c) /\ applied[c] = {}
      BY <1>2, <2>1 DEF Settled
    <3>2. pc[c] \notin {"dispatched", "asking", "failing", "prefix", "prefix asking"}
      BY <3>1
    <3> QED BY <3>1, <3>2 DEF D1Call, D1Claim
  <2> QED BY <2>1, <2>2 DEF D1Inv
<1>4. R2Inv
  <2>1. landed = [c \in Callers |-> FALSE] /\ failed = [c \in Callers |-> FALSE]
    BY DEF Init, R2!Init
  <2>2. R2!ObjectIsWhole
    BY DEF Init, R2!Init, R2!NoObject, R2!ObjectIsWhole
  <2>3. ASSUME NEW c \in Callers PROVE R2Call(c)
    <3>1. pc[c] = "idle" /\ ~Settled(c)
      BY <1>2 DEF Settled
    <3>2. pc[c] \notin {"dispatched", "asking", "failing", "prefix", "prefix asking"}
      BY <3>1
    <3> QED BY <3>1, <3>2 DEF R2Call, R2Claim
  <2> QED BY <2>1, <2>2, <2>3 DEF R2Inv
<1>5. HyperdriveInv
  BY <1>2 DEF Init, Hyperdrive!Init, HyperdriveInv, VersionsExist, HyperdriveCall,
     HyperdriveClaim,
     HyperdriveRead, Settled
<1> QED BY <1>1, <1>2, <1>3, <1>4, <1>5 DEF TruthInv, Context

\* Steps of different bindings compose.
LEMMA StepIsTrue == TruthInv /\ [Next]_vars => TruthInv'
<1> SUFFICES ASSUME TruthInv, [Next]_vars PROVE TruthInv'
  OBVIOUS
<1> USE DEF TruthInv
<1>1. HistoryInv'
  BY RecordIsKept DEF Context
<1>2. ASSUME NEW c \in Callers, D1!Next(c), UNCHANGED <<r2Vars, hyperdriveVars>> PROVE TruthInv'
  <2>1. CallStep(c) /\ op'[c].name \in D1!D1Names
    BY <1>2, D1IsRecorded, CallBelongs DEF Context, HistoryInv
  <2>2. op'[c].name \notin R2!R2Names /\ op'[c].name \notin Queries
    BY <2>1, BindingsAssumption
  <2> QED BY <1>1, <1>2, <2>1, <2>2, D1KeepsInv, OthersKeepR2,
             OthersKeepHyperdrive DEF CallStep, Context
<1>3. ASSUME NEW c \in Callers, R2!Next(c), UNCHANGED <<d1Vars, hyperdriveVars>> PROVE TruthInv'
  <2>1. CallStep(c) /\ op'[c].name \in R2!R2Names
    BY <1>3, R2IsRecorded, CallBelongs DEF Context, HistoryInv
  <2>2. op'[c].name \notin D1!D1Names /\ op'[c].name \notin Queries
    BY <2>1, BindingsAssumption
  <2> QED BY <1>1, <1>3, <2>1, <2>2, R2KeepsInv, OthersKeepD1,
             OthersKeepHyperdrive DEF CallStep, Context
<1>4. ASSUME NEW c \in Callers, Hyperdrive!Next(c), UNCHANGED <<d1Vars, r2Vars>> PROVE TruthInv'
  <2>1. CallStep(c) /\ op'[c].name \in Queries
    BY <1>4, HyperdriveIsRecorded, CallBelongs DEF Context, HistoryInv
  <2>2. op'[c].name \notin D1!D1Names /\ op'[c].name \notin R2!R2Names
    BY <2>1, BindingsAssumption
  <2> QED BY <1>1, <1>4, <2>1, <2>2, HyperdriveKeepsInv, OthersKeepD1,
             OthersKeepR2 DEF CallStep, Context
<1>5. CASE UNCHANGED vars
  <2>1. UNCHANGED <<scenario, setup, d1Vars, r2Vars, hyperdriveVars>> /\ \A d \in Callers : Waits(d)
    BY <1>5 DEF vars, controllerVars, proxyVars, Waits
  <2>2. D1Inv'
    BY <2>1, D1Waits DEF d1Vars, D1Inv
  <2>3. R2Inv'
    BY <2>1, R2Waits DEF r2Vars, R2Inv, R2!ObjectIsWhole, R2!AllowContractProbes
  <2>4. HyperdriveInv'
    BY <2>1, HyperdriveWaits DEF hyperdriveVars, HyperdriveInv, VersionsExist
  <2> QED BY <1>1, <2>1, <2>2, <2>3, <2>4 DEF Context
<1> QED BY <1>2, <1>3, <1>4, <1>5 DEF Next

\* What the three proxies record of a call under way determines its truth.
THEOREM TruthInvariant == Spec => []TruthInv
<1> QED BY InitIsTrue, StepIsTrue, PTL DEF Spec

\* Whatever an oracle, a declaration or an inference of d1.ts, r2.ts and hyperdrive.ts
\* puts on record about a call is true of the dependency, however it was cut off.
THEOREM ClaimsAreTrue == Spec => []ClaimedOutcomesAreTrue
<1>1. TruthInv => ClaimedOutcomesAreTrue
  <2> SUFFICES ASSUME TruthInv PROVE ClaimedOutcomesAreTrue
    OBVIOUS
  <2>1. D1!ClaimedOutcomeIsTrue
    BY Zenon DEF TruthInv, D1Inv, D1Call, D1Claim, D1!ClaimedOutcomeIsTrue, D1!Settled, Settled
  <2>2. R2!ClaimedOutcomeIsTrue
    BY Zenon DEF TruthInv, R2Inv, R2Call, R2Claim, R2!ClaimedOutcomeIsTrue, R2!Settled, Settled
  <2>3. Hyperdrive!ClaimedOutcomeIsTrue
    BY DEF TruthInv, HyperdriveInv, HyperdriveCall, HyperdriveClaim,
       Hyperdrive!ClaimedOutcomeIsTrue,
       Hyperdrive!Settled, Settled
  <2> QED BY <2>1, <2>2, <2>3 DEF ClaimedOutcomesAreTrue
<1> QED BY <1>1, TruthInvariant, PTL

\* Batches and multipart completions are never applied in part without a contract probe,
\* and callers read their own acknowledged writes unless the scenario says otherwise.
THEOREM DataStaysWhole == Spec => []DataIsWhole
<1>1. TruthInv => DataIsWhole
  <2> SUFFICES ASSUME TruthInv PROVE DataIsWhole
    OBVIOUS
  <2>1. D1!BatchesAreAtomic
    BY DEF TruthInv, D1Inv, D1Call, ProbeGiven, D1!BatchesAreAtomic, D1!AllowContractProbes,
       AllowContractProbes, D1!Nothing, Nothing, D1!Perturbed, Perturbed
  <2>2. R2!ObjectIsWhole
    BY DEF TruthInv, R2Inv
  <2>3. Hyperdrive!ReadsSeeOwnWrites
    BY DEF TruthInv, HyperdriveInv, HyperdriveCall, HyperdriveRead, Hyperdrive!ReadsSeeOwnWrites,
       Hyperdrive!Settled, Settled, Hyperdrive!Nothing, Nothing, Hyperdrive!Perturbed, Perturbed
  <2> QED BY <2>1, <2>2, <2>3 DEF DataIsWhole
<1> QED BY <1>1, TruthInvariant, PTL
---------------------------------------------------------------------------
(* Workers obey scenarios, for any scenarios, profiles, routes and keys, however the
   application's requests interleave with the control plane's calls. *)

Served == [kind : Texts, behind : Nat, remaining : Nat, of : Nat, by : Nat]
AnyOrKey == KvKeys \cup {AnyKey}

WorkersTypes ==
    /\ stage \in [doing : {"reset", "seed", "apply", "run"}, with : 1 .. 3,
                  told : Nat, observing : BOOLEAN]
    /\ present \in [scenario : Seq(Perturbations), number : Nat]
    /\ DOMAIN plan \subseteq Nat
    /\ \A i \in DOMAIN plan : plan[i].occurrence \in Nat
    /\ fired \in [DOMAIN plan -> Nat]
    /\ requested \in [Routes -> Nat]
    /\ views \in [Regions \X AnyOrKey -> Served]
    /\ manual \in [AnyOrKey -> Served]
    /\ observer \in Regions
    /\ stale \in [DOMAIN present.scenario -> Nat]

\* What the control plane has prepared so far.
ServiceCleared == \/ Doing("reset") /\ stage.with > 1
                  \/ Doing("seed")
                  \/ Doing("apply") /\ stage.with = 1
KvCleared == \/ Doing("reset") /\ stage.with > 2
             \/ Doing("seed")
             \/ Doing("apply") /\ stage.with = 1

PlanInv ==
    /\ ServiceCleared => DOMAIN plan = {}
    /\ \A i \in DOMAIN plan : plan[i].of = present.number
    /\ RulesFireOnTime

\* A rule KV's Worker holds stands for a perturbation it has been told of, and has no
\* more reads left than that asks for.
StandsFor(rule, kind) ==
    /\ rule.of = present.number
    /\ rule.by \in DOMAIN present.scenario
    /\ Doing("apply") /\ stage.with <= 2 => rule.by <= stage.told
    /\ rule.kind = kind /\ present.scenario[rule.by].kind = kind
    /\ rule.behind = present.scenario[rule.by].behind
    /\ stale[rule.by] + rule.remaining <= present.scenario[rule.by].reads

ViewsInv ==
    /\ KvCleared => (\A v \in Regions \X AnyOrKey : views[v] = NoRule)
    /\ \A region \in Regions, key \in AnyOrKey :
          LET rule == views[<<region, key>>]
          IN  rule # NoRule =>
                 /\ StandsFor(rule, "stale-read")
                 /\ present.scenario[rule.by].region = region
                 /\ present.scenario[rule.by].key = key

ManualInv ==
    /\ KvCleared => (\A key \in AnyOrKey : manual[key] = NoRule)
    /\ \A key \in AnyOrKey :
          manual[key] # NoRule =>
             /\ StandsFor(manual[key], "stale-negative-read")
             /\ present.scenario[manual[key].by].key = key

ToldInv ==
    /\ stage.with = 1 => stage.told = 0
    /\ Doing("apply") /\ stage.with <= 2 =>
          \A i \in DOMAIN present.scenario : i > stage.told => stale[i] = 0

WorkersInv ==
    WorkersTypes /\ PlanInv /\ ViewsInv /\ ManualInv /\ ToldInv /\ StaleReadsAreAsked

LEMMA LeastPlace ==
    ASSUME NEW S, S \subseteq Nat, S # {}
    PROVE  FirstIn(S) \in S /\ \A n \in S : FirstIn(S) <= n
<1> DEFINE Below == {pair \in Nat \X Nat : pair[1] < pair[2]}
<1>1. IsWellFoundedOn(Below, Nat)
  BY NatLessThanWellFounded DEF OpToRel
<1>2. PICK least \in S : \A n \in S : ~(<<n, least>> \in Below)
  <2> HIDE DEF Below
  <2> QED BY <1>1, WFMin
<1>3. least \in Nat /\ \A n \in S : n \in Nat /\ ~(n < least)
  BY <1>2
<1>4. \E i \in S : \A j \in S : i <= j
  BY <1>2, <1>3
<1> QED BY <1>4 DEF FirstIn

LEMMA RegionScenariosAreScenarios == RegionScenarios \subseteq Seq(Perturbations)
<1> SUFFICES ASSUME NEW profile \in Profiles, NEW given \in KeyLists
             PROVE  RegionPerturbations(profile, IF given = <<>> THEN <<AnyKey>> ELSE given)
                    \in Seq(Perturbations)
  BY DEF RegionScenarios
<1> DEFINE keys == IF given = <<>> THEN <<AnyKey>> ELSE given
           Of(target, kind) ==
             [Blank EXCEPT !.target = target, !.kind = kind, !.region = profile.id]
           When(asked, p) == IF asked THEN <<p>> ELSE <<>>
           Lag(key) == [Of("kv", "stale-read")
                          EXCEPT !.key = key, !.behind = profile.behind, !.reads = 1]
           Negative(key) == [Of("kv", "stale-negative-read") EXCEPT !.key = key, !.reads = 1]
           both == [i \in 1 .. 2 * Len(keys) |-> IF i % 2 = 1 THEN Lag(keys[(i + 1) \div 2])
                                                 ELSE Negative(keys[i \div 2])]
           lags == [i \in DOMAIN keys |-> Lag(keys[i])]
           negatives == [i \in DOMAIN keys |-> Negative(keys[i])]
           ofKeys == CASE profile.behind > 0 /\ profile.negative -> both
                       [] profile.behind > 0 /\ ~profile.negative -> lags
                       [] profile.behind = 0 /\ profile.negative -> negatives
                       [] OTHER -> <<>>
           ofReplica == When(profile.behind > 0,
                             [Of("d1", "replica-lag") EXCEPT !.behind = profile.behind])
           ofService == When(profile.latency > 0, Of("service", "latency"))
<1>1. /\ keys \in Seq(KvKeys \cup {AnyKey}) /\ Len(keys) \in Nat /\ DOMAIN keys = 1 .. Len(keys)
      /\ \A i \in 1 .. Len(keys) : keys[i] \in KvKeys \cup {AnyKey}
  <2>1. given \in Seq(KvKeys)
    BY NemesisAssumption
  <2>2. given \in Seq(KvKeys \cup {AnyKey}) /\ <<AnyKey>> \in Seq(KvKeys \cup {AnyKey})
    BY <2>1
  <2>3. keys \in Seq(KvKeys \cup {AnyKey})
    BY <2>2
  <2> HIDE DEF keys
  <2> QED BY <2>3
<1>2. profile.id \in Regions /\ profile.behind \in Nat
  BY NemesisAssumption
<1>3. Blank \in Perturbations
  BY NemesisAssumption DEF Blank, Perturbations, AnyOf, AnyKey
<1> HIDE DEF keys
<1>10. \A target, kind \in Texts : Of(target, kind) \in Perturbations
  BY <1>2, <1>3 DEF Perturbations
<1>11. /\ \A key \in KvKeys \cup {AnyKey} : Lag(key) \in Perturbations /\ Negative(key) \in Perturbations
       /\ [Of("d1", "replica-lag") EXCEPT !.behind = profile.behind] \in Perturbations
       /\ Of("service", "latency") \in Perturbations
  <2>1. /\ Of("kv", "stale-read") \in Perturbations
        /\ Of("kv", "stale-negative-read") \in Perturbations
        /\ Of("d1", "replica-lag") \in Perturbations
        /\ Of("service", "latency") \in Perturbations
    BY <1>10, NemesisAssumption
  <2> HIDE DEF Of
  <2> QED BY <1>2, <2>1 DEF Perturbations
<1> HIDE DEF Of, Lag, Negative
<1>4. both \in Seq(Perturbations)
  <2>1. ASSUME NEW i \in 1 .. 2 * Len(keys) PROVE both[i] \in Perturbations
    <3>1. CASE i % 2 = 1
      <4>1. (i + 1) \div 2 \in 1 .. Len(keys)
        BY <1>1, <3>1
      <4> QED BY <1>11, <1>1, <3>1, <4>1
    <3>2. CASE i % 2 # 1
      <4>1. i \div 2 \in 1 .. Len(keys)
        BY <1>1, <3>2
      <4> QED BY <1>11, <1>1, <3>2, <4>1
    <3> QED BY <3>1, <3>2
  <2>2. 2 * Len(keys) \in Nat
    BY <1>1
  <2>3. both \in [1 .. 2 * Len(keys) -> Perturbations]
    BY <2>1
  <2> HIDE DEF both
  <2> QED BY <2>2, <2>3
<1>5. lags \in Seq(Perturbations) /\ negatives \in Seq(Perturbations)
  BY <1>1, <1>11
<1>6. ofReplica \in Seq(Perturbations) /\ ofService \in Seq(Perturbations)
  BY <1>11
<1> HIDE DEF both, lags, negatives
<1>7. ofKeys \in Seq(Perturbations)
  BY <1>4, <1>5
<1>8. RegionPerturbations(profile, keys) = ofKeys \o ofReplica \o ofService
  BY DEF RegionPerturbations, ofKeys, both, lags, negatives, ofReplica, ofService, Lag, Negative, Of
<1> HIDE DEF ofKeys, ofReplica, ofService
<1>9. RegionPerturbations(profile, keys) \in Seq(Perturbations)
  BY <1>6, <1>7, <1>8
<1> QED BY <1>9 DEF keys

\* A scenario's perturbations, and where the control plane may be.
LEMMA TypesMean ==
    ASSUME WorkersTypes
    PROVE  /\ DOMAIN present.scenario \subseteq Nat
           /\ \A i \in DOMAIN present.scenario :
                 /\ present.scenario[i] \in Perturbations
                 /\ present.scenario[i].kind \in Texts
                 /\ present.scenario[i].occurrence \in Nat
                 /\ present.scenario[i].behind \in Nat
                 /\ present.scenario[i].reads \in Nat
                 /\ present.scenario[i].region \in Regions
                 /\ present.scenario[i].key \in AnyOrKey
           /\ stage.doing \in {"reset", "seed", "apply", "run"}
           /\ stage.with \in 1 .. 3 /\ stage.told \in Nat /\ stage.observing \in BOOLEAN
           /\ present.number \in Nat
           /\ Binding = "service" <=> stage.with = 1
           /\ Binding = "kv" <=> stage.with = 2
           /\ Binding = "queue" <=> stage.with = 3
           /\ Active \subseteq DOMAIN present.scenario
<1>1. present.scenario \in Seq(Perturbations)
  BY DEF WorkersTypes
<1>2. /\ DOMAIN present.scenario \subseteq Nat
      /\ \A i \in DOMAIN present.scenario : present.scenario[i] \in Perturbations
  BY <1>1
<1>3. \A p \in Perturbations :
          /\ p.kind \in Texts /\ p.occurrence \in Nat /\ p.behind \in Nat /\ p.reads \in Nat
          /\ p.region \in Regions /\ p.key \in AnyOrKey
  BY DEF Perturbations, AnyOrKey
<1>4. /\ stage.doing \in {"reset", "seed", "apply", "run"} /\ present.number \in Nat
      /\ stage.with \in 1 .. 3 /\ stage.told \in Nat /\ stage.observing \in BOOLEAN
  BY DEF WorkersTypes
<1>5. Binding = IF stage.with = 1 THEN "service" ELSE IF stage.with = 2 THEN "kv" ELSE "queue"
  BY <1>4 DEF Binding, Bindings
<1>6. Active \subseteq DOMAIN present.scenario
  BY DEF Active
<1> QED BY <1>2, <1>3, <1>4, <1>5, <1>6

\* The next perturbation KV's Worker is told of.
LEMMA ToTellMeans ==
    ASSUME WorkersTypes, ToTell # {}
    PROVE  LET next == FirstIn(ToTell)
               p == present.scenario[next]
           IN  /\ next \in ToTell /\ next \in DOMAIN present.scenario
               /\ next \in Nat /\ next > stage.told
               /\ p.kind \in Texts /\ p.behind \in Nat /\ p.reads \in Nat
               /\ p.region \in Regions /\ p.key \in AnyOrKey
<1>1. ToTell \subseteq DOMAIN present.scenario /\ DOMAIN present.scenario \subseteq Nat
  BY TypesMean DEF ToTell
<1>2. FirstIn(ToTell) \in ToTell
  BY <1>1, LeastPlace
<1>3. FirstIn(ToTell) > stage.told
  BY <1>2 DEF ToTell
<1> QED BY <1>1, <1>2, <1>3, TypesMean

LEMMA AdvanceMeans ==
    ASSUME WorkersTypes, NEW doing, NEW then, Advance(doing, then)
    PROVE  /\ stage.with \in {1, 2} =>
                 stage' = [doing |-> doing, with |-> stage.with + 1,
                           told |-> 0, observing |-> FALSE]
           /\ stage.with = 3 =>
                 stage' = [doing |-> then, with |-> 1, told |-> 0, observing |-> FALSE]
<1>1. stage.with \in 1 .. 3 /\ Len(Bindings) = 3
  BY TypesMean DEF Bindings
<1> QED BY <1>1 DEF Advance, From, With

LEMMA WorkersStart == NemesisInit => WorkersInv
<1> SUFFICES ASSUME NemesisInit PROVE WorkersInv
  OBVIOUS
<1>1. /\ stage = [doing |-> "reset", with |-> 1, told |-> 0, observing |-> FALSE]
      /\ present = [scenario |-> <<>>, number |-> 0]
      /\ DOMAIN plan = {} /\ DOMAIN fired = {} /\ DOMAIN stale = {}
      /\ plan = <<>> /\ fired = <<>> /\ stale = <<>>
      /\ DOMAIN present.scenario = {}
      /\ observer = "local" /\ read = NoRead
      /\ requested = [r \in Routes |-> 0]
      /\ views = [v \in Regions \X AnyOrKey |-> NoRule]
      /\ manual = [k \in AnyOrKey |-> NoRule]
  BY DEF NemesisInit, From, With, AnyOrKey
<1>2. NoRule \in Served
  BY NemesisAssumption DEF NoRule, Served
<1>3. WorkersTypes
  <2>1. fired \in [DOMAIN plan -> Nat] /\ stale \in [DOMAIN present.scenario -> Nat]
    BY <1>1
  <2>2. present \in [scenario : Seq(Perturbations), number : Nat]
    BY <1>1
  <2>3. observer \in Regions
    BY <1>1, NemesisAssumption
  <2>4. views \in [Regions \X AnyOrKey -> Served] /\ manual \in [AnyOrKey -> Served]
    BY <1>1, <1>2
  <2> QED BY <1>1, <2>1, <2>2, <2>3, <2>4 DEF WorkersTypes
<1>4. PlanInv
  BY <1>1 DEF PlanInv, RulesFireOnTime
<1>5. \A region \in Regions, key \in AnyOrKey : views[<<region, key>>] = NoRule
  BY <1>1
<1>6. ViewsInv /\ ManualInv
  BY <1>1, <1>5 DEF ViewsInv, ManualInv
<1>7. ToldInv
  BY <1>1 DEF ToldInv
<1>8. StaleReadsAreAsked
  BY <1>1 DEF StaleReadsAreAsked, NoRead
<1> QED BY <1>3, <1>4, <1>6, <1>7, <1>8 DEF WorkersInv

\* A request finds the first rule that matches it, and no rule for another request.
LEMMA RequestsFireOnTime ==
    ASSUME WorkersInv, NEW c \in Clients, NEW route \in Routes, Request(c, route)
    PROVE  RulesFireOnTime'
<1> DEFINE rules == RulesFor(route)
           first == FirstIn(rules)
<1>1. /\ plan' = plan
      /\ requested' = [requested EXCEPT ![route] = requested[route] + 1]
      /\ rules = {} => fired' = fired
      /\ rules # {} => fired' = [fired EXCEPT ![first] = fired[first] + 1]
  BY DEF Request, WorkersInv, WorkersTypes
<1>2. DOMAIN plan \subseteq Nat /\ requested[route] \in Nat /\ fired \in [DOMAIN plan -> Nat]
  BY DEF WorkersInv, WorkersTypes
<1>3. rules \subseteq DOMAIN plan
  BY DEF RulesFor
<1>4. rules # {} => first \in rules /\ \A j \in rules : first <= j
  BY <1>2, <1>3, LeastPlace
<1>5. \A j \in DOMAIN plan :
          j \in rules <=> MatchesRule(plan[j], route, requested[route] + 1)
  BY DEF RulesFor
<1> HIDE DEF rules, first
<1> SUFFICES ASSUME NEW i \in DOMAIN plan, plan[i].occurrence > 0, plan[i].route \in Routes
             PROVE  LET r == plan[i]
                        taken == \E j \in DOMAIN plan :
                                    j < i /\ MatchesRule(plan[j], r.route, r.occurrence)
                    IN  fired'[i] = IF requested'[r.route] >= r.occurrence /\ ~taken
                                    THEN 1 ELSE 0
  BY <1>1 DEF RulesFireOnTime, MatchesRule
<1> DEFINE r == plan[i]
           taken == \E j \in DOMAIN plan :
                       j < i /\ MatchesRule(plan[j], r.route, r.occurrence)
<1>6. /\ fired[i] = IF requested[r.route] >= r.occurrence /\ ~taken THEN 1 ELSE 0
      /\ r.occurrence \in Nat /\ fired[i] \in Nat /\ requested[r.route] \in Nat
  BY DEF WorkersInv, WorkersTypes, PlanInv, RulesFireOnTime
<1>7. i \in rules => r.route = route /\ r.occurrence = requested[route] + 1
  <2> SUFFICES ASSUME i \in rules PROVE r.route = route /\ r.occurrence = requested[route] + 1
    OBVIOUS
  <2>1. MatchesRule(r, route, requested[route] + 1)
    BY <1>5
  <2>2. r.route.method # AnyOf /\ r.route.path # AnyOf
    BY NemesisAssumption
  <2>3. r.route.method = route.method /\ r.route.path = route.path
    BY <2>1, <2>2 DEF MatchesRule
  <2>4. r.route = route
    BY <2>3, NemesisAssumption
  <2> QED BY <2>1, <2>4 DEF MatchesRule
<1>8. r.route = route /\ r.occurrence = requested[route] + 1 => i \in rules
  BY <1>5 DEF MatchesRule
<1> HIDE DEF r
<1>9. CASE i \in rules
  <2>1. /\ fired[i] = 0 /\ requested'[r.route] >= r.occurrence
    BY <1>1, <1>2, <1>6, <1>7, <1>9 DEF WorkersInv, WorkersTypes
  <2>2. taken <=> \E j \in rules : j < i
    BY <1>3, <1>5, <1>7, <1>9
  <2>3. first \in DOMAIN plan /\ first \in Nat /\ i \in Nat /\ first <= i
    BY <1>2, <1>3, <1>4, <1>9
  <2>4. CASE first = i
    <3>1. ~taken
      BY <1>2, <1>3, <1>4, <1>9, <2>2, <2>4
    <3>2. fired'[i] = 1
      BY <1>1, <1>2, <1>9, <2>1, <2>4
    <3> QED BY <2>1, <3>1, <3>2 DEF r
  <2>5. CASE first # i
    <3>1. taken
      BY <1>4, <1>9, <2>2, <2>3, <2>5
    <3>2. fired'[i] = 0
      BY <1>1, <1>2, <1>9, <2>1, <2>3, <2>5
    <3> QED BY <3>1, <3>2 DEF r
  <2> QED BY <2>4, <2>5
<1>10. CASE i \notin rules
  <2>1. fired'[i] = fired[i]
    <3>1. CASE rules = {}
      BY <1>1, <3>1
    <3>2. CASE rules # {}
      <4>1. first # i
        BY <1>4, <1>10, <3>2
      <4> QED BY <1>1, <1>2, <3>2, <4>1
    <3> QED BY <3>1, <3>2
  <2>2. requested'[r.route] >= r.occurrence <=> requested[r.route] >= r.occurrence
    <3>1. CASE r.route = route
      <4>1. r.occurrence # requested[route] + 1
        BY <1>8, <1>10, <3>1
      <4>2. requested'[route] = requested[route] + 1
        BY <1>1 DEF WorkersInv, WorkersTypes
      <4> QED BY <1>2, <1>6, <3>1, <4>1, <4>2
    <3>2. CASE r.route # route
      <4>1. r.route \in Routes
        BY DEF r
      <4>2. requested'[r.route] = requested[r.route]
        BY <1>1, <3>2, <4>1 DEF WorkersInv, WorkersTypes
      <4> QED BY <4>2
    <3> QED BY <3>1, <3>2
  <2> QED BY <1>6, <2>1, <2>2 DEF r
<1> QED BY <1>9, <1>10

\* What KV's Worker holds stands for the same perturbations as before.
LEMMA RulesStillStand ==
    ASSUME WorkersInv, UNCHANGED <<present, stale, views, manual>>,
           KvCleared' => KvCleared, stage'.told \in Nat,
           (Doing("apply") /\ stage.with <= 2)' =>
               KvCleared \/ (Doing("apply") /\ stage.with <= 2 /\ stage.told <= stage'.told)
    PROVE  ViewsInv' /\ ManualInv'
<1>1. stage.told \in Nat /\ DOMAIN present.scenario \subseteq Nat
  BY TypesMean DEF WorkersInv
<1>2. CASE KvCleared
  <2>1. /\ \A v \in Regions \X AnyOrKey : views'[v] = NoRule
        /\ \A key \in AnyOrKey : manual'[key] = NoRule
    BY <1>2 DEF WorkersInv, ViewsInv, ManualInv
  <2>2. \A region \in Regions, key \in AnyOrKey : views'[<<region, key>>] = NoRule
    BY <2>1
  <2> QED BY <2>1, <2>2 DEF ViewsInv, ManualInv
<1>3. CASE ~KvCleared
  <2>1. ASSUME NEW rule, NEW kind, StandsFor(rule, kind)
        PROVE  /\ rule.of = present'.number
               /\ rule.by \in DOMAIN present'.scenario
               /\ (Doing("apply") /\ stage.with <= 2)' => rule.by <= stage'.told
               /\ rule.kind = kind /\ present'.scenario[rule.by].kind = kind
               /\ rule.behind = present'.scenario[rule.by].behind
               /\ stale'[rule.by] + rule.remaining <= present'.scenario[rule.by].reads
    <3>1. rule.by \in Nat
      BY <1>1, <2>1 DEF StandsFor
    <3>2. (Doing("apply") /\ stage.with <= 2)' => rule.by <= stage'.told
      BY <1>1, <1>3, <2>1, <3>1 DEF StandsFor
    <3> QED BY <2>1, <3>2 DEF StandsFor
  <2>2. ViewsInv'
    BY <1>3, <2>1 DEF WorkersInv, ViewsInv, StandsFor
  <2>3. ManualInv'
    BY <1>3, <2>1 DEF WorkersInv, ManualInv, StandsFor
  <2> QED BY <2>2, <2>3
<1> QED BY <1>2, <1>3

\* What has been read still is what was asked for.
LEMMA ReadsStillAsked ==
    ASSUME WorkersInv, UNCHANGED <<present, stale>>,
           UNCHANGED <<read, histories>> \/ read' = NoRead
    PROVE  StaleReadsAreAsked'
<1>1. CASE UNCHANGED <<read, histories>>
  <2>1. \A k, n : ValueBehind(k, n)' = ValueBehind(k, n)
    BY <1>1 DEF ValueBehind
  <2> QED BY <1>1, <2>1 DEF WorkersInv, StaleReadsAreAsked, AskedOf, ValueBehind
<1>2. CASE read' = NoRead
  BY <1>2 DEF WorkersInv, StaleReadsAreAsked, NoRead, AskedOf
<1> QED BY <1>1, <1>2
\* The service's rules are those of before.
LEMMA PlanStillStands ==
    ASSUME WorkersInv, UNCHANGED <<present, plan, fired, requested>>,
           ServiceCleared' => ServiceCleared
    PROVE  PlanInv'
BY DEF WorkersInv, PlanInv, RulesFireOnTime, MatchesRule

\* Where the control plane gets to.
LEMMA StageTypes ==
    ASSUME NEW doing \in {"reset", "seed", "apply", "run"}, NEW with \in 1 .. 3,
           stage' = [doing |-> doing, with |-> with, told |-> 0, observing |-> FALSE]
    PROVE  /\ stage' \in [doing : {"reset", "seed", "apply", "run"}, with : 1 .. 3,
                          told : Nat, observing : BOOLEAN]
           /\ stage'.doing = doing /\ stage'.with = with /\ stage'.told = 0
OBVIOUS

LEMMA ResetKeepsInv == ASSUME WorkersInv, Reset PROVE WorkersInv'
<1>1. /\ stage.doing = "reset" /\ present' = present /\ stale' = stale
      /\ Advance("reset", "seed")
  BY DEF Reset, Doing, kvVars
<1>2. /\ WorkersTypes /\ stage.with \in 1 .. 3
      /\ Binding = "service" <=> stage.with = 1
      /\ Binding = "kv" <=> stage.with = 2
      /\ Binding = "queue" <=> stage.with = 3
  BY TypesMean DEF WorkersInv
<1>3. /\ stage.with \in {1, 2} =>
           stage' = [doing |-> "reset", with |-> stage.with + 1,
                     told |-> 0, observing |-> FALSE]
      /\ stage.with = 3 =>
           stage' = [doing |-> "seed", with |-> 1, told |-> 0, observing |-> FALSE]
  BY <1>1, <1>2, AdvanceMeans
<1>4. /\ stage' \in [doing : {"reset", "seed", "apply", "run"}, with : 1 .. 3,
                     told : Nat, observing : BOOLEAN]
      /\ stage'.told = 0 /\ stage'.doing # "apply" /\ stage'.told \in Nat
      /\ stage.with = 1 => stage'.doing = "reset" /\ stage'.with = 2
      /\ stage.with = 2 => stage'.doing = "reset" /\ stage'.with = 3
      /\ stage.with = 3 => stage'.doing = "seed" /\ stage'.with = 1
  <2>1. CASE stage.with = 1
    <3>1. stage' = [doing |-> "reset", with |-> 2, told |-> 0, observing |-> FALSE]
      BY <1>3, <2>1
    <3> QED BY <2>1, <3>1, StageTypes
  <2>2. CASE stage.with = 2
    <3>1. stage' = [doing |-> "reset", with |-> 3, told |-> 0, observing |-> FALSE]
      BY <1>3, <2>2
    <3> QED BY <2>2, <3>1, StageTypes
  <2>3. CASE stage.with = 3
    <3>1. stage' = [doing |-> "seed", with |-> 1, told |-> 0, observing |-> FALSE]
      BY <1>3, <2>3
    <3> QED BY <2>3, <3>1, StageTypes
  <2> QED BY <1>2, <2>1, <2>2, <2>3
<1>5. ToldInv'
  BY <1>4 DEF ToldInv, Doing
<1>6. CASE stage.with = 1
  <2>1. /\ plan' = <<>> /\ fired' = <<>> /\ requested' = [r \in Routes |-> 0]
        /\ UNCHANGED kvVars
    BY <1>2, <1>6 DEF Reset, ClearService
  <2>2. DOMAIN plan' = {} /\ fired' \in [DOMAIN plan' -> Nat] /\ requested' \in [Routes -> Nat]
    BY <2>1
  <2>3. WorkersTypes'
    BY <1>1, <1>4, <2>1, <2>2 DEF WorkersInv, WorkersTypes, kvVars
  <2>4. PlanInv'
    BY <2>2 DEF PlanInv, RulesFireOnTime
  <2>5. ~KvCleared'
    BY <1>4, <1>6 DEF KvCleared, Doing
  <2>6. ~(Doing("apply") /\ stage.with <= 2)'
    BY <1>4 DEF Doing
  <2>7. ViewsInv' /\ ManualInv'
    BY <1>1, <1>4, <2>1, <2>5, <2>6, RulesStillStand DEF kvVars
  <2>8. StaleReadsAreAsked'
    BY <1>1, <2>1, ReadsStillAsked DEF kvVars
  <2> QED BY <1>5, <2>3, <2>4, <2>7, <2>8 DEF WorkersInv
<1>7. CASE stage.with = 2
  <2>1. ClearKv /\ UNCHANGED serviceVars
    BY <1>2, <1>7 DEF Reset
  <2>2. /\ views' = [v \in Regions \X AnyOrKey |-> NoRule]
        /\ manual' = [k \in AnyOrKey |-> NoRule]
        /\ observer' = "local" /\ read' = NoRead
    BY <2>1 DEF ClearKv, AnyOrKey
  <2>3. views' \in [Regions \X AnyOrKey -> Served] /\ manual' \in [AnyOrKey -> Served]
    <3>1. NoRule \in Served
      BY NemesisAssumption DEF NoRule, Served
    <3> QED BY <2>2, <3>1
  <2>4. observer' \in Regions
    BY <2>2, NemesisAssumption
  <2>5. WorkersTypes'
    BY <1>1, <1>4, <2>1, <2>3, <2>4 DEF WorkersInv, WorkersTypes, serviceVars
  <2>6. ServiceCleared' => ServiceCleared
    BY <1>1, <1>7 DEF ServiceCleared, Doing
  <2>7. PlanInv'
    BY <1>1, <2>1, <2>6, PlanStillStands DEF serviceVars
  <2>8. /\ \A v \in Regions \X AnyOrKey : views'[v] = NoRule
        /\ \A key \in AnyOrKey : manual'[key] = NoRule
        /\ \A region \in Regions, key \in AnyOrKey : views'[<<region, key>>] = NoRule
    BY <2>2
  <2>9. ViewsInv' /\ ManualInv'
    BY <2>8 DEF ViewsInv, ManualInv
  <2>10. StaleReadsAreAsked'
    BY <1>1, <2>2, ReadsStillAsked
  <2> QED BY <1>5, <2>5, <2>7, <2>9, <2>10 DEF WorkersInv
<1>8. CASE stage.with = 3
  <2>1. UNCHANGED serviceVars /\ UNCHANGED kvVars
    BY <1>2, <1>8 DEF Reset
  <2>2. WorkersTypes'
    BY <1>1, <1>4, <2>1 DEF WorkersInv, WorkersTypes, serviceVars, kvVars
  <2>3. (ServiceCleared' => ServiceCleared) /\ (KvCleared' => KvCleared)
    BY <1>1, <1>8 DEF ServiceCleared, KvCleared, Doing
  <2>4. PlanInv'
    BY <1>1, <2>1, <2>3, PlanStillStands DEF serviceVars
  <2>5. ~(Doing("apply") /\ stage.with <= 2)'
    BY <1>4 DEF Doing
  <2>6. ViewsInv' /\ ManualInv'
    BY <1>1, <1>4, <2>1, <2>3, <2>5, RulesStillStand DEF kvVars
  <2>7. StaleReadsAreAsked'
    BY <1>1, <2>1, ReadsStillAsked DEF kvVars
  <2> QED BY <1>5, <2>2, <2>4, <2>6, <2>7 DEF WorkersInv
<1> QED BY <1>2, <1>6, <1>7, <1>8

LEMMA SeedKeepsInv == ASSUME WorkersInv, Seed PROVE WorkersInv'
<1>1. /\ stage.doing = "seed" /\ stage' = From("apply") /\ read' = NoRead
      /\ UNCHANGED <<serviceVars, views, manual, observer>>
  BY DEF Seed, Doing
<1>2. PICK s \in Choices \cup RegionScenarios :
        /\ present' = [scenario |-> s, number |-> present.number + 1]
        /\ stale' = [i \in DOMAIN s |-> 0]
  BY DEF Seed
<1>3. WorkersTypes /\ present.number \in Nat
  BY TypesMean DEF WorkersInv
<1>4. /\ present' \in [scenario : Seq(Perturbations), number : Nat]
      /\ present'.scenario = s
      /\ stale' \in [DOMAIN s -> Nat]
  <2>1. s \in Seq(Perturbations)
    BY NemesisAssumption, RegionScenariosAreScenarios
  <2> QED BY <1>2, <1>3, <2>1
<1>5. stage' = [doing |-> "apply", with |-> 1, told |-> 0, observing |-> FALSE]
  BY <1>1 DEF From, With
<1>6. WorkersTypes'
  BY <1>1, <1>3, <1>4, <1>5, StageTypes DEF WorkersTypes, serviceVars
<1>7. PlanInv'
  <2>1. DOMAIN plan = {}
    BY <1>1 DEF WorkersInv, PlanInv, ServiceCleared, Doing
  <2> QED BY <1>1, <2>1 DEF PlanInv, RulesFireOnTime, serviceVars
<1>8. ViewsInv' /\ ManualInv'
  <2>1. /\ \A v \in Regions \X AnyOrKey : views'[v] = NoRule
        /\ \A key \in AnyOrKey : manual'[key] = NoRule
    BY <1>1 DEF WorkersInv, ViewsInv, ManualInv, KvCleared, Doing
  <2>2. \A region \in Regions, key \in AnyOrKey : views'[<<region, key>>] = NoRule
    BY <2>1
  <2> QED BY <2>1, <2>2 DEF ViewsInv, ManualInv
<1>9. ToldInv'
  BY <1>2, <1>4, <1>5 DEF ToldInv
<1>10. StaleReadsAreAsked'
  <2>1. ASSUME NEW i \in DOMAIN s PROVE stale'[i] <= s[i].reads
    <3>1. s \in Seq(Perturbations)
      BY NemesisAssumption, RegionScenariosAreScenarios
    <3>2. s[i] \in Perturbations
      BY <3>1
    <3>3. s[i].reads \in Nat
      BY <3>2 DEF Perturbations
    <3> QED BY <1>2, <3>3
  <2> QED BY <1>1, <1>4, <2>1 DEF StaleReadsAreAsked, NoRead, AskedOf
<1> QED BY <1>6, <1>7, <1>8, <1>9, <1>10 DEF WorkersInv

LEMMA SetObserverKeepsInv == ASSUME WorkersInv, SetObserver PROVE WorkersInv'
<1>1. /\ stage.doing = "apply" /\ Binding = "kv" /\ ToTell # {}
      /\ stage' = [stage EXCEPT !.observing = TRUE]
      /\ observer' = present.scenario[FirstIn(ToTell)].region
      /\ UNCHANGED <<present, serviceVars, histories, views, manual, stale, read>>
  BY DEF SetObserver, Doing
<1>2. WorkersTypes /\ stage.told \in Nat
  BY TypesMean DEF WorkersInv
<1>3. stage.with = 2
  BY <1>1, <1>2, TypesMean
<1>4. FirstIn(ToTell) \in ToTell /\ present.scenario[FirstIn(ToTell)].region \in Regions
  BY <1>1, <1>2, ToTellMeans
<1>5. /\ stage' \in [doing : {"reset", "seed", "apply", "run"}, with : 1 .. 3,
                     told : Nat, observing : BOOLEAN]
      /\ stage'.doing = stage.doing /\ stage'.with = stage.with /\ stage'.told = stage.told
  BY <1>1, <1>2 DEF WorkersTypes
<1>6. WorkersTypes'
  BY <1>1, <1>2, <1>4, <1>5 DEF WorkersTypes, serviceVars
<1>7. PlanInv'
  BY <1>1, <1>5, PlanStillStands DEF ServiceCleared, Doing, serviceVars
<1>8. ViewsInv' /\ ManualInv'
  <2>1. KvCleared' => KvCleared
    BY <1>5 DEF KvCleared, Doing
  <2>2. Doing("apply") /\ stage.with <= 2 /\ stage.told <= stage'.told
    BY <1>1, <1>2, <1>3, <1>5 DEF Doing
  <2>3. stage'.told \in Nat
    BY <1>2, <1>5
  <2> QED BY <1>1, <2>1, <2>2, <2>3, RulesStillStand
<1>9. ToldInv'
  BY <1>1, <1>5 DEF WorkersInv, ToldInv, Doing
<1>10. StaleReadsAreAsked'
  BY <1>1, ReadsStillAsked
<1> QED BY <1>6, <1>7, <1>8, <1>9, <1>10 DEF WorkersInv
LEMMA SetRuleKeepsInv == ASSUME WorkersInv, SetRule PROVE WorkersInv'
<1> DEFINE next == FirstIn(ToTell)
           p == present.scenario[next]
           rule == [kind |-> p.kind, behind |-> p.behind, remaining |-> p.reads,
                    of |-> present.number, by |-> next]
<1>1. /\ stage.doing = "apply" /\ Binding = "kv" /\ ToTell # {}
      /\ stage' = [stage EXCEPT !.told = next, !.observing = FALSE]
      /\ UNCHANGED <<present, serviceVars, histories, observer, stale, read>>
      /\ \/ /\ p.kind = "stale-read"
            /\ views' = [views EXCEPT ![<<p.region, p.key>>] = rule] /\ manual' = manual
         \/ /\ p.kind = "stale-negative-read"
            /\ manual' = [manual EXCEPT ![p.key] = rule] /\ views' = views
  BY DEF SetRule, Doing
<1>2. WorkersTypes /\ stage.told \in Nat /\ stage.with = 2 /\ present.number \in Nat
      /\ DOMAIN present.scenario \subseteq Nat
  BY <1>1, TypesMean DEF WorkersInv
<1>3. /\ next \in DOMAIN present.scenario /\ next \in Nat /\ next > stage.told
      /\ p.kind \in Texts /\ p.behind \in Nat /\ p.reads \in Nat
      /\ p.region \in Regions /\ p.key \in AnyOrKey
  BY <1>1, <1>2, ToTellMeans
<1> HIDE DEF next, p
<1>4. rule \in Served
  BY <1>2, <1>3 DEF Served
<1>5. /\ stage' \in [doing : {"reset", "seed", "apply", "run"}, with : 1 .. 3,
                     told : Nat, observing : BOOLEAN]
      /\ stage'.doing = stage.doing /\ stage'.with = stage.with /\ stage'.told = next
  BY <1>1, <1>2, <1>3 DEF WorkersTypes
<1>6. stale[next] = 0
  BY <1>1, <1>2, <1>3 DEF WorkersInv, ToldInv, Doing
<1>7. /\ rule.of = present'.number /\ rule.by = next /\ next <= stage'.told
      /\ rule.kind = p.kind /\ rule.behind = p.behind
      /\ stale'[next] + rule.remaining <= p.reads
  BY <1>1, <1>3, <1>5, <1>6
<1>8. ASSUME NEW r, NEW kind, StandsFor(r, kind)
      PROVE  /\ r.of = present'.number
             /\ r.by \in DOMAIN present'.scenario
             /\ r.by <= stage'.told
             /\ r.kind = kind /\ present'.scenario[r.by].kind = kind
             /\ r.behind = present'.scenario[r.by].behind
             /\ stale'[r.by] + r.remaining <= present'.scenario[r.by].reads
  <2>1. r.by \in Nat /\ r.by <= stage.told
    BY <1>1, <1>2, <1>8 DEF StandsFor, Doing
  <2>2. r.by <= stage'.told
    BY <1>2, <1>3, <1>5, <2>1
  <2> QED BY <1>1, <1>8, <2>2 DEF StandsFor
<1> HIDE DEF rule
<1>9. WorkersTypes'
  <2>1. views' \in [Regions \X AnyOrKey -> Served] /\ manual' \in [AnyOrKey -> Served]
    <3>1. <<p.region, p.key>> \in Regions \X AnyOrKey
      BY <1>3
    <3>2. views \in [Regions \X AnyOrKey -> Served] /\ manual \in [AnyOrKey -> Served]
      BY <1>2 DEF WorkersTypes
    <3>3. /\ [views EXCEPT ![<<p.region, p.key>>] = rule] \in [Regions \X AnyOrKey -> Served]
          /\ [manual EXCEPT ![p.key] = rule] \in [AnyOrKey -> Served]
      BY <1>3, <1>4, <3>1, <3>2
    <3> QED BY <1>1, <3>2, <3>3
  <2> QED BY <1>1, <1>2, <1>5, <2>1 DEF WorkersTypes, serviceVars
<1>10. PlanInv'
  BY <1>1, <1>5, PlanStillStands DEF ServiceCleared, Doing, serviceVars
<1>11. ~KvCleared'
  BY <1>1, <1>2, <1>5 DEF KvCleared, Doing
<1>12. ViewsInv'
  <2>1. ASSUME NEW region \in Regions, NEW key \in AnyOrKey
        PROVE  \/ views'[<<region, key>>] = views[<<region, key>>]
               \/ /\ views'[<<region, key>>] = rule /\ p.kind = "stale-read"
                  /\ region = p.region /\ key = p.key
    <3>1. CASE views' = views
      BY <3>1
    <3>2. CASE views' = [views EXCEPT ![<<p.region, p.key>>] = rule] /\ p.kind = "stale-read"
      <4>1. CASE <<region, key>> = <<p.region, p.key>>
        BY <1>2, <1>3, <3>2, <4>1 DEF WorkersTypes
      <4>2. CASE <<region, key>> # <<p.region, p.key>>
        BY <1>2, <3>2, <4>2 DEF WorkersTypes
      <4> QED BY <4>1, <4>2
    <3> QED BY <1>1, <3>1, <3>2
  <2>2. ASSUME NEW region \in Regions, NEW key \in AnyOrKey, views'[<<region, key>>] # NoRule
        PROVE  /\ StandsFor(views[<<region, key>>], "stale-read")'
               /\ present'.scenario[views'[<<region, key>>].by].region = region
               /\ present'.scenario[views'[<<region, key>>].by].key = key
    <3>1. CASE views'[<<region, key>>] = views[<<region, key>>]
      BY <1>1, <1>8, <2>2, <3>1 DEF WorkersInv, ViewsInv, StandsFor
    <3>2. CASE /\ views'[<<region, key>>] = rule /\ p.kind = "stale-read"
               /\ region = p.region /\ key = p.key
      BY <1>1, <1>3, <1>7, <3>2 DEF StandsFor, p
    <3> QED BY <2>1, <3>1, <3>2
  <2> QED BY <1>11, <2>2 DEF ViewsInv
<1>13. ManualInv'
  <2>1. ASSUME NEW key \in AnyOrKey
        PROVE  \/ manual'[key] = manual[key]
               \/ manual'[key] = rule /\ p.kind = "stale-negative-read" /\ key = p.key
    BY <1>1, <1>2, <1>3 DEF WorkersTypes
  <2>2. ASSUME NEW key \in AnyOrKey, manual'[key] # NoRule
        PROVE  /\ StandsFor(manual[key], "stale-negative-read")'
               /\ present'.scenario[manual'[key].by].key = key
    <3>1. CASE manual'[key] = manual[key]
      BY <1>1, <1>8, <2>2, <3>1 DEF WorkersInv, ManualInv, StandsFor
    <3>2. CASE manual'[key] = rule /\ p.kind = "stale-negative-read" /\ key = p.key
      BY <1>1, <1>3, <1>7, <3>2 DEF StandsFor, p
    <3> QED BY <2>1, <3>1, <3>2
  <2> QED BY <1>11, <2>2 DEF ManualInv
<1>14. ToldInv'
  <2>1. ASSUME NEW i \in DOMAIN present.scenario, i > next PROVE stale[i] = 0
    <3>1. i > stage.told
      BY <1>2, <1>3, <2>1
    <3> QED BY <1>1, <1>2, <3>1 DEF WorkersInv, ToldInv, Doing
  <2> QED BY <1>1, <1>2, <1>5, <2>1 DEF ToldInv
<1>15. StaleReadsAreAsked'
  BY <1>1, ReadsStillAsked
<1> QED BY <1>9, <1>10, <1>12, <1>13, <1>14, <1>15 DEF WorkersInv

LEMMA ApplyKeepsInv == ASSUME WorkersInv, Apply PROVE WorkersInv'
<1>1. /\ stage.doing = "apply" /\ present' = present /\ UNCHANGED kvVars
      /\ Advance("apply", "run")
  BY DEF Apply, Doing
<1>2. /\ WorkersTypes /\ stage.with \in 1 .. 3 /\ stage.told \in Nat
      /\ Binding = "service" <=> stage.with = 1
      /\ Binding = "kv" <=> stage.with = 2
      /\ Binding = "queue" <=> stage.with = 3
  BY TypesMean DEF WorkersInv
<1>3. /\ stage.with \in {1, 2} =>
           stage' = [doing |-> "apply", with |-> stage.with + 1,
                     told |-> 0, observing |-> FALSE]
      /\ stage.with = 3 =>
           stage' = [doing |-> "run", with |-> 1, told |-> 0, observing |-> FALSE]
  BY <1>1, <1>2, AdvanceMeans
<1>4. /\ stage' \in [doing : {"reset", "seed", "apply", "run"}, with : 1 .. 3,
                     told : Nat, observing : BOOLEAN]
      /\ stage'.told = 0 /\ stage'.told \in Nat
      /\ stage.with = 1 => stage'.doing = "apply" /\ stage'.with = 2
      /\ stage.with = 2 => stage'.doing = "apply" /\ stage'.with = 3
      /\ stage.with = 3 => stage'.doing = "run" /\ stage'.with = 1
  <2>1. CASE stage.with = 1
    <3>1. stage' = [doing |-> "apply", with |-> 2, told |-> 0, observing |-> FALSE]
      BY <1>3, <2>1
    <3> QED BY <2>1, <3>1, StageTypes
  <2>2. CASE stage.with = 2
    <3>1. stage' = [doing |-> "apply", with |-> 3, told |-> 0, observing |-> FALSE]
      BY <1>3, <2>2
    <3> QED BY <2>2, <3>1, StageTypes
  <2>3. CASE stage.with = 3
    <3>1. stage' = [doing |-> "run", with |-> 1, told |-> 0, observing |-> FALSE]
      BY <1>3, <2>3
    <3> QED BY <2>3, <3>1, StageTypes
  <2> QED BY <1>2, <2>1, <2>2, <2>3
<1>5. ~ServiceCleared' /\ ~KvCleared'
  BY <1>2, <1>4 DEF ServiceCleared, KvCleared, Doing
<1>6. (Doing("apply") /\ stage.with <= 2)' => Doing("apply") /\ stage.with = 1 /\ stage.told = 0
  BY <1>1, <1>2, <1>4 DEF Doing, WorkersInv, ToldInv
<1>7. ViewsInv' /\ ManualInv'
  <2>1. (Doing("apply") /\ stage.with <= 2)' =>
            Doing("apply") /\ stage.with <= 2 /\ stage.told <= stage'.told
    BY <1>4, <1>6
  <2> QED BY <1>1, <1>4, <1>5, <2>1, RulesStillStand DEF kvVars
<1>8. ToldInv'
  <2>1. (Doing("apply") /\ stage.with <= 2)' =>
            \A i \in DOMAIN present.scenario : i > 0 => stale[i] = 0
    BY <1>6 DEF WorkersInv, ToldInv
  <2> QED BY <1>1, <1>4, <2>1 DEF ToldInv, kvVars
<1>9. StaleReadsAreAsked'
  BY <1>1, ReadsStillAsked DEF kvVars
<1>10. CASE stage.with = 1
  <2>1. /\ plan' = [i \in Active |-> ServiceRule(present.scenario[i])]
        /\ fired' = [i \in Active |-> 0]
        /\ requested' = [r \in Routes |-> 0]
    BY <1>2, <1>10 DEF Apply, ConfigureService
  <2>2. Active \subseteq Nat /\ \A i \in Active : present.scenario[i].occurrence \in Nat
    BY <1>2, TypesMean
  <2>3. \A i \in Active : /\ plan'[i].occurrence = present.scenario[i].occurrence
                          /\ plan'[i].of = present.number
    BY <2>1 DEF ServiceRule
  <2>4. /\ DOMAIN plan' = Active /\ fired' \in [DOMAIN plan' -> Nat]
        /\ requested' \in [Routes -> Nat]
    BY <2>1
  <2>5. WorkersTypes'
    BY <1>1, <1>2, <1>4, <2>2, <2>3, <2>4 DEF WorkersTypes, kvVars
  <2>6. RulesFireOnTime'
    <3> SUFFICES ASSUME NEW i \in DOMAIN plan', plan'[i].occurrence > 0,
                        plan'[i].route \in Routes
                 PROVE  fired'[i] = 0 /\ ~(requested'[plan'[i].route] >= plan'[i].occurrence)
      BY DEF RulesFireOnTime
    <3> QED BY <2>1, <2>2, <2>3, <2>4
  <2>7. PlanInv'
    BY <1>1, <1>5, <2>3, <2>4, <2>6 DEF PlanInv
  <2> QED BY <1>7, <1>8, <1>9, <2>5, <2>7 DEF WorkersInv
<1>11. CASE stage.with # 1
  <2>1. UNCHANGED serviceVars
    BY <1>2, <1>11 DEF Apply
  <2>2. WorkersTypes'
    BY <1>1, <1>2, <1>4, <2>1 DEF WorkersTypes, serviceVars, kvVars
  <2>3. PlanInv'
    BY <1>1, <1>5, <2>1, PlanStillStands DEF serviceVars
  <2> QED BY <1>7, <1>8, <1>9, <2>2, <2>3 DEF WorkersInv
<1> QED BY <1>10, <1>11

LEMMA NextScenarioKeepsInv == ASSUME WorkersInv, NextScenario PROVE WorkersInv'
<1>1. /\ stage.doing = "run" /\ UNCHANGED <<present, serviceVars, kvVars>>
      /\ stage' = [doing |-> "reset", with |-> 1, told |-> 0, observing |-> FALSE]
  BY DEF NextScenario, Doing, From, With
<1>2. /\ stage' \in [doing : {"reset", "seed", "apply", "run"}, with : 1 .. 3,
                     told : Nat, observing : BOOLEAN]
      /\ stage'.doing = "reset" /\ stage'.with = 1 /\ stage'.told = 0 /\ stage'.told \in Nat
  BY <1>1, StageTypes
<1>3. WorkersTypes'
  BY <1>1, <1>2 DEF WorkersInv, WorkersTypes, serviceVars, kvVars
<1>4. ~ServiceCleared' /\ ~KvCleared' /\ ~(Doing("apply") /\ stage.with <= 2)'
  BY <1>2 DEF ServiceCleared, KvCleared, Doing
<1>5. PlanInv'
  BY <1>1, <1>4, PlanStillStands DEF serviceVars
<1>6. ViewsInv' /\ ManualInv'
  BY <1>1, <1>2, <1>4, RulesStillStand DEF kvVars
<1>7. ToldInv'
  BY <1>2, <1>4 DEF ToldInv
<1>8. StaleReadsAreAsked'
  BY <1>1, ReadsStillAsked DEF kvVars
<1> QED BY <1>3, <1>5, <1>6, <1>7, <1>8 DEF WorkersInv
\* The application's requests change nothing of what the control plane does.
LEMMA RequestKeepsInv ==
    ASSUME WorkersInv, NEW c \in Clients, NEW route \in Routes, Request(c, route)
    PROVE  WorkersInv'
<1>1. /\ UNCHANGED <<stage, present, plan, kvVars>>
      /\ requested' = [requested EXCEPT ![route] = @ + 1]
  BY DEF Request
<1>2. WorkersTypes /\ stage.told \in Nat
  BY TypesMean DEF WorkersInv
<1>3. WorkersTypes'
  <2>1. requested' \in [Routes -> Nat]
    BY <1>1, <1>2 DEF WorkersTypes
  <2>2. fired' \in [DOMAIN plan -> Nat]
    <3>1. RulesFor(route) \subseteq DOMAIN plan /\ DOMAIN plan \subseteq Nat
      BY <1>2 DEF RulesFor, WorkersTypes
    <3>2. RulesFor(route) # {} => FirstIn(RulesFor(route)) \in DOMAIN plan
      BY <3>1, LeastPlace
    <3>3. \/ fired' = fired
          \/ /\ RulesFor(route) # {}
             /\ fired' = [fired EXCEPT ![FirstIn(RulesFor(route))] = @ + 1]
      BY DEF Request
    <3>4. fired \in [DOMAIN plan -> Nat]
      BY <1>2 DEF WorkersTypes
    <3>5. ASSUME NEW i \in DOMAIN plan PROVE [fired EXCEPT ![i] = @ + 1] \in [DOMAIN plan -> Nat]
      BY <3>4
    <3> QED BY <3>2, <3>3, <3>4, <3>5
  <2> QED BY <1>1, <1>2, <2>1, <2>2 DEF WorkersTypes, kvVars
<1>4. PlanInv'
  <2>1. RulesFireOnTime'
    BY RequestsFireOnTime
  <2> QED BY <1>1, <2>1 DEF WorkersInv, PlanInv, ServiceCleared, Doing
<1>5. ViewsInv' /\ ManualInv'
  BY <1>1, <1>2, RulesStillStand DEF KvCleared, Doing, kvVars
<1>6. ToldInv'
  BY <1>1 DEF WorkersInv, ToldInv, Doing, kvVars
<1>7. StaleReadsAreAsked'
  BY <1>1, ReadsStillAsked DEF kvVars
<1> QED BY <1>3, <1>4, <1>5, <1>6, <1>7 DEF WorkersInv

\* Whatever leaves the rules and the service's counts alone keeps the invariant.
LEMMA BystandersKeepInv ==
    ASSUME WorkersInv,
           UNCHANGED <<stage, present, plan, requested, fired,
                       views, manual, observer, stale>>,
           UNCHANGED <<read, histories>> \/ read' = NoRead
    PROVE  WorkersInv'
<1>1. WorkersTypes /\ stage.told \in Nat
  BY TypesMean DEF WorkersInv
<1>2. WorkersTypes'
  BY <1>1 DEF WorkersTypes
<1>3. PlanInv'
  BY PlanStillStands DEF ServiceCleared, Doing
<1>4. ViewsInv' /\ ManualInv'
  BY <1>1, RulesStillStand DEF KvCleared, Doing
<1>5. ToldInv'
  BY DEF WorkersInv, ToldInv, Doing
<1>6. StaleReadsAreAsked'
  BY ReadsStillAsked
<1> QED BY <1>2, <1>3, <1>4, <1>5, <1>6 DEF WorkersInv

\* A rule that is used has one read less left.
LEMMA UsedMeans ==
    ASSUME NEW r \in Served, r.remaining > 0
    PROVE  /\ Used(r) \in Served
           /\ Used(r) # NoRule =>
                 /\ Used(r).of = r.of /\ Used(r).by = r.by /\ Used(r).kind = r.kind
                 /\ Used(r).behind = r.behind /\ Used(r).remaining = r.remaining - 1
<1>1. NoRule \in Served
  BY NemesisAssumption DEF NoRule, Served
<1>2. CASE r.remaining <= 1
  BY <1>1, <1>2 DEF Used
<1>3. CASE ~(r.remaining <= 1)
  <2>1. Used(r) = [r EXCEPT !.remaining = r.remaining - 1]
    BY <1>3 DEF Used
  <2>2. /\ r.remaining - 1 \in Nat
        /\ r = [kind |-> r.kind, behind |-> r.behind, remaining |-> r.remaining,
                of |-> r.of, by |-> r.by]
    BY <1>3 DEF Served
  <2> QED BY <2>1, <2>2 DEF Served
<1> QED BY <1>2, <1>3 DEF Served
\* A read that a rule makes stale is one of those its perturbation asks for.
LEMMA StaleReadsMean ==
    ASSUME WorkersInv, UNCHANGED <<stage, present>>,
           NEW rule \in Served, NEW kind, StandsFor(rule, kind), rule.remaining > 0,
           stale' = [stale EXCEPT ![rule.by] = @ + 1]
    PROVE  /\ stale' \in [DOMAIN present.scenario -> Nat]
           /\ ToldInv'
           /\ \A i \in DOMAIN present.scenario : stale'[i] <= present.scenario[i].reads
           /\ \A r, of : StandsFor(r, of) /\ r.by # rule.by => StandsFor(r, of)'
           /\ Used(rule) # NoRule =>
                 \A r : r = Used(rule) => StandsFor(r, kind)' /\ r.by = rule.by
<1>1. /\ stale \in [DOMAIN present.scenario -> Nat] /\ DOMAIN present.scenario \subseteq Nat
      /\ \A i \in DOMAIN present.scenario : present.scenario[i].reads \in Nat
      /\ stage.told \in Nat /\ stage.with \in 1 .. 3
  BY TypesMean DEF WorkersInv, WorkersTypes
<1>2. rule.by \in DOMAIN present.scenario
  BY DEF StandsFor
<1>3. /\ stale' \in [DOMAIN present.scenario -> Nat]
      /\ stale'[rule.by] = stale[rule.by] + 1
      /\ \A i \in DOMAIN present.scenario : i # rule.by => stale'[i] = stale[i]
  BY <1>1, <1>2
<1>4. rule.remaining \in Nat
  BY DEF Served
<1>5. ToldInv'
  <2>1. ASSUME Doing("apply"), stage.with <= 2,
               NEW i \in DOMAIN present.scenario, i > stage.told
        PROVE  stale'[i] = 0
    <3>1. rule.by <= stage.told
      BY <2>1 DEF StandsFor
    <3>2. i # rule.by
      BY <1>1, <2>1, <3>1
    <3> QED BY <1>3, <2>1, <3>2 DEF WorkersInv, ToldInv
  <2> QED BY <2>1 DEF WorkersInv, ToldInv, Doing
<1>6. ASSUME NEW i \in DOMAIN present.scenario PROVE stale'[i] <= present.scenario[i].reads
  <2>1. CASE i = rule.by
    <3>1. stale[i] + rule.remaining <= present.scenario[i].reads
      BY <2>1 DEF StandsFor
    <3> QED BY <1>1, <1>3, <1>4, <2>1, <3>1
  <2>2. CASE i # rule.by
    BY <1>3, <2>2 DEF WorkersInv, StaleReadsAreAsked
  <2> QED BY <2>1, <2>2
<1>7. ASSUME NEW r, NEW of, StandsFor(r, of), r.by # rule.by PROVE StandsFor(r, of)'
  <2>1. stale'[r.by] = stale[r.by]
    BY <1>3, <1>7 DEF StandsFor
  <2> QED BY <1>7, <2>1 DEF StandsFor, Doing
<1>8. ASSUME Used(rule) # NoRule, NEW r, r = Used(rule)
      PROVE  StandsFor(r, kind)' /\ r.by = rule.by
  <2>1. /\ r.of = rule.of /\ r.by = rule.by /\ r.kind = rule.kind /\ r.behind = rule.behind
        /\ r.remaining = rule.remaining - 1
    BY <1>8, UsedMeans
  <2>2. stale'[r.by] + r.remaining = stale[rule.by] + rule.remaining
    BY <1>1, <1>2, <1>3, <1>4, <2>1
  <2> QED BY <2>1, <2>2 DEF StandsFor, Doing
<1> QED BY <1>3, <1>5, <1>6, <1>7, <1>8

LEMMA GetKeepsInv == ASSUME WorkersInv, NEW k \in KvKeys, Get(k) PROVE WorkersInv'
<1>1. /\ UNCHANGED <<stage, present, histories, observer, serviceVars>>
      /\ k \in AnyOrKey /\ AnyKey \in AnyOrKey
  BY DEF Get, AnyOrKey
<1>2. /\ WorkersTypes /\ stage.told \in Nat
      /\ views \in [Regions \X AnyOrKey -> Served] /\ manual \in [AnyOrKey -> Served]
      /\ DOMAIN present.scenario \subseteq Nat
  BY TypesMean DEF WorkersInv, WorkersTypes
<1>3. PlanInv'
  BY <1>1, PlanStillStands DEF ServiceCleared, Doing, serviceVars
<1>4. KvCleared' <=> KvCleared
  BY <1>1 DEF KvCleared, Doing
<1>5. \A key, n : ValueBehind(key, n)' = ValueBehind(key, n)
  BY <1>1 DEF ValueBehind
<1>6. NoRule.remaining = 0
  BY DEF NoRule
<1>7. CASE /\ manual[Override(k)].remaining > 0
           /\ manual' = [manual EXCEPT ![Override(k)] = Used(@)]
           /\ read' = [key |-> k, value |-> Deleted, kind |-> "stale-negative-read"]
           /\ stale' = [stale EXCEPT ![manual[Override(k)].by] = @ + 1]
           /\ UNCHANGED views
  <2> DEFINE slot == Override(k)
             rule == manual[slot]
             by == rule.by
  <2>1. slot \in AnyOrKey /\ slot \in {AnyKey, k} /\ rule \in Served /\ rule # NoRule
    BY <1>1, <1>2, <1>6, <1>7 DEF Override
  <2>2. StandsFor(rule, "stale-negative-read") /\ present.scenario[by].key = slot
    BY <2>1 DEF WorkersInv, ManualInv
  <2>3. /\ by \in DOMAIN present.scenario /\ present.scenario[by].kind = "stale-negative-read"
        /\ rule.remaining > 0
    BY <1>7, <2>2 DEF StandsFor
  <2>4. ~KvCleared
    BY <2>1 DEF WorkersInv, ManualInv
  <2>5. /\ manual'[slot] = Used(rule)
        /\ \A key \in AnyOrKey : key # slot => manual'[key] = manual[key]
        /\ manual' \in [AnyOrKey -> Served]
    BY <1>2, <1>7, <2>1, <2>3, UsedMeans
  <2>6. stale' = [stale EXCEPT ![rule.by] = @ + 1]
    BY <1>7
  <2> HIDE DEF slot, rule
  <2>7. /\ stale' \in [DOMAIN present.scenario -> Nat]
        /\ ToldInv'
        /\ \A i \in DOMAIN present.scenario : stale'[i] <= present.scenario[i].reads
        /\ \A r, of : StandsFor(r, of) /\ r.by # by => StandsFor(r, of)'
        /\ Used(rule) # NoRule =>
              \A r : r = Used(rule) => StandsFor(r, "stale-negative-read")' /\ r.by = by
    BY <1>1, <2>1, <2>2, <2>3, <2>6, StaleReadsMean
  <2>8. WorkersTypes'
    BY <1>1, <1>2, <1>7, <2>5, <2>7 DEF WorkersTypes, serviceVars
  <2>9. ViewsInv'
    <3>1. ASSUME NEW region \in Regions, NEW key \in AnyOrKey, views[<<region, key>>] # NoRule
          PROVE  /\ StandsFor(views[<<region, key>>], "stale-read")
                 /\ views[<<region, key>>].by # by
                 /\ present.scenario[views[<<region, key>>].by].region = region
                 /\ present.scenario[views[<<region, key>>].by].key = key
      BY <2>3, <3>1 DEF WorkersInv, ViewsInv, StandsFor
    <3> QED BY <1>1, <1>4, <1>7, <2>4, <2>7, <3>1 DEF ViewsInv, StandsFor
  <2>10. ManualInv'
    <3>1. ASSUME NEW key \in AnyOrKey, key # slot, manual[key] # NoRule
          PROVE  /\ StandsFor(manual[key], "stale-negative-read")
                 /\ manual[key].by # by /\ present.scenario[manual[key].by].key = key
      BY <2>2, <3>1 DEF WorkersInv, ManualInv
    <3>2. ASSUME NEW key \in AnyOrKey, manual'[key] # NoRule
          PROVE  /\ StandsFor(manual[key], "stale-negative-read")'
                 /\ present'.scenario[manual'[key].by].key = key
      <4>1. CASE key = slot
        <5>1. \A r : r = Used(rule) => StandsFor(r, "stale-negative-read")' /\ r.by = by
          BY <2>5, <2>7, <3>2, <4>1
        <5> QED BY <1>1, <2>2, <2>5, <4>1, <5>1 DEF StandsFor
      <4>2. CASE key # slot
        BY <1>1, <2>5, <2>7, <3>1, <3>2, <4>2 DEF StandsFor
      <4> QED BY <4>1, <4>2
    <3> QED BY <1>4, <2>4, <3>2 DEF ManualInv
  <2>11. StaleReadsAreAsked'
    <3>1. read'.kind = "stale-negative-read" /\ read'.key = k /\ read'.value = Deleted
      BY <1>7
    <3> QED BY <1>1, <2>1, <2>2, <2>3, <2>7, <3>1 DEF StaleReadsAreAsked, AskedOf
  <2> QED BY <1>3, <2>7, <2>8, <2>9, <2>10, <2>11 DEF WorkersInv
<1>8. CASE /\ views[View(k)].remaining > 0
           /\ views' = [views EXCEPT ![View(k)] = Used(@)]
           /\ read' = [key |-> k, value |-> ValueBehind(k, views[View(k)].behind), kind |-> "stale-read"]
           /\ stale' = [stale EXCEPT ![views[View(k)].by] = @ + 1]
           /\ UNCHANGED manual
  <2> DEFINE slot == View(k)
             rule == views[slot]
             by == rule.by
  <2>1. PICK asked \in AnyOrKey : slot = <<observer, asked>> /\ asked \in {AnyKey, k}
    BY <1>1 DEF View
  <2>2. /\ observer \in Regions /\ slot \in Regions \X AnyOrKey
        /\ rule \in Served /\ rule # NoRule
    BY <1>2, <1>6, <1>8, <2>1 DEF WorkersTypes
  <2>3. /\ StandsFor(rule, "stale-read")
        /\ present.scenario[by].region = observer /\ present.scenario[by].key = asked
    <3> HIDE DEF slot
    <3> QED BY <2>1, <2>2 DEF WorkersInv, ViewsInv
  <2>4. /\ by \in DOMAIN present.scenario /\ present.scenario[by].kind = "stale-read"
        /\ rule.behind = present.scenario[by].behind /\ rule.remaining > 0
    BY <1>8, <2>3 DEF StandsFor
  <2>5. ~KvCleared
    BY <2>2 DEF WorkersInv, ViewsInv
  <2>6. /\ views'[slot] = Used(rule)
        /\ \A v \in Regions \X AnyOrKey : v # slot => views'[v] = views[v]
        /\ views' \in [Regions \X AnyOrKey -> Served]
    BY <1>2, <1>8, <2>2, <2>4, UsedMeans
  <2>7. stale' = [stale EXCEPT ![rule.by] = @ + 1]
    BY <1>8
  <2>8. /\ read'.kind = "stale-read" /\ read'.key = k
        /\ read'.value = ValueBehind(k, present.scenario[by].behind)
    BY <1>8, <2>4
  <2> HIDE DEF slot, rule
  <2>9. /\ stale' \in [DOMAIN present.scenario -> Nat]
        /\ ToldInv'
        /\ \A i \in DOMAIN present.scenario : stale'[i] <= present.scenario[i].reads
        /\ \A r, of : StandsFor(r, of) /\ r.by # by => StandsFor(r, of)'
        /\ Used(rule) # NoRule =>
              \A r : r = Used(rule) => StandsFor(r, "stale-read")' /\ r.by = by
    BY <1>1, <2>2, <2>3, <2>4, <2>7, StaleReadsMean
  <2>10. WorkersTypes'
    BY <1>1, <1>2, <1>8, <2>6, <2>9 DEF WorkersTypes, serviceVars
  <2>11. ManualInv'
    <3>1. ASSUME NEW key \in AnyOrKey, manual[key] # NoRule
          PROVE  /\ StandsFor(manual[key], "stale-negative-read")
                 /\ manual[key].by # by /\ present.scenario[manual[key].by].key = key
      BY <2>4, <3>1 DEF WorkersInv, ManualInv, StandsFor
    <3> QED BY <1>1, <1>4, <1>8, <2>5, <2>9, <3>1 DEF ManualInv, StandsFor
  <2>12. ViewsInv'
    <3>1. ASSUME NEW region \in Regions, NEW key \in AnyOrKey,
                 <<region, key>> # slot, views[<<region, key>>] # NoRule
          PROVE  /\ StandsFor(views[<<region, key>>], "stale-read")
                 /\ views[<<region, key>>].by # by
                 /\ present.scenario[views[<<region, key>>].by].region = region
                 /\ present.scenario[views[<<region, key>>].by].key = key
      <4>1. /\ StandsFor(views[<<region, key>>], "stale-read")
            /\ present.scenario[views[<<region, key>>].by].region = region
            /\ present.scenario[views[<<region, key>>].by].key = key
        BY <3>1 DEF WorkersInv, ViewsInv
      <4> QED BY <2>1, <2>3, <3>1, <4>1
    <3>2. ASSUME NEW region \in Regions, NEW key \in AnyOrKey, views'[<<region, key>>] # NoRule
          PROVE  /\ StandsFor(views[<<region, key>>], "stale-read")'
                 /\ present'.scenario[views'[<<region, key>>].by].region = region
                 /\ present'.scenario[views'[<<region, key>>].by].key = key
      <4>1. CASE <<region, key>> = slot
        <5>1. \A r : r = Used(rule) => StandsFor(r, "stale-read")' /\ r.by = by
          BY <2>6, <2>9, <3>2, <4>1
        <5>2. region = observer /\ key = asked
          BY <2>1, <4>1
        <5> QED BY <1>1, <2>3, <2>6, <4>1, <5>1, <5>2 DEF StandsFor
      <4>2. CASE <<region, key>> # slot
        <5>1. views'[<<region, key>>] = views[<<region, key>>]
          BY <2>6, <4>2
        <5> QED BY <1>1, <2>9, <3>1, <3>2, <4>2, <5>1 DEF StandsFor
      <4> QED BY <4>1, <4>2
    <3> QED BY <1>4, <2>5, <3>2 DEF ViewsInv
  <2>13. StaleReadsAreAsked'
    BY <1>1, <1>5, <2>1, <2>3, <2>4, <2>8, <2>9 DEF StaleReadsAreAsked, AskedOf
  <2> QED BY <1>3, <2>9, <2>10, <2>11, <2>12, <2>13 DEF WorkersInv
<1>9. CASE /\ read' = [key |-> k, value |-> ValueBehind(k, 0), kind |-> "none"]
           /\ UNCHANGED <<views, manual, stale>>
  <2>1. ViewsInv' /\ ManualInv'
    BY <1>1, <1>2, <1>4, <1>9, RulesStillStand DEF Doing
  <2>2. WorkersTypes' /\ ToldInv'
    BY <1>1, <1>2, <1>9 DEF WorkersInv, WorkersTypes, ToldInv, Doing, serviceVars
  <2>3. StaleReadsAreAsked'
    BY <1>1, <1>9 DEF WorkersInv, StaleReadsAreAsked
  <2> QED BY <1>3, <2>1, <2>2, <2>3 DEF WorkersInv
<1> QED BY <1>7, <1>8, <1>9 DEF Get

\* What stands is what the present scenario asks for.
LEMMA WorkersObey == WorkersInv => WorkersObeyScenarios
<1> SUFFICES ASSUME WorkersInv PROVE WorkersObeyScenarios
  OBVIOUS
<1>1. /\ views \in [Regions \X AnyOrKey -> Served] /\ manual \in [AnyOrKey -> Served]
      /\ NoRule.of = 0
  BY DEF WorkersInv, WorkersTypes, NoRule
<1>2. ASSUME NEW region \in Regions, NEW key \in AnyOrKey
      PROVE  views[<<region, key>>].of \in {0, present.number}
  BY <1>1 DEF WorkersInv, ViewsInv, StandsFor
<1>3. \A v \in Regions \X AnyOrKey : \E region \in Regions, key \in AnyOrKey : v = <<region, key>>
  OBVIOUS
<1>4. \A v \in DOMAIN views : views[v].of \in {0, present.number}
  BY <1>1, <1>2, <1>3
<1>5. \A key \in DOMAIN manual : manual[key].of \in {0, present.number}
  BY <1>1 DEF WorkersInv, ManualInv, StandsFor
<1> QED BY <1>4, <1>5 DEF WorkersObeyScenarios, NothingIsLeftOver, WorkersInv, PlanInv

\* The Workers' invariant: what each of them holds stands for a perturbation of the
\* scenario that is being applied (configureService, configureKv, resetNemesisBindings).
THEOREM WorkersInvariant == NemesisSpec => []WorkersInv
<1>1. ASSUME WorkersInv, [NemesisNext]_nemesisVars PROVE WorkersInv'
  <2>1. CASE Reset
    BY <1>1, <2>1, ResetKeepsInv
  <2>2. CASE Seed
    BY <1>1, <2>2, SeedKeepsInv
  <2>3. CASE SetObserver
    BY <1>1, <2>3, SetObserverKeepsInv
  <2>4. CASE SetRule
    BY <1>1, <2>4, SetRuleKeepsInv
  <2>5. CASE Apply
    BY <1>1, <2>5, ApplyKeepsInv
  <2>6. CASE NextScenario
    BY <1>1, <2>6, NextScenarioKeepsInv
  <2>7. ASSUME NEW c \in Clients, Proceed(c) PROVE WorkersInv'
    BY <1>1, <2>7, BystandersKeepInv DEF Proceed, kvVars
  <2>8. ASSUME NEW c \in Clients, NEW route \in Routes, Request(c, route) PROVE WorkersInv'
    BY <1>1, <2>8, RequestKeepsInv
  <2>9. ASSUME NEW k \in KvKeys, Get(k) PROVE WorkersInv'
    BY <1>1, <2>9, GetKeepsInv
  <2>10. ASSUME NEW k \in KvKeys, NEW value, Write(k, value) PROVE WorkersInv'
    BY <1>1, <2>10, BystandersKeepInv DEF Write, serviceVars
  <2>11. CASE Send
    BY <1>1, <2>11, BystandersKeepInv DEF Send, serviceVars, kvVars
  <2>12. CASE UNCHANGED nemesisVars
    BY <1>1, <2>12, BystandersKeepInv DEF nemesisVars, serviceVars, kvVars
  <2> QED BY <1>1, <2>1, <2>2, <2>3, <2>4, <2>5, <2>6, <2>7, <2>8, <2>9, <2>10, <2>11, <2>12
           DEF NemesisNext, Application
<1> QED BY <1>1, WorkersStart, PTL DEF NemesisSpec

\* Workers do what the present scenario asks for and nothing else, as far as the rules for a
\* route's request and the stale reads go.
THEOREM WorkersDoWhatIsAsked == NemesisSpec => []WorkersObeyScenarios
BY WorkersInvariant, WorkersObey, PTL
=============================================================================

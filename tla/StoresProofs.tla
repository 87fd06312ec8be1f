----------------------------- MODULE StoresProofs -----------------------------
(***************************************************************************)
(* What outlives a call: a result that was stored is found and belongs to  *)
(* the scenario asked for (ScenarioCache), a CI job that ends with exit 0  *)
(* has earned it, whatever earlier runs left behind (CIRuns), a database   *)
(* session never goes back and the consistency checkers tell the truth     *)
(* about what observers saw (ReplicaReads), and every release of a         *)
(* contract version keeps what the earlier ones promised                   *)
(* (ContractEvolution).                                                    *)
(***************************************************************************)
EXTENDS ScenarioCache, CIRuns, ReplicaReads, ContractEvolution,
        FiniteSetTheorems, WellFoundedInduction, TLAPS

---------------------------------------------------------------------------
(* The cache never mixes results up, for any number of workers, scenarios and
   processes: what it holds is filed under a key that tells two scenarios apart by
   their seeds and by what they perturb in which order. *)

CacheInv ==
    /\ file.holds \subseteq Scenarios
    /\ entries \subseteq Scenarios
    /\ document \in [Workers -> SUBSET Scenarios]
    /\ asked \in [Workers -> Scenarios \cup {NoScenario}]
    /\ found \in [Workers -> Scenarios \cup {NoScenario}]
    /\ pc \in [Workers -> {"idle", "loading", "executing", "directory", "opening", "writing"}]
    /\ \A w \in Workers : pc[w] \in {"loading", "executing"} => asked[w] \in Scenarios
    /\ ResultIsForTheScenario

LEMMA HitIsAlike ==
    ASSUME NEW held, NEW s, NEW t \in Hits(s, held)
    PROVE  t \in held /\ Alike(t, s)
<1>1. t \in held /\ t.seed = s.seed /\ Named(t) = Named(s)
  BY DEF Hits, Fingerprint
<1>2. DOMAIN Named(t) = DOMAIN t.perturbations /\ DOMAIN Named(s) = DOMAIN s.perturbations
  BY DEF Named
<1>3. ASSUME NEW i \in DOMAIN s.perturbations
      PROVE  t.perturbations[i].named = s.perturbations[i].named
  <2>1. Named(s)[i] = s.perturbations[i].named
    BY DEF Named
  <2>2. Named(t)[i] = t.perturbations[i].named
    BY <1>1, <1>2 DEF Named
  <2> QED BY <1>1, <2>1, <2>2
<1> QED BY <1>1, <1>2, <1>3 DEF Alike

LEMMA AlikeItself == \A s : Alike(s, s)
BY DEF Alike

\* What one worker is given leaves the others' results as they are.
LEMMA GivenKeeps ==
    ASSUME CacheInv, NEW w \in Workers, NEW t \in Scenarios \cup {NoScenario},
           NEW s \in Scenarios \cup {NoScenario},
           asked' = [asked EXCEPT ![w] = s], found' = [found EXCEPT ![w] = t],
           t = NoScenario \/ Alike(t, s)
    PROVE  /\ ResultIsForTheScenario'
           /\ found' \in [Workers -> Scenarios \cup {NoScenario}]
           /\ asked' \in [Workers -> Scenarios \cup {NoScenario}]
<1>1. ASSUME NEW v \in Workers
      PROVE  found'[v] = NoScenario \/ Alike(found'[v], asked'[v])
  <2>1. CASE v = w
    BY <2>1 DEF CacheInv
  <2>2. CASE v # w
    <3>1. found'[v] = found[v] /\ asked'[v] = asked[v]
      BY <2>2 DEF CacheInv
    <3> QED BY <3>1 DEF CacheInv, ResultIsForTheScenario
  <2> QED BY <2>1, <2>2
<1> QED BY <1>1 DEF ResultIsForTheScenario, CacheInv

LEMMA CacheInvHolds == Spec => []CacheInv
<1>1. Init => CacheInv
  BY DEF Init, CacheInv, Absent, ResultIsForTheScenario
<1>2. CacheInv /\ [Next]_vars => CacheInv'
  <2> SUFFICES ASSUME CacheInv, [Next]_vars PROVE CacheInv'
    OBVIOUS
  <2>1. ASSUME NEW w \in Workers, NEW s \in Scenarios, Call(w, s) PROVE CacheInv'
    <3>1. PICK t \in Scenarios \cup {NoScenario} :
            found' = [found EXCEPT ![w] = t] /\ (t = NoScenario \/ Alike(t, s))
      BY <2>1, HitIsAlike DEF Call, LookUp, CacheInv
    <3>2. asked' = [asked EXCEPT ![w] = s]
      BY <2>1 DEF Call
    <3>3. /\ ResultIsForTheScenario'
          /\ found' \in [Workers -> Scenarios \cup {NoScenario}]
          /\ asked' \in [Workers -> Scenarios \cup {NoScenario}]
      BY <3>1, <3>2, GivenKeeps
    <3> QED BY <2>1, <3>2, <3>3 DEF Call, LookUp, CacheInv
  <2>2. ASSUME NEW w \in Workers, Load(w) PROVE CacheInv'
    <3>1. AfterRead \subseteq Scenarios /\ asked[w] \in Scenarios
      BY <2>2 DEF Load, AfterRead, CacheInv
    <3>2. PICK t \in Scenarios \cup {NoScenario} :
            found' = [found EXCEPT ![w] = t] /\ (t = NoScenario \/ Alike(t, asked[w]))
      BY <2>2, <3>1, HitIsAlike DEF Load, LookUp
    <3>3. asked' = [asked EXCEPT ![w] = asked[w]]
      BY <2>2 DEF Load, CacheInv
    <3>4. /\ ResultIsForTheScenario'
          /\ found' \in [Workers -> Scenarios \cup {NoScenario}]
      BY <3>1, <3>2, <3>3, GivenKeeps
    <3> QED BY <2>2, <3>1, <3>4 DEF Load, LookUp, CacheInv
  <2>3. ASSUME NEW w \in Workers, LoadFails(w) \/ ExecuteRejects(w) PROVE CacheInv'
    BY <2>3 DEF LoadFails, ExecuteRejects, CacheInv, ResultIsForTheScenario
  <2>4. ASSUME NEW w \in Workers, Execute(w) PROVE CacheInv'
    <3>1. asked[w] \in Scenarios /\ WithEntry(entries, asked[w]) \subseteq Scenarios
      BY <2>4 DEF Execute, WithEntry, CacheInv
    <3>2. found' = [found EXCEPT ![w] = asked[w]] /\ asked' = [asked EXCEPT ![w] = asked[w]]
      BY <2>4 DEF Execute, CacheInv
    <3>3. ResultIsForTheScenario' /\ found' \in [Workers -> Scenarios \cup {NoScenario}]
      BY <3>1, <3>2, AlikeItself, GivenKeeps
    <3> QED BY <2>4, <3>1, <3>3 DEF Execute, CacheInv
  <2>5. ASSUME NEW w \in Workers, Snapshot(w) PROVE CacheInv'
    BY <2>5 DEF Snapshot, CacheInv, ResultIsForTheScenario
  <2>6. ASSUME NEW w \in Workers, Open(w) PROVE CacheInv'
    BY <2>6 DEF Open, Absent, CacheInv, ResultIsForTheScenario
  <2>7. ASSUME NEW w \in Workers, Write(w) PROVE CacheInv'
    <3>1. file'.holds \subseteq Scenarios
      <4>1. CASE file' = Whole(document[w])
        BY <4>1 DEF Whole, CacheInv
      <4>2. CASE file' = [file EXCEPT !.whole = FALSE, !.holds = {}]
        BY <4>2
      <4> QED BY <2>7, <4>1, <4>2 DEF Write
    <3> QED BY <2>7, <3>1 DEF Write, CacheInv, ResultIsForTheScenario
  <2>8. CASE Restart
    BY <2>8 DEF Restart, CacheInv, ResultIsForTheScenario
  <2>9. CASE UNCHANGED vars
    BY <2>9 DEF vars, CacheInv, ResultIsForTheScenario
  <2> QED BY <2>1, <2>2, <2>3, <2>4, <2>5, <2>6, <2>7, <2>8, <2>9 DEF Next, Step
<1> QED BY <1>1, <1>2, PTL DEF Spec

\* No worker is ever given the result of a scenario that differs in more than what its
\* perturbations do (cache.ts scenarioFingerprint, withScenarioCache), whatever overlaps,
\* crashes or leaves a torn file behind.
THEOREM ResultsAreNeverMixedUp == Spec => []ResultIsForTheScenario
<1>1. CacheInv => ResultIsForTheScenario
  BY DEF CacheInv
<1> QED BY <1>1, CacheInvHolds, PTL

---------------------------------------------------------------------------
(* A stored result is found again, as long as calls do not overlap and no process
   dies in one: between calls the file has it, within a process the memory does, and
   while a call writes, the document it writes does. *)

Places == {"idle", "loading", "executing", "directory", "opening", "writing"}

StoreTypes ==
    /\ pc \in [Workers -> Places]
    /\ asked \in [Workers -> Scenarios \cup {NoScenario}]
    /\ document \in [Workers -> {held \in SUBSET Scenarios : IsFiniteSet(held)}]
    /\ entries \subseteq Scenarios /\ IsFiniteSet(entries)
    /\ file.holds \subseteq Scenarios /\ IsFiniteSet(file.holds)
    /\ ~file.exists => file.holds = {}
    /\ \A w \in Workers : pc[w] \in {"loading", "executing"} => asked[w] \in Scenarios

Busy(w) == pc[w] # "idle"

Undisturbed ==
    /\ \A v, w \in Workers : Busy(v) /\ Busy(w) => v = w
    /\ (\A w \in Workers : pc[w] # "writing") =>
          stored \subseteq file.holds /\ (file.exists => file.whole)
    /\ (loaded /\ \A w \in Workers : pc[w] # "loading") => stored \subseteq entries
    /\ \A w \in Workers :
          /\ Busy(w) => loaded
          /\ pc[w] = "executing" => Hits(asked[w], entries) = {}
          /\ pc[w] = "directory" => asked[w] \in entries
          /\ pc[w] \in {"opening", "writing"} => stored \cup {asked[w]} \subseteq document[w]
          /\ pc[w] = "opening" => document[w] = entries
          /\ pc[w] = "writing" => file.length = 0 /\ document[w] = entries

StoreInv == StoreTypes /\ (~disturbed => Undisturbed)

LEMMA StoreTypesKept == StoreTypes /\ [Next]_vars => StoreTypes'
<1> SUFFICES ASSUME StoreTypes, [Next]_vars PROVE StoreTypes'
  OBVIOUS
<1>1. ASSUME NEW w \in Workers, NEW s \in Scenarios, Call(w, s) PROVE StoreTypes'
  BY <1>1 DEF Call, LookUp, StoreTypes, Places
<1>2. ASSUME NEW w \in Workers, Load(w) PROVE StoreTypes'
  BY <1>2 DEF Load, AfterRead, LookUp, StoreTypes, Places
<1>3. ASSUME NEW w \in Workers, LoadFails(w) \/ ExecuteRejects(w) PROVE StoreTypes'
  BY <1>3 DEF LoadFails, ExecuteRejects, StoreTypes, Places
<1>4. ASSUME NEW w \in Workers, Execute(w) PROVE StoreTypes'
  <2>1. asked[w] \in Scenarios
    BY <1>4 DEF Execute, StoreTypes
  <2>2. IsFiniteSet({t \in entries : Fingerprint(t) # Fingerprint(asked[w])})
    BY FS_Subset DEF StoreTypes
  <2>3. WithEntry(entries, asked[w]) \subseteq Scenarios /\ IsFiniteSet(WithEntry(entries, asked[w]))
    BY <2>1, <2>2, FS_AddElement DEF WithEntry, StoreTypes
  <2> QED BY <1>4, <2>3 DEF Execute, StoreTypes, Places
<1>5. ASSUME NEW w \in Workers, Snapshot(w) PROVE StoreTypes'
  BY <1>5 DEF Snapshot, StoreTypes, Places
<1>6. ASSUME NEW w \in Workers, Open(w) PROVE StoreTypes'
  BY <1>6, FS_EmptySet DEF Open, Absent, StoreTypes, Places
<1>7. ASSUME NEW w \in Workers, Write(w) PROVE StoreTypes'
  <2>1. /\ file'.holds \subseteq Scenarios /\ IsFiniteSet(file'.holds)
        /\ ~file'.exists => file'.holds = {}
    <3>1. CASE file' = Whole(document[w])
      BY <3>1 DEF Whole, StoreTypes
    <3>2. CASE file' = [file EXCEPT !.whole = FALSE, !.holds = {}]
      BY <3>2, FS_EmptySet
    <3> QED BY <1>7, <3>1, <3>2 DEF Write
  <2> QED BY <1>7, <2>1 DEF Write, StoreTypes, Places
<1>8. CASE Restart
  BY <1>8, FS_EmptySet DEF Restart, StoreTypes, Places
<1>9. CASE UNCHANGED vars
  BY <1>9 DEF vars, StoreTypes
<1> QED BY <1>1, <1>2, <1>3, <1>4, <1>5, <1>6, <1>7, <1>8, <1>9 DEF Next, Step

LEMMA StoreInvHolds == Spec => []StoreInv
<1>1. Init => StoreInv
  BY FS_EmptySet DEF Init, StoreInv, StoreTypes, Undisturbed, Busy, Absent, Places
<1>2. StoreInv /\ [Next]_vars => StoreInv'
  <2> SUFFICES ASSUME StoreInv, [Next]_vars, ~disturbed' PROVE Undisturbed'
    BY StoreTypesKept DEF StoreInv
  <2>0. StoreTypes /\ StoreTypes' /\ Undisturbed
    <3>1. disturbed => disturbed'
      BY DEF Next, Step, vars, Call, Load, LoadFails, Execute, ExecuteRejects, Snapshot,
             Open, Write, Restart
    <3> QED BY <3>1, StoreTypesKept DEF StoreInv
  <2>1. ASSUME NEW w \in Workers, NEW s \in Scenarios, Call(w, s) PROVE Undisturbed'
    <3>1. \A v \in Workers : ~Busy(v)
      BY <2>1 DEF Call, Busy
    <3> QED BY <2>0, <2>1, <3>1 DEF Call, LookUp, Undisturbed, Busy, StoreTypes, Places
  <2>2. ASSUME NEW w \in Workers, Load(w) PROVE Undisturbed'
    <3>1. \A v \in Workers : Busy(v) => v = w
      BY <2>0, <2>2 DEF Load, Undisturbed, Busy
    <3>2. stored \subseteq AfterRead
      BY <2>0, <2>2, <3>1 DEF Load, AfterRead, Undisturbed, Busy, StoreTypes
    <3> QED BY <2>0, <2>2, <3>1, <3>2 DEF Load, LookUp, Undisturbed, Busy, StoreTypes, Places
  <2>3. ASSUME NEW w \in Workers, LoadFails(w) PROVE Undisturbed'
    BY <2>0, <2>3 DEF LoadFails, Undisturbed, Busy, StoreTypes, Places
  <2>4. ASSUME NEW w \in Workers, ExecuteRejects(w) PROVE Undisturbed'
    BY <2>0, <2>4 DEF ExecuteRejects, Undisturbed, Busy, StoreTypes, Places
  <2>5. ASSUME NEW w \in Workers, Execute(w) PROVE Undisturbed'
    <3>1. entries' = entries \cup {asked[w]}
      BY <2>0, <2>5 DEF Execute, WithEntry, Hits, Undisturbed
    <3> QED BY <2>0, <2>5, <3>1 DEF Execute, Undisturbed, Busy, StoreTypes, Places
  <2>6. ASSUME NEW w \in Workers, Snapshot(w) PROVE Undisturbed'
    BY <2>0, <2>6 DEF Snapshot, Undisturbed, Busy, StoreTypes, Places
  <2>7. ASSUME NEW w \in Workers, Open(w) PROVE Undisturbed'
    BY <2>0, <2>7 DEF Open, Absent, Undisturbed, Busy, StoreTypes, Places
  <2>8. ASSUME NEW w \in Workers, Write(w) PROVE Undisturbed'
    <3>1. Cardinality(document[w]) \in Nat
      BY <2>0, FS_CardinalityType DEF StoreTypes
    <3>2. file' = Whole(document[w])
      BY <2>0, <2>8, <3>1 DEF Write, Whole, Undisturbed
    <3>3. file'.holds = document[w] /\ file'.whole
      BY <3>2 DEF Whole
    <3>4. \A v \in Workers : pc'[v] = "idle"
      BY <2>0, <2>8 DEF Write, Undisturbed, Busy, StoreTypes
    <3>5. stored' \subseteq document[w] /\ document[w] = entries /\ entries' = entries
      BY <2>0, <2>8 DEF Write, Undisturbed
    <3> QED BY <3>3, <3>4, <3>5 DEF Undisturbed, Busy
  <2>9. CASE Restart
    BY <2>0, <2>9 DEF Restart, Undisturbed, Busy, StoreTypes, Places
  <2>10. CASE UNCHANGED vars
    BY <2>0, <2>10 DEF vars, Undisturbed, Busy
  <2> QED BY <2>1, <2>2, <2>3, <2>4, <2>5, <2>6, <2>7, <2>8, <2>9, <2>10 DEF Next, Step
<1> QED BY <1>1, <1>2, PTL DEF Spec

\* "persistent scenario/result cache" (cache.ts withScenarioCache), for any number of
\* workers, scenarios and processes.
THEOREM StoredIsNotExecutedAgain == Spec => NoSecondExecution
<1>1. StoreInv /\ [Next]_vars =>
        [\A w \in Workers : Execute(w) /\ ~disturbed => asked[w] \notin stored]_vars
  <2> SUFFICES ASSUME StoreInv, NEW w \in Workers, Execute(w), ~disturbed
               PROVE  asked[w] \notin stored
    BY DEF vars
  <2>1. Hits(asked[w], entries) = {} /\ stored \subseteq entries
    BY DEF StoreInv, Undisturbed, Execute, Busy
  <2> QED BY <2>1 DEF Hits
<1> QED BY <1>1, StoreInvHolds, PTL DEF Spec, NoSecondExecution

-------------------------------------------------------------------------------
(* Exit 0 of a CI job.  While a run goes on and nothing bad is on its record, every
   suite behind it is explored; what guidance makes a search leave out was executed
   by an earlier search of the same suite, provided suites do not share a file. *)

Ids(set) == {IdOf(c) : c \in set}

NothingBad == records \cap {"fail", "reproduced", "error"} = {}

CITypes ==
  /\ step \in {"idle", "load", "execute", "save"}
  /\ suite \in Nat
  /\ step # "idle" => suite \in Suites
  /\ saved \in [{GuidanceFile[s] : s \in Suites} -> SUBSET Ids(Candidates)]
  /\ ran \in [Suites -> SUBSET Candidates]
  /\ plan \subseteq Candidates /\ runs \subseteq plan
  /\ cut \subseteq Suites

\* Only what was executed is taken for executed.
Remembered == \A s \in Suites : saved[GuidanceFile[s]] \subseteq Ids(ran[s])

Searching ==
  step \in {"execute", "save"} =>
    /\ ~Unreadable
    /\ guidance \subseteq Ids(ran[suite])
    /\ plan \in Plans(guidance)
    /\ runs \subseteq ran[suite]
    /\ step = "save" /\ suite \notin cut => Remaining = {}

\* Nothing of a suite is left to execute, or its search is on the record as incomplete.
Explored(s) ==
  /\ MaxScenarios >= Cardinality(Candidates) =>
        \/ ran[s] = Candidates
        \/ s \in cut /\ "incomplete" \in records
  /\ GuidanceFile[s] \notin torn

PinsHold == \A pin \in pins : pin.set \notin broken[pin.suite]

CIInv ==
  /\ CITypes
  /\ Remembered
  /\ Searching
  /\ step # "idle" => outcome = NoOutcome
  /\ step # "idle" /\ NothingBad =>
        /\ "no-regressions" \notin flags => PinsHold
        /\ \A s \in Suites : s < suite => Explored(s)
  /\ GreenIsEarned

OneFileEach == \A s, t \in Suites : GuidanceFile[s] = GuidanceFile[t] => s = t

LEMMA MinOfTwo ==
  ASSUME NEW m \in Nat, NEW n \in Nat, m >= n
  PROVE  Min({m, n}) = n
BY DEF Min

\* A search that executed its whole plan leaves nothing of its suite unexplored.
LEMMA SearchedInFull ==
  ASSUME CITypes, Searching, step = "save", failing = {}, suite \notin cut,
         MaxScenarios >= Cardinality(Candidates)
  PROVE  ran[suite] = Candidates
<1> DEFINE fresh == {c \in Candidates : IdOf(c) \notin guidance}
<1>1. /\ IsFiniteSet(fresh)
      /\ Cardinality(fresh) \in Nat /\ Cardinality(Candidates) \in Nat
      /\ Cardinality(fresh) <= Cardinality(Candidates)
  BY CIAssumption, FS_Subset, FS_CardinalityType
<1>2. plan \subseteq fresh /\ Cardinality(plan) = Min({MaxScenarios, Cardinality(fresh)})
  BY DEF Searching, Plans
<1>3. Cardinality(plan) = Cardinality(fresh)
  BY <1>1, <1>2, MinOfTwo, CIAssumption
<1>4. plan = fresh
  BY <1>1, <1>2, <1>3, FS_Subset
<1>5. plan \subseteq ran[suite]
  BY DEF Searching, Remaining
<1>6. ASSUME NEW c \in Candidates, IdOf(c) \in guidance PROVE c \in ran[suite]
  <2>1. IdOf(c) \in Ids(ran[suite]) /\ ran[suite] \subseteq Candidates
    BY <1>6 DEF Searching, CITypes
  <2> QED BY <2>1, CIAssumption DEF Ids, IdOf
<1>7. ran[suite] \subseteq Candidates
  BY DEF CITypes
<1> QED BY <1>4, <1>5, <1>6, <1>7

LEMMA ReportTypes ==
  ASSUME CITypes, NEW status, step # "idle", Report(status), UNCHANGED ran,
         saved' \in [{GuidanceFile[s] : s \in Suites} -> SUBSET Ids(Candidates)]
  PROVE  CITypes'
<1>1. suite \in Suites /\ NumSuites \in Nat
  BY CIAssumption DEF CITypes
<1>2. plan' = {} /\ runs' = {}
  BY DEF Report, Forget
<1>3. CASE suite < NumSuites
  <2>1. step' = "load" /\ suite' = suite + 1 /\ cut' = cut
    BY <1>1, <1>3 DEF Report, Suites
  <2>2. suite' \in Suites /\ suite' \in Nat
    BY <1>1, <1>3, <2>1 DEF Suites
  <2> QED BY <1>2, <2>1, <2>2 DEF CITypes
<1>4. CASE ~(suite < NumSuites)
  <2>1. step' = "idle" /\ suite' = 0 /\ cut' = {}
    BY <1>4 DEF Report, Over
  <2> QED BY <1>2, <2>1 DEF CITypes
<1> QED BY <1>3, <1>4

\* The record of a suite, and with the last one the outcome of the run.
LEMMA ReportKeeps ==
  ASSUME NEW status, CIInv, CITypes', step # "idle",
         Report(status), UNCHANGED <<broken, pins, torn, ran>>, Remembered',
         status \notin {"fail", "error"} =>
           /\ MaxScenarios >= Cardinality(Candidates) =>
                 \/ ran[suite] = Candidates
                 \/ suite \in cut /\ status = "incomplete"
           /\ GuidanceFile[suite] \notin torn
  PROVE  CIInv'
<1> DEFINE all == records \cup {status}
           SuiteIsOver(s) ==
               /\ MaxScenarios >= Cardinality(Candidates) =>
                     \/ ran[s] = Candidates
                     \/ s \in cut /\ "incomplete" \in all
               /\ GuidanceFile[s] \notin torn
<1>1. /\ suite \in Suites /\ suite \in Nat /\ NumSuites \in Nat
      /\ outcome = NoOutcome
  BY CIAssumption DEF CIInv, CITypes
<1>2. ASSUME all \cap {"fail", "reproduced", "error"} = {}
      PROVE  /\ "no-regressions" \notin flags => PinsHold
             /\ \A s \in Suites : s <= suite => SuiteIsOver(s)
  <2>1. NothingBad /\ status \notin {"fail", "error"}
    BY <1>2 DEF NothingBad
  <2>2. /\ "no-regressions" \notin flags => PinsHold
        /\ \A s \in Suites : s < suite => Explored(s)
    BY <2>1 DEF CIInv
  <2>3. SuiteIsOver(suite)
    BY <2>1
  <2>4. ASSUME NEW s \in Suites, s < suite PROVE SuiteIsOver(s)
    BY <2>2, <2>4 DEF Explored
  <2>5. \A s \in Suites : s <= suite => s < suite \/ s = suite
    BY <1>1 DEF Suites
  <2> HIDE DEF SuiteIsOver
  <2> QED BY <2>2, <2>3, <2>4, <2>5
<1>3. CASE suite = NumSuites
  <2>1. /\ step' = "idle"
        /\ outcome' = [status |-> ExitCodeFor(all), flags |-> flags, cut |-> cut]
    BY <1>1, <1>3 DEF Report, Over
  <2>2. ASSUME outcome'.status = "pass"
        PROVE  /\ all \cap {"fail", "reproduced", "error"} = {}
               /\ "strict" \in flags => "incomplete" \notin all
    <3>1. ExitCodeFor(all) = "pass"
      BY <2>1, <2>2
    <3> HIDE DEF all
    <3> QED BY <3>1 DEF ExitCodeFor
  <2>3. \A s \in Suites : s <= suite
    BY <1>1, <1>3 DEF Suites
  <2>4. ASSUME outcome'.status = "pass"
        PROVE  /\ "no-regressions" \notin flags => PinsHold
               /\ \A s \in Suites : SuiteIsOver(s)
    <3> HIDE DEF SuiteIsOver, all
    <3> QED BY <1>2, <2>2, <2>3, <2>4
  <2>5. outcome'.flags = flags /\ outcome'.cut = cut
    BY <2>1
  <2>6. GreenIsEarned'
    BY <2>2, <2>4, <2>5 DEF GreenIsEarned, PinsHold
  <2> QED BY <2>1, <2>6 DEF CIInv, Searching
<1>4. CASE suite # NumSuites
  <2>1. /\ step' = "load" /\ suite' = suite + 1 /\ records' = all
        /\ flags' = flags /\ cut' = cut /\ outcome' = NoOutcome
    BY <1>1, <1>4 DEF Report
  <2>2. \A s \in Suites : s < suite' => s <= suite
    BY <1>1, <2>1 DEF Suites
  <2>3. GreenIsEarned'
    BY <2>1 DEF GreenIsEarned, NoOutcome
  <2>4. ASSUME NothingBad'
        PROVE  /\ ("no-regressions" \notin flags => PinsHold)'
               /\ \A s \in Suites : s < suite' => Explored(s)'
    <3>1. /\ "no-regressions" \notin flags => PinsHold
          /\ \A s \in Suites : s <= suite => SuiteIsOver(s)
      BY <1>2, <2>1, <2>4 DEF NothingBad
    <3>2. ASSUME NEW s \in Suites, SuiteIsOver(s) PROVE Explored(s)'
      BY <2>1, <3>2 DEF Explored
    <3>3. PinsHold' <=> PinsHold
      BY DEF PinsHold
    <3> HIDE DEF SuiteIsOver
    <3> QED BY <2>1, <2>2, <3>1, <3>2, <3>3
  <2> QED BY <2>1, <2>3, <2>4 DEF CIInv, Searching
<1> QED BY <1>3, <1>4

LEMMA CIInvHolds == ASSUME OneFileEach PROVE CISpec => []CIInv
<1>1. CIInit => CIInv
  BY DEF CIInit, CIInv, CITypes, Remembered, Searching, GreenIsEarned, NoOutcome
<1>2. CIInv /\ [CINext]_ciVars => CIInv'
  <2> SUFFICES ASSUME CIInv, [CINext]_ciVars PROVE CIInv'
    OBVIOUS
  <2>0. CITypes /\ Remembered /\ Searching /\ GreenIsEarned
    BY DEF CIInv
  <2>1. CASE Commit
    BY <2>1, <2>0 DEF Commit, CIInv, CITypes, Remembered, Searching, GreenIsEarned, NoOutcome, store,
       search, job
  <2>2. CASE PinFailure
    BY <2>2, <2>0 DEF PinFailure, CIInv, CITypes, Remembered, Searching, GreenIsEarned, NoOutcome, store,
       search, job
  <2>3. ASSUME NEW f \in DOMAIN saved, GuidanceLost(f) PROVE CIInv'
    <3>1. step = "idle" /\ step' = "idle" /\ UNCHANGED <<code, suite, search, job, outcome, ran>>
      BY <2>3 DEF GuidanceLost
    <3>2. torn' \subseteq torn
      BY <2>3 DEF GuidanceLost
    <3>3. GreenIsEarned'
      BY <3>1, <3>2, <2>0 DEF GreenIsEarned, code
    <3>4. Remembered' /\ CITypes'
      BY <2>3, <2>0 DEF GuidanceLost, Remembered, CITypes, search, job
    <3> QED BY <3>1, <3>3, <3>4 DEF CIInv, Searching
  <2>4. CASE StartRun
    <3>1. 1 \in Suites
      BY CIAssumption DEF Suites
    <3>2. ASSUME NothingBad', "no-regressions" \notin flags' PROVE PinsHold'
      <4>1. PICK thrown \in SUBSET pins : records' = ReplayPins(thrown)
        BY <2>4, <3>2 DEF StartRun
      <4>2. ASSUME NEW pin \in pins PROVE pin.set \notin broken[pin.suite]
        <5>1. pin \notin thrown
          BY <3>2, <4>1 DEF ReplayPins, NothingBad
        <5>2. Replay(pin) # "reproduced"
          BY <3>2, <4>1, <5>1 DEF ReplayPins, NothingBad
        <5> QED BY <5>2 DEF Replay
      <4> QED BY <2>4, <4>2 DEF StartRun, PinsHold, code
    <3>3. \A s \in Suites : ~(s < suite')
      BY <2>4, CIAssumption DEF StartRun, Suites
    <3>4. /\ suite' = 1 /\ step' = "load" /\ cut' = {} /\ outcome' = NoOutcome
          /\ UNCHANGED <<saved, ran, plan, runs>>
      BY <2>4 DEF StartRun, store, search
    <3>5. CITypes' /\ Remembered' /\ Searching' /\ GreenIsEarned'
      BY <2>0, <3>1, <3>4 DEF CITypes, Remembered, Searching, GreenIsEarned, NoOutcome
    <3> QED BY <3>2, <3>3, <3>4, <3>5 DEF CIInv
  <2>5. CASE LoadRejects
    <3>1. CITypes'
      <4>1. saved' \in [{GuidanceFile[s] : s \in Suites} -> SUBSET Ids(Candidates)]
        BY <2>5, <2>0 DEF LoadRejects, CITypes, store
      <4> QED BY <2>5, <2>0, <4>1, ReportTypes DEF LoadRejects
    <3>2. Remembered'
      BY <2>5, <2>0 DEF LoadRejects, Remembered, store
    <3> QED BY <2>5, <3>1, <3>2, ReportKeeps DEF LoadRejects, code, store
  <2>6. CASE LoadGuidance
    <3>1. suite \in Suites /\ guidance' \subseteq Ids(ran[suite])
      BY <2>6, <2>0 DEF LoadGuidance, Loaded, CITypes, Remembered
    <3>2. plan' \in Plans(guidance') /\ plan' \subseteq Candidates
      BY <2>6 DEF LoadGuidance, Plans
    <3>3. Searching'
      BY <2>6, <3>1, <3>2 DEF LoadGuidance, Searching, Unreadable, store, code, Plans
    <3> QED BY <2>6, <2>0, <3>1, <3>2, <3>3 DEF LoadGuidance, CIInv, CITypes, Remembered,
              NothingBad, PinsHold, Explored, GreenIsEarned, NoOutcome, code, store, job
  <2>7. CASE ExecuteNext
    <3>1. PICK c \in Remaining : /\ runs' = runs \cup {c}
                                /\ ran' = [ran EXCEPT ![suite] = @ \cup {c}]
      BY <2>7 DEF ExecuteNext
    <3>2. c \in plan /\ c \in Candidates /\ suite \in Suites
      BY <2>7, <2>0, <3>1 DEF ExecuteNext, Remaining, CITypes
    <3>3. /\ \A s \in Suites : ran[s] \subseteq ran'[s] /\ ran'[s] \subseteq Candidates
          /\ ran' \in [Suites -> SUBSET Candidates]
          /\ runs' \subseteq ran'[suite]
      BY <2>7, <2>0, <3>1, <3>2 DEF ExecuteNext, CITypes, Searching
    <3>4. CITypes' /\ Remembered'
      <4>1. UNCHANGED <<saved, step, suite, plan, cut>>
        BY <2>7 DEF ExecuteNext, store, job
      <4>2. CITypes'
        BY <2>0, <3>1, <3>2, <3>3, <4>1 DEF CITypes
      <4>3. \A s \in Suites : Ids(ran[s]) \subseteq Ids(ran'[s])
        BY <3>3 DEF Ids
      <4>4. Remembered'
        BY <2>0, <4>1, <4>3 DEF Remembered
      <4> QED BY <4>2, <4>4
    <3>5. Searching'
      BY <2>7, <2>0, <3>3 DEF ExecuteNext, Searching, Unreadable, Ids, Plans, store
    <3>6. \A s \in Suites : Explored(s) => Explored(s)'
      BY <2>7, <2>0, <3>3 DEF ExecuteNext, Explored, CITypes, store, job
    <3> QED BY <2>7, <3>4, <3>5, <3>6 DEF ExecuteNext, CIInv, NothingBad, PinsHold,
              GreenIsEarned, NoOutcome, code, store, job
  <2>8. CASE ExecuteThrows
    <3>1. CITypes'
      <4>1. saved' \in [{GuidanceFile[s] : s \in Suites} -> SUBSET Ids(Candidates)]
        BY <2>8, <2>0 DEF ExecuteThrows, CITypes, store
      <4> QED BY <2>8, <2>0, <4>1, ReportTypes DEF ExecuteThrows
    <3>2. Remembered'
      BY <2>8, <2>0 DEF ExecuteThrows, Remembered, store
    <3> QED BY <2>8, <3>1, <3>2, ReportKeeps DEF ExecuteThrows, code, store
  <2>9. CASE EndSearch
    BY <2>9, <2>0 DEF EndSearch, CIInv, CITypes, Remembered, Searching, Unreadable, Remaining,
       Plans, NothingBad, PinsHold, Explored, GreenIsEarned, NoOutcome, code, store, search, job
  <2>10. CASE Save
    <3>1. suite \in Suites /\ Observed \subseteq Ids(ran[suite]) /\ ran[suite] \subseteq Candidates
      BY <2>10, <2>0 DEF Save, Observed, Searching, CITypes, Ids
    <3>2. /\ saved' = [saved EXCEPT ![GuidanceFile[suite]] = Observed]
          /\ UNCHANGED <<broken, pins, torn, ran>>
      BY <2>10 DEF Save
    <3>3. PICK status \in {"pass", "fail", "incomplete"} :
             /\ Report(status)
             /\ status # "fail" => failing = {}
             /\ status = "pass" => suite \notin cut
             /\ status = "incomplete" => suite \in cut
      <4>1. CASE BaselineFails \/ failing # {}
        BY <2>10, <4>1 DEF Save
      <4>2. CASE ~(BaselineFails \/ failing # {})
        BY <2>10, <4>2 DEF Save, WithoutFailure
      <4> QED BY <4>1, <4>2
    <3>4. CITypes'
      <4>1. saved' \in [{GuidanceFile[s] : s \in Suites} -> SUBSET Ids(Candidates)]
        BY <2>0, <3>1, <3>2 DEF CITypes, Ids
      <4> QED BY <2>10, <2>0, <3>2, <3>3, <4>1, ReportTypes DEF Save
    <3>5. Remembered'
      BY <2>0, <3>1, <3>2, OneFileEach DEF Remembered, OneFileEach, CITypes
    <3>6. step = "save" /\ GuidanceFile[suite] \notin torn
      BY <2>10, <2>0 DEF Save, Searching, Unreadable
    <3>7. status = "pass" /\ MaxScenarios >= Cardinality(Candidates) => ran[suite] = Candidates
      BY <2>0, <3>3, <3>6, SearchedInFull
    <3> QED BY <3>2, <3>3, <3>4, <3>5, <3>6, <3>7, ReportKeeps
  <2>11. CASE KilledInSave
    BY <2>11, <2>0 DEF KilledInSave, Forget, Over, CIInv, CITypes, Remembered, Searching,
       GreenIsEarned, NoOutcome, code
  <2>12. CASE UNCHANGED ciVars
    BY <2>12, <2>0 DEF ciVars, CIInv, CITypes, Remembered, Searching, Unreadable, Remaining,
       Plans, NothingBad, PinsHold, Explored, GreenIsEarned, code, store, search, job
  <2>13. CASE BudgetEnds
    <3>1. suite \in Suites /\ cut' = cut \cup {suite} /\ step = "execute" /\ step' = "save"
      BY <2>13, <2>0 DEF BudgetEnds, CITypes
    <3>2. UNCHANGED <<code, store, suite, search, records, flags, outcome, ran>>
      BY <2>13 DEF BudgetEnds
    <3>3. CITypes' /\ Remembered' /\ Searching'
      BY <2>0, <3>1, <3>2 DEF CITypes, Remembered, Searching, Unreadable, Plans, store, search
    <3>4. \A s \in Suites : Explored(s) => Explored(s)'
      BY <3>1, <3>2 DEF Explored, store
    <3>5. GreenIsEarned'
      BY <3>1, <3>2 DEF CIInv, GreenIsEarned, NoOutcome
    <3>6. NothingBad' => NothingBad
      BY <3>2 DEF NothingBad
    <3>7. PinsHold' <=> PinsHold
      BY <3>2 DEF PinsHold, code
    <3> QED BY <3>1, <3>2, <3>3, <3>4, <3>5, <3>6, <3>7 DEF CIInv
  <2> QED BY <2>1, <2>2, <2>3, <2>4, <2>5, <2>6, <2>7, <2>8, <2>9, <2>10, <2>11, <2>12, <2>13
      DEF CINext, Run
<1> QED BY <1>1, <1>2, PTL DEF CISpec

\* Exit 0 of `cloudfault ci' (ci.mjs ciCommand, exitCodeFor) is earned, for any number of
\* suites, candidates and runs, whatever is committed, pinned, killed or evicted between
\* and in them, as long as no two suites share a guidance file.
THEOREM ExitZeroIsEarned == ASSUME OneFileEach PROVE CISpec => []GreenIsEarned
<1>1. CIInv => GreenIsEarned
  BY DEF CIInv
<1> QED BY <1>1, CIInvHolds, PTL
---------------------------------------------------------------------------
(* Sessions implement their specification for any number of observers, lags and
   events.  What the refinement rests on: no replica is ahead of the primary, and no
   bookmark either. *)

SessionInv ==
    /\ primary \in Nat
    /\ sessions \in [Observers -> 0 .. primary]
    /\ replica = Latest \/ replica \in 0 .. primary

\* A bookmark only moves between the one a session had and what is committed.
LEMMA ObservedIsCommitted ==
    ASSUME SessionInv, NEW observer \in Observers
    PROVE  SessionVersion(observer) \in sessions[observer] .. primary
BY DEF SessionInv, SessionVersion, ReplicaVersion, Larger, Latest

LEMMA SessionInvHolds == ReplicaSpec => []SessionInv
<1>1. ReplicaInit => SessionInv
  BY DEF ReplicaInit, SessionInv
<1>2. SessionInv /\ [ReplicaNext]_replicaVars => SessionInv'
  <2> SUFFICES ASSUME SessionInv, [ReplicaNext]_replicaVars PROVE SessionInv'
    OBVIOUS
  <2>1. CASE KvStep \/ Tick \/ UNCHANGED replicaVars
    BY <2>1 DEF KvStep, Tick, replicaVars, Put, SetObserverVersion, Read, ApplyRegion, Converge, SessionInv
  <2>2. ASSUME NEW observer \in Observers, RecordWrite(observer) PROVE SessionInv'
    BY <2>2 DEF RecordWrite, SessionInv, Larger, Latest
  <2>3. ASSUME NEW observer \in Observers, Observe(observer) PROVE SessionInv'
    BY <2>3, ObservedIsCommitted DEF Observe, SessionInv
  <2>4. ASSUME NEW observer \in Observers, ObserveUnbound(observer) PROVE SessionInv'
    BY <2>4 DEF ObserveUnbound, SessionInv
  <2>5. ASSUME NEW version \in 0 .. MaxEvents, SetReplicaVersion(version) PROVE SessionInv'
    BY <2>5 DEF SetReplicaVersion, SessionInv
  <2> QED BY <2>1, <2>2, <2>3, <2>4, <2>5 DEF ReplicaNext, D1Step
<1> QED BY <1>1, <1>2, PTL DEF ReplicaSpec

\* Every step of the stores is a step of the sessions or changes nothing of them
\* (d1.ts D1SessionModel).
THEOREM SessionsAreImplemented == ReplicaSpec => ImplementsSessions
<1>1. ReplicaInit => Abstract!Init
  BY DEF ReplicaInit, Abstract!Init
<1>2. SessionInv /\ [ReplicaNext]_replicaVars => [Abstract!Next]_(Abstract!vars)
  <2> SUFFICES ASSUME SessionInv, [ReplicaNext]_replicaVars PROVE [Abstract!Next]_(Abstract!vars)
    OBVIOUS
  <2>1. CASE KvStep \/ Tick \/ UNCHANGED replicaVars
    BY <2>1 DEF KvStep, Tick, replicaVars, Put, SetObserverVersion, Read, ApplyRegion, Converge, Abstract!vars
  <2>2. ASSUME NEW observer \in Observers, RecordWrite(observer) PROVE Abstract!Next
    <3>1. Larger(sessions[observer], primary + 1) = primary + 1
      BY DEF SessionInv, Larger
    <3> QED BY <2>2, <3>1 DEF RecordWrite, Abstract!Next, Abstract!Commit
  <2>3. ASSUME NEW observer \in Observers, Observe(observer) PROVE Abstract!Next
    BY <2>3, ObservedIsCommitted DEF Observe, Abstract!Next, Abstract!Observe
  <2>4. ASSUME NEW observer \in Observers, ObserveUnbound(observer) PROVE UNCHANGED Abstract!vars
    BY <2>4 DEF ObserveUnbound, Abstract!vars
  <2>5. ASSUME NEW version \in 0 .. MaxEvents, SetReplicaVersion(version)
        PROVE  UNCHANGED Abstract!vars
    BY <2>5 DEF SetReplicaVersion, Abstract!vars
  <2> QED BY <2>1, <2>2, <2>3, <2>4, <2>5 DEF ReplicaNext, D1Step
<1> QED BY <1>1, <1>2, SessionInvHolds, PTL DEF ReplicaSpec, ImplementsSessions, Abstract!Spec

---------------------------------------------------------------------------
(* What the checkers of consistency.ts say of observers is true of them, for any number
   of observers, keys, lags, clocks and events.  It rests on the clocks and the stores: an
   observer's timestamps and a key's versions never go back. *)

Events ==
    [kind : {"read", "write"}, observer : Observers, key : Keys \cup {Database},
     version : Nat, authoritative : Nat, session : Nat, at : Nat]

Committed ==
    [k \in Keys \cup {Database} |-> IF k = Database THEN primary ELSE versions[k]]

StoresInv ==
    /\ clock \in Nat
    /\ skew \in [Observers -> Nat]
    /\ versions \in [Keys -> Nat]
    /\ view \in [Observers -> [Keys -> Nat \cup {Latest}]]
    /\ \A o \in Observers, k \in Keys : view[o][k] = Latest \/ view[o][k] <= versions[k]

TraceInv ==
    /\ trace \in Seq(Events)
    /\ \A i \in Calls : trace[i].at <= clock + skew[trace[i].observer]
    /\ \A i, j \in Calls :
          i < j /\ trace[i].observer = trace[j].observer => trace[i].at <= trace[j].at
    /\ \A i \in Writes : trace[i].version <= Committed[trace[i].key]
    /\ \A i, j \in Writes : i < j /\ SameKey(i, j) => trace[i].version <= trace[j].version
    /\ EventuallyConsistentReads

ReplicaInv == SessionInv /\ StoresInv /\ TraceInv

\* A write is the newest version of its key, and a read no newer than what is committed.
LEMMA RecordedKeepsTheTrace ==
    ASSUME ReplicaInv, clock' = clock, skew' = skew,
           NEW kind \in {"read", "write"}, NEW observer \in Observers,
           NEW key \in Keys \cup {Database}, NEW version \in Nat,
           NEW authoritative \in Nat, NEW session \in Nat,
           Recorded(kind, observer, key, version, authoritative, session),
           \A k \in Keys \cup {Database} :
               Committed[k] \in Nat /\ Committed'[k] \in Nat /\ Committed[k] <= Committed'[k],
           kind = "write" => Committed[key] <= version /\ version <= Committed'[key],
           kind = "read" => version <= authoritative
    PROVE  TraceInv'
<1> DEFINE n == Len(trace)
<1>1. /\ n \in Nat
      /\ trace' \in Seq(Events)
      /\ Calls = 1 .. n
      /\ Calls' = 1 .. n + 1
      /\ \A i \in 1 .. n : trace'[i] = trace[i] /\ trace[i] \in Events
      /\ trace'[n + 1].kind = kind
      /\ trace'[n + 1].observer = observer
      /\ trace'[n + 1].key = key
      /\ trace'[n + 1].version = version
      /\ trace'[n + 1].authoritative = authoritative
      /\ trace'[n + 1].at = clock + skew[observer]
  <2> DEFINE event == [kind |-> kind, observer |-> observer, key |-> key,
                       version |-> version, authoritative |-> authoritative,
                       session |-> session, at |-> clock + skew[observer]]
  <2>1. trace \in Seq(Events) /\ clock + skew[observer] \in Nat
    BY DEF ReplicaInv, StoresInv, TraceInv
  <2>2. event \in Events
    BY <2>1 DEF Events
  <2>3. trace' = Append(trace, event)
    BY DEF Recorded
  <2> HIDE DEF event
  <2>4. /\ trace' \in Seq(Events)
        /\ Len(trace') = n + 1
        /\ n \in Nat
        /\ \A i \in 1 .. n : trace'[i] = trace[i] /\ trace[i] \in Events
        /\ trace'[n + 1] = event
    BY <2>1, <2>2, <2>3
  <2>5. DOMAIN trace = 1 .. n /\ DOMAIN trace' = 1 .. Len(trace')
    BY <2>1, <2>4
  <2>6. Calls = 1 .. n /\ Calls' = 1 .. n + 1
    BY <2>4, <2>5 DEF Calls
  <2> QED BY <2>4, <2>6 DEF event
<1> HIDE DEF n
<1>2. \A i \in Calls' : i \in 1 .. n \/ i = n + 1
  BY <1>1
<1>3. /\ \A i \in 1 .. n : /\ i \in Calls
                           /\ trace[i].at \in Nat
                           /\ trace[i].version \in Nat
                           /\ trace[i].observer \in Observers
                           /\ trace[i].key \in Keys \cup {Database}
      /\ clock + skew[observer] \in Nat
  <2>1. \A i \in 1 .. n : i \in Calls /\ trace[i] \in Events
    BY <1>1
  <2> QED BY <2>1 DEF Events, ReplicaInv, StoresInv
<1>4. \A i \in Calls' : (trace[i].at <= clock + skew[trace[i].observer])'
  <2>1. ASSUME NEW i \in 1 .. n PROVE trace'[i].at <= clock + skew[trace'[i].observer]
    <3>1. trace'[i] = trace[i] /\ i \in Calls
      BY <1>1
    <3> QED BY <3>1 DEF ReplicaInv, TraceInv
  <2>2. trace'[n + 1].at <= clock + skew[trace'[n + 1].observer]
    BY <1>1, <1>3
  <2> QED BY <1>2, <2>1, <2>2
<1>5. ASSUME NEW i \in Calls', NEW j \in Calls', i < j,
             trace'[i].observer = trace'[j].observer
      PROVE  trace'[i].at <= trace'[j].at
  <2>1. i \in 1 .. n
    BY <1>1, <1>2, <1>5
  <2>2. trace'[i] = trace[i] /\ i \in Calls
    BY <1>1, <2>1
  <2>3. CASE j \in 1 .. n
    <3>1. trace'[j] = trace[j] /\ j \in Calls
      BY <1>1, <2>3
    <3> QED BY <1>5, <2>2, <3>1 DEF ReplicaInv, TraceInv
  <2>4. CASE j = n + 1
    <3>1. trace'[j].at = clock + skew[observer] /\ trace[i].observer = observer
      BY <1>1, <1>5, <2>2, <2>4
    <3>2. trace[i].at <= clock + skew[trace[i].observer]
      BY <2>2 DEF ReplicaInv, TraceInv
    <3> QED BY <2>2, <3>1, <3>2
  <2> QED BY <1>2, <2>3, <2>4
<1>6. /\ \A i \in Writes' : i \in Writes \/ (i = n + 1 /\ kind = "write")
      /\ \A i \in Reads' : i \in Reads \/ (i = n + 1 /\ kind = "read")
      /\ Writes \subseteq 1 .. n /\ Reads \subseteq 1 .. n
  BY <1>1, <1>2 DEF Writes, Reads
<1>7. ASSUME NEW i \in Writes' PROVE trace'[i].version <= Committed'[trace'[i].key]
  <2>1. CASE i \in Writes
    <3>1. /\ trace'[i] = trace[i] /\ trace[i].version \in Nat
          /\ trace[i].version <= Committed[trace[i].key]
          /\ trace[i].key \in Keys \cup {Database}
      BY <1>1, <1>3, <1>6, <2>1 DEF ReplicaInv, TraceInv
    <3>2. /\ Committed[trace[i].key] \in Nat /\ Committed'[trace[i].key] \in Nat
          /\ Committed[trace[i].key] <= Committed'[trace[i].key]
      BY <3>1
    <3> QED BY <3>1, <3>2
  <2>2. CASE i = n + 1 /\ kind = "write"
    BY <1>1, <2>2
  <2> QED BY <1>6, <2>1, <2>2
<1>8. ASSUME NEW i \in Writes', NEW j \in Writes', i < j, SameKey(i, j)'
      PROVE  trace'[i].version <= trace'[j].version
  <2>1. i \in 1 .. n /\ i \in Writes
    BY <1>1, <1>2, <1>6, <1>8 DEF Writes
  <2>2. trace'[i] = trace[i] /\ trace[i].version \in Nat /\ trace[i].key \in Keys \cup {Database}
    BY <1>1, <1>3, <2>1
  <2>3. CASE j \in Writes
    <3>1. trace'[j] = trace[j] /\ SameKey(i, j)
      BY <1>1, <1>6, <1>8, <2>2, <2>3 DEF SameKey
    <3> QED BY <1>8, <2>1, <2>2, <2>3, <3>1 DEF ReplicaInv, TraceInv
  <2>4. CASE j = n + 1 /\ kind = "write"
    <3>1. trace[i].version <= Committed[trace[i].key]
      BY <2>1 DEF ReplicaInv, TraceInv
    <3>2. trace[i].key = key /\ trace'[j].version = version
      BY <1>1, <1>8, <2>2, <2>4 DEF SameKey
    <3>3. Committed[key] <= version /\ Committed[key] \in Nat
      BY <2>4
    <3> QED BY <2>2, <3>1, <3>2, <3>3
  <2> QED BY <1>6, <2>3, <2>4
<1>9. EventuallyConsistentReads'
  <2> SUFFICES ASSUME NEW i \in Reads' PROVE trace'[i].version <= trace'[i].authoritative
    BY DEF EventuallyConsistentReads
  <2>1. CASE i \in Reads
    BY <1>1, <1>6, <2>1 DEF ReplicaInv, TraceInv, EventuallyConsistentReads
  <2>2. CASE i = n + 1 /\ kind = "read"
    BY <1>1, <2>2
  <2> QED BY <1>6, <2>1, <2>2
<1> QED BY <1>1, <1>4, <1>5, <1>7, <1>8, <1>9 DEF TraceInv

LEMMA CommittedGrows ==
    ASSUME ReplicaInv,
           primary' \in Nat, primary <= primary',
           versions' \in [Keys -> Nat], \A k \in Keys : versions[k] <= versions'[k]
    PROVE  \A k \in Keys \cup {Database} :
               Committed[k] \in Nat /\ Committed'[k] \in Nat /\ Committed[k] <= Committed'[k]
BY DEF Committed, ReplicaInv, SessionInv, StoresInv

\* Nothing is recorded.
LEMMA QuietStepsKeepTheTrace ==
    ASSUME ReplicaInv, trace' = trace, skew' = skew, primary' = primary, versions' = versions,
           clock' \in Nat, clock <= clock'
    PROVE  TraceInv'
<1>1. Calls' = Calls /\ Reads' = Reads /\ Writes' = Writes /\ Committed' = Committed
  <2>1. Calls' = Calls /\ Committed' = Committed
    BY DEF Calls, Committed
  <2> QED BY <2>1 DEF Reads, Writes
<1>2. EventuallyConsistentReads'
  BY <1>1 DEF EventuallyConsistentReads, ReplicaInv, TraceInv
<1>3. ASSUME NEW i \in Calls PROVE trace[i].at <= clock' + skew[trace[i].observer]
  <2>1. trace[i] \in Events
    <3>1. trace \in Seq(Events) /\ i \in DOMAIN trace
      BY DEF ReplicaInv, TraceInv, Calls
    <3> QED BY <3>1
  <2>2. trace[i].at \in Nat /\ trace[i].observer \in Observers
    BY <2>1 DEF Events
  <2>3. skew[trace[i].observer] \in Nat /\ clock \in Nat
    BY <2>2 DEF ReplicaInv, StoresInv
  <2>4. trace[i].at <= clock + skew[trace[i].observer]
    BY DEF ReplicaInv, TraceInv
  <2> QED BY <2>2, <2>3, <2>4
<1> QED BY <1>1, <1>2, <1>3 DEF ReplicaInv, TraceInv, SameKey

LEMMA ReplicaInvHolds == ReplicaSpec => []ReplicaInv
<1>1. ReplicaInit => SessionInv
  BY DEF ReplicaInit, SessionInv
<1>2. ReplicaInit => ReplicaInv
  <2> SUFFICES ASSUME ReplicaInit PROVE ReplicaInv
    OBVIOUS
  <2>1. StoresInv
    <3>1. \A o \in Observers, k \in Keys : view[o][k] = Latest
      BY DEF ReplicaInit
    <3>2. clock \in Nat /\ skew \in [Observers -> Nat] /\ versions \in [Keys -> Nat]
      BY ReplicaAssumption DEF ReplicaInit
    <3>3. view \in [Observers -> [Keys -> Nat \cup {Latest}]]
      BY DEF ReplicaInit, Latest
    <3> QED BY <3>1, <3>2, <3>3 DEF StoresInv
  <2>2. Calls = {} /\ Reads = {} /\ Writes = {} /\ trace \in Seq(Events)
    BY DEF ReplicaInit, Calls, Reads, Writes
  <2>3. TraceInv
    BY <2>2 DEF TraceInv, EventuallyConsistentReads
  <2> QED BY <1>1, <2>1, <2>3 DEF ReplicaInv
<1>3. ReplicaInv /\ SessionInv' /\ [ReplicaNext]_replicaVars => ReplicaInv'
  <2> SUFFICES ASSUME ReplicaInv, SessionInv', [ReplicaNext]_replicaVars
               PROVE  StoresInv' /\ TraceInv'
    BY DEF ReplicaInv
  <2>1. ASSUME NEW observer \in Observers, NEW key \in Keys, Put(observer, key)
        PROVE  StoresInv' /\ TraceInv'
    <3>1. /\ versions' = [versions EXCEPT ![key] = versions[key] + 1]
          /\ versions[key] \in Nat
          /\ versions'[key] = versions[key] + 1
          /\ UNCHANGED <<view, primary, clock, skew>>
          /\ Recorded("write", observer, key, versions'[key], versions'[key], 0)
      BY <2>1 DEF Put, ReplicaInv, StoresInv
    <3>2. versions' \in [Keys -> Nat] /\ \A k \in Keys : versions[k] <= versions'[k]
      BY <3>1 DEF ReplicaInv, StoresInv
    <3>3. StoresInv'
      <4>1. ASSUME NEW o \in Observers, NEW k \in Keys, view[o][k] # Latest
            PROVE  view[o][k] <= versions'[k]
        <5>1. view[o][k] \in Nat /\ versions[k] \in Nat /\ versions'[k] \in Nat
          BY <3>2, <4>1 DEF ReplicaInv, StoresInv
        <5> QED BY <3>2, <4>1, <5>1 DEF ReplicaInv, StoresInv
      <4> QED BY <3>1, <3>2, <4>1 DEF ReplicaInv, StoresInv
    <3>4. \A k \in Keys \cup {Database} :
              Committed[k] \in Nat /\ Committed'[k] \in Nat /\ Committed[k] <= Committed'[k]
      BY <3>1, <3>2, CommittedGrows DEF ReplicaInv, SessionInv
    <3>5. key # Database /\ Committed[key] = versions[key] /\ Committed'[key] = versions'[key]
      BY ReplicaAssumption DEF Committed
    <3>6. versions'[key] \in Nat /\ key \in Keys \cup {Database}
      BY <3>2
    <3> QED BY <3>1, <3>3, <3>4, <3>5, <3>6, RecordedKeepsTheTrace
  <2>2. ASSUME NEW observer \in Observers, NEW key \in Keys, Read(observer, key)
        PROVE  StoresInv' /\ TraceInv'
    <3>1. /\ UNCHANGED <<versions, view, primary, clock, skew>>
          /\ Recorded("read", observer, key, Visible(observer, key), versions[key], 0)
      BY <2>2 DEF Read
    <3>2. StoresInv'
      BY <3>1 DEF ReplicaInv, StoresInv
    <3>3. /\ Visible(observer, key) \in Nat /\ versions[key] \in Nat
          /\ Visible(observer, key) <= versions[key]
      BY DEF Visible, ReplicaInv, StoresInv
    <3>4. \A k \in Keys \cup {Database} :
              Committed[k] \in Nat /\ Committed'[k] \in Nat /\ Committed[k] <= Committed'[k]
      BY <3>1, CommittedGrows DEF ReplicaInv, StoresInv, SessionInv
    <3> QED BY <3>1, <3>2, <3>3, <3>4, RecordedKeepsTheTrace
  <2>3. ASSUME NEW observer \in Observers, NEW key \in Keys,
               NEW version \in 0 .. MaxEvents, SetObserverVersion(observer, key, version)
        PROVE  StoresInv' /\ TraceInv'
    <3>1. /\ UNCHANGED <<versions, primary, clock, skew, trace>>
          /\ view' = [view EXCEPT ![observer][key] = version]
          /\ version <= versions[key]
      BY <2>3 DEF SetObserverVersion
    <3>2. StoresInv'
      BY <3>1 DEF ReplicaInv, StoresInv
    <3>3. clock' \in Nat /\ clock <= clock'
      BY <3>1 DEF ReplicaInv, StoresInv
    <3> QED BY <3>1, <3>2, <3>3, QuietStepsKeepTheTrace
  <2>4. ASSUME NEW observer \in Observers, NEW lag \in 0 .. MaxLag, ApplyRegion(observer, lag)
        PROVE  StoresInv' /\ TraceInv'
    <3>1. /\ UNCHANGED <<versions, primary, clock, skew, trace>>
          /\ view' = [view EXCEPT ![observer] = [k \in Keys |-> Behind(versions[k], lag)]]
      BY <2>4 DEF ApplyRegion
    <3>2. \A k \in Keys : /\ versions[k] \in Nat
                          /\ Behind(versions[k], lag) \in Nat
                          /\ Behind(versions[k], lag) <= versions[k]
      BY DEF ReplicaInv, StoresInv, Behind
    <3>3. StoresInv'
      BY <3>1, <3>2 DEF ReplicaInv, StoresInv
    <3>4. clock' \in Nat /\ clock <= clock'
      BY <3>1 DEF ReplicaInv, StoresInv
    <3> QED BY <3>1, <3>3, <3>4, QuietStepsKeepTheTrace
  <2>5. ASSUME NEW observer \in Observers, Converge(observer)
        PROVE  StoresInv' /\ TraceInv'
    <3>1. /\ UNCHANGED <<versions, primary, clock, skew, trace>>
          /\ view' = [view EXCEPT ![observer] =
                        [key \in Keys |-> IF versions[key] > 0 THEN versions[key]
                                          ELSE view[observer][key]]]
      BY <2>5 DEF Converge, ReplicaInv, StoresInv
    <3>2. StoresInv'
      BY <3>1 DEF ReplicaInv, StoresInv
    <3>3. clock' \in Nat /\ clock <= clock'
      BY <3>1 DEF ReplicaInv, StoresInv
    <3> QED BY <3>1, <3>2, <3>3, QuietStepsKeepTheTrace
  <2>6. ASSUME NEW observer \in Observers, RecordWrite(observer)
        PROVE  StoresInv' /\ TraceInv'
    <3>1. /\ UNCHANGED <<versions, view, clock, skew>>
          /\ primary' = primary + 1 /\ primary \in Nat
          /\ Recorded("write", observer, Database, primary + 1, primary + 1, 0)
      BY <2>6 DEF RecordWrite, ReplicaInv, SessionInv
    <3>2. StoresInv'
      BY <3>1 DEF ReplicaInv, StoresInv
    <3>3. \A k \in Keys \cup {Database} :
              Committed[k] \in Nat /\ Committed'[k] \in Nat /\ Committed[k] <= Committed'[k]
      BY <3>1, CommittedGrows DEF ReplicaInv, StoresInv
    <3>4. Committed[Database] = primary /\ Committed'[Database] = primary + 1
      BY <3>1 DEF Committed
    <3> QED BY <3>1, <3>2, <3>3, <3>4, RecordedKeepsTheTrace
  <2>7. ASSUME NEW observer \in Observers, Observe(observer)
        PROVE  StoresInv' /\ TraceInv'
    <3>1. /\ UNCHANGED <<versions, view, primary, clock, skew>>
          /\ Recorded("read", observer, Database, SessionVersion(observer), primary,
                      sessions[observer])
      BY <2>7 DEF Observe
    <3>2. StoresInv'
      BY <3>1 DEF ReplicaInv, StoresInv
    <3>3. /\ sessions[observer] \in Nat /\ primary \in Nat
          /\ SessionVersion(observer) \in Nat /\ SessionVersion(observer) <= primary
      BY ObservedIsCommitted DEF ReplicaInv, SessionInv
    <3>4. \A k \in Keys \cup {Database} :
              Committed[k] \in Nat /\ Committed'[k] \in Nat /\ Committed[k] <= Committed'[k]
      BY <3>1, CommittedGrows DEF ReplicaInv, StoresInv, SessionInv
    <3> QED BY <3>1, <3>2, <3>3, <3>4, RecordedKeepsTheTrace
  <2>8. ASSUME NEW observer \in Observers, ObserveUnbound(observer)
        PROVE  StoresInv' /\ TraceInv'
    <3>1. /\ UNCHANGED <<versions, view, primary, clock, skew>>
          /\ Recorded("read", observer, Database, ReplicaVersion, primary, 0)
      BY <2>8 DEF ObserveUnbound
    <3>2. StoresInv'
      BY <3>1 DEF ReplicaInv, StoresInv
    <3>3. primary \in Nat /\ ReplicaVersion \in Nat /\ ReplicaVersion <= primary
      BY DEF ReplicaVersion, ReplicaInv, SessionInv
    <3>4. \A k \in Keys \cup {Database} :
              Committed[k] \in Nat /\ Committed'[k] \in Nat /\ Committed[k] <= Committed'[k]
      BY <3>1, CommittedGrows DEF ReplicaInv, StoresInv, SessionInv
    <3> QED BY <3>1, <3>2, <3>3, <3>4, RecordedKeepsTheTrace
  <2>9. CASE \/ \E version \in 0 .. MaxEvents : SetReplicaVersion(version)
             \/ Tick
             \/ UNCHANGED replicaVars
    <3>1. /\ UNCHANGED <<versions, view, primary, skew, trace>>
          /\ clock' = clock \/ clock' = clock + 1
      BY <2>9 DEF SetReplicaVersion, Tick, replicaVars
    <3>2. StoresInv' /\ clock' \in Nat /\ clock <= clock'
      BY <3>1 DEF ReplicaInv, StoresInv
    <3> QED BY <3>1, <3>2, QuietStepsKeepTheTrace
  <2> QED BY <2>1, <2>2, <2>3, <2>4, <2>5, <2>6, <2>7, <2>8, <2>9
          DEF ReplicaNext, KvStep, D1Step
<1> QED BY <1>2, <1>3, SessionInvHolds, PTL DEF ReplicaSpec

LEMMA LeastNumber ==
    ASSUME NEW S, S \subseteq Nat, S # {}
    PROVE  \E least \in S : \A n \in S : least <= n
<1> DEFINE Below == {pair \in Nat \X Nat : pair[1] < pair[2]}
<1>1. IsWellFoundedOn(Below, Nat)
  BY NatLessThanWellFounded DEF OpToRel
<1>2. PICK least \in S : \A n \in S : ~(<<n, least>> \in Below)
  <2> HIDE DEF Below
  <2> QED BY <1>1, WFMin
<1>3. least \in Nat /\ \A n \in S : n \in Nat /\ ~(n < least)
  BY <1>2
<1> QED BY <1>2, <1>3

\* An order of the calls in which each observer's are as it made them.
KeepsOwnOrder(order) ==
    \A i, j \in Calls : trace[i].observer = trace[j].observer => (<<i, j>> \in order <=> i < j)

LEMMA CallsAreEvents ==
    ASSUME ReplicaInv
    PROVE  /\ Calls = 1 .. Len(trace) /\ Len(trace) \in Nat
           /\ \A i \in Calls : /\ trace[i].at \in Nat
                               /\ trace[i].version \in Nat
                               /\ trace[i].observer \in Observers
                               /\ trace[i].observer \in Nat
           /\ Reads \subseteq Calls /\ Writes \subseteq Calls
<1>1. trace \in Seq(Events)
  BY DEF ReplicaInv, TraceInv
<1>2. Calls = 1 .. Len(trace) /\ Len(trace) \in Nat /\ \A i \in Calls : trace[i] \in Events
  BY <1>1 DEF Calls
<1>3. \A i \in Calls : /\ trace[i].at \in Nat
                       /\ trace[i].version \in Nat
                       /\ trace[i].observer \in Observers
  BY <1>2 DEF Events
<1> QED BY <1>2, <1>3, ReplicaAssumption DEF Reads, Writes

\* Sorting by timestamps does not change the order of an observer's own events.
LEMMA SortedKeepsOwnOrder ==
    ASSUME ReplicaInv, NEW order, KeepsOwnOrder(order), NEW i \in Calls, NEW j \in Calls,
           trace[i].observer = trace[j].observer
    PROVE  <<i, j>> \in SortedByTime(order) <=> i < j
<1>1. i \in Nat /\ j \in Nat /\ trace[i].at \in Nat /\ trace[j].at \in Nat
  BY CallsAreEvents
<1>2. /\ i < j => trace[i].at <= trace[j].at
      /\ j < i => trace[j].at <= trace[i].at
      /\ i = j => trace[i].at = trace[j].at
  BY DEF ReplicaInv, TraceInv
<1>3. <<i, j>> \in order <=> i < j
  BY DEF KeepsOwnOrder
<1>4. <<i, j>> \in SortedByTime(order)
      <=> trace[i].at < trace[j].at \/ (trace[i].at = trace[j].at /\ <<i, j>> \in order)
  BY DEF SortedByTime
<1> QED BY <1>1, <1>2, <1>3, <1>4

\* The checkers' verdicts, told in the order of the calls.
MonotonicVerdict ==
    \A i, j \in Reads :
        /\ i < j /\ Same(i, j)
        /\ \A k \in Reads : i < k /\ k < j => ~Same(k, j)
        => trace[i].version <= trace[j].version

ReadYourWritesVerdict ==
    \A read \in Reads : \A last \in OwnWrites(read) :
        (\A w \in OwnWrites(read) : ~(last < w)) => trace[read].version >= trace[last].version

LEMMA MonotonicInAnyOrder ==
    ASSUME ReplicaInv, NEW order, KeepsOwnOrder(order)
    PROVE  MonotonicObserverReads(order) <=> MonotonicVerdict
<1> DEFINE Sorted == SortedByTime(order)
<1>1. \A i, j \in Reads : Same(i, j) => (<<i, j>> \in Sorted <=> i < j)
  BY SortedKeepsOwnOrder, CallsAreEvents DEF Same
<1> HIDE DEF Sorted
<1>2. \A i, j, k \in Reads : Same(i, j) /\ Same(k, j) => Same(i, k)
  BY DEF Same, SameKey
<1>3. ASSUME NEW i \in Reads, NEW j \in Reads, Same(i, j)
      PROVE  (\A k \in Reads : <<i, k>> \in Sorted /\ <<k, j>> \in Sorted => ~Same(k, j))
             <=> (\A k \in Reads : i < k /\ k < j => ~Same(k, j))
  BY <1>1, <1>2, <1>3
<1>4. MonotonicObserverReads(order) <=>
          \A i, j \in Reads :
              /\ <<i, j>> \in Sorted /\ Same(i, j)
              /\ \A k \in Reads : <<i, k>> \in Sorted /\ <<k, j>> \in Sorted => ~Same(k, j)
              => trace[i].version <= trace[j].version
  BY DEF MonotonicObserverReads, Sorted
<1> QED BY <1>1, <1>3, <1>4 DEF MonotonicVerdict

LEMMA ReadYourWritesInAnyOrder ==
    ASSUME ReplicaInv, NEW order, KeepsOwnOrder(order)
    PROVE  ReadYourWrites(order) <=> ReadYourWritesVerdict
<1> DEFINE Sorted == SortedByTime(order)
<1>1. ASSUME NEW read \in Reads, NEW last \in OwnWrites(read), NEW w \in OwnWrites(read)
      PROVE  <<last, w>> \in Sorted <=> last < w
  <2>1. last \in Calls /\ w \in Calls /\ trace[last].observer = trace[w].observer
    BY CallsAreEvents DEF OwnWrites, Same
  <2> QED BY <2>1, SortedKeepsOwnOrder
<1>2. ReadYourWrites(order) <=>
          \A read \in Reads : \A last \in OwnWrites(read) :
              (\A w \in OwnWrites(read) : <<last, w>> \notin Sorted)
              => trace[read].version >= trace[last].version
  BY DEF ReadYourWrites
<1> HIDE DEF Sorted
<1> QED BY <1>1, <1>2 DEF ReadYourWritesVerdict

LEMMA DivergenceInAnyOrder ==
    ASSUME ReplicaInv, NEW order, KeepsOwnOrder(order), NEW other, KeepsOwnOrder(other)
    PROVE  Divergence(order) = Divergence(other)
<1> DEFINE Ends(o, key) ==
             {i \in Reads : /\ trace[i].key = key
                            /\ \A j \in Reads : <<i, j>> \in SortedByTime(o) => ~Same(i, j)}
<1>1. ASSUME NEW key PROVE LastReads(order, key) = LastReads(other, key)
  <2>1. \A i, j \in Reads : Same(i, j) => (<<i, j>> \in SortedByTime(order)
                                           <=> <<i, j>> \in SortedByTime(other))
    BY SortedKeepsOwnOrder, CallsAreEvents DEF Same
  <2>2. Ends(order, key) = Ends(other, key)
    BY <2>1
  <2>3. /\ LastReads(order, key) = {trace[i].version : i \in Ends(order, key)}
        /\ LastReads(other, key) = {trace[i].version : i \in Ends(other, key)}
    BY DEF LastReads
  <2> HIDE DEF Ends
  <2> QED BY <2>2, <2>3
<1> DEFINE Spread(last) ==
             (CHOOSE v \in last : \A w \in last : w <= v)
             - (CHOOSE v \in last : \A w \in last : v <= w)
           Seen == {trace[i].key : i \in Reads}
<1>2. /\ Divergence(order) = [key \in Seen |-> Spread(LastReads(order, key))]
      /\ Divergence(other) = [key \in Seen |-> Spread(LastReads(other, key))]
  BY DEF Divergence
<1> HIDE DEF Spread, Seen, Ends
<1>3. [key \in Seen |-> Spread(LastReads(order, key))]
      = [key \in Seen |-> Spread(LastReads(other, key))]
  BY <1>1
<1> QED BY <1>2, <1>3

\* What a read is compared with is enough: a regression is somewhere between neighbours.
LEMMA RegressionsShowInNeighbours ==
    ASSUME ReplicaInv
    PROVE  MonotonicVerdict <=> ~Regressed
<1>1. Reads \subseteq Nat /\ \A i \in Reads : trace[i].version \in Nat
  BY CallsAreEvents
<1>2. ~Regressed => MonotonicVerdict
  BY <1>1 DEF Regressed, MonotonicVerdict
<1>3. ASSUME Regressed, MonotonicVerdict PROVE FALSE
  <2> DEFINE Wrong(i, j) == i < j /\ Same(i, j) /\ trace[j].version < trace[i].version
             Distances == {d \in Nat : \E i, j \in Reads : Wrong(i, j) /\ d = j - i}
  <2>1. Distances # {}
    <3>1. PICK i \in Reads, j \in Reads : Wrong(i, j)
      BY <1>3 DEF Regressed
    <3>2. j - i \in Nat
      BY <1>1, <3>1
    <3> QED BY <3>1, <3>2
  <2>2. Distances \subseteq Nat
    OBVIOUS
  <2>3. PICK d \in Distances : \A n \in Distances : d <= n
    <3> HIDE DEF Distances
    <3> QED BY <2>1, <2>2, LeastNumber
  <2>4. PICK i \in Reads, j \in Reads : Wrong(i, j) /\ d = j - i
    OBVIOUS
  <2>5. PICK k \in Reads : i < k /\ k < j /\ Same(k, j)
    BY <1>1, <1>3, <2>4 DEF MonotonicVerdict
  <2>6. Same(i, k)
    BY <2>4, <2>5 DEF Same, SameKey
  <2>7. Wrong(i, k) \/ Wrong(k, j)
    BY <1>1, <2>4, <2>5, <2>6
  <2>8. k - i \in Nat /\ j - k \in Nat /\ k - i < d /\ j - k < d
    <3>1. i \in Nat /\ j \in Nat /\ k \in Nat
      BY <1>1, <2>4, <2>5
    <3>2. i < k /\ k < j /\ d = j - i
      BY <2>4, <2>5
    <3> QED BY <3>1, <3>2
  <2>9. k - i \in Distances \/ j - k \in Distances
    BY <2>7, <2>8
  <2> HIDE DEF Distances
  <2>10. d \in Nat /\ (d <= k - i \/ d <= j - k)
    BY <2>3, <2>9, <2>2
  <2> QED BY <2>8, <2>10
<1> QED BY <1>2, <1>3

\* The last of a read's own writes has the newest version of them.
LEMMA MissedWritesAreNoticed ==
    ASSUME ReplicaInv, MissedOwnWrite
    PROVE  ~ReadYourWritesVerdict
<1>1. PICK i \in Writes, j \in Reads :
          i < j /\ Same(i, j) /\ trace[j].version < trace[i].version
  BY DEF MissedOwnWrite
<1>2. i \in Calls /\ j \in Calls /\ trace[i].observer = trace[j].observer
  BY <1>1, CallsAreEvents DEF Same
<1>3. i \in OwnWrites(j)
  BY <1>1, <1>2 DEF OwnWrites, ReplicaInv, TraceInv
<1>4. OwnWrites(j) \subseteq 1 .. Len(trace) /\ Len(trace) \in Nat
  BY CallsAreEvents DEF OwnWrites
<1>5. PICK last \in OwnWrites(j) : \A w \in OwnWrites(j) : w <= last
  <2> DEFINE Rests == {Len(trace) - w : w \in OwnWrites(j)}
  <2>1. Rests \subseteq Nat /\ Rests # {}
    BY <1>3, <1>4
  <2> HIDE DEF Rests
  <2>2. PICK least \in Rests : \A n \in Rests : least <= n
    BY <2>1, LeastNumber
  <2>3. PICK last \in OwnWrites(j) : least = Len(trace) - last
    BY <2>2 DEF Rests
  <2>4. \A w \in OwnWrites(j) : Len(trace) - last <= Len(trace) - w
    BY <2>2, <2>3 DEF Rests
  <2>5. \A w \in OwnWrites(j) : w <= last
    BY <1>4, <2>4
  <2> QED BY <2>5
<1>6. i <= last /\ last \in Writes /\ SameKey(i, last) /\ i \in Nat /\ last \in Nat
  BY <1>1, <1>3, <1>4, <1>5 DEF OwnWrites, Same, SameKey
<1>7. trace[i].version <= trace[last].version
  <2>1. CASE i = last
    BY <1>2, <2>1, CallsAreEvents
  <2>2. CASE i < last
    BY <1>6, <2>2 DEF ReplicaInv, TraceInv
  <2> QED BY <1>6, <2>1, <2>2
<1>8. /\ trace[i].version \in Nat /\ trace[j].version \in Nat /\ trace[last].version \in Nat
      /\ \A w \in OwnWrites(j) : ~(last < w)
  BY <1>2, <1>4, <1>5, <1>6, CallsAreEvents
<1>9. ~(trace[j].version >= trace[last].version)
  BY <1>1, <1>7, <1>8
<1> QED BY <1>5, <1>8, <1>9 DEF ReadYourWritesVerdict

LEMMA AlarmsAreMissesOrTies ==
    ASSUME ReplicaInv, ~ReadYourWritesVerdict
    PROVE  MissedOwnWrite \/ Ambiguous
<1>1. PICK j \in Reads : \E w \in OwnWrites(j) : ~(trace[j].version >= trace[w].version)
  BY DEF ReadYourWritesVerdict
<1>2. PICK w \in OwnWrites(j) : ~(trace[j].version >= trace[w].version)
  BY <1>1
<1>3. /\ w \in Writes /\ Same(w, j) /\ trace[w].at <= trace[j].at
      /\ j \in Calls /\ w \in Calls
  BY CallsAreEvents DEF OwnWrites
<1>4. /\ j \in Nat /\ w \in Nat /\ trace[j].version < trace[w].version
      /\ trace[j].at \in Nat /\ trace[w].at \in Nat
  BY <1>3, <1>2, CallsAreEvents
<1>5. CASE w < j
  BY <1>3, <1>4, <1>5 DEF MissedOwnWrite
<1>6. CASE j < w
  <2>1. trace[j].at <= trace[w].at
    BY <1>3, <1>6 DEF ReplicaInv, TraceInv, Same
  <2>2. Same(j, w) /\ trace[j].at = trace[w].at
    BY <1>3, <1>4, <2>1 DEF Same, SameKey
  <2> QED BY <1>3, <1>6, <2>2 DEF Ambiguous
<1>7. j # w
  BY <1>3 DEF Reads, Writes
<1> QED BY <1>4, <1>5, <1>6, <1>7

LEMMA MergedIsATimeline == ASSUME ReplicaInv PROVE IsTimeline(Merged)
<1>1. \A i, j \in Calls :
          <<i, j>> \in Merged <=>
              \/ trace[i].at < trace[j].at
              \/ trace[i].at = trace[j].at /\ trace[i].observer < trace[j].observer
              \/ /\ trace[i].at = trace[j].at /\ trace[i].observer = trace[j].observer
                 /\ i < j
  BY DEF Merged, MergedWith, Called
<1>2. \A i \in Calls : i \in Nat /\ trace[i].at \in Nat /\ trace[i].observer \in Nat
  BY CallsAreEvents
<1>3. \A i, j \in Calls :
          i < j /\ trace[i].observer = trace[j].observer => trace[i].at <= trace[j].at
  BY DEF ReplicaInv, TraceInv
<1> SUFFICES ASSUME NEW i \in Calls, NEW j \in Calls
             PROVE  /\ i # j => (<<i, j>> \in Merged <=> <<j, i>> \notin Merged)
                    /\ \A k \in Calls : <<i, j>> \in Merged /\ <<j, k>> \in Merged
                                        => <<i, k>> \in Merged
                    /\ trace[i].observer = trace[j].observer
                       => (<<i, j>> \in Merged <=> i < j)
  BY DEF IsTimeline
<1>4. i # j => (<<i, j>> \in Merged <=> <<j, i>> \notin Merged)
  BY <1>1, <1>2
<1>5. \A k \in Calls : <<i, j>> \in Merged /\ <<j, k>> \in Merged => <<i, k>> \in Merged
  BY <1>1, <1>2
<1>6. trace[i].observer = trace[j].observer => (<<i, j>> \in Merged <=> i < j)
  BY <1>1, <1>2, <1>3
<1> QED BY <1>4, <1>5, <1>6

\* Whatever the observers' clocks, lags and pins: the consistency checkers are right about
\* what the observers saw, before and after their histories are merged.
THEOREM ConsistencyChecksAreRight == ReplicaSpec => []ChecksAreTrue
<1>1. ReplicaInv => ChecksAreTrue
  <2> SUFFICES ASSUME ReplicaInv PROVE ChecksAreTrue
    OBVIOUS
  <2>1. EventuallyConsistentReads
    BY DEF ReplicaInv, TraceInv
  <2>2. IsTimeline(Merged)
    BY MergedIsATimeline
  <2>3. KeepsOwnOrder(Called) /\ KeepsOwnOrder(Merged)
    BY <2>2 DEF KeepsOwnOrder, Called, IsTimeline
  <2>4. /\ MonotonicObserverReads(Called) <=> MonotonicVerdict
        /\ MonotonicObserverReads(Merged) <=> MonotonicVerdict
    BY <2>3, MonotonicInAnyOrder
  <2>5. /\ ReadYourWrites(Called) <=> ReadYourWritesVerdict
        /\ ReadYourWrites(Merged) <=> ReadYourWritesVerdict
    BY <2>3, ReadYourWritesInAnyOrder
  <2>6. Divergence(Merged) = Divergence(Called)
    BY <2>3, DivergenceInAnyOrder
  <2>7. MonotonicVerdict <=> ~Regressed
    BY RegressionsShowInNeighbours
  <2>8. MissedOwnWrite => ~ReadYourWritesVerdict
    BY MissedWritesAreNoticed
  <2>9. ~ReadYourWritesVerdict => MissedOwnWrite \/ Ambiguous
    BY AlarmsAreMissesOrTies
  <2>10. Checks(Merged) = Checks(Called)
    <3>1. /\ MonotonicObserverReads(Merged) = MonotonicObserverReads(Called)
          /\ ReadYourWrites(Merged) = ReadYourWrites(Called)
      BY <2>4, <2>5 DEF MonotonicObserverReads, ReadYourWrites
    <3> QED BY <3>1 DEF Checks
  <2> QED BY <2>1, <2>2, <2>4, <2>5, <2>6, <2>7, <2>8, <2>9, <2>10 DEF ChecksAreTrue
<1> QED BY <1>1, ReplicaInvHolds, PTL

---------------------------------------------------------------------------
(* The contract of a version is kept by all of its releases, for any cases, matches and
   capabilities and any number of releases.  A release is compared with the latest snapshot
   on record only; what makes that enough is that not breaking a snapshot is transitive,
   that versions never go back, and that a snapshot which was on record already is, its
   conformance apart, the latest one. *)

ContractInv ==
    /\ releases \in Seq(AdapterVersions)
    /\ contracts \in Seq({SnapshotOf(a) : a \in AdapterVersions})
    /\ contracts = <<>> <=> releases = <<>>
    /\ \A i, j \in DOMAIN releases : i <= j => releases[i].version <= releases[j].version
    /\ \A i, j \in DOMAIN releases :
          i <= j /\ releases[i].version = releases[j].version
          => ~Breaking(SnapshotOf(releases[i]), SnapshotOf(releases[j]))
    /\ \A k \in DOMAIN contracts : \E i \in DOMAIN releases :
          contracts[k] = SnapshotOf(releases[i])
    /\ releases # <<>> =>
          LatestSnapshot(contracts) =
              [SnapshotOf(releases[Len(releases)])
                  EXCEPT !.conforms = LatestSnapshot(contracts).conforms]

\* What a snapshot has, whatever it is of.
LEMMA SnapshotFields ==
    ASSUME NEW a
    PROVE  /\ SnapshotOf(a).version = a.version
           /\ SnapshotOf(a).capabilities = a.capabilities
           /\ DOMAIN SnapshotOf(a).operations = OperationsOf(a)
           /\ \A op \in OperationsOf(a) :
                 /\ SnapshotOf(a).operations[op].effect = a.match[LastOf(CasesOf(a, op))].effect
                 /\ SnapshotOf(a).operations[op].retry = a.match[LastOf(CasesOf(a, op))].retry
                 /\ SnapshotOf(a).operations[op].kinds = KindsOf(a, op)
BY DEF SnapshotOf

\* What it takes to break nothing, field by field.
LEMMA BreaksNothing ==
    ASSUME NEW previous, NEW next
    PROVE  ~Breaking(previous, next)
           <=> /\ DOMAIN previous.operations \subseteq DOMAIN next.operations
               /\ previous.capabilities \subseteq next.capabilities
               /\ \A op \in DOMAIN previous.operations \cap DOMAIN next.operations :
                     /\ previous.operations[op].effect = next.operations[op].effect
                     /\ previous.operations[op].retry = next.operations[op].retry
                     /\ previous.operations[op].kinds \subseteq next.operations[op].kinds
BY DEF Breaking

LEMMA NotBreakingIsTransitive ==
    ASSUME NEW first, NEW second, NEW third,
           ~Breaking(first, second), ~Breaking(second, third)
    PROVE  ~Breaking(first, third)
<1>1. /\ DOMAIN first.operations \subseteq DOMAIN third.operations
      /\ first.capabilities \subseteq third.capabilities
  BY DEF Breaking
<1>2. ASSUME NEW op \in DOMAIN first.operations
      PROVE  /\ first.operations[op].effect = third.operations[op].effect
             /\ first.operations[op].retry = third.operations[op].retry
             /\ first.operations[op].kinds \subseteq third.operations[op].kinds
  <2>1. op \in DOMAIN second.operations /\ op \in DOMAIN third.operations
    BY <1>1 DEF Breaking
  <2>2. /\ first.operations[op].effect = second.operations[op].effect
        /\ first.operations[op].retry = second.operations[op].retry
        /\ first.operations[op].kinds \subseteq second.operations[op].kinds
    BY <2>1 DEF Breaking
  <2>3. /\ second.operations[op].effect = third.operations[op].effect
        /\ second.operations[op].retry = third.operations[op].retry
        /\ second.operations[op].kinds \subseteq third.operations[op].kinds
    BY <2>1 DEF Breaking
  <2> QED BY <2>2, <2>3
<1> QED BY <1>1, <1>2 DEF Breaking

\* Two snapshots of one version that do not break each other differ in nothing but
\* whether they conform.
LEMMA NeitherBreaksIsSame ==
    ASSUME NEW a, NEW b, a.version = b.version,
           ~Breaking(SnapshotOf(a), SnapshotOf(b)), ~Breaking(SnapshotOf(b), SnapshotOf(a))
    PROVE  SnapshotOf(a) = [SnapshotOf(b) EXCEPT !.conforms = SnapshotOf(a).conforms]
<1>1. OperationsOf(a) = OperationsOf(b) /\ a.capabilities = b.capabilities
  <2>1. /\ DOMAIN SnapshotOf(a).operations = DOMAIN SnapshotOf(b).operations
        /\ SnapshotOf(a).capabilities = SnapshotOf(b).capabilities
    <3>1. /\ DOMAIN SnapshotOf(a).operations \subseteq DOMAIN SnapshotOf(b).operations
          /\ SnapshotOf(a).capabilities \subseteq SnapshotOf(b).capabilities
      BY BreaksNothing
    <3>2. /\ DOMAIN SnapshotOf(b).operations \subseteq DOMAIN SnapshotOf(a).operations
          /\ SnapshotOf(b).capabilities \subseteq SnapshotOf(a).capabilities
      BY BreaksNothing
    <3> QED BY <3>1, <3>2
  <2> QED BY <2>1, SnapshotFields
<1>2. ASSUME NEW op \in OperationsOf(a)
      PROVE  /\ a.match[LastOf(CasesOf(a, op))].effect = b.match[LastOf(CasesOf(b, op))].effect
             /\ a.match[LastOf(CasesOf(a, op))].retry = b.match[LastOf(CasesOf(b, op))].retry
             /\ KindsOf(a, op) = KindsOf(b, op)
  <2> DEFINE one == SnapshotOf(a).operations
             other == SnapshotOf(b).operations
  <2>1. op \in DOMAIN one /\ op \in DOMAIN other
    BY <1>1, SnapshotFields
  <2>2. one[op].effect = other[op].effect /\ one[op].retry = other[op].retry
    BY <2>1, BreaksNothing
  <2>3. one[op].kinds = other[op].kinds
    <3>1. one[op].kinds \subseteq other[op].kinds /\ other[op].kinds \subseteq one[op].kinds
      BY <2>1, BreaksNothing
    <3> QED BY <3>1
  <2> QED BY <1>1, <2>2, <2>3, SnapshotFields
<1>3. SnapshotOf(a).operations = SnapshotOf(b).operations
  BY <1>1, <1>2 DEF SnapshotOf
<1> QED BY <1>1, <1>3 DEF SnapshotOf

\* What is compared does not include whether the snapshots conform.
LEMMA ConformanceIsNotCompared ==
    ASSUME NEW a, NEW snapshot, NEW conforms,
           snapshot = [SnapshotOf(a) EXCEPT !.conforms = conforms]
    PROVE  /\ snapshot.version = a.version
           /\ snapshot.operations = SnapshotOf(a).operations
           /\ snapshot.capabilities = SnapshotOf(a).capabilities
BY DEF SnapshotOf

LEMMA VersionsAreNumbers ==
    ASSUME NEW a \in AdapterVersions
    PROVE  a.version \in Nat
BY ContractAssumption DEF AdapterVersions

\* A release is compared with one snapshot, and thereby with all of its version.
LEMMA ReleaseBreaksNothing ==
    ASSUME ContractInv, NEW a \in AdapterVersions, Release(a)
    PROVE  \A i \in DOMAIN releases :
              releases[i].version = a.version
              => ~Breaking(SnapshotOf(releases[i]), SnapshotOf(a))
<1> SUFFICES ASSUME NEW i \in DOMAIN releases, releases[i].version = a.version
             PROVE  ~Breaking(SnapshotOf(releases[i]), SnapshotOf(a))
  OBVIOUS
<1> DEFINE last == releases[Len(releases)]
           latest == LatestSnapshot(contracts)
<1>1. /\ releases \in Seq(AdapterVersions) /\ Len(releases) \in Nat
      /\ DOMAIN releases = 1 .. Len(releases) /\ i \in Nat /\ i <= Len(releases)
      /\ Len(releases) \in DOMAIN releases
      /\ releases # <<>>
  BY DEF ContractInv
<1>2. \A k \in DOMAIN releases : releases[k].version \in Nat
  BY <1>1, VersionsAreNumbers
<1>3. releases[i].version <= last.version /\ last.version <= a.version
  BY <1>1 DEF ContractInv, Release
<1>4. last.version = a.version /\ releases[i].version = last.version
  BY <1>1, <1>2, <1>3
<1>5. ~Breaking(SnapshotOf(releases[i]), SnapshotOf(last))
  BY <1>1, <1>4 DEF ContractInv
<1>6. /\ latest.version = last.version
      /\ latest.operations = SnapshotOf(last).operations
      /\ latest.capabilities = SnapshotOf(last).capabilities
  <2>1. latest = [SnapshotOf(last) EXCEPT !.conforms = latest.conforms]
    BY <1>1 DEF ContractInv
  <2> HIDE DEF latest, last
  <2> QED BY <2>1, ConformanceIsNotCompared
<1>7. ValidEvolution(latest, SnapshotOf(a)) /\ SnapshotOf(a).version = a.version
  <2>1. ValidEvolution(latest, SnapshotOf(a))
    <3>1. contracts # <<>>
      BY <1>1 DEF ContractInv
    <3> QED BY <3>1 DEF Release
  <2> QED BY <2>1, SnapshotFields
<1> HIDE DEF latest, last
<1>8. ~Breaking(latest, SnapshotOf(a))
  BY <1>4, <1>6, <1>7 DEF ValidEvolution
<1>9. ~Breaking(SnapshotOf(last), SnapshotOf(a))
  BY <1>6, <1>8, BreaksNothing
<1> QED BY <1>5, <1>9, NotBreakingIsTransitive

LEMMA NothingBreaksItself ==
    ASSUME NEW snapshot
    PROVE  ~Breaking(snapshot, snapshot)
BY DEF Breaking

\* The latest snapshot on record is the release's, also when it was not added.
LEMMA ReleaseIsLatest ==
    ASSUME ContractInv, NEW a \in AdapterVersions, Release(a)
    PROVE  /\ LatestSnapshot(contracts') =
                [SnapshotOf(a) EXCEPT !.conforms = LatestSnapshot(contracts').conforms]
           /\ contracts' # <<>>
<1>1. contracts' = Add(contracts, SnapshotOf(a))
  BY DEF Release
<1>2. contracts \in Seq({SnapshotOf(b) : b \in AdapterVersions})
  BY DEF ContractInv
<1>3. CASE \E k \in DOMAIN contracts : contracts[k] = SnapshotOf(a)
  <2>1. contracts' = contracts
    BY <1>1, <1>3 DEF Add
  <2>2. PICK i \in DOMAIN releases : SnapshotOf(a) = SnapshotOf(releases[i])
    BY <1>3 DEF ContractInv
  <2> DEFINE last == releases[Len(releases)]
             latest == LatestSnapshot(contracts)
  <2>3. /\ releases \in Seq(AdapterVersions) /\ Len(releases) \in Nat
        /\ Len(releases) \in DOMAIN releases /\ i <= Len(releases) /\ releases # <<>>
        /\ \A k \in DOMAIN releases : releases[k].version \in Nat
    <3>1. releases \in Seq(AdapterVersions)
      BY DEF ContractInv
    <3> QED BY <3>1, <2>2, VersionsAreNumbers
  <2>4. releases[i].version = a.version
    BY <2>2, SnapshotFields
  <2>5. releases[i].version <= last.version /\ last.version <= a.version
    <3>1. last.version <= a.version
      BY <2>3 DEF Release
    <3>2. \A j, k \in DOMAIN releases : j <= k => releases[j].version <= releases[k].version
      BY DEF ContractInv
    <3> QED BY <2>3, <3>1, <3>2
  <2>6. last.version = a.version /\ releases[i].version = last.version
    BY <2>3, <2>4, <2>5
  <2>7. ~Breaking(SnapshotOf(releases[i]), SnapshotOf(last))
    BY <2>3, <2>6 DEF ContractInv
  <2>8. ~Breaking(SnapshotOf(last), SnapshotOf(a))
    BY <2>3, <2>6, ReleaseBreaksNothing
  <2>9. latest = [SnapshotOf(last) EXCEPT !.conforms = latest.conforms]
    BY <2>3 DEF ContractInv
  <2> HIDE DEF last, latest
  <2>10. ~Breaking(SnapshotOf(a), SnapshotOf(last))
    BY <2>2, <2>7
  <2>11. SnapshotOf(last) = [SnapshotOf(a) EXCEPT !.conforms = SnapshotOf(last).conforms]
    BY <2>6, <2>8, <2>10, NeitherBreaksIsSame
  <2>12. latest = [SnapshotOf(a) EXCEPT !.conforms = latest.conforms]
    BY <2>9, <2>11 DEF SnapshotOf
  <2>13. contracts # <<>>
    BY <1>3
  <2> QED BY <2>1, <2>12, <2>13 DEF latest
<1>4. CASE ~\E k \in DOMAIN contracts : contracts[k] = SnapshotOf(a)
  <2> DEFINE s == SnapshotOf(a)
             Snapshots == {SnapshotOf(b) : b \in AdapterVersions}
  <2>1. contracts' = Append(contracts, s)
    BY <1>1, <1>4 DEF Add
  <2>2. s \in Snapshots /\ contracts \in Seq(Snapshots)
    BY <1>2
  <2>3. s = [s EXCEPT !.conforms = s.conforms]
    BY DEF SnapshotOf
  <2> HIDE DEF s, Snapshots
  <2>4. LatestSnapshot(contracts') = s /\ contracts' # <<>>
    BY <2>1, <2>2 DEF LatestSnapshot
  <2>5. LatestSnapshot(contracts') = [s EXCEPT !.conforms = LatestSnapshot(contracts').conforms]
    BY <2>3, <2>4
  <2> QED BY <2>4, <2>5 DEF s
<1> QED BY <1>3, <1>4

LEMMA ReleasePreserves ==
    ASSUME ContractInv, NEW a \in AdapterVersions, Release(a)
    PROVE  ContractInv'
<1> DEFINE Snapshots == {SnapshotOf(b) : b \in AdapterVersions}
<1>1. /\ releases' = Append(releases, a) /\ releases \in Seq(AdapterVersions)
      /\ Len(releases) \in Nat
  BY DEF Release, ContractInv
<1>2. /\ releases' \in Seq(AdapterVersions) /\ releases' # <<>>
      /\ Len(releases') = Len(releases) + 1
      /\ releases'[Len(releases) + 1] = a
      /\ \A i \in DOMAIN releases : releases'[i] = releases[i]
      /\ DOMAIN releases' = DOMAIN releases \cup {Len(releases) + 1}
      /\ DOMAIN releases = 1 .. Len(releases)
  BY <1>1
<1>3. \A k \in DOMAIN contracts : contracts[k] = contracts'[k]
  <2>1. contracts \in Seq(Snapshots)
    BY DEF ContractInv
  <2> HIDE DEF Snapshots
  <2> QED BY <2>1 DEF Release, Add
<1>4. /\ contracts' \in Seq(Snapshots)
      /\ \A k \in DOMAIN contracts' :
            k \in DOMAIN contracts \/ contracts'[k] = SnapshotOf(a)
  <2> DEFINE s == SnapshotOf(a)
  <2>1. contracts \in Seq(Snapshots) /\ s \in Snapshots
    BY DEF ContractInv
  <2>2. contracts' = contracts \/ contracts' = Append(contracts, s)
    BY DEF Release, Add
  <2> HIDE DEF Snapshots, s
  <2>3. contracts' \in Seq(Snapshots)
    BY <2>1, <2>2
  <2>4. \A k \in DOMAIN contracts' : k \in DOMAIN contracts \/ contracts'[k] = s
    BY <2>1, <2>2
  <2> QED BY <2>3, <2>4 DEF s
<1>5. \A k \in DOMAIN contracts' : \E i \in DOMAIN releases' :
         contracts'[k] = SnapshotOf(releases'[i])
  <2> SUFFICES ASSUME NEW k \in DOMAIN contracts'
               PROVE  \E i \in DOMAIN releases' : contracts'[k] = SnapshotOf(releases'[i])
    OBVIOUS
  <2>1. CASE k \in DOMAIN contracts
    <3>1. PICK i \in DOMAIN releases : contracts[k] = SnapshotOf(releases[i])
      BY <2>1 DEF ContractInv
    <3>2. i \in DOMAIN releases' /\ contracts'[k] = SnapshotOf(releases'[i])
      BY <1>2, <1>3, <2>1, <3>1
    <3> QED BY <3>2
  <2>2. CASE contracts'[k] = SnapshotOf(a)
    <3>1. Len(releases) + 1 \in DOMAIN releases'
      BY <1>2
    <3> QED BY <1>2, <2>2, <3>1
  <2> QED BY <1>4, <2>1, <2>2
<1>6. \A i \in DOMAIN releases : releases[i].version <= a.version
  BY DEF Release
<1>7. \A i \in DOMAIN releases : i \in Nat /\ i <= Len(releases)
  BY <1>1, <1>2
<1>8. a.version <= a.version
  BY ContractAssumption DEF AdapterVersions
<1>9. ASSUME NEW i \in DOMAIN releases', NEW j \in DOMAIN releases', i <= j
      PROVE  /\ releases'[i].version <= releases'[j].version
             /\ releases'[i].version = releases'[j].version
                => ~Breaking(SnapshotOf(releases'[i]), SnapshotOf(releases'[j]))
  <2>1. CASE j \in DOMAIN releases
    <3>1. i \in DOMAIN releases
      BY <1>1, <1>2, <1>7, <1>9, <2>1
    <3> QED BY <1>2, <1>9, <2>1, <3>1 DEF ContractInv
  <2>2. CASE j = Len(releases) + 1 /\ i \in DOMAIN releases
    BY <1>2, <1>6, <2>2, ReleaseBreaksNothing
  <2>3. CASE j = Len(releases) + 1 /\ i = Len(releases) + 1
    BY <1>2, <1>8, <2>3, NothingBreaksItself
  <2> QED BY <1>2, <2>1, <2>2, <2>3
<1>10. /\ contracts' # <<>>
       /\ LatestSnapshot(contracts') =
            [SnapshotOf(releases'[Len(releases')])
                EXCEPT !.conforms = LatestSnapshot(contracts').conforms]
  BY <1>2, ReleaseIsLatest
<1> QED BY <1>2, <1>4, <1>5, <1>9, <1>10 DEF ContractInv

LEMMA ContractInvHolds == ContractSpec => []ContractInv
<1>1. ContractInit => ContractInv
  BY DEF ContractInit, ContractInv
<1>2. ContractInv /\ [ContractNext]_contractVars => ContractInv'
  <2> SUFFICES ASSUME ContractInv, [ContractNext]_contractVars PROVE ContractInv'
    OBVIOUS
  <2>1. ASSUME NEW a \in AdapterVersions, Release(a) PROVE ContractInv'
    BY <2>1, ReleasePreserves
  <2>2. CASE UNCHANGED contractVars
    BY <2>2 DEF contractVars, ContractInv
  <2> QED BY <2>1, <2>2 DEF ContractNext
<1> QED BY <1>1, <1>2, PTL DEF ContractSpec

\* The last case of an operation there is.
LEMMA LastCaseExists ==
    ASSUME NEW a, NEW op, CasesOf(a, op) # {}
    PROVE  LastOf(CasesOf(a, op)) \in CasesOf(a, op)
<1> DEFINE S == CasesOf(a, op)
           FromEnd == {k \in Nat : NumCases - k \in S}
           Below == {pair \in Nat \X Nat : pair[1] < pair[2]}
<1>1. S \subseteq 1 .. NumCases /\ NumCases \in Nat
  BY ContractAssumption DEF CasesOf, Cases
<1> HIDE DEF S
<1>2. \A d \in S : d \in Nat /\ NumCases - d \in FromEnd /\ NumCases - (NumCases - d) = d
  BY <1>1
<1>3. FromEnd # {}
  BY <1>2 DEF S
<1>4. IsWellFoundedOn(Below, Nat)
  BY NatLessThanWellFounded DEF OpToRel
<1>5. PICK k \in FromEnd : \A n \in FromEnd : ~(<<n, k>> \in Below)
  <2> HIDE DEF Below
  <2>1. FromEnd \subseteq Nat
    OBVIOUS
  <2> HIDE DEF FromEnd
  <2> QED BY <1>3, <1>4, <2>1, WFMin
<1>6. NumCases - k \in S /\ k \in Nat
  BY <1>5
<1>7. \A n \in FromEnd : n \in Nat /\ ~(n < k)
  BY <1>5
<1> HIDE DEF FromEnd
<1>8. ASSUME NEW d \in S PROVE d <= NumCases - k
  <2>1. NumCases - d \in FromEnd /\ d \in Nat
    BY <1>2
  <2>2. ~(NumCases - d < k) /\ NumCases - d \in Nat
    BY <1>7, <2>1
  <2> QED BY <1>1, <1>6, <2>1, <2>2
<1>9. \E c \in S : \A d \in S : d <= c
  BY <1>6, <1>8
<1> QED BY <1>9 DEF LastOf, S

\* Whoever relies on a contract may rely on every later release of its version, and the
\* latest snapshot on record describes the latest release (contracts.ts
\* validateContractEvolution, SemanticContractRegistry).
THEOREM ContractsStayKept == ContractSpec => []ContractsAreKept
<1>1. ContractInv => ContractsAreKept
  <2> SUFFICES ASSUME ContractInv PROVE ContractsAreKept
    OBVIOUS
  <2>1. ASSUME NEW i \in DOMAIN releases, NEW j \in DOMAIN releases,
               i < j, releases[i].version = releases[j].version
        PROVE  LET old == releases[i]
                   new == releases[j]
               IN /\ old.capabilities \subseteq new.capabilities
                  /\ \A op \in OperationsOf(old) :
                       /\ CasesOf(new, op) # {}
                       /\ \A c \in CasesOf(old, op), kind \in UNION {m.kinds : m \in Matches} :
                            kind \in old.match[c].kinds =>
                                \E d \in CasesOf(new, op) : kind \in new.match[d].kinds
                       /\ \A c \in CasesOf(old, op) :
                            (\A d \in CasesOf(old, op) :
                                old.match[d].effect = old.match[c].effect)
                            => \E d \in CasesOf(new, op) :
                                  new.match[d].effect = old.match[c].effect
    <3> DEFINE old == releases[i]
               new == releases[j]
    <3>1. i \in Nat /\ j \in Nat
      BY DEF ContractInv
    <3>2. ~Breaking(SnapshotOf(old), SnapshotOf(new))
      BY <2>1, <3>1 DEF ContractInv
    <3> HIDE DEF old, new
    <3>3. /\ old.capabilities \subseteq new.capabilities
          /\ OperationsOf(old) \subseteq OperationsOf(new)
      BY <3>2, SnapshotFields DEF Breaking
    <3>4. ASSUME NEW op \in OperationsOf(old)
          PROVE  /\ CasesOf(new, op) # {}
                 /\ CasesOf(old, op) # {}
                 /\ KindsOf(old, op) \subseteq KindsOf(new, op)
                 /\ old.match[LastOf(CasesOf(old, op))].effect
                      = new.match[LastOf(CasesOf(new, op))].effect
      <4>1. op \in OperationsOf(new)
        BY <3>3
      <4>2. CasesOf(new, op) # {} /\ CasesOf(old, op) # {}
        BY <4>1 DEF OperationsOf, CasesOf
      <4>3. /\ SnapshotOf(old).operations[op].effect = SnapshotOf(new).operations[op].effect
            /\ SnapshotOf(old).operations[op].kinds \subseteq SnapshotOf(new).operations[op].kinds
        BY <3>2, <4>1, SnapshotFields DEF Breaking
      <4> QED BY <4>1, <4>2, <4>3, SnapshotFields
    <3>5. ASSUME NEW op \in OperationsOf(old), NEW c \in CasesOf(old, op), NEW kind,
                 kind \in old.match[c].kinds
          PROVE  \E d \in CasesOf(new, op) : kind \in new.match[d].kinds
      <4>1. kind \in KindsOf(new, op)
        BY <3>4, <3>5 DEF KindsOf
      <4> QED BY <4>1 DEF KindsOf
    <3>6. ASSUME NEW op \in OperationsOf(old), NEW c \in CasesOf(old, op),
                 \A d \in CasesOf(old, op) : old.match[d].effect = old.match[c].effect
          PROVE  \E d \in CasesOf(new, op) : new.match[d].effect = old.match[c].effect
      <4>1. /\ LastOf(CasesOf(old, op)) \in CasesOf(old, op)
            /\ LastOf(CasesOf(new, op)) \in CasesOf(new, op)
        BY <3>4, LastCaseExists
      <4>2. new.match[LastOf(CasesOf(new, op))].effect = old.match[c].effect
        BY <3>4, <3>6, <4>1
      <4> QED BY <4>1, <4>2
    <3> QED BY <3>3, <3>4, <3>5, <3>6 DEF old, new
  <2> QED BY <2>1 DEF ContractInv, ContractsAreKept
<1> QED BY <1>1, ContractInvHolds, PTL

===============================================================================

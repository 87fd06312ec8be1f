--------------------------- MODULE ScenarioCache ---------------------------
(***************************************************************************)
(* withScenarioCache over FileScenarioCache (packages/core/src/cache.ts):  *)
(* the workers of one search ask a cache for each scenario's result and    *)
(* store what they had to execute.  All of them share the copy in memory,  *)
(* which is loaded once, and each store rewrites the whole file.  A        *)
(* process may end between calls or crash in the middle of one; the next   *)
(* one starts from the file.                                               *)
(***************************************************************************)
EXTENDS Naturals, FiniteSets

CONSTANTS Workers,    \* the executions that run concurrently
          Scenarios,  \* records: the seed and the sequence of perturbations, each with
                      \* what the key names of it and with its other fields
          MaxCalls,   \* bound: calls of the cached executor
          MaxStarts   \* bound: processes

VARIABLES file,      \* the file: how long it is and the document it holds, if any
          loaded,    \* #loaded
          entries,   \* #entries: the scenarios whose results are in memory
          pc, asked, \* where each worker's call is, and for which scenario
          document,  \* the document a worker is writing
          found,     \* the scenario whose result the worker was last given
          executed,  \* the scenarios executed since the file was absent
          stored,    \* those whose set() has resolved
          disturbed, \* did two calls overlap, or a process die in one?
          calls, starts

vars == <<file, loaded, entries, pc, asked, document, found, executed, stored,
          disturbed, calls, starts>>

NoScenario == [seed |-> 0, perturbations |-> <<>>]

\* Of each perturbation, in order: its id, target, operation, kind, selector and
\* metadata, "named", and neither its phase and category nor the outcomes it declares,
\* "effect".
Named(s) == [i \in DOMAIN s.perturbations |-> s.perturbations[i].named]

\* Mutant: the seed is not part of the key.
SeedlessFingerprint(s) == Named(s)

\* scenarioFingerprint: the scenario's own id is not part of it either.
Fingerprint(s) == <<s.seed, Named(s)>>

Absent == [length |-> 0, whole |-> FALSE, exists |-> FALSE, holds |-> {}]
Whole(set) ==
    [length |-> Cardinality(set) + 1, whole |-> TRUE, exists |-> TRUE, holds |-> set]

Init ==
    /\ file = Absent
    /\ loaded = FALSE
    /\ entries = {}
    /\ pc = [w \in Workers |-> "idle"]
    /\ asked = [w \in Workers |-> NoScenario]
    /\ document = [w \in Workers |-> {}]
    /\ found = [w \in Workers |-> NoScenario]
    /\ executed = {}
    /\ stored = {}
    /\ disturbed = FALSE
    /\ calls = 0
    /\ starts = 1

---------------------------------------------------------------------------
(* get *)

Hits(s, held) == {t \in held : Fingerprint(t) = Fingerprint(s)}

\* The end of get: a cached result is returned, otherwise execute is awaited.
LookUp(w, s, held) ==
    \/ /\ Hits(s, held) # {}
       /\ \E t \in Hits(s, held) : found' = [found EXCEPT ![w] = t]
       /\ pc' = [pc EXCEPT ![w] = "idle"]
    \/ /\ Hits(s, held) = {}
       /\ pc' = [pc EXCEPT ![w] = "executing"]
       /\ found' = [found EXCEPT ![w] = NoScenario]

\* Only the first call reads the file; a call that comes while it does so goes on
\* with what is in memory.
Call(w, s) ==
    /\ pc[w] = "idle"
    /\ calls < MaxCalls
    /\ calls' = calls + 1
    /\ disturbed' = (disturbed \/ \E v \in Workers : pc[v] # "idle")
    /\ asked' = [asked EXCEPT ![w] = s]
    /\ loaded' = TRUE
    /\ \/ loaded /\ LookUp(w, s, entries)
       \/ /\ ~loaded
          /\ pc' = [pc EXCEPT ![w] = "loading"]
          /\ found' = [found EXCEPT ![w] = NoScenario]
    /\ UNCHANGED <<file, entries, document, executed, stored, starts>>

\* Mutant: the document is read and dropped.
DocumentDropped == entries

\* The document replaces the copy in memory.
AfterRead == IF file.exists THEN file.holds ELSE entries

Load(w) ==
    /\ pc[w] = "loading"
    /\ ~file.exists \/ file.whole
    /\ entries' = AfterRead
    /\ LookUp(w, asked[w], AfterRead)
    /\ UNCHANGED <<file, loaded, asked, document, executed, stored, disturbed, calls, starts>>

\* A file that is no JSON makes the call reject, and is not read again.
LoadFails(w) ==
    /\ pc[w] = "loading"
    /\ file.exists /\ ~file.whole
    /\ pc' = [pc EXCEPT ![w] = "idle"]
    /\ UNCHANGED <<file, loaded, entries, asked, document, found, executed, stored,
                   disturbed, calls, starts>>

---------------------------------------------------------------------------
(* execute and set *)

WithEntry(held, s) == {t \in held : Fingerprint(t) # Fingerprint(s)} \cup {s}

Execute(w) ==
    /\ pc[w] = "executing"
    /\ executed' = executed \cup {asked[w]}
    /\ entries' = WithEntry(entries, asked[w])
    /\ found' = [found EXCEPT ![w] = asked[w]]
    /\ pc' = [pc EXCEPT ![w] = "directory"]
    /\ UNCHANGED <<file, loaded, asked, document, stored, disturbed, calls, starts>>

\* An execution that rejects is not stored.
ExecuteRejects(w) ==
    /\ pc[w] = "executing"
    /\ pc' = [pc EXCEPT ![w] = "idle"]
    /\ UNCHANGED <<file, loaded, entries, asked, document, found, executed, stored,
                   disturbed, calls, starts>>

\* mkdir was awaited; the document is a snapshot of this moment.
Snapshot(w) ==
    /\ pc[w] = "directory"
    /\ document' = [document EXCEPT ![w] = entries]
    /\ pc' = [pc EXCEPT ![w] = "opening"]
    /\ UNCHANGED <<file, loaded, entries, asked, found, executed, stored, disturbed, calls, starts>>

\* writeFile opens the file and so empties it ...
Open(w) ==
    /\ pc[w] = "opening"
    /\ file' = [Absent EXCEPT !.exists = TRUE]
    /\ pc' = [pc EXCEPT ![w] = "writing"]
    /\ UNCHANGED <<loaded, entries, asked, document, found, executed, stored, disturbed, calls, starts>>

\* ... and writes from its start; a longer text somebody wrote meanwhile shows
\* behind a shorter one.
Write(w) ==
    LET text == Whole(document[w])
    IN /\ pc[w] = "writing"
       /\ file' = IF file.length <= text.length THEN text
                  ELSE [file EXCEPT !.whole = FALSE, !.holds = {}]
       /\ stored' = stored \cup {asked[w]}
       /\ pc' = [pc EXCEPT ![w] = "idle"]
       /\ UNCHANGED <<loaded, entries, asked, document, found, executed, disturbed, calls, starts>>

---------------------------------------------------------------------------
(* Processes *)

\* The process ends, between calls or in the middle of them, and a new one finds
\* the file as it is.
Restart ==
    /\ starts < MaxStarts
    /\ disturbed' = (disturbed \/ \E w \in Workers : pc[w] # "idle")
    /\ starts' = starts + 1
    /\ loaded' = FALSE
    /\ entries' = {}
    /\ pc' = [w \in Workers |-> "idle"]
    /\ found' = [w \in Workers |-> NoScenario]
    /\ UNCHANGED <<file, asked, document, executed, stored, calls>>

Step(w) ==
    \/ Load(w) \/ LoadFails(w) \/ Execute(w) \/ ExecuteRejects(w)
    \/ Snapshot(w) \/ Open(w) \/ Write(w)

Next == Restart \/ \E w \in Workers : Step(w) \/ \E s \in Scenarios : Call(w, s)

Spec == Init /\ [][Next]_vars

---------------------------------------------------------------------------

\* Do two scenarios have the same seed and perturb the same calls in the same order,
\* whatever they do to them?
Alike(s, t) ==
    /\ s.seed = t.seed
    /\ DOMAIN s.perturbations = DOMAIN t.perturbations
    /\ \A i \in DOMAIN s.perturbations :
          s.perturbations[i].named = t.perturbations[i].named

\* A worker is never given the result of a scenario with another seed, with other
\* perturbations or with the same in another order, out of a file of any age.  It may
\* be given that of a scenario whose perturbations differ in a phase, a category or a
\* declared outcome alone: the cache cannot tell that one of them was edited.
ResultIsForTheScenario ==
    \A w \in Workers : found[w] = NoScenario \/ Alike(found[w], asked[w])

\* "persistent scenario/result cache": no scenario is executed again once its result
\* was stored, by this process or an earlier one, as long as calls do not overlap and
\* no process dies in the middle of one.
NoSecondExecution ==
    [][\A w \in Workers : Execute(w) /\ ~disturbed => asked[w] \notin stored]_vars
=============================================================================

---------------------------- MODULE PlanningProofs ----------------------------
(***************************************************************************)
(* Theorems about the covering of a fault space (PairwiseCovering), for    *)
(* any numbers of points and choices and any limit, about the agents       *)
(* scenarios are sent to (RemoteExecution), for any calls, copies and      *)
(* clocks, and about the exploration loops (Exploration), for any systems  *)
(* and options.                                                            *)
(***************************************************************************)
EXTENDS PairwiseCovering, RemoteExecution, Exploration, FiniteSetTheorems,
        WellFoundedInduction, NaturalsInduction, TLAPS

(* The covering.  CoverInv adds to the properties of PairwiseCovering what the rows of
   the first phase are, and which choices they stand for: that no pair is covered when
   the second phase starts follows from it. *)

\* Which of the choices have their own scenario, in each phase.
SinglesAreAdded ==
    /\ \A ref \in RefsOf(choices) : ref \in singles \/ {ref} \in Rows \/ Len(rows) >= maxScenarios
    /\ phase = "singles" => \A row \in Rows : row = {} \/ \E ref \in RefsOf(choices) : row = {ref}
    /\ phase = "pairs" => singles = {}
    /\ (phase = "done" /\ Len(rows) < maxScenarios) => singles = {}

CoverInv ==
    /\ TypeOK
    /\ RowsAreScenarios
    /\ CoverageIsAccounted
    /\ SinglesAreAdded
    /\ CoveredUnlessLimited

\* A pair is two choices of different points.
LEMMA PairOfTwo ==
    ASSUME NEW pair \in AllPairs
    PROVE  \E r, s \in RefsOf(choices) : r[1] < s[1] /\ pair = {r, s}
BY DEF AllPairs

\* A choice is a point and the number of one of its choices.
LEMMA RefOfPoint ==
    ASSUME TypeOK, NEW ref \in RefsOf(choices)
    PROVE  ref \in Refs /\ ref[1] \in Points /\ ref[2] \in 1 .. choices[ref[1]]
BY PairwiseAssumption DEF TypeOK, RefsOf, Refs

\* Adding a row adds it to the set of rows and nothing else.
LEMMA RowsAfterAppend ==
    ASSUME TypeOK, NEW row, rows' = Append(rows, row)
    PROVE  Rows' = Rows \cup {row} /\ Len(rows') = Len(rows) + 1
<1>1. rows \in Seq(SUBSET Refs)
  BY DEF TypeOK
<1>2. /\ Len(rows') = Len(rows) + 1
      /\ DOMAIN rows' = 1 .. Len(rows) + 1
      /\ rows'[Len(rows) + 1] = row
      /\ \A k \in 1 .. Len(rows) : rows'[k] = rows[k]
  BY <1>1
<1>3. DOMAIN rows = 1 .. Len(rows) /\ Len(rows) \in Nat
  BY <1>1
<1> QED
  BY <1>2, <1>3 DEF Rows

\* The row for a pair contains it, and is a scenario.
LEMMA RowForIsScenario ==
    ASSUME TypeOK, NEW wanted \in AllPairs
    PROVE  /\ wanted \subseteq RowFor(wanted)
           /\ RowFor(wanted) \subseteq RefsOf(choices)
           /\ \A r, s \in RowFor(wanted) : r[1] = s[1] => r = s
<1>1. PICK a, b \in RefsOf(choices) : a[1] < b[1] /\ wanted = {a, b}
  BY PairOfTwo
<1>2. a[1] \in Points /\ b[1] \in Points /\ a[1] # b[1]
  BY <1>1, RefOfPoint, PairwiseAssumption DEF Points
<1>3. PointsOf(wanted) = {a[1], b[1]}
  BY <1>1 DEF PointsOf
<1>4. \A point \in Points : choices[point] > 0 => <<point, 1>> \in RefsOf(choices)
  <2> SUFFICES ASSUME NEW point \in Points, choices[point] > 0
               PROVE  <<point, 1>> \in RefsOf(choices)
    OBVIOUS
  <2>1. choices[point] \in Nat
    BY PairwiseAssumption DEF TypeOK
  <2>2. 1 \in 1 .. choices[point]
    BY <2>1
  <2> QED
    BY <2>2 DEF RefsOf
<1>5. wanted \subseteq RowFor(wanted)
  BY DEF RowFor
<1>6. RowFor(wanted) \subseteq RefsOf(choices)
  BY <1>1, <1>4 DEF RowFor
<1>7. ASSUME NEW r \in RowFor(wanted), NEW s \in RowFor(wanted), r[1] = s[1]
      PROVE  r = s
  <2>1. r \in {a, b} \/ \E p \in Points \ {a[1], b[1]} : r = <<p, 1>>
    BY <1>1, <1>3 DEF RowFor
  <2>2. s \in {a, b} \/ \E p \in Points \ {a[1], b[1]} : s = <<p, 1>>
    BY <1>1, <1>3 DEF RowFor
  <2> QED
    BY <1>2, <1>7, <2>1, <2>2
<1> QED
  BY <1>5, <1>6, <1>7

\* Striking off a row's pairs takes away the pair it was built for.
LEMMA StruckWanted ==
    ASSUME NEW wanted \in AllPairs
    PROVE  wanted \in Struck(wanted)
BY DEF Struck, PairsOf, RowFor

\* The arguments do not change, and so neither do the choices and their pairs.
LEMMA SameArguments ==
    ASSUME choices' = choices
    PROVE  RefsOf(choices)' = RefsOf(choices) /\ AllPairs' = AllPairs
BY DEF RefsOf, AllPairs

---------------------------------------------------------------------------
\* The variables keep their types.
LEMMA TypePreserved ==
    ASSUME TypeOK, [Next]_vars
    PROVE  TypeOK'
<1>1. CASE AddSingle
  <2>1. PICK ref \in singles : rows' = Append(rows, {ref}) /\ singles' = singles \ {ref}
    BY <1>1 DEF AddSingle
  <2>2. {ref} \in SUBSET Refs
    BY <2>1, RefOfPoint DEF TypeOK
  <2>3. rows' \in Seq(SUBSET Refs)
    BY <2>1, <2>2 DEF TypeOK
  <2>4. AllPairs' = AllPairs /\ RefsOf(choices)' = RefsOf(choices)
    BY <1>1, SameArguments DEF AddSingle
  <2> QED
    BY <1>1, <2>1, <2>3, <2>4 DEF AddSingle, TypeOK
<1>2. CASE StartPairs
  <2>1. AllPairs' = AllPairs /\ RefsOf(choices)' = RefsOf(choices)
    BY <1>2, SameArguments DEF StartPairs
  <2> QED
    BY <1>2, <2>1 DEF StartPairs, TypeOK
<1>3. CASE AddRow
  <2>1. PICK wanted \in uncovered :
            rows' = Append(rows, RowFor(wanted)) /\ uncovered' = uncovered \ Struck(wanted)
    BY <1>3 DEF AddRow
  <2>2. RowFor(wanted) \subseteq RefsOf(choices)
    BY <2>1, RowForIsScenario DEF TypeOK
  <2>3. RowFor(wanted) \in SUBSET Refs
    BY <2>2, RefOfPoint
  <2>4. rows' \in Seq(SUBSET Refs)
    BY <2>1, <2>3 DEF TypeOK
  <2>5. AllPairs' = AllPairs /\ RefsOf(choices)' = RefsOf(choices)
    BY <1>3, SameArguments DEF AddRow
  <2> QED
    BY <1>3, <2>1, <2>4, <2>5 DEF AddRow, TypeOK
<1>4. CASE Finish
  <2>1. AllPairs' = AllPairs /\ RefsOf(choices)' = RefsOf(choices)
    BY <1>4, SameArguments DEF Finish
  <2> QED
    BY <1>4, <2>1 DEF Finish, TypeOK
<1>5. CASE UNCHANGED vars
  <2>1. AllPairs' = AllPairs /\ RefsOf(choices)' = RefsOf(choices)
    BY <1>5, SameArguments DEF vars
  <2> QED
    BY <1>5, <2>1 DEF vars, TypeOK
<1> QED
  BY <1>1, <1>2, <1>3, <1>4, <1>5 DEF Next

\* The invariant holds before the first scenario is added.
LEMMA CoverInit == Init => CoverInv
<1> SUFFICES ASSUME Init PROVE CoverInv
  OBVIOUS
<1>1. rows \in Seq(SUBSET Refs) /\ \A row \in Rows : row = {}
  <2>1. {} \in SUBSET Refs
    OBVIOUS
  <2>2. <<>> \in Seq(SUBSET Refs) /\ <<{}>> \in Seq(SUBSET Refs)
    BY <2>1
  <2>3. CASE rows = <<>>
    BY <2>2, <2>3 DEF Rows
  <2>4. CASE rows = <<{}>>
    <3>1. DOMAIN rows = {1} /\ rows[1] = {}
      BY <2>4
    <3> QED
      BY <2>2, <2>4, <3>1 DEF Rows
  <2> QED
    BY <2>3, <2>4 DEF Init
<1>2. TypeOK
  BY <1>1 DEF Init, TypeOK
<1>3. RowsAreScenarios
  BY <1>1 DEF RowsAreScenarios
<1>4. CoverageIsAccounted /\ SinglesAreAdded /\ CoveredUnlessLimited
  BY <1>1 DEF Init, CoverageIsAccounted, SinglesAreAdded, CoveredUnlessLimited
<1> QED
  BY <1>2, <1>3, <1>4 DEF CoverInv

\* Every step keeps the invariant.
LEMMA CoverStep ==
    ASSUME CoverInv, [Next]_vars
    PROVE  CoverInv'
<1>1. TypeOK /\ TypeOK'
  BY TypePreserved DEF CoverInv
<1>2. Len(rows) \in Nat /\ maxScenarios \in Nat
  BY <1>1, PairwiseAssumption DEF TypeOK
<1>3. CASE AddSingle
  <2>1. PICK ref \in singles : rows' = Append(rows, {ref}) /\ singles' = singles \ {ref}
    BY <1>3 DEF AddSingle
  <2>2. ref \in RefsOf(choices)
    BY <1>1 DEF TypeOK
  <2>3. Rows' = Rows \cup {{ref}} /\ Len(rows') = Len(rows) + 1
    BY <1>1, <2>1, RowsAfterAppend
  <2>4. /\ AllPairs' = AllPairs /\ RefsOf(choices)' = RefsOf(choices)
        /\ maxScenarios' = maxScenarios /\ phase = "singles"
        /\ phase' = IF Len(rows) + 1 >= maxScenarios THEN "done" ELSE "singles"
    BY <1>3, SameArguments DEF AddSingle
  <2>5. RowsAreScenarios'
    BY <2>2, <2>3, <2>4 DEF CoverInv, RowsAreScenarios
  <2>6. CoverageIsAccounted'
    BY <2>4 DEF CoverageIsAccounted
  <2>7. SinglesAreAdded'
    BY <1>2, <2>1, <2>2, <2>3, <2>4 DEF CoverInv, SinglesAreAdded
  <2>8. CoveredUnlessLimited'
    BY <1>2, <2>3, <2>4 DEF CoveredUnlessLimited
  <2> QED
    BY <1>1, <2>5, <2>6, <2>7, <2>8 DEF CoverInv
<1>4. CASE StartPairs
  <2>1. /\ AllPairs' = AllPairs /\ RefsOf(choices)' = RefsOf(choices)
        /\ Rows' = Rows /\ rows' = rows /\ maxScenarios' = maxScenarios
        /\ phase = "singles" /\ singles = {} /\ singles' = {}
        /\ uncovered' = AllPairs
        /\ phase' = IF AllPairs = {} \/ Len(rows) >= maxScenarios THEN "done" ELSE "pairs"
    BY <1>4, SameArguments DEF StartPairs, Rows
  <2>2. RowsAreScenarios'
    BY <2>1 DEF CoverInv, RowsAreScenarios
  <2>3. ASSUME NEW pair \in AllPairs, NEW row \in Rows
        PROVE  ~(pair \subseteq row)
    <3>1. PICK r, s \in RefsOf(choices) : r[1] < s[1] /\ pair = {r, s}
      BY <2>3, PairOfTwo
    <3>2. r # s
      BY <1>1, <3>1, RefOfPoint DEF Points
    <3>3. row = {} \/ \E ref \in RefsOf(choices) : row = {ref}
      BY <2>1, <2>3 DEF CoverInv, SinglesAreAdded
    <3> QED
      BY <3>1, <3>2, <3>3
  <2>4. \A pair \in AllPairs : ~Covered(pair)'
    BY <2>1, <2>3 DEF Covered
  <2>5. CoverageIsAccounted'
    BY <2>1, <2>4 DEF CoverageIsAccounted
  <2>6. SinglesAreAdded'
    BY <2>1 DEF CoverInv, SinglesAreAdded
  <2>7. CoveredUnlessLimited'
    BY <1>2, <2>1 DEF CoverInv, SinglesAreAdded, CoveredUnlessLimited
  <2> QED
    BY <1>1, <2>2, <2>5, <2>6, <2>7 DEF CoverInv
<1>5. CASE AddRow
  <2>1. PICK wanted \in uncovered :
            rows' = Append(rows, RowFor(wanted)) /\ uncovered' = uncovered \ Struck(wanted)
    BY <1>5 DEF AddRow
  <2>2. wanted \in AllPairs
    BY <1>1 DEF TypeOK
  <2>3. Rows' = Rows \cup {RowFor(wanted)} /\ Len(rows') = Len(rows) + 1
    BY <1>1, <2>1, RowsAfterAppend
  <2>4. /\ AllPairs' = AllPairs /\ RefsOf(choices)' = RefsOf(choices)
        /\ maxScenarios' = maxScenarios /\ phase = "pairs" /\ phase' = "pairs"
        /\ singles' = singles
    BY <1>5, SameArguments DEF AddRow
  <2>5. RowsAreScenarios'
    BY <1>1, <2>2, <2>3, <2>4, RowForIsScenario DEF CoverInv, RowsAreScenarios
  <2>6. ASSUME NEW pair \in AllPairs
        PROVE  pair \in uncovered' <=> ~Covered(pair)'
    <3>1. pair \in uncovered <=> ~Covered(pair)
      BY <2>4, <2>6 DEF CoverInv, CoverageIsAccounted
    <3>2. pair \in Struck(wanted) <=> pair \subseteq RowFor(wanted)
      BY <2>6 DEF Struck, PairsOf
    <3>3. Covered(pair)' <=> Covered(pair) \/ pair \subseteq RowFor(wanted)
      BY <2>3 DEF Covered
    <3> QED
      BY <2>1, <3>1, <3>2, <3>3
  <2>7. CoverageIsAccounted'
    BY <2>4, <2>6 DEF CoverageIsAccounted
  <2>8. SinglesAreAdded'
    BY <1>2, <2>3, <2>4 DEF CoverInv, SinglesAreAdded
  <2>9. CoveredUnlessLimited'
    BY <2>4 DEF CoveredUnlessLimited
  <2> QED
    BY <1>1, <2>5, <2>7, <2>8, <2>9 DEF CoverInv
<1>6. CASE Finish
  <2>1. /\ AllPairs' = AllPairs /\ RefsOf(choices)' = RefsOf(choices)
        /\ Rows' = Rows /\ rows' = rows /\ maxScenarios' = maxScenarios
        /\ phase = "pairs" /\ phase' = "done" /\ singles' = singles
        /\ uncovered' = uncovered
        /\ uncovered = {} \/ Len(rows) >= maxScenarios
    BY <1>6, SameArguments DEF Finish, Rows
  <2>2. RowsAreScenarios'
    BY <2>1 DEF CoverInv, RowsAreScenarios
  <2>3. CoverageIsAccounted'
    BY <2>1 DEF CoverageIsAccounted
  <2>4. SinglesAreAdded'
    BY <2>1 DEF CoverInv, SinglesAreAdded
  <2>5. CoveredUnlessLimited'
    <3> SUFFICES ASSUME Len(rows) < maxScenarios
                 PROVE  /\ \A ref \in RefsOf(choices) : {ref} \in Rows
                        /\ \A pair \in AllPairs : Covered(pair)
      BY <2>1 DEF CoveredUnlessLimited, Covered
    <3>1. uncovered = {} /\ singles = {}
      BY <1>2, <2>1 DEF CoverInv, SinglesAreAdded
    <3>2. \A ref \in RefsOf(choices) : {ref} \in Rows
      BY <1>2, <3>1 DEF CoverInv, SinglesAreAdded
    <3>3. \A pair \in AllPairs : Covered(pair)
      BY <2>1, <3>1 DEF CoverInv, CoverageIsAccounted
    <3> QED
      BY <3>2, <3>3
  <2> QED
    BY <1>1, <2>2, <2>3, <2>4, <2>5 DEF CoverInv
<1>7. CASE UNCHANGED vars
  <2>1. /\ AllPairs' = AllPairs /\ RefsOf(choices)' = RefsOf(choices) /\ Rows' = Rows
        /\ rows' = rows /\ maxScenarios' = maxScenarios /\ phase' = phase
        /\ singles' = singles /\ uncovered' = uncovered
    BY <1>7, SameArguments DEF vars, Rows
  <2>2. RowsAreScenarios'
    BY <2>1 DEF CoverInv, RowsAreScenarios
  <2>3. CoverageIsAccounted'
    BY <2>1 DEF CoverInv, CoverageIsAccounted, Covered
  <2>4. SinglesAreAdded'
    BY <2>1 DEF CoverInv, SinglesAreAdded
  <2>5. CoveredUnlessLimited'
    BY <2>1 DEF CoverInv, CoveredUnlessLimited, Covered
  <2> QED
    BY <1>1, <2>2, <2>3, <2>4, <2>5 DEF CoverInv
<1> QED
  BY <1>3, <1>4, <1>5, <1>6, <1>7 DEF Next

---------------------------------------------------------------------------
\* The inductive invariant of the covering holds in every reachable state.
THEOREM CoverInvariant == Spec => []CoverInv
<1>1. Init => CoverInv
  BY CoverInit
<1>2. CoverInv /\ [Next]_vars => CoverInv'
  BY CoverStep
<1> QED
  BY <1>1, <1>2, PTL DEF Spec

\* The variables have their types.
THEOREM CoveringTypes == Spec => []TypeOK
BY CoverInvariant, PTL DEF CoverInv

\* No scenario chooses twice for a fault point, or what the point does not offer.
THEOREM RowsAreAlwaysScenarios == Spec => []RowsAreScenarios
BY CoverInvariant, PTL DEF CoverInv

\* The pairs counted as uncovered are those that no scenario contains.
THEOREM CoverageAlwaysAccounted == Spec => []CoverageIsAccounted
BY CoverInvariant, PTL DEF CoverInv

\* A covering that was not cut off by its limit covers every choice and every pair,
\* whatever the number of points and choices.
THEOREM CoveringIsComplete == Spec => []CoveredUnlessLimited
BY CoverInvariant, PTL DEF CoverInv

\* A row of the second phase always strikes off the pair it was built for.
THEOREM RowsAlwaysEarnTheirPlace == Spec => RowsEarnTheirPlace
<1>1. CoverInv /\ [Next]_vars =>
          [phase = "pairs" /\ rows' # rows => uncovered' # uncovered]_vars
  <2> SUFFICES ASSUME CoverInv, Next, phase = "pairs", rows' # rows
               PROVE  uncovered' # uncovered
    OBVIOUS
  <2>1. AddRow
    BY DEF Next, AddSingle, StartPairs, Finish
  <2>2. PICK wanted \in uncovered : uncovered' = uncovered \ Struck(wanted)
    BY <2>1 DEF AddRow
  <2>3. wanted \in Struck(wanted)
    BY <2>2, StruckWanted DEF CoverInv, TypeOK
  <2> QED
    BY <2>2, <2>3
<1> QED
  BY <1>1, CoverInvariant, PTL DEF Spec, RowsEarnTheirPlace

-------------------------------------------------------------------------------
(* Scenarios executed elsewhere.  A request is sent once, and for a call only when the
   handshake found the agent compatible; where a nonce is on record long enough, or its
   request is too old by now, a second copy of it cannot pass the authorizer.  *)

Handled == {"underway", "lost", "arrived", "checked", "authorised", "refused", "executing",
            "executed", "threw"}

RemoteTypes ==
  /\ negotiation \in {"none", "preparing", "pending", "compatible", "incompatible", "failed"}
  /\ queries \in Nat
  /\ call \in [Calls -> {"new", "negotiating", "preparing", "waiting", "refused", "reading",
                         "result", "error"}]
  /\ sent \in [Requests -> Int] /\ nonces \in [Requests -> Int]
  /\ handler \in [Requests -> [Copies -> Handled]]
  /\ checkedAt \in [Requests -> [Copies -> Int]]
  /\ clock \in Nat

\* One handshake; what is sent for a call is sent once, to an agent that can execute it.
HandshakeHolds ==
  /\ queries <= 1
  /\ negotiation \in {"none", "preparing"} => queries = 0 /\ sent[Query] = Unsent
  /\ negotiation = "compatible" => Compatible
  /\ \A c \in Calls :
       /\ call[c] \in {"new", "negotiating", "preparing"} => sent[c] = Unsent
       /\ call[c] = "preparing" => negotiation = "compatible"
       /\ sent[c] # Unsent => negotiation = "compatible"
       /\ call[c] \in {"reading", "result"} => Answered(c, "executed")
  /\ \A r \in Requests : sent[r] = Unsent => \A k \in Copies : handler[r][k] \in {"underway", "lost"}

Admitted == {"authorised", "executing", "executed", "threw"}

\* A copy that passed the authorizer keeps the others out, by its nonce or by their age.
NoncesHold ==
  signed => \A r \in Requests :
    /\ \A k \in Copies : handler[r][k] = "checked" => checkedAt[r][k] >= sent[r] - MaxSkew
    /\ \A k \in Copies : handler[r][k] \in Admitted =>
         nonces[r] >= sent[r] + MaxSkew \/ clock > sent[r] + MaxSkew
    /\ r \notin overlapped =>
         \A j, k \in Copies : {handler[r][j], handler[r][k]} \subseteq Admitted \cup {"checked"} => j = k

RemoteInv == RemoteTypes /\ HandshakeHolds /\ NoncesHold

LEMMA ClockIsSent == Unsent \in Int /\ \A t \in Nat : t > Unsent /\ t + Ahead > Unsent /\ t + Ahead \in Int
BY RemoteAssumption DEF Unsent

\* What a step of the caller leaves to the agent, and when it sends.
LEMMA CallerKeepsNonces ==
  ASSUME RemoteInv, UNCHANGED <<environment, agent, clock>>,
         \A r \in Requests : sent'[r] = sent[r] \/ sent[r] = Unsent
  PROVE  NoncesHold'
<1>1. \A r \in Requests, k \in Copies :
         handler[r][k] \in Admitted \cup {"checked"} => sent'[r] = sent[r]
  BY DEF RemoteInv, HandshakeHolds, Admitted
<1>2. /\ signed' = signed /\ handler' = handler /\ checkedAt' = checkedAt
      /\ nonces' = nonces /\ overlapped' = overlapped /\ clock' = clock
  BY DEF environment, agent
<1>3. NoncesHold
  BY DEF RemoteInv
<1> QED BY <1>1, <1>2, <1>3 DEF NoncesHold

\* A step of the caller that sends nothing and waits for no handshake.
LEMMA SettlingKeeps ==
  ASSUME RemoteInv, NEW c \in Calls, NEW status \in {"refused", "reading", "result", "error"},
         Settle(c, status),
         call[c] \notin {"new", "negotiating", "preparing"} \/ status = "error",
         status \in {"reading", "result"} => Answered(c, "executed")
  PROVE  RemoteInv'
<1>1. RemoteTypes'
  BY DEF Settle, RemoteInv, RemoteTypes, agent
<1>2. HandshakeHolds'
  BY DEF Settle, RemoteInv, RemoteTypes, HandshakeHolds, agent, environment, Answered, Compatible
<1>3. NoncesHold'
  BY CallerKeepsNonces DEF Settle
<1> QED BY <1>1, <1>2, <1>3 DEF RemoteInv

LEMMA CallStepKeeps ==
  ASSUME RemoteInv, NEW c \in Calls, CallStep(c)
  PROVE  RemoteInv'
<1>0. RemoteTypes /\ HandshakeHolds
  BY DEF RemoteInv
<1>1. CASE Start(c)
  <2>1. /\ call' = [call EXCEPT ![c] = "negotiating"] /\ call[c] = "new"
        /\ negotiation' = IF negotiation = "none" THEN "preparing" ELSE negotiation
        /\ UNCHANGED <<queries, sent, environment, agent, clock>>
    BY <1>1 DEF Start
  <2>2. RemoteTypes'
    BY <1>0, <2>1 DEF RemoteTypes, agent
  <2>3. HandshakeHolds'
    BY <1>0, <2>1 DEF RemoteTypes, HandshakeHolds, agent, environment, Answered, Compatible
  <2> QED BY <2>1, <2>2, <2>3, CallerKeepsNonces DEF RemoteInv
<1>2. CASE Proceed(c)
  <2>1. CASE Sends
    <3>1. /\ call' = [call EXCEPT ![c] = "preparing"] /\ call[c] = "negotiating"
          /\ negotiation = "compatible"
          /\ UNCHANGED <<negotiation, queries, sent, environment, agent, clock>>
      BY <1>2, <2>1 DEF Proceed, Sends
    <3>2. RemoteTypes'
      BY <1>0, <3>1 DEF RemoteTypes, agent
    <3>3. HandshakeHolds'
      BY <1>0, <3>1 DEF RemoteTypes, HandshakeHolds, agent, environment, Answered, Compatible
    <3> QED BY <3>1, <3>2, <3>3, CallerKeepsNonces DEF RemoteInv
  <2>2. CASE ~ Sends
    <3>1. Settle(c, "error")
      BY <1>2, <2>2 DEF Proceed, Settle
    <3> QED BY <3>1, SettlingKeeps
  <2> QED BY <2>1, <2>2
<1>6. CASE SendRequest(c)
  <2>1. /\ call' = [call EXCEPT ![c] = "waiting"] /\ call[c] = "preparing"
        /\ negotiation = "compatible" /\ sent' = [sent EXCEPT ![c] = clock + Ahead]
        /\ UNCHANGED <<negotiation, queries, environment, agent, clock>>
    BY <1>0, <1>6 DEF SendRequest, Send, HandshakeHolds
  <2>2. clock + Ahead \in Int /\ clock + Ahead # Unsent
    BY <1>0, ClockIsSent DEF RemoteTypes
  <2>3. RemoteTypes'
    BY <1>0, <2>1, <2>2 DEF RemoteTypes, agent
  <2>4. \A r \in Requests : sent'[r] = sent[r] \/ sent[r] = Unsent
    BY <1>0, <2>1 DEF RemoteTypes, HandshakeHolds
  <2>5. \A r \in Requests : r # c => sent'[r] = sent[r]
    BY <1>0, <2>1 DEF RemoteTypes
  <2>6. c \in Requests /\ sent'[c] # Unsent
    BY <1>0, <2>1, <2>2 DEF RemoteTypes, Requests
  <2>7. HandshakeHolds'
    BY <1>0, <2>1, <2>4, <2>5, <2>6
    DEF RemoteTypes, HandshakeHolds, agent, environment, Answered, Compatible, Unsent, Requests
  <2> QED BY <2>1, <2>3, <2>4, <2>7, CallerKeepsNonces DEF RemoteInv
<1>3. CASE Timeout(c) \/ Breaks(c)
  BY <1>3, SettlingKeeps DEF Timeout, TimerRuns, Breaks
<1>4. CASE HeadersArrive(c)
  BY <1>4, SettlingKeeps DEF HeadersArrive
<1>5. CASE BodyArrives(c)
  BY <1>0, <1>5, SettlingKeeps DEF BodyArrives, HandshakeHolds
<1> QED BY <1>1, <1>2, <1>3, <1>4, <1>5, <1>6 DEF CallStep

LEMMA SendingTheQueryKeeps ==
  ASSUME RemoteInv, SendQuery
  PROVE  RemoteInv'
<1>0. RemoteTypes /\ HandshakeHolds
  BY DEF RemoteInv
<1>1. /\ sent[Query] = Unsent /\ sent' = [sent EXCEPT ![Query] = clock + Ahead]
      /\ queries' = 1 /\ negotiation = "preparing" /\ negotiation' = "pending"
      /\ UNCHANGED <<environment, call, agent, clock>>
  BY <1>0 DEF SendQuery, Send, HandshakeHolds
<1>2. clock + Ahead \in Int /\ clock + Ahead # Unsent
  BY <1>0, ClockIsSent DEF RemoteTypes
<1>3. RemoteTypes'
  BY <1>0, <1>1, <1>2 DEF RemoteTypes, agent
<1>4. \A r \in Requests : sent'[r] = sent[r] \/ sent[r] = Unsent
  BY <1>0, <1>1 DEF RemoteTypes
<1>5. \A d \in Calls : sent'[d] = sent[d]
  BY <1>0, <1>1, RemoteAssumption DEF RemoteTypes, Requests
<1>6. sent'[Query] # Unsent
  BY <1>0, <1>1, <1>2 DEF RemoteTypes, Requests
<1>7. HandshakeHolds'
  BY <1>0, <1>1, <1>4, <1>5, <1>6
  DEF RemoteTypes, HandshakeHolds, agent, environment, Answered, Compatible, Unsent
<1> QED BY <1>1, <1>3, <1>4, <1>7, CallerKeepsNonces DEF RemoteInv

LEMMA NegotiationKeeps ==
  ASSUME RemoteInv, NegotiationAnswered
  PROVE  RemoteInv'
<1>0. RemoteTypes /\ HandshakeHolds
  BY DEF RemoteInv
<1>1. PICK answer \in {"compatible", "incompatible", "failed"} :
        Negotiated(answer) /\ (answer = "compatible" => Compatible)
  BY DEF NegotiationAnswered
<1>2. RemoteTypes' /\ HandshakeHolds'
  BY <1>0, <1>1 DEF Negotiated, RemoteTypes, HandshakeHolds, agent, environment, Answered, Compatible
<1>3. NoncesHold'
  BY <1>1, CallerKeepsNonces DEF Negotiated
<1> QED BY <1>2, <1>3 DEF RemoteInv

\* A copy goes on: only one that was executed has an answer a caller waits for.
LEMMA HandlingKeeps ==
  ASSUME RemoteInv, NEW r \in Requests, NEW k \in Copies, NEW from \in Handled, NEW to \in Handled,
         Handle(r, k, from, to), from # "executed", sent[r] # Unsent,
         checkedAt' \in [Requests -> [Copies -> Int]], nonces' \in [Requests -> Int]
  PROVE  RemoteTypes' /\ HandshakeHolds'
<1>1. /\ handler'[r][k] = to
      /\ \A q \in Requests, j \in Copies : q # r \/ j # k => handler'[q][j] = handler[q][j]
  BY DEF Handle, RemoteInv, RemoteTypes
<1>2. RemoteTypes'
  BY DEF Handle, RemoteInv, RemoteTypes
<1>3. \A c \in Calls : Answered(c, "executed") => Answered(c, "executed")'
  BY <1>1 DEF Answered, Handle, Requests
<1>4. HandshakeHolds'
  BY <1>1, <1>3 DEF Handle, RemoteInv, HandshakeHolds, environment, Compatible
<1> QED BY <1>2, <1>4

LEMMA AgentStepKeeps ==
  ASSUME RemoteInv, NEW r \in Requests, NEW k \in Copies, AgentStep(r, k)
  PROVE  RemoteInv'
<1>0. RemoteTypes /\ HandshakeHolds /\ NoncesHold
  BY DEF RemoteInv
<1>1. CASE Arrive(r, k) \/ Execute(r, k) \/ Executed(r, k) \/ Unauthorised(r, k)
  <2>1. PICK from \in Handled, to \in Handled :
          /\ Handle(r, k, from, to) /\ from # "executed" /\ sent[r] # Unsent
          /\ to # "checked"
          /\ signed /\ to \in Admitted => from \in Admitted
          /\ UNCHANGED <<checkedAt, nonces, overlapped>>
    BY <1>0, <1>1 DEF Arrive, Execute, Executed, Unauthorised, Handle, HandshakeHolds, Handled, Admitted
  <2>2. RemoteTypes' /\ HandshakeHolds'
    BY <1>0, <2>1, HandlingKeeps DEF RemoteTypes
  <2>3. /\ handler[r][k] = from /\ handler'[r][k] = to
        /\ \A q \in Requests, j \in Copies : q # r \/ j # k => handler'[q][j] = handler[q][j]
        /\ UNCHANGED <<environment, sent, clock>>
    BY <1>0, <2>1 DEF Handle, RemoteTypes
  <2>4. NoncesHold'
    BY <1>0, <2>1, <2>3 DEF NoncesHold, environment
  <2> QED BY <2>2, <2>4 DEF RemoteInv
<1>2. CASE CheckNonce(r, k)
  <2>1. CASE Distance(clock, sent[r]) > MaxSkew
    <3>1. Handle(r, k, "arrived", "refused") /\ UNCHANGED <<checkedAt, nonces, overlapped>>
      BY <1>2, <2>1 DEF CheckNonce
    <3>2. RemoteTypes' /\ HandshakeHolds'
      BY <1>0, <3>1, HandlingKeeps DEF RemoteTypes, HandshakeHolds, Handle, Handled
    <3>3. /\ handler'[r][k] = "refused"
          /\ \A q \in Requests, j \in Copies : q # r \/ j # k => handler'[q][j] = handler[q][j]
          /\ UNCHANGED <<environment, sent, clock>>
      BY <1>0, <3>1 DEF Handle, RemoteTypes
    <3>4. NoncesHold'
      BY <1>0, <3>1, <3>3 DEF NoncesHold, environment, Admitted
    <3> QED BY <3>2, <3>4 DEF RemoteInv
  <2>2. CASE ~ (Distance(clock, sent[r]) > MaxSkew)
    <3> DEFINE to == IF Known(r) THEN "refused" ELSE "checked"
    <3>1. /\ signed /\ Handle(r, k, "arrived", to)
          /\ checkedAt' = [checkedAt EXCEPT ![r][k] = clock]
          /\ nonces' = Pruned
          /\ overlapped' = IF ~ Known(r) /\ Answered(r, "checked")
                           THEN overlapped \cup {r} ELSE overlapped
      BY <1>2, <2>2 DEF CheckNonce
    <3>2. /\ clock \in Nat /\ sent[r] \in Int /\ MaxSkew \in Nat
          /\ clock <= sent[r] + MaxSkew /\ clock >= sent[r] - MaxSkew
      BY <1>0, <2>2, RemoteAssumption DEF RemoteTypes, Distance
    <3>3. /\ nonces' \in [Requests -> Int]
          /\ \A q \in Requests : nonces[q] >= clock => nonces'[q] = nonces[q]
      BY <1>0, <3>1, ClockIsSent DEF RemoteTypes, Pruned
    <3>4. RemoteTypes' /\ HandshakeHolds'
      <4>1. checkedAt' \in [Requests -> [Copies -> Int]]
        BY <1>0, <3>1 DEF RemoteTypes
      <4>2. to \in Handled /\ "arrived" \in Handled
        BY DEF Handled
      <4>3. sent[r] # Unsent
        BY <1>0, <3>1 DEF HandshakeHolds, Handle
      <4> HIDE DEF to
      <4> QED BY <3>1, <3>3, <4>1, <4>2, <4>3, HandlingKeeps
    <3>5. /\ handler[r][k] = "arrived" /\ handler'[r][k] = to
          /\ \A q \in Requests, j \in Copies : q # r \/ j # k =>
               handler'[q][j] = handler[q][j] /\ checkedAt'[q][j] = checkedAt[q][j]
          /\ checkedAt'[r][k] = clock
          /\ UNCHANGED <<environment, sent, clock>>
      BY <1>0, <3>1 DEF Handle, RemoteTypes
    <3>6. ASSUME NEW q \in Requests, NEW j \in Copies, handler'[q][j] = "checked"
          PROVE  checkedAt'[q][j] >= sent'[q] - MaxSkew
      BY <1>0, <3>1, <3>2, <3>5, <3>6 DEF NoncesHold
    <3>7. ASSUME NEW q \in Requests, NEW j \in Copies, handler'[q][j] \in Admitted
          PROVE  nonces'[q] >= sent'[q] + MaxSkew \/ clock' > sent'[q] + MaxSkew
      <4>1. handler[q][j] \in Admitted
        BY <3>5, <3>7 DEF Admitted
      <4>2. nonces[q] >= sent[q] + MaxSkew \/ clock > sent[q] + MaxSkew
        BY <1>0, <3>1, <4>1 DEF NoncesHold
      <4>3. nonces[q] \in Int /\ sent[q] \in Int
        BY <1>0 DEF RemoteTypes
      <4> QED BY <3>2, <3>3, <3>5, <4>2, <4>3
    <3>8. ASSUME NEW q \in Requests, q \notin overlapped', NEW i \in Copies, NEW j \in Copies,
                 {handler'[q][i], handler'[q][j]} \subseteq Admitted \cup {"checked"}
          PROVE  i = j
      <4>1. q \notin overlapped
        BY <3>1, <3>8
      <4>2. CASE q # r \/ (i # k /\ j # k)
        BY <1>0, <3>1, <3>5, <3>8, <4>1, <4>2 DEF NoncesHold
      <4>3. ASSUME q = r, to = "checked", NEW n \in Copies, n # k,
                   handler'[r][n] \in Admitted \cup {"checked"}
            PROVE  FALSE
        <5>1. ~ Known(r) /\ handler[r][n] \in Admitted \cup {"checked"}
          BY <3>5, <4>3
        <5>2. handler[r][n] # "checked"
          BY <3>1, <3>8, <4>3, <5>1 DEF Answered
        <5>3. nonces[r] >= sent[r] + MaxSkew
          BY <1>0, <3>1, <3>2, <5>1, <5>2 DEF NoncesHold
        <5>4. nonces[r] >= clock /\ nonces[r] # Unsent
          BY <1>0, <3>2, <5>3, ClockIsSent DEF RemoteTypes
        <5> QED BY <1>0, <5>1, <5>4, <3>2 DEF Known, Pruned, RemoteTypes
      <4>4. CASE q = r /\ (i = k \/ j = k)
        <5>1. to = "checked"
          BY <3>5, <3>8, <4>4 DEF Admitted
        <5> HIDE DEF to
        <5> QED BY <3>8, <4>3, <4>4, <5>1
      <4> QED BY <4>2, <4>4
    <3>9. NoncesHold'
      BY <3>6, <3>7, <3>8 DEF NoncesHold
    <3> QED BY <3>4, <3>9 DEF RemoteInv
  <2> QED BY <2>1, <2>2
<1>3. CASE Authorise(r, k)
  <2>1. /\ Handle(r, k, "checked", "authorised")
        /\ nonces' = [nonces EXCEPT ![r] = checkedAt[r][k] + MaxSkew * 2]
        /\ UNCHANGED <<checkedAt, overlapped>>
    BY <1>3 DEF Authorise, Expiry
  <2>2. /\ checkedAt[r][k] \in Int /\ sent[r] \in Int /\ MaxSkew \in Nat /\ clock \in Nat
    BY <1>0, RemoteAssumption DEF RemoteTypes
  <2>3. RemoteTypes' /\ HandshakeHolds'
    <3>1. nonces' \in [Requests -> Int] /\ checkedAt' \in [Requests -> [Copies -> Int]]
      BY <1>0, <2>1, <2>2 DEF RemoteTypes
    <3>2. sent[r] # Unsent /\ "checked" \in Handled /\ "authorised" \in Handled
      BY <1>0, <2>1 DEF HandshakeHolds, Handle, Handled
    <3> QED BY <2>1, <3>1, <3>2, HandlingKeeps
  <2>4. /\ handler[r][k] = "checked" /\ handler'[r][k] = "authorised"
        /\ \A q \in Requests, j \in Copies : q # r \/ j # k => handler'[q][j] = handler[q][j]
        /\ \A q \in Requests : q # r => nonces'[q] = nonces[q]
        /\ nonces'[r] = checkedAt[r][k] + MaxSkew * 2
        /\ UNCHANGED <<environment, sent, clock>>
    BY <1>0, <2>1 DEF Handle, RemoteTypes
  <2>5. signed => nonces'[r] >= sent[r] + MaxSkew
    BY <1>0, <2>2, <2>4 DEF NoncesHold
  <2>6. NoncesHold'
    BY <1>0, <2>1, <2>4, <2>5 DEF NoncesHold, environment, Admitted
  <2> QED BY <2>3, <2>6 DEF RemoteInv
<1> QED BY <1>1, <1>2, <1>3 DEF AgentStep

LEMMA TickKeeps ==
  ASSUME RemoteInv, Tick
  PROVE  RemoteInv'
<1>1. clock' = clock + 1 /\ clock \in Nat
      /\ UNCHANGED <<environment, negotiation, queries, call, sent, agent>>
  BY DEF Tick, RemoteInv, RemoteTypes
<1>2. RemoteTypes' /\ HandshakeHolds'
  BY <1>1 DEF RemoteInv, RemoteTypes, HandshakeHolds, agent, environment, Answered, Compatible
<1>3. \A r \in Requests : sent[r] \in Int /\ (clock > sent[r] + MaxSkew => clock' > sent[r] + MaxSkew)
  BY <1>1, RemoteAssumption DEF RemoteInv, RemoteTypes
<1>4. NoncesHold'
  BY <1>1, <1>3 DEF RemoteInv, NoncesHold, agent, environment
<1> QED BY <1>2, <1>4 DEF RemoteInv

\* The handshake and the nonces keep their promise, whatever the network loses, repeats or
\* delays and however far the clocks are apart.
THEOREM RemoteInvariant == RemoteSpec => []RemoteInv
<1>1. RemoteInit => RemoteInv
  <2> SUFFICES ASSUME RemoteInit PROVE RemoteInv
    OBVIOUS
  <2>1. RemoteTypes
    BY ClockIsSent DEF RemoteInit, RemoteTypes, Handled
  <2>2. \A r \in Requests, k \in Copies : handler[r][k] \in {"underway", "lost"}
    BY DEF RemoteInit
  <2>3. HandshakeHolds
    BY <2>2 DEF RemoteInit, HandshakeHolds, Requests
  <2>4. NoncesHold
    BY <2>2 DEF NoncesHold, Admitted
  <2> QED BY <2>1, <2>3, <2>4 DEF RemoteInv
<1>2. RemoteInv /\ [RemoteNext]_remoteVars => RemoteInv'
  <2> SUFFICES ASSUME RemoteInv, [RemoteNext]_remoteVars PROVE RemoteInv'
    OBVIOUS
  <2>1. CASE UNCHANGED remoteVars
    BY <2>1 DEF remoteVars, RemoteInv, RemoteTypes, HandshakeHolds, NoncesHold, Answered, Compatible
  <2> QED BY <2>1, CallStepKeeps, SendingTheQueryKeeps, NegotiationKeeps, AgentStepKeeps, TickKeeps DEF RemoteNext
<1> QED BY <1>1, <1>2, PTL DEF RemoteSpec

\* A scenario is executed only by an agent with the features it requires, after a single
\* handshake, and once, however often a signed request is delivered and whatever the clocks
\* say, unless two copies were being authorised at once (negotiated-remote.ts
\* NegotiatedRemoteBackend.execute, secure-remote.ts createSignedRemoteAuthorizer).
THEOREM AgentsRunScenariosOnce == RemoteSpec => []AgentsRunOnce
<1>1. ASSUME RemoteInv PROVE RunsWhereItCan
  <2>1. ASSUME NEW c \in Calls, Runs(c) # {} PROVE Compatible
    <3>1. c \in Requests /\ sent[c] # Unsent
      BY <1>1, <2>1 DEF RemoteInv, HandshakeHolds, Runs, Requests
    <3> QED BY <1>1, <3>1 DEF RemoteInv, HandshakeHolds
  <2> QED BY <1>1, <2>1 DEF RemoteInv, HandshakeHolds, RunsWhereItCan
<1>2. ASSUME RemoteInv PROVE ExecutedOnceUnlessOverlapped
  <2> SUFFICES ASSUME signed, NEW r \in Requests, r \notin overlapped
               PROVE  Cardinality(Runs(r)) <= 1
    BY DEF ExecutedOnceUnlessOverlapped
  <2>1. \A j, k \in Runs(r) : j = k
    BY <1>2 DEF RemoteInv, NoncesHold, Runs, Admitted
  <2>2. CASE Runs(r) = {}
    BY <2>2, FS_EmptySet
  <2>3. ASSUME NEW k \in Runs(r) PROVE Cardinality(Runs(r)) <= 1
    <3>1. Runs(r) = {k}
      BY <2>1
    <3>2. Cardinality({k}) = 1
      BY FS_Singleton
    <3> QED BY <3>1, <3>2
  <2> QED BY <2>2, <2>3
<1>3. RemoteInv => AgentsRunOnce
  BY <1>1, <1>2 DEF AgentsRunOnce
<1> QED BY <1>3, RemoteInvariant, PTL

(* Sets put in order. *)

\* A set of numbers that is not empty has a least one.
LEMMA LeastNumber ==
    ASSUME NEW S, S \subseteq Nat, S # {}
    PROVE  \E least \in S : \A n \in S : least <= n
<1> DEFINE Below == {pair \in Nat \X Nat : pair[1] < pair[2]}
<1>1. IsWellFoundedOn(Below, Nat)
  BY NatLessThanWellFounded DEF OpToRel
<1>2. PICK least \in S : \A n \in S : ~(<<n, least>> \in Below)
  <2> HIDE DEF Below
  <2> QED BY <1>1, WFMin
<1>3. least \in Nat /\ \A n \in S : n \in Nat /\ ~(n < least)
  BY <1>2
<1> QED BY <1>2, <1>3

(* What is put in order by counting what comes before it is in order: ranks are places. *)

RankIn(S, B, x) == Cardinality({y \in S : <<y, x>> \in B})

IsOrderOn(B, S) ==
    /\ \A x \in S : <<x, x>> \notin B
    /\ \A x, y \in S : x # y => <<x, y>> \in B \/ <<y, x>> \in B
    /\ \A x, y, z \in S : <<x, y>> \in B /\ <<y, z>> \in B => <<x, z>> \in B

LEMMA RanksAreMonotone ==
    ASSUME NEW S, NEW B, IsFiniteSet(S), IsOrderOn(B, S)
    PROVE  /\ \A x \in S : RankIn(S, B, x) \in Nat /\ RankIn(S, B, x) < Cardinality(S)
           /\ \A x, y \in S : <<x, y>> \in B => RankIn(S, B, x) < RankIn(S, B, y)
<1> DEFINE Below(x) == {y \in S : <<y, x>> \in B}
<1>1. ASSUME NEW x \in S
      PROVE  IsFiniteSet(Below(x)) /\ Cardinality(Below(x)) \in Nat /\ x \notin Below(x)
  <2>1. Below(x) \in SUBSET S /\ x \notin Below(x)
    BY DEF IsOrderOn
  <2> QED BY <2>1, FS_Subset, FS_CardinalityType
<1>2. ASSUME NEW x \in S, NEW T, x \in T, IsFiniteSet(T), Below(x) \subseteq T
      PROVE  Cardinality(Below(x)) < Cardinality(T)
  <2>1. Below(x) \in SUBSET T /\ Below(x) # T
    BY <1>1, <1>2
  <2>2. Cardinality(Below(x)) <= Cardinality(T) /\ Cardinality(Below(x)) # Cardinality(T)
    <3> HIDE DEF Below
    <3> QED BY <1>2, <2>1, FS_Subset
  <2>3. Cardinality(T) \in Nat /\ Cardinality(Below(x)) \in Nat
    BY <1>1, <1>2, FS_CardinalityType
  <2> HIDE DEF Below
  <2> QED BY <2>2, <2>3
<1>3. ASSUME NEW x \in S, NEW y \in S, <<x, y>> \in B
      PROVE  x \in Below(y) /\ Below(x) \subseteq Below(y)
  BY <1>3 DEF IsOrderOn
<1>4. \A x \in S : Cardinality(Below(x)) < Cardinality(S)
  BY <1>2
<1>5. \A x, y \in S : <<x, y>> \in B => Cardinality(Below(x)) < Cardinality(Below(y))
  <2> HIDE DEF Below
  <2> QED BY <1>1, <1>2, <1>3
<1> QED BY <1>1, <1>4, <1>5 DEF RankIn

LEMMA RanksArePlaces ==
    ASSUME NEW S, NEW B, IsFiniteSet(S), IsOrderOn(B, S)
    PROVE  /\ \A x, y \in S : RankIn(S, B, x) = RankIn(S, B, y) => x = y
           /\ \A x, y \in S : <<x, y>> \in B <=> RankIn(S, B, x) < RankIn(S, B, y)
           /\ \A k \in 0 .. Cardinality(S) - 1 : \E x \in S : RankIn(S, B, x) = k
<1>0. Cardinality(S) \in Nat
  BY FS_CardinalityType
<1> DEFINE places == 0 .. Cardinality(S) - 1
           rank == [x \in S |-> RankIn(S, B, x)]
<1>1. \A x \in S : RankIn(S, B, x) \in Nat /\ RankIn(S, B, x) \in places
  BY <1>0, RanksAreMonotone
<1>2. \A x, y \in S : <<x, y>> \in B => RankIn(S, B, x) < RankIn(S, B, y)
  BY RanksAreMonotone
<1>3. ASSUME NEW x \in S, NEW y \in S, RankIn(S, B, x) = RankIn(S, B, y) PROVE x = y
  <2>1. RankIn(S, B, x) \in Nat /\ ~(RankIn(S, B, x) < RankIn(S, B, y)) /\ ~(RankIn(S, B, y) < RankIn(S, B, x))
    BY <1>1, <1>3
  <2>2. <<x, y>> \notin B /\ <<y, x>> \notin B
    BY <1>2, <2>1
  <2> QED BY <2>2 DEF IsOrderOn
<1>4. ASSUME NEW x \in S, NEW y \in S, RankIn(S, B, x) < RankIn(S, B, y) PROVE <<x, y>> \in B
  <2>1. RankIn(S, B, x) \in Nat /\ RankIn(S, B, y) \in Nat /\ ~(RankIn(S, B, y) < RankIn(S, B, x)) /\ x # y
    BY <1>1, <1>4
  <2>2. <<y, x>> \notin B
    BY <1>2, <2>1
  <2> QED BY <2>1, <2>2 DEF IsOrderOn
<1>5. rank \in Injection(S, places)
  BY <1>1, <1>3 DEF Injection, IsInjective
<1>6. IsFiniteSet(places) /\ Cardinality(places) = Cardinality(S)
  <2> DEFINE last == Cardinality(S) - 1
  <2>1. 0 \in Int /\ last \in Int /\ (IF 0 > last THEN 0 ELSE last - 0 + 1) = Cardinality(S)
    BY <1>0
  <2> HIDE DEF last
  <2>2. IsFiniteSet(0 .. last) /\ Cardinality(0 .. last) = IF 0 > last THEN 0 ELSE last - 0 + 1
    BY <2>1, FS_Interval, Zenon
  <2>3. places = 0 .. last
    BY DEF last
  <2> HIDE DEF places
  <2> QED BY <2>1, <2>2, <2>3
<1>7. rank \in Surjection(S, places)
  <2> HIDE DEF rank, places
  <2> QED BY <1>5, <1>6, FS_Injection
<1>8. \A k \in places : \E x \in S : rank[x] = k
  BY <1>7 DEF Surjection
<1> QED BY <1>2, <1>3, <1>4, <1>8

LEMMA EveryPlaceIsTaken ==
    ASSUME NEW S, NEW B, IsFiniteSet(S), IsOrderOn(B, S), NEW place \in 0 .. Cardinality(S) - 1
    PROVE  \E x \in S : RankIn(S, B, x) = place
BY RanksArePlaces

\* Numbers that are sorted are all there, each once and in order.
LEMMA SortedNumbers ==
    ASSUME NEW S \in SUBSET Nat, IsFiniteSet(S)
    PROVE  /\ Cardinality(S) \in Nat
           /\ Sorted(S, Less) \in [1 .. Cardinality(S) -> S]
           /\ \A n \in S : \E k \in 1 .. Cardinality(S) : Sorted(S, Less)[k] = n
           /\ \A i, j \in 1 .. Cardinality(S) : i < j => Sorted(S, Less)[i] < Sorted(S, Less)[j]
<1> DEFINE B == {pair \in S \X S : pair[1] < pair[2]}
           n == Cardinality(S)
<1>0. n \in Nat
  BY FS_CardinalityType
<1>1. IsOrderOn(B, S)
  BY DEF IsOrderOn
<1>2. \A x \in S : {y \in S : Less(y, x)} = {y \in S : <<y, x>> \in B}
  BY DEF Less
<1> DEFINE rank == [x \in S |-> Cardinality({y \in S : Less(y, x)})]
<1>3. Sorted(S, Less) = [k \in 1 .. n |-> CHOOSE x \in S : rank[x] = k - 1]
  BY Zenon DEF Sorted
<1>10. \A x \in S : rank[x] = RankIn(S, B, x)
  BY <1>2 DEF RankIn
<1> HIDE DEF rank
<1>4. \A k \in 1 .. n : \E x \in S : RankIn(S, B, x) = k - 1
  <2> SUFFICES ASSUME NEW k \in 1 .. n PROVE \E x \in S : RankIn(S, B, x) = k - 1
    OBVIOUS
  <2>1. k - 1 \in 0 .. Cardinality(S) - 1
    BY <1>0
  <2> HIDE DEF B
  <2> QED BY <1>1, <2>1, EveryPlaceIsTaken, Zenon
<1>5. \A k \in 1 .. n : Sorted(S, Less)[k] \in S /\ RankIn(S, B, Sorted(S, Less)[k]) = k - 1
  <2>1. \A k \in 1 .. n : \E x \in S : rank[x] = k - 1
    BY <1>4, <1>10
  <2> HIDE DEF B, n
  <2> QED BY <1>3, <1>10, <2>1
<1>6. \A x \in S : RankIn(S, B, x) \in Nat /\ RankIn(S, B, x) < n
  <2> HIDE DEF B
  <2> QED BY <1>1, RanksAreMonotone, Zenon
<1>7. \A x, y \in S : RankIn(S, B, x) = RankIn(S, B, y) => x = y
  <2> HIDE DEF B
  <2> QED BY <1>1, RanksArePlaces, Zenon
<1>8. \A x \in S : \E k \in 1 .. n : Sorted(S, Less)[k] = x
  <2> SUFFICES ASSUME NEW x \in S PROVE Sorted(S, Less)[RankIn(S, B, x) + 1] = x
                                        /\ RankIn(S, B, x) + 1 \in 1 .. n
    OBVIOUS
  <2>1. RankIn(S, B, x) + 1 \in 1 .. n /\ (RankIn(S, B, x) + 1) - 1 = RankIn(S, B, x)
    BY <1>0, <1>6
  <2> HIDE DEF B, n
  <2> QED BY <1>5, <1>7, <2>1
<1>9. \A i, j \in 1 .. n : i < j => Sorted(S, Less)[i] < Sorted(S, Less)[j]
  <2> SUFFICES ASSUME NEW i \in 1 .. n, NEW j \in 1 .. n, i < j
               PROVE  <<Sorted(S, Less)[i], Sorted(S, Less)[j]>> \in B
    BY <1>5
  <2>1. i - 1 < j - 1
    BY <1>0
  <2>2. \A x, y \in S : <<x, y>> \in B <=> RankIn(S, B, x) < RankIn(S, B, y)
    <3> HIDE DEF B
    <3> QED BY <1>1, RanksArePlaces, Zenon
  <2> HIDE DEF B, n
  <2> QED BY <1>5, <2>1, <2>2
<1> QED BY <1>0, <1>3, <1>5, <1>8, <1>9

(* The exploration loops.  ExplorationInv says of the frontier that it has seen the calls of
   the baseline and of all runs, and of the points that they hold what was offered for
   those calls; of a search that it has tried or still plans every combination; and of the
   first failure that it is one. *)

ExplorationTypes ==
    /\ system \in Systems /\ option \in OptionSets
    /\ points \in Seq(SUBSET Nat) /\ pending \in Seq(SUBSET Nat)
    /\ seenCalls \subseteq SystemCalls
    /\ rounds \in Nat /\ IsFiniteSet(runs)
    /\ \A scenario \in runs \cup remaining : scenario.by # "none"
    /\ pc \in {"baseline", "search", "searched", "discover", "done"}

BeforeTheBaseline ==
    pc = "baseline" =>
        /\ points = <<>> /\ pending = <<>> /\ seenCalls = {} /\ seenPerturbations = {}
        /\ runs = {} /\ remaining = {} /\ firstFailure = NoRun

LoopsHaveTheirModes ==
    /\ pc = "discover" => option.mode = "discovery"
    /\ pc \in {"search", "searched"} => option.mode # "discovery"

FrontierIsWhatWasSeen ==
    pc # "baseline" /\ ~Static =>
        seenCalls = Observed /\ seenPerturbations = Names(OfferedFor(seenCalls))

\* Among choices, a name is one choice's only.
ToldApart(choices_) ==
    \A p, q \in choices_ : system.name[p] = system.name[q] => p = q

\* What a loop that learns has in its points: one choice of each name it has seen.
HoldsWhatWasSeen(held) ==
    /\ held \subseteq OfferedFor(seenCalls)
    /\ Names(held) = seenPerturbations
    /\ ToldApart(held)

PointsAreWhatWasOffered ==
    pc # "baseline" =>
        /\ Static => points = AllPoints
        /\ option.mode = "adaptive" => HoldsWhatWasSeen(ChoicesIn(points))
        /\ pc = "discover" => HoldsWhatWasSeen(ChoicesIn(points) \cup ChoicesIn(pending))

EveryChoiceIsPlanned ==
    /\ pc = "search" /\ Static =>
          \A set \in Combinations(points, option.maxDepth) :
             \/ Combination(set) \in remaining \cup runs
             \/ /\ option.mode = "guided"
                /\ \E run \in runs : Id(run) = Id(Combination(set))
    /\ pc = "search" /\ option.mode = "exhaustive" =>
          \A scenario \in remaining : Cardinality(scenario.set) \in Nat
    /\ pc = "discover" =>
          \A p \in ChoicesIn(points) :
             [by |-> "discovery", set |-> {p}] \in remaining \/ {p} \in Tried

FailingRuns == {run \in runs : Fails(run.set)}

FirstFailureIsOne ==
    /\ firstFailure # NoRun => firstFailure \in FailingRuns
    /\ option.mode # "discovery" /\ firstFailure = NoRun => FailingRuns = {}
    /\ option.mode = "discovery" \/ (pc = "search" /\ option.stop) => firstFailure = NoRun
    /\ option.stop /\ option.mode # "discovery" => \A run, other \in FailingRuns : run = other
    /\ pc = "done" /\ firstFailure # NoRun /\ option.minimize =>
          Fails(minimal) /\ minimal \subseteq firstFailure.set

ExplorationInv ==
    /\ ExplorationTypes
    /\ BeforeTheBaseline
    /\ LoopsHaveTheirModes
    /\ FrontierIsWhatWasSeen
    /\ PointsAreWhatWasOffered
    /\ EveryChoiceIsPlanned
    /\ FirstFailureIsOne
    /\ SearchClosesTheSpace
    /\ DiscoveryReportsWhatItSaw

LEMMA ChoicesOfBoth ==
    ASSUME NEW space \in Seq(SUBSET Nat), NEW more \in Seq(SUBSET Nat)
    PROVE  /\ space \o more \in Seq(SUBSET Nat)
           /\ ChoicesIn(space \o more) = ChoicesIn(space) \cup ChoicesIn(more)
<1>1. DOMAIN space = 1 .. Len(space) /\ DOMAIN more = 1 .. Len(more)
      /\ DOMAIN (space \o more) = 1 .. Len(space) + Len(more)
      /\ Len(space) \in Nat /\ Len(more) \in Nat
  OBVIOUS
<1>2. \A k \in 1 .. Len(space) : k \in DOMAIN (space \o more) /\ (space \o more)[k] = space[k]
  BY <1>1
<1>3. \A k \in 1 .. Len(more) :
          Len(space) + k \in DOMAIN (space \o more) /\ (space \o more)[Len(space) + k] = more[k]
  BY <1>1
<1>4. \A k \in DOMAIN (space \o more) :
          \/ k \in 1 .. Len(space)
          \/ k - Len(space) \in 1 .. Len(more) /\ k = Len(space) + (k - Len(space))
  BY <1>1
<1>5. ChoicesIn(space \o more) \subseteq ChoicesIn(space) \cup ChoicesIn(more)
  BY <1>1, <1>2, <1>3, <1>4 DEF ChoicesIn
<1>6. ChoicesIn(space) \cup ChoicesIn(more) \subseteq ChoicesIn(space \o more)
  BY <1>1, <1>2, <1>3 DEF ChoicesIn
<1> QED BY <1>5, <1>6

\* The points of the calls seen for the first time hold one choice of every name that was
\* offered for them and for no call before.
LEMMA NewPointsHoldWhatIsNew ==
    ASSUME ExplorationTypes, NEW set
    PROVE  /\ NewPoints(set) \in Seq(SUBSET Nat)
           /\ ChoicesIn(NewPoints(set)) \subseteq OfferedFor(NewCalls(set))
           /\ Names(ChoicesIn(NewPoints(set)))
                = Names(OfferedFor(NewCalls(set))) \ seenPerturbations
           /\ ToldApart(ChoicesIn(NewPoints(set)))
<1> DEFINE new == NewCalls(set)
           with == {dep \in new : Fresh(dep, new) # {}}
           order == Sorted(with, Less)
<1>0. /\ NumCalls \in Nat /\ system.resolve \in [SystemCalls -> SUBSET Nat]
      /\ \A dep \in SystemCalls : \A p, q \in system.resolve[dep] :
            system.name[p] = system.name[q] => p = q
  BY ExplorationAssumption DEF ExplorationTypes
<1>1. new \subseteq SystemCalls /\ with \subseteq new
  BY DEF NewCalls, CallsOf
<1>2. with \in SUBSET Nat /\ IsFiniteSet(with)
  <2> HIDE DEF new, with
  <2>1. IsFiniteSet(SystemCalls) /\ SystemCalls \subseteq Nat
    <3>1. NumCalls \in Int /\ 1 \in Int
      BY <1>0
    <3>2. IsFiniteSet(1 .. NumCalls)
      BY <3>1, FS_Interval
    <3>3. 1 .. NumCalls \subseteq Nat
      OBVIOUS
    <3> QED BY <3>2, <3>3 DEF SystemCalls
  <2> QED BY <1>1, <2>1, FS_Subset
<1>3. /\ Cardinality(with) \in Nat
      /\ order \in [1 .. Cardinality(with) -> with]
      /\ \A dep \in with : \E k \in 1 .. Cardinality(with) : order[k] = dep
  <2> HIDE DEF with
  <2> QED BY <1>2, SortedNumbers
<1>4. NewPoints(set) = [k \in 1 .. Cardinality(with) |-> Fresh(order[k], new)]
  <2>1. NewPoints(set) = [k \in DOMAIN order |-> Fresh(order[k], new)]
    BY Zenon DEF NewPoints
  <2> HIDE DEF order, new, with
  <2> QED BY <1>3, <2>1
<1>5. \A dep \in new : Fresh(dep, new) \subseteq system.resolve[dep]
                        /\ system.resolve[dep] \subseteq Nat
  BY <1>0, <1>1 DEF Fresh
<1>6. NewPoints(set) \in Seq(SUBSET Nat)
  <2> HIDE DEF order, new, with
  <2> QED BY <1>1, <1>3, <1>4, <1>5
<1>7. ChoicesIn(NewPoints(set)) = UNION {Fresh(dep, new) : dep \in new}
  <2> HIDE DEF order, new
  <2>1. DOMAIN NewPoints(set) = 1 .. Cardinality(with)
    BY <1>4
  <2>2. ASSUME NEW p \in ChoicesIn(NewPoints(set)) PROVE \E dep \in new : p \in Fresh(dep, new)
    <3>1. PICK k \in 1 .. Cardinality(with) : p \in Fresh(order[k], new)
      BY <1>4, <2>1 DEF ChoicesIn
    <3> QED BY <1>1, <1>3, <3>1
  <2>3. ASSUME NEW dep \in new, NEW p \in Fresh(dep, new) PROVE p \in ChoicesIn(NewPoints(set))
    <3>1. dep \in with
      OBVIOUS
    <3>2. PICK k \in 1 .. Cardinality(with) : order[k] = dep
      BY <1>3, <3>1
    <3> QED BY <1>4, <2>1, <3>2 DEF ChoicesIn
  <2> QED BY <2>2, <2>3
<1> DEFINE fresh == UNION {Fresh(dep, new) : dep \in new}
<1>8. fresh \subseteq OfferedFor(new) /\ Names(fresh) \cap seenPerturbations = {}
  BY <1>5 DEF OfferedFor, Fresh, Names
<1>9. ASSUME NEW p \in OfferedFor(new), system.name[p] \notin seenPerturbations
      PROVE  system.name[p] \in Names(fresh)
  <2> DEFINE offered == {dep \in new : system.name[p] \in Names(system.resolve[dep])}
  <2>1. offered # {} /\ offered \subseteq Nat
    BY <1>0, <1>1, <1>9 DEF OfferedFor, SystemCalls, Names
  <2>2. PICK least \in offered : \A dep \in offered : least <= dep
    <3> HIDE DEF offered
    <3> QED BY <2>1, LeastNumber
  <2>3. \A other \in new : other < least => system.name[p] \notin Names(system.resolve[other])
    BY <2>1, <2>2
  <2>4. PICK q \in system.resolve[least] : system.name[q] = system.name[p]
    BY <2>2 DEF Names
  <2>5. q \in Fresh(least, new)
    BY <1>9, <2>3, <2>4 DEF Fresh
  <2> QED BY <2>2, <2>4, <2>5 DEF Names
<1>10. ASSUME NEW p \in fresh, NEW q \in fresh, system.name[p] = system.name[q] PROVE p = q
  <2>1. PICK c \in new, d \in new : p \in Fresh(c, new) /\ q \in Fresh(d, new)
    BY <1>10
  <2>2. /\ p \in system.resolve[c] /\ q \in system.resolve[d]
        /\ c \in Nat /\ d \in Nat /\ c \in SystemCalls
    BY <1>0, <1>1, <2>1 DEF Fresh, SystemCalls
  <2>3. ~(c < d) /\ ~(d < c)
    BY <1>10, <2>1, <2>2 DEF Fresh, Names
  <2>4. c = d
    BY <2>2, <2>3
  <2> QED BY <1>0, <1>10, <2>2, <2>4
<1>11. Names(fresh) = Names(OfferedFor(new)) \ seenPerturbations
  <2>1. \A p \in OfferedFor(new) : system.name[p] \notin seenPerturbations
            => system.name[p] \in Names(fresh)
    BY <1>9
  <2> HIDE DEF fresh, new
  <2> QED BY <1>8, <2>1 DEF Names
<1> HIDE DEF new, fresh
<1> QED BY <1>6, <1>7, <1>8, <1>10, <1>11 DEF new, fresh, ToldApart

\* The points of the static strategies are every choice there is.
LEMMA AllPointsAreSets == ASSUME ExplorationTypes PROVE AllPoints \in Seq(SUBSET Nat)
<1>1. NumCalls \in Nat /\ system.resolve \in [SystemCalls -> SUBSET Nat]
  BY ExplorationAssumption DEF ExplorationTypes
<1> QED BY <1>1 DEF AllPoints, SystemCalls

\* Every candidate names its strategy, every combination is one.
LEMMA CandidatesAreScenarios ==
    ASSUME NEW space
    PROVE  /\ \A scenario \in Candidates(space) : scenario.by # "none"
           /\ \A set \in Combinations(space, option.maxDepth) :
                 Combination(set) \in Candidates(space) /\ Cardinality(set) \in Nat
<1>1. \A scenario \in Elements(PairwiseRows(space)) : scenario.by = "pairwise"
  BY DEF Elements, PairwiseRows, Row
<1>2. \A set \in Combinations(space, option.maxDepth) : Cardinality(set) \in Nat
  BY DEF Combinations
<1> QED BY <1>1, <1>2 DEF Candidates, Combination

LEMMA ExplorationStarts == ExplorationInit => ExplorationInv
<1> SUFFICES ASSUME ExplorationInit PROVE ExplorationInv
  OBVIOUS
<1>1. ExplorationTypes
  BY FS_EmptySet DEF ExplorationInit, ExplorationTypes
<1>2. FirstFailureIsOne
  BY DEF ExplorationInit, FirstFailureIsOne, FailingRuns
<1> QED
  BY <1>1, <1>2 DEF ExplorationInit, ExplorationInv, BeforeTheBaseline, LoopsHaveTheirModes,
     FrontierIsWhatWasSeen, PointsAreWhatWasOffered, EveryChoiceIsPlanned,
     SearchClosesTheSpace, DiscoveryReportsWhatItSaw

\* A history adds to the frontier the calls it shows.
LEMMA ExpandSeesTheHistory ==
    ASSUME ExplorationTypes, NEW set, Expand(set)
    PROVE  /\ seenCalls' = seenCalls \cup CallsOf(set)
           /\ seenPerturbations' = seenPerturbations \cup Names(OfferedFor(NewCalls(set)))
           /\ seenCalls' \subseteq SystemCalls
           /\ OfferedFor(seenCalls') = OfferedFor(seenCalls) \cup OfferedFor(NewCalls(set))
           /\ seenPerturbations = Names(OfferedFor(seenCalls))
                 => seenPerturbations' = Names(OfferedFor(seenCalls'))
<1>1. NewCalls(set) \subseteq SystemCalls /\ seenCalls \cup NewCalls(set) = seenCalls \cup CallsOf(set)
  BY DEF NewCalls, CallsOf
<1>2. UNION {Names(system.resolve[c]) : c \in NewCalls(set)} = Names(OfferedFor(NewCalls(set)))
  BY DEF Names, OfferedFor
<1>3. OfferedFor(seenCalls \cup NewCalls(set)) = OfferedFor(seenCalls) \cup OfferedFor(NewCalls(set))
  BY DEF OfferedFor
<1>4. Names(OfferedFor(seenCalls) \cup OfferedFor(NewCalls(set)))
        = Names(OfferedFor(seenCalls)) \cup Names(OfferedFor(NewCalls(set)))
  BY DEF Names
<1>5. /\ seenCalls' = seenCalls \cup NewCalls(set)
      /\ seenPerturbations' = seenPerturbations \cup Names(OfferedFor(NewCalls(set)))
  BY <1>2 DEF Expand
<1> QED BY <1>1, <1>3, <1>4, <1>5 DEF ExplorationTypes

\* What holds all names seen still does with the points of a history added.
LEMMA MoreIsHeld ==
    ASSUME ExplorationTypes, NEW set, NEW held, HoldsWhatWasSeen(held), Expand(set),
           seenPerturbations = Names(OfferedFor(seenCalls))
    PROVE  LET both == held \cup ChoicesIn(NewPoints(set))
           IN  /\ both \subseteq OfferedFor(seenCalls')
               /\ Names(both) = seenPerturbations'
               /\ ToldApart(both)
<1> DEFINE more == ChoicesIn(NewPoints(set))
<1>1. /\ more \subseteq OfferedFor(NewCalls(set))
      /\ Names(more) = Names(OfferedFor(NewCalls(set))) \ seenPerturbations
      /\ ToldApart(more)
  BY NewPointsHoldWhatIsNew
<1>2. /\ held \subseteq OfferedFor(seenCalls) /\ Names(held) = seenPerturbations
      /\ ToldApart(held)
  BY DEF HoldsWhatWasSeen
<1>3. /\ seenPerturbations' = seenPerturbations \cup Names(OfferedFor(NewCalls(set)))
      /\ OfferedFor(seenCalls') = OfferedFor(seenCalls) \cup OfferedFor(NewCalls(set))
  BY ExpandSeesTheHistory
<1> HIDE DEF more
<1>4. held \cup more \subseteq OfferedFor(seenCalls')
  BY <1>1, <1>2, <1>3
<1>5. Names(held \cup more) = seenPerturbations'
  <2>1. Names(held \cup more) = Names(held) \cup Names(more)
    BY DEF Names
  <2> QED BY <1>1, <1>2, <1>3, <2>1
<1>6. ToldApart(held \cup more)
  <2>1. ASSUME NEW p \in held, NEW q \in more PROVE system.name[p] # system.name[q]
    BY <1>1, <1>2 DEF Names
  <2> QED BY <1>1, <1>2, <2>1 DEF ToldApart
<1> QED BY <1>4, <1>5, <1>6 DEF more

LEMMA BaselineKeepsTheInvariant ==
    ASSUME ExplorationInv, Baseline
    PROVE  ExplorationInv'
<1> USE DEF ExplorationInv
<1>1. /\ points = <<>> /\ pending = <<>> /\ seenCalls = {} /\ seenPerturbations = {}
      /\ runs = {} /\ remaining = {} /\ firstFailure = NoRun
  BY DEF Baseline, BeforeTheBaseline
<1>2. /\ runs' = {} /\ firstFailure' = NoRun /\ system' = system /\ option' = option
      /\ rounds' = rounds /\ minimal' = minimal
      /\ pc' = IF option.mode = "discovery" THEN "discover" ELSE "search"
  BY <1>1 DEF Baseline
<1>3. option.mode \in {"exhaustive", "guided", "adaptive", "discovery"}
  BY ExplorationAssumption DEF ExplorationTypes
<1>4. Observed' = CallsOf({}) /\ (CallsOf({}))' = CallsOf({})
  BY <1>2 DEF Observed, Tried, CallsOf
<1>5. NewPoints({}) \in Seq(SUBSET Nat)
  BY NewPointsHoldWhatIsNew
<1>6. ChoicesIn(<<>>) = {}
  BY DEF ChoicesIn
<1>7. CASE Static
  <2>1. /\ points' = AllPoints /\ UNCHANGED <<seenCalls, seenPerturbations, pending>>
        /\ pc' = "search" /\ option.mode \in {"exhaustive", "guided"}
        /\ remaining' = IF option.mode = "guided" THEN Candidates(AllPoints)
                        ELSE {Combination(set) : set \in Combinations(AllPoints, option.maxDepth)}
    BY <1>2, <1>7 DEF Baseline, frontier, Static
  <2>2. AllPoints \in Seq(SUBSET Nat)
    BY AllPointsAreSets
  <2>3. /\ \A scenario \in remaining' : scenario.by # "none"
        /\ \A set \in Combinations(AllPoints, option.maxDepth) : Combination(set) \in remaining'
        /\ option.mode = "exhaustive" => \A scenario \in remaining' : Cardinality(scenario.set) \in Nat
    BY <2>1, CandidatesAreScenarios DEF Combination
  <2>4. ExplorationTypes'
    BY <1>1, <1>2, <2>1, <2>2, <2>3 DEF ExplorationTypes
  <2>5. PointsAreWhatWasOffered' /\ FrontierIsWhatWasSeen'
    BY <1>2, <2>1 DEF PointsAreWhatWasOffered, FrontierIsWhatWasSeen, Static, AllPoints
  <2>6. EveryChoiceIsPlanned'
    BY <1>2, <2>1, <2>3 DEF EveryChoiceIsPlanned
  <2> QED BY <1>2, <2>1, <2>4, <2>5, <2>6
             DEF BeforeTheBaseline, LoopsHaveTheirModes, FirstFailureIsOne, FailingRuns,
                 SearchClosesTheSpace, DiscoveryReportsWhatItSaw
<1>8. CASE ~Static
  <2>1. /\ Expand({}) /\ remaining' = {}
        /\ points' = IF option.mode = "adaptive" THEN NewPoints({}) ELSE <<>>
        /\ pending' = IF option.mode = "discovery" THEN NewPoints({}) ELSE <<>>
        /\ option.mode \in {"adaptive", "discovery"}
    BY <1>1, <1>3, <1>8 DEF Baseline, Static
  <2>2. /\ seenCalls' = CallsOf({}) /\ seenCalls' \subseteq SystemCalls
        /\ seenPerturbations' = Names(OfferedFor(seenCalls'))
        /\ seenPerturbations = Names(OfferedFor(seenCalls))
    <3>1. Names(OfferedFor({})) = {}
      BY DEF OfferedFor, Names
    <3> QED BY <1>1, <2>1, <3>1, ExpandSeesTheHistory
  <2>3. <<>> \in Seq(SUBSET Nat)
    OBVIOUS
  <2>4. ExplorationTypes'
    BY <1>1, <1>2, <1>5, <2>1, <2>2, <2>3 DEF ExplorationTypes
  <2>5. FrontierIsWhatWasSeen'
    BY <1>2, <1>4, <2>2 DEF FrontierIsWhatWasSeen, OfferedFor, Names
  <2>6. PointsAreWhatWasOffered'
    <3>1. HoldsWhatWasSeen({})
      BY <1>1 DEF HoldsWhatWasSeen, Names, ToldApart
    <3>3. /\ ChoicesIn(NewPoints({})) \subseteq OfferedFor(seenCalls')
          /\ Names(ChoicesIn(NewPoints({}))) = seenPerturbations'
          /\ ToldApart(ChoicesIn(NewPoints({})))
      <4>1. {} \cup ChoicesIn(NewPoints({})) = ChoicesIn(NewPoints({}))
        OBVIOUS
      <4>2. seenPerturbations = Names(OfferedFor(seenCalls))
        BY <1>1 DEF Names, OfferedFor
      <4>3. ExplorationTypes /\ Expand({})
        BY <2>1
      <4> QED BY <3>1, <4>1, <4>2, <4>3, MoreIsHeld, Zenon
    <3>4. /\ option.mode = "adaptive" => HoldsWhatWasSeen(ChoicesIn(points))'
          /\ option.mode = "discovery" =>
                HoldsWhatWasSeen(ChoicesIn(points) \cup ChoicesIn(pending))'
      BY <1>2, <1>6, <2>1, <3>3 DEF HoldsWhatWasSeen, Names, ToldApart, OfferedFor
    <3> QED BY <1>2, <1>8, <3>4 DEF PointsAreWhatWasOffered, Static
  <2>7. EveryChoiceIsPlanned'
    BY <1>2, <1>6, <2>1 DEF EveryChoiceIsPlanned, Static
  <2> QED BY <1>2, <2>1, <2>4, <2>5, <2>6, <2>7
             DEF BeforeTheBaseline, LoopsHaveTheirModes, FirstFailureIsOne, FailingRuns,
                 SearchClosesTheSpace, DiscoveryReportsWhatItSaw
<1> QED BY <1>7, <1>8

LEMMA SameHistories ==
    ASSUME system' = system, runs' = runs
    PROVE  /\ Tried' = Tried /\ Observed' = Observed /\ AllPoints' = AllPoints
           /\ Unexercised' = Unexercised
           /\ \A calls : OfferedFor(calls)' = OfferedFor(calls)
           /\ \A set : Names(set)' = Names(set)
           /\ \A scenario : Id(scenario)' = Id(scenario)
<1>1. Tried' = Tried /\ AllPoints' = AllPoints /\ (CallsOf({}))' = CallsOf({})
  BY DEF Tried, AllPoints, CallsOf
<1>2. Observed' = Observed
  <2>1. Observed' = UNION {{c \in SystemCalls : system.trigger[c] \subseteq set} : set \in Tried' \cup {{}}}
    BY DEF Observed, CallsOf
  <2> QED BY <1>1, <2>1 DEF Observed, CallsOf
<1>3. Unexercised' = Unexercised
  <2>1. Unexercised' = {c \in CallsOf({}) : \A set \in Tried : \A p \in set : c \notin system.about[p]}
    BY <1>1 DEF Unexercised
  <2> QED BY <2>1 DEF Unexercised
<1> QED BY <1>1, <1>2, <1>3 DEF OfferedFor, Names, Id

LEMMA AnotherHistory ==
    ASSUME NEW scenario, system' = system, runs' = runs \cup {scenario}
    PROVE  /\ Tried' = Tried \cup {scenario.set}
           /\ Observed' = Observed \cup CallsOf(scenario.set)
<1>1. Tried' = Tried \cup {scenario.set}
  BY DEF Tried
<1>2. Observed' = UNION {CallsOf(set) : set \in Tried' \cup {{}}}
  BY DEF Observed, CallsOf
<1> QED BY <1>1, <1>2 DEF Observed

LEMMA TryKeepsTheInvariant ==
    ASSUME ExplorationInv, NEW scenario \in Choosable, Try(scenario)
    PROVE  ExplorationInv'
<1> USE DEF ExplorationInv
<1>1. /\ pc = "search" /\ system' = system /\ option' = option /\ pending' = pending
      /\ rounds' = rounds /\ minimal' = minimal
      /\ runs' = runs \cup {scenario} /\ remaining' = Left(scenario)
      /\ remaining' \subseteq remaining
      /\ pc' = IF Fails(scenario.set) /\ option.stop THEN "searched" ELSE "search"
      /\ firstFailure' = FailureAfter(scenario)
  BY DEF Try, Left
<1>2. option.mode \in {"exhaustive", "guided", "adaptive"}
  BY <1>1, ExplorationAssumption DEF ExplorationTypes, LoopsHaveTheirModes
<1>3. scenario.by # "none" /\ scenario # NoRun
  <2>1. CASE option.mode = "adaptive"
    BY <2>1, CandidatesAreScenarios DEF Choosable, NoRun
  <2>2. CASE option.mode \in {"guided", "exhaustive"}
    BY <2>2 DEF Choosable, ExplorationTypes, NoRun
  <2> QED BY <1>2, <2>1, <2>2
<1>4. \A set : Fails(set)' = Fails(set)
  BY <1>1 DEF Fails
<1>5. FailingRuns' = IF Fails(scenario.set) THEN FailingRuns \cup {scenario} ELSE FailingRuns
  BY <1>1, <1>4 DEF FailingRuns
<1>6. FirstFailureIsOne'
  <2>1. option.stop => firstFailure = NoRun /\ FailingRuns = {}
    BY <1>1, <1>2 DEF FirstFailureIsOne
  <2>2. CASE ~Fails(scenario.set)
    BY <1>1, <1>2, <1>4, <1>5, <2>2 DEF FirstFailureIsOne, FailureAfter
  <2>3. CASE Fails(scenario.set)
    <3>1. /\ firstFailure' \in {firstFailure, scenario}
          /\ firstFailure = NoRun => firstFailure' = scenario
          /\ firstFailure' # NoRun
      BY <1>1, <1>3, <2>3 DEF FailureAfter
    <3> QED BY <1>1, <1>2, <1>5, <2>1, <2>3, <3>1 DEF FirstFailureIsOne
  <2> QED BY <2>2, <2>3
<1>7. pc' = "searched" => option.stop /\ firstFailure' # NoRun
  BY <1>1, <1>2, <1>3 DEF FailureAfter, FirstFailureIsOne
<1>8. Observed' = Observed \cup CallsOf(scenario.set)
  BY <1>1, AnotherHistory
<1>9. IsFiniteSet(runs')
  BY <1>1, FS_AddElement DEF ExplorationTypes
<1>10. CASE option.mode = "adaptive"
  <2>1. Expand(scenario.set) /\ points' = points \o NewPoints(scenario.set)
    BY <1>10 DEF Try
  <2>2. /\ seenCalls = Observed /\ seenPerturbations = Names(OfferedFor(seenCalls))
        /\ HoldsWhatWasSeen(ChoicesIn(points))
    BY <1>1, <1>10 DEF FrontierIsWhatWasSeen, PointsAreWhatWasOffered, Static
  <2>3. /\ seenCalls' = seenCalls \cup CallsOf(scenario.set)
        /\ seenCalls' \subseteq SystemCalls
        /\ seenPerturbations' = Names(OfferedFor(seenCalls'))
    BY <2>1, <2>2, ExpandSeesTheHistory
  <2>4. /\ points' \in Seq(SUBSET Nat)
        /\ ChoicesIn(points') = ChoicesIn(points) \cup ChoicesIn(NewPoints(scenario.set))
    <3>1. NewPoints(scenario.set) \in Seq(SUBSET Nat)
      BY NewPointsHoldWhatIsNew
    <3> QED BY <2>1, <3>1, ChoicesOfBoth DEF ExplorationTypes
  <2>5. ExplorationTypes'
    BY <1>1, <1>3, <1>9, <2>3, <2>4 DEF ExplorationTypes
  <2>6. FrontierIsWhatWasSeen'
    <3>1. seenCalls' = Observed'
      BY <1>8, <2>2, <2>3
    <3>2. (seenPerturbations = Names(OfferedFor(seenCalls)))'
      BY <1>1, <2>3 DEF OfferedFor, Names
    <3> QED BY <3>1, <3>2 DEF FrontierIsWhatWasSeen
  <2>8. PointsAreWhatWasOffered'
    <3>1. /\ ChoicesIn(points') \subseteq OfferedFor(seenCalls')
          /\ Names(ChoicesIn(points')) = seenPerturbations'
          /\ ToldApart(ChoicesIn(points'))
      BY <2>1, <2>2, <2>4, MoreIsHeld
    <3>2. HoldsWhatWasSeen(ChoicesIn(points))'
      BY <1>1, <3>1 DEF HoldsWhatWasSeen, Names, ToldApart, OfferedFor
    <3> QED BY <1>1, <1>10, <3>2 DEF PointsAreWhatWasOffered, Static
  <2>7. EveryChoiceIsPlanned'
    BY <1>1, <1>10 DEF EveryChoiceIsPlanned, Static
  <2> QED BY <1>1, <1>2, <1>6, <1>7, <2>5, <2>6, <2>7, <2>8
             DEF BeforeTheBaseline, LoopsHaveTheirModes, SearchClosesTheSpace,
                 DiscoveryReportsWhatItSaw
<1>11. CASE option.mode # "adaptive"
  <2>1. UNCHANGED <<points, seenCalls, seenPerturbations>> /\ Static
    BY <1>2, <1>11 DEF Try, frontier, Static
  <2>2. ExplorationTypes'
    BY <1>1, <1>3, <1>9, <2>1 DEF ExplorationTypes
  <2>3. FrontierIsWhatWasSeen' /\ PointsAreWhatWasOffered'
    BY <1>1, <2>1 DEF FrontierIsWhatWasSeen, PointsAreWhatWasOffered, Static, AllPoints
  <2>4. EveryChoiceIsPlanned'
    <3>1. ASSUME NEW set \in Combinations(points, option.maxDepth)
          PROVE  \/ Combination(set) \in remaining' \cup runs'
                 \/ /\ option.mode = "guided"
                    /\ \E run \in runs' : Id(run) = Id(Combination(set))
      <4>1. \/ Combination(set) \in remaining \cup runs
            \/ /\ option.mode = "guided"
               /\ \E run \in runs : Id(run) = Id(Combination(set))
        BY <1>1, <2>1 DEF EveryChoiceIsPlanned
      <4>2. CASE Combination(set) \in remaining /\ Combination(set) \notin remaining'
        <5>1. \/ Combination(set) = scenario
              \/ option.mode = "guided" /\ Id(scenario) = Id(Combination(set))
          BY <1>1, <4>2 DEF Left
        <5> QED BY <1>1, <5>1
      <4> QED BY <1>1, <4>1, <4>2
    <3>2. \A other : Id(other)' = Id(other)
      BY <1>1 DEF Id
    <3>3. /\ points' = points /\ option' = option
          /\ \A set : Combination(set)' = Combination(set)
      BY <1>1, <2>1 DEF Combination
    <3>4. option.mode = "exhaustive" => \A other \in remaining' : Cardinality(other.set) \in Nat
      BY <1>1 DEF EveryChoiceIsPlanned
    <3>5. pc' = "search" =>
            \A set \in Combinations(points', option'.maxDepth) :
               \/ Combination(set) \in remaining' \cup runs'
               \/ /\ option'.mode = "guided"
                  /\ \E run \in runs' : (Id(run) = Id(Combination(set)))'
      BY <3>1, <3>2, <3>3
    <3> QED BY <1>1, <3>3, <3>4, <3>5 DEF EveryChoiceIsPlanned
  <2> QED BY <1>1, <1>2, <1>6, <1>7, <2>2, <2>3, <2>4
             DEF BeforeTheBaseline, LoopsHaveTheirModes, SearchClosesTheSpace,
                 DiscoveryReportsWhatItSaw
<1> QED BY <1>10, <1>11

\* What an exhausted list leaves untried: nothing, up to ids where they make the list.
LEMMA AnEmptyListMeansAllTried ==
    ASSUME ExplorationInv, pc = "search", Choosable = {}
    PROVE  /\ option.mode = "adaptive" =>
                 /\ Names(ChoicesIn(points)) = Names(OfferedFor(Observed))
                 /\ ToldApart(ChoicesIn(points))
           /\ \A set \in Combinations(points, option.maxDepth) :
                 \E run \in runs : Id(run) = Id(Combination(set))
           /\ option.mode # "guided" =>
                 /\ Combinations(points, option.maxDepth) \subseteq Tried
                 /\ option.maxDepth > 0 =>
                       \A p \in ChoicesIn(points) : system.about[p] \cap Unexercised = {}
<1> USE DEF ExplorationInv
<1>1. option.mode \in {"exhaustive", "guided", "adaptive"} /\ option.maxDepth \in Nat
  BY ExplorationAssumption DEF ExplorationTypes, LoopsHaveTheirModes
<1>2. \A set \in Combinations(points, option.maxDepth) :
         \/ Combination(set) \in runs
         \/ /\ option.mode = "guided"
            /\ \E run \in runs : Id(run) = Id(Combination(set))
  <2>1. CASE option.mode = "adaptive"
    BY <2>1, CandidatesAreScenarios DEF Choosable
  <2>2. CASE option.mode = "guided"
    BY <2>2 DEF Choosable, EveryChoiceIsPlanned, Static
  <2>3. CASE option.mode = "exhaustive"
    <3>1. remaining = {}
      <4> SUFFICES ASSUME remaining # {} PROVE FALSE
        OBVIOUS
      <4> DEFINE sizes == {Cardinality(s.set) : s \in remaining}
      <4>1. sizes # {} /\ sizes \subseteq Nat
        BY <2>3 DEF EveryChoiceIsPlanned
      <4>2. PICK least \in sizes : \A n \in sizes : least <= n
        <5> HIDE DEF sizes
        <5> QED BY <4>1, LeastNumber
      <4>3. PICK s \in remaining : Cardinality(s.set) = least
        BY <4>2
      <4> QED BY <2>3, <4>2, <4>3 DEF Choosable
    <3> QED BY <2>3, <3>1 DEF EveryChoiceIsPlanned, Static
  <2> QED BY <1>1, <2>1, <2>2, <2>3
<1>3. option.mode # "guided" => Combinations(points, option.maxDepth) \subseteq Tried
  <2>1. \A set : Combination(set).set = set
    BY DEF Combination
  <2> QED BY <1>2, <2>1 DEF Tried
<1>4. option.mode = "adaptive" =>
         /\ Names(ChoicesIn(points)) = Names(OfferedFor(Observed))
         /\ ToldApart(ChoicesIn(points))
  BY DEF PointsAreWhatWasOffered, FrontierIsWhatWasSeen, Static, HoldsWhatWasSeen
<1>5. \A set \in Combinations(points, option.maxDepth) :
         \E run \in runs : Id(run) = Id(Combination(set))
  BY <1>2
<1>6. ASSUME option.mode # "guided", option.maxDepth > 0, NEW p \in ChoicesIn(points)
      PROVE  {p} \in Tried
  <2>1. \A k \in DOMAIN points : Cardinality({p} \cap points[k]) <= 1
    <3> SUFFICES ASSUME NEW k \in DOMAIN points PROVE Cardinality({p} \cap points[k]) <= 1
      OBVIOUS
    <3>1. CASE p \in points[k]
      <4>1. {p} \cap points[k] = {p}
        BY <3>1
      <4>2. Cardinality({p}) = 1
        BY FS_Singleton, Zenon
      <4> QED BY <4>1, <4>2
    <3>2. CASE p \notin points[k]
      <4>1. {p} \cap points[k] = {}
        BY <3>2
      <4> QED BY <4>1, FS_EmptySet
    <3> QED BY <3>1, <3>2
  <2>2. Cardinality({p}) = 1 /\ 1 \in 1 .. option.maxDepth /\ {p} \in SUBSET ChoicesIn(points)
    <3>1. Cardinality({p}) = 1
      BY FS_Singleton, Zenon
    <3>2. 1 \in 1 .. option.maxDepth
      BY <1>1, <1>6
    <3> QED BY <1>6, <3>1, <3>2
  <2>3. {p} \in Combinations(points, option.maxDepth)
    BY <2>1, <2>2 DEF Combinations
  <2> QED BY <1>3, <1>6, <2>3
<1>7. ASSUME option.mode # "guided", option.maxDepth > 0, NEW p \in ChoicesIn(points)
      PROVE  system.about[p] \cap Unexercised = {}
  <2>1. {p} \in Tried
    BY <1>6, <1>7
  <2> QED BY <2>1 DEF Unexercised
<1> QED BY <1>3, <1>4, <1>5, <1>7

LEMMA StopSearchingKeepsTheInvariant ==
    ASSUME ExplorationInv, StopSearching
    PROVE  ExplorationInv'
<1> USE DEF ExplorationInv
<1>1. /\ pc = "search" /\ pc' = "searched"
      /\ UNCHANGED <<system, option, points, seenCalls, seenPerturbations, remaining, pending,
                     rounds, runs, firstFailure, minimal>>
      /\ Choosable = {} \/ TooMany \/ Cardinality(runs) >= RunLimit
  BY DEF StopSearching, frontier
<1>2. SearchClosesTheSpace'
  <2> SUFFICES ASSUME ~TooMany, Cardinality(runs) < RunLimit PROVE SearchClosesTheSpace'
    BY <1>1 DEF SearchClosesTheSpace, TooMany, RunLimit, Candidates
  <2>1. Cardinality(runs) \in Nat /\ RunLimit \in Nat
    BY FS_CardinalityType, ExplorationAssumption DEF ExplorationTypes, RunLimit
  <2>2. Choosable = {}
    BY <1>1, <2>1
  <2>3. /\ Tried' = Tried /\ Unexercised' = Unexercised
        /\ \A run : Id(run)' = Id(run)
    BY <1>1, SameHistories
  <2>6. /\ Names(ChoicesIn(points))' = Names(ChoicesIn(points))
        /\ Names(OfferedFor(Observed))' = Names(OfferedFor(Observed))
    BY <1>1, SameHistories DEF Names, OfferedFor
  <2>4. /\ option.mode = "adaptive" =>
             /\ Names(ChoicesIn(points)) = Names(OfferedFor(Observed))
             /\ ToldApart(ChoicesIn(points))
        /\ \A set \in Combinations(points, option.maxDepth) :
             \E run \in runs : Id(run) = Id(Combination(set))
        /\ option.mode # "guided" =>
             /\ Combinations(points, option.maxDepth) \subseteq Tried
             /\ option.maxDepth > 0 =>
                   \A p \in ChoicesIn(points) : system.about[p] \cap Unexercised = {}
    BY <1>1, <2>2, AnEmptyListMeansAllTried
  <2>5. \A set : Combination(set)' = Combination(set)
    BY DEF Combination
  <2>7. /\ option' = option /\ points' = points /\ runs' = runs /\ system' = system
        /\ ToldApart(ChoicesIn(points))' = ToldApart(ChoicesIn(points))
    BY <1>1 DEF ToldApart
  <2>8. (option.mode = "adaptive")' =>
             /\ (Names(ChoicesIn(points)) = Names(OfferedFor(Observed)))'
             /\ \A p, q \in ChoicesIn(points') : system'.name[p] = system'.name[q] => p = q
    BY <2>4, <2>6, <2>7 DEF ToldApart
  <2>9. \A set \in Combinations(points', option'.maxDepth) :
             \E run \in runs' : Id(run)' = Id(Combination(set))'
    BY <2>3, <2>4, <2>7
  <2>10. option'.mode # "guided" =>
             /\ Combinations(points', option'.maxDepth) \subseteq Tried'
             /\ option'.maxDepth > 0 =>
                   \A p \in ChoicesIn(points') : system'.about[p] \cap Unexercised' = {}
    BY <2>3, <2>4, <2>7
  <2> QED BY <2>8, <2>9, <2>10 DEF SearchClosesTheSpace
<1>3. ExplorationTypes' /\ LoopsHaveTheirModes'
  BY <1>1 DEF ExplorationTypes, LoopsHaveTheirModes
<1>4. FrontierIsWhatWasSeen' /\ PointsAreWhatWasOffered' /\ EveryChoiceIsPlanned'
  BY <1>1, SameHistories DEF FrontierIsWhatWasSeen, PointsAreWhatWasOffered,
                             EveryChoiceIsPlanned, Static, OfferedFor, Names,
                             HoldsWhatWasSeen, ToldApart
<1>5. FirstFailureIsOne'
  BY <1>1 DEF FirstFailureIsOne, FailingRuns, Fails
<1> QED BY <1>1, <1>2, <1>3, <1>4, <1>5 DEF BeforeTheBaseline, DiscoveryReportsWhatItSaw

LEMMA ReturnKeepsTheInvariant ==
    ASSUME ExplorationInv, Return
    PROVE  ExplorationInv'
<1> USE DEF ExplorationInv
<1>1. /\ pc = "searched" /\ pc' = "done" /\ option.mode # "discovery"
      /\ UNCHANGED <<system, option, points, seenCalls, seenPerturbations, remaining, pending,
                     rounds, runs, firstFailure>>
  BY DEF Return, frontier, LoopsHaveTheirModes
<1>2. firstFailure # NoRun /\ option.minimize => Fails(minimal') /\ minimal' \subseteq firstFailure.set
  BY DEF Return, OneMinimal
<1>3. ExplorationTypes' /\ LoopsHaveTheirModes'
  BY <1>1 DEF ExplorationTypes, LoopsHaveTheirModes
<1>4. FrontierIsWhatWasSeen' /\ PointsAreWhatWasOffered' /\ EveryChoiceIsPlanned'
  BY <1>1, SameHistories DEF FrontierIsWhatWasSeen, PointsAreWhatWasOffered,
                             EveryChoiceIsPlanned, Static, OfferedFor, Names,
                             HoldsWhatWasSeen, ToldApart
<1>5. FirstFailureIsOne'
  BY <1>1, <1>2 DEF FirstFailureIsOne, FailingRuns, Fails
<1> QED BY <1>1, <1>3, <1>4, <1>5
           DEF BeforeTheBaseline, SearchClosesTheSpace, DiscoveryReportsWhatItSaw

LEMMA StartRoundKeepsTheInvariant ==
    ASSUME ExplorationInv, StartRound
    PROVE  ExplorationInv'
<1> USE DEF ExplorationInv
<1>1. /\ pc = "discover" /\ pc' = "discover" /\ option.mode = "discovery"
      /\ UNCHANGED <<system, option, seenCalls, seenPerturbations, runs, firstFailure, minimal>>
      /\ points' = points \o pending /\ pending' = <<>> /\ remaining = {}
      /\ remaining' = {[by |-> "discovery", set |-> {p}] : p \in ChoicesIn(pending)}
      /\ rounds' = rounds + 1
  BY DEF StartRound, frontier, LoopsHaveTheirModes
<1>2. /\ points' \in Seq(SUBSET Nat) /\ ChoicesIn(<<>>) = {} /\ <<>> \in Seq(SUBSET Nat)
      /\ ChoicesIn(points') = ChoicesIn(points) \cup ChoicesIn(pending)
  <2>1. ChoicesIn(<<>>) = {} /\ <<>> \in Seq(SUBSET Nat)
    BY DEF ChoicesIn
  <2> QED BY <1>1, <2>1, ChoicesOfBoth DEF ExplorationTypes
<1>3. ExplorationTypes'
  BY <1>1, <1>2 DEF ExplorationTypes
<1>4. FrontierIsWhatWasSeen'
  BY <1>1, SameHistories DEF FrontierIsWhatWasSeen, Static, OfferedFor, Names
<1>5. PointsAreWhatWasOffered'
  <2>1. HoldsWhatWasSeen(ChoicesIn(points) \cup ChoicesIn(pending))
    BY <1>1 DEF PointsAreWhatWasOffered
  <2>2. ChoicesIn(points') \cup ChoicesIn(pending') = ChoicesIn(points) \cup ChoicesIn(pending)
    BY <1>1, <1>2
  <2>3. HoldsWhatWasSeen(ChoicesIn(points) \cup ChoicesIn(pending))'
    BY <1>1, <2>1, <2>2 DEF HoldsWhatWasSeen, Names, ToldApart, OfferedFor
  <2> QED BY <1>1, <2>3 DEF PointsAreWhatWasOffered, Static
<1>6. EveryChoiceIsPlanned'
  BY <1>1, <1>2 DEF EveryChoiceIsPlanned, Static, Tried
<1>7. FirstFailureIsOne'
  BY <1>1 DEF FirstFailureIsOne, FailingRuns, Fails
<1> QED BY <1>1, <1>3, <1>4, <1>5, <1>6, <1>7
           DEF BeforeTheBaseline, LoopsHaveTheirModes, SearchClosesTheSpace,
               DiscoveryReportsWhatItSaw

LEMMA ProbeKeepsTheInvariant ==
    ASSUME ExplorationInv, NEW scenario \in remaining, Probe(scenario)
    PROVE  ExplorationInv'
<1> USE DEF ExplorationInv
<1>1. /\ pc = "discover" /\ pc' = "discover" /\ option.mode = "discovery"
      /\ UNCHANGED <<system, option, points, rounds, firstFailure, minimal>>
      /\ remaining' = remaining \ {scenario} /\ runs' = runs \cup {scenario}
      /\ Expand(scenario.set) /\ pending' = pending \o NewPoints(scenario.set)
  BY DEF Probe, LoopsHaveTheirModes
<1>2. /\ seenCalls = Observed /\ seenPerturbations = Names(OfferedFor(seenCalls))
      /\ HoldsWhatWasSeen(ChoicesIn(points) \cup ChoicesIn(pending))
  BY <1>1 DEF FrontierIsWhatWasSeen, PointsAreWhatWasOffered, Static
<1>3. /\ seenCalls' = seenCalls \cup CallsOf(scenario.set)
      /\ seenCalls' \subseteq SystemCalls
      /\ seenPerturbations' = Names(OfferedFor(seenCalls'))
  BY <1>1, <1>2, ExpandSeesTheHistory
<1>4. /\ pending' \in Seq(SUBSET Nat)
      /\ ChoicesIn(pending') = ChoicesIn(pending) \cup ChoicesIn(NewPoints(scenario.set))
  <2>1. NewPoints(scenario.set) \in Seq(SUBSET Nat)
    BY NewPointsHoldWhatIsNew
  <2> QED BY <1>1, <2>1, ChoicesOfBoth DEF ExplorationTypes
<1>10. HoldsWhatWasSeen(ChoicesIn(points) \cup ChoicesIn(pending))'
  <2> DEFINE both == (ChoicesIn(points) \cup ChoicesIn(pending)) \cup ChoicesIn(NewPoints(scenario.set))
  <2>1. /\ both \subseteq OfferedFor(seenCalls')
        /\ Names(both) = seenPerturbations'
        /\ ToldApart(both)
    BY <1>1, <1>2, MoreIsHeld
  <2>2. ChoicesIn(points') \cup ChoicesIn(pending') = both
    BY <1>1, <1>4
  <2> HIDE DEF both
  <2> QED BY <1>1, <2>1, <2>2 DEF HoldsWhatWasSeen, Names, ToldApart, OfferedFor
<1>5. Tried' = Tried \cup {scenario.set} /\ Observed' = Observed \cup CallsOf(scenario.set)
  BY <1>1, AnotherHistory
<1>6. ExplorationTypes'
  BY <1>1, <1>3, <1>4, FS_AddElement DEF ExplorationTypes
<1>7. FrontierIsWhatWasSeen' /\ PointsAreWhatWasOffered'
  <2>1. seenCalls' = Observed'
    BY <1>2, <1>3, <1>5
  <2>2. (seenPerturbations = Names(OfferedFor(seenCalls)))'
    BY <1>1, <1>3 DEF OfferedFor, Names
  <2> QED BY <1>1, <1>10, <2>1, <2>2 DEF FrontierIsWhatWasSeen, PointsAreWhatWasOffered, Static
<1>8. EveryChoiceIsPlanned'
  BY <1>1, <1>5 DEF EveryChoiceIsPlanned, Static
<1>9. FirstFailureIsOne'
  BY <1>1 DEF FirstFailureIsOne
<1> QED BY <1>1, <1>6, <1>7, <1>8, <1>9
           DEF BeforeTheBaseline, LoopsHaveTheirModes, SearchClosesTheSpace,
               DiscoveryReportsWhatItSaw

LEMMA DiscoveredKeepsTheInvariant ==
    ASSUME ExplorationInv, Discovered
    PROVE  ExplorationInv'
<1> USE DEF ExplorationInv
<1>1. /\ pc = "discover" /\ pc' = "done" /\ option.mode = "discovery"
      /\ UNCHANGED <<system, option, seenCalls, seenPerturbations, remaining, pending, rounds,
                     runs, firstFailure, minimal>>
      /\ points' = points \o pending
      /\ remaining = {} \/ Cardinality(runs) >= AtLeastOne(option.maxRuns)
      /\ pending = <<>> \/ Cut
  BY DEF Discovered, Reported, frontier, LoopsHaveTheirModes
<1>2. /\ points' \in Seq(SUBSET Nat) /\ ChoicesIn(<<>>) = {}
      /\ ChoicesIn(points') = ChoicesIn(points) \cup ChoicesIn(pending)
  <2>1. ChoicesIn(<<>>) = {} /\ <<>> \in Seq(SUBSET Nat)
    BY DEF ChoicesIn
  <2> QED BY <1>1, <2>1, ChoicesOfBoth DEF ExplorationTypes
<1>3. Observed' = Observed /\ Tried' = Tried /\ Cut' = Cut
  BY <1>1, SameHistories DEF Cut
<1>4. DiscoveryReportsWhatItSaw'
  <2>1. Names(ChoicesIn(points')) = Names(OfferedFor(Observed))
    BY <1>1, <1>2 DEF FrontierIsWhatWasSeen, PointsAreWhatWasOffered, Static, HoldsWhatWasSeen
  <2>2. ASSUME ~Cut PROVE \A p \in ChoicesIn(points') : {p} \in Tried
    <3>1. remaining = {} /\ pending = <<>>
      BY <1>1, <2>2 DEF Cut
    <3> QED BY <1>1, <1>2, <3>1 DEF EveryChoiceIsPlanned
  <2>3. (Names(ChoicesIn(points)) = Names(OfferedFor(Observed)))'
    <3>1. Names(OfferedFor(Observed))' = Names(OfferedFor(Observed))
      BY <1>1, <1>3 DEF Names, OfferedFor
    <3>2. Names(ChoicesIn(points))' = Names(ChoicesIn(points'))
      BY <1>1 DEF Names
    <3> QED BY <2>1, <3>1, <3>2
  <2>4. Cut' \/ \A p \in ChoicesIn(points') : {p} \in Tried'
    BY <1>3, <2>2
  <2> QED BY <2>3, <2>4 DEF DiscoveryReportsWhatItSaw
<1>5. ExplorationTypes'
  BY <1>1, <1>2 DEF ExplorationTypes
<1>6. FrontierIsWhatWasSeen' /\ PointsAreWhatWasOffered'
  BY <1>1, <1>3 DEF FrontierIsWhatWasSeen, PointsAreWhatWasOffered, Static, OfferedFor,
                        Names
<1>7. EveryChoiceIsPlanned' /\ FirstFailureIsOne'
  BY <1>1 DEF EveryChoiceIsPlanned, Static, FirstFailureIsOne, FailingRuns, Fails
<1> QED BY <1>1, <1>4, <1>5, <1>6, <1>7
           DEF BeforeTheBaseline, LoopsHaveTheirModes, SearchClosesTheSpace

LEMMA ExplorationStutters ==
    ASSUME ExplorationInv, UNCHANGED explorationVars
    PROVE  ExplorationInv'
<1>1. UNCHANGED <<system, option, points, seenCalls, seenPerturbations, remaining, pending,
                  rounds, runs, firstFailure, minimal, pc>>
  BY DEF explorationVars, frontier
<1> USE DEF ExplorationInv
<1>2. ExplorationTypes' /\ BeforeTheBaseline' /\ LoopsHaveTheirModes'
  BY <1>1 DEF ExplorationTypes, BeforeTheBaseline, LoopsHaveTheirModes
<1>3. FrontierIsWhatWasSeen' /\ PointsAreWhatWasOffered' /\ EveryChoiceIsPlanned'
  BY <1>1, SameHistories DEF FrontierIsWhatWasSeen, PointsAreWhatWasOffered,
                             EveryChoiceIsPlanned, Static, OfferedFor, Names,
                             HoldsWhatWasSeen, ToldApart
<1>4. FirstFailureIsOne'
  BY <1>1 DEF FirstFailureIsOne, FailingRuns, Fails
<1>5. SearchClosesTheSpace'
  <2> SUFFICES ASSUME SearchClosesTheSpace, pc = "searched", ~TooMany,
                      Cardinality(runs) < RunLimit,
                      ~(option.stop /\ firstFailure # NoRun)
               PROVE  SearchClosesTheSpace'
    BY <1>1 DEF SearchClosesTheSpace, TooMany, RunLimit, Candidates
  <2>1. /\ Tried' = Tried /\ Unexercised' = Unexercised
        /\ \A run : Id(run)' = Id(run)
        /\ option' = option /\ points' = points /\ runs' = runs /\ system' = system
    BY <1>1, SameHistories
  <2>2. /\ Names(ChoicesIn(points))' = Names(ChoicesIn(points))
        /\ Names(OfferedFor(Observed))' = Names(OfferedFor(Observed))
    BY <1>1, SameHistories DEF Names, OfferedFor
  <2>3. (option.mode = "adaptive")' =>
             /\ (Names(ChoicesIn(points)) = Names(OfferedFor(Observed)))'
             /\ \A p, q \in ChoicesIn(points') : system'.name[p] = system'.name[q] => p = q
    BY <2>1, <2>2 DEF SearchClosesTheSpace
  <2>4. \A set : Combination(set)' = Combination(set)
    BY DEF Combination
  <2>5. \A set \in Combinations(points', option'.maxDepth) :
             \E run \in runs' : Id(run)' = Id(Combination(set))'
    BY <2>1, <2>4 DEF SearchClosesTheSpace
  <2>6. option'.mode # "guided" =>
             /\ Combinations(points', option'.maxDepth) \subseteq Tried'
             /\ option'.maxDepth > 0 =>
                   \A p \in ChoicesIn(points') : system'.about[p] \cap Unexercised' = {}
    BY <2>1 DEF SearchClosesTheSpace
  <2> QED BY <2>3, <2>5, <2>6 DEF SearchClosesTheSpace
<1>6. DiscoveryReportsWhatItSaw'
  BY <1>1, SameHistories DEF DiscoveryReportsWhatItSaw, Cut, Names, OfferedFor
<1> QED BY <1>2, <1>3, <1>4, <1>5, <1>6

\* The frontier and the points are what the runs so far have shown, in every state of
\* every loop.
THEOREM ExplorationInvariant == ExplorationSpec => []ExplorationInv
<1>1. ExplorationInv /\ [ExplorationNext]_explorationVars => ExplorationInv'
  BY BaselineKeepsTheInvariant, TryKeepsTheInvariant, StopSearchingKeepsTheInvariant,
     ReturnKeepsTheInvariant, StartRoundKeepsTheInvariant, ProbeKeepsTheInvariant,
     DiscoveredKeepsTheInvariant, ExplorationStutters
     DEF ExplorationNext
<1> QED BY <1>1, ExplorationStarts, PTL DEF ExplorationSpec

\* A search that neither a limit nor a failure ended has tried every combination of the
\* choices of every call its own runs made; discovery reports every choice of every call
\* it saw; no loop loses a failing run.
THEOREM SearchesCloseTheirSpace == ExplorationSpec => []SearchesAreComplete
<1>1. ExplorationInv => FailuresAreReported
  <2> SUFFICES ASSUME ExplorationInv PROVE FailuresAreReported
    OBVIOUS
  <2>1. /\ ExplorationTypes /\ FirstFailureIsOne
    BY DEF ExplorationInv
  <2>2. option.stop /\ option.mode # "discovery" => Cardinality(FailingRuns) <= 1
    <3> SUFFICES ASSUME option.stop, option.mode # "discovery" PROVE Cardinality(FailingRuns) <= 1
      OBVIOUS
    <3>1. CASE FailingRuns = {}
      BY <3>1, FS_EmptySet
    <3>2. CASE FailingRuns # {}
      <4>1. PICK run \in FailingRuns : FailingRuns = {run}
        BY <2>1, <3>2 DEF FirstFailureIsOne
      <4>2. Cardinality({run}) = 1
        BY FS_Singleton
      <4>3. Cardinality(FailingRuns) = 1
        BY <4>1, <4>2, Zenon
      <4> QED BY <4>3
    <3> QED BY <3>1, <3>2
  <2> QED BY <2>1, <2>2 DEF FailuresAreReported, FirstFailureIsOne, FailingRuns
<1>2. ExplorationInv => SearchesAreComplete
  BY <1>1 DEF ExplorationInv, SearchesAreComplete
<1> QED BY <1>2, ExplorationInvariant, PTL
=============================================================================

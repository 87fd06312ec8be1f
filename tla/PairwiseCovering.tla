-------------------------- MODULE PairwiseCovering --------------------------
(***************************************************************************)
(* pairwiseScenarios (packages/core/src/covering.ts): the scenarios of one *)
(* perturbation each, followed by rows that choose one perturbation for    *)
(* every fault point, each the best for one pair not covered yet.  A step  *)
(* adds one scenario, so that a limit may end it anywhere.                 *)
(***************************************************************************)
EXTENDS Naturals, Sequences, FiniteSets

CONSTANTS NumPoints,    \* the number of fault points
          ChoiceCounts, \* the numbers of choices a run may start with, per point
          Limits        \* the values of maxScenarios a run may start with

Points == 1 .. NumPoints

ASSUME PairwiseAssumption ==
    /\ NumPoints \in Nat
    /\ ChoiceCounts \subseteq [Points -> Nat]
    /\ Limits \subseteq Nat

VARIABLES choices,      \* the arguments: how many choices each point has,
          maxScenarios, \* the limit,
          rows,         \* the scenarios so far, each a set of choices
          singles,      \* the choices whose own scenario is still to be added
          uncovered,    \* the pairs of choices no row contains yet
          phase         \* "singles", "pairs" or "done"

vars == <<choices, maxScenarios, rows, singles, uncovered, phase>>

\* Every choice, with its point.
Refs == Points \X (Nat \ {0})

RefsOf(counts) == UNION {{<<point, choice>> : choice \in 1 .. counts[point]} : point \in Points}

\* allPairs: the pairs of choices of different points.
AllPairs ==
    {{pair[1], pair[2]} :
        pair \in {p \in RefsOf(choices) \X RefsOf(choices) : p[1][1] < p[2][1]}}

\* scenarioPairs
PairsOf(row) == {pair \in AllPairs : pair \subseteq row}

PointsOf(refs) == {ref[1] : ref \in refs}

\* The row for a pair: its two choices, and the first choice of every other point
\* that has one.
RowFor(wanted) ==
    wanted \cup {<<point, 1>> : point \in {p \in Points \ PointsOf(wanted) : choices[p] > 0}}

Coverage(wanted) == Cardinality(PairsOf(RowFor(wanted)) \cap uncovered)

---------------------------------------------------------------------------
Init ==
    /\ choices \in ChoiceCounts
    /\ maxScenarios \in Limits
    /\ rows \in {<<>>, <<{}>>}                 \* includeBaseline
    /\ singles = RefsOf(choices)
    /\ uncovered = {}
    /\ phase = "singles"

Precedes(r, s) == r[1] < s[1] \/ (r[1] = s[1] /\ r[2] < s[2])

\* One scenario per choice, point by point.
AddSingle ==
    /\ phase = "singles"
    /\ \E ref \in singles :
          /\ \A other \in singles \ {ref} : Precedes(ref, other)
          /\ rows' = Append(rows, {ref})
          /\ singles' = singles \ {ref}
    /\ phase' = IF Len(rows) + 1 >= maxScenarios THEN "done" ELSE "singles"
    /\ UNCHANGED <<choices, maxScenarios, uncovered>>

StartPairs ==
    /\ phase = "singles"
    /\ singles = {}
    /\ uncovered' = AllPairs
    /\ phase' = IF AllPairs = {} \/ Len(rows) >= maxScenarios THEN "done" ELSE "pairs"
    /\ UNCHANGED <<choices, maxScenarios, rows, singles>>

\* Pairs are inserted by first point, second point, first choice, second choice.
Earlier(p, q) ==
    \E a, b \in p, c, d \in q :
        /\ a[1] < b[1] /\ c[1] < d[1]
        /\ \/ a[1] < c[1]
           \/ a[1] = c[1] /\ b[1] < d[1]
           \/ a[1] = c[1] /\ b[1] = d[1] /\ Precedes(<<a[2], b[2]>>, <<c[2], d[2]>>)

\* The pair whose row covers the most; the first one among equals.
Best(wanted) ==
    \A other \in uncovered \ {wanted} :
        \/ Coverage(other) < Coverage(wanted)
        \/ Coverage(other) = Coverage(wanted) /\ Earlier(wanted, other)

\* Mutant: the pairs struck off are named in another order than allPairs names them.
StruckNone(wanted) == {}

Struck(wanted) == PairsOf(RowFor(wanted))

AddRow ==
    /\ phase = "pairs"
    /\ Len(rows) < maxScenarios
    /\ \E wanted \in uncovered :
          /\ Best(wanted)
          /\ rows' = Append(rows, RowFor(wanted))
          /\ uncovered' = uncovered \ Struck(wanted)
    /\ UNCHANGED <<choices, maxScenarios, singles, phase>>

\* Mutant: the loop ends when no pair of the first point is left.
FinishEarly ==
    /\ phase = "pairs"
    /\ Len(rows) >= maxScenarios \/ \A pair \in uncovered : 1 \notin PointsOf(pair)
    /\ phase' = "done"
    /\ UNCHANGED <<choices, maxScenarios, rows, singles, uncovered>>

Finish ==
    /\ phase = "pairs"
    /\ uncovered = {} \/ Len(rows) >= maxScenarios
    /\ phase' = "done"
    /\ UNCHANGED <<choices, maxScenarios, rows, singles, uncovered>>

Next == AddSingle \/ StartPairs \/ AddRow \/ Finish

Spec == Init /\ [][Next]_vars

---------------------------------------------------------------------------
Rows == {rows[k] : k \in DOMAIN rows}
Covered(pair) == \E row \in Rows : pair \subseteq row

TypeOK ==
    /\ choices \in ChoiceCounts
    /\ maxScenarios \in Limits
    /\ rows \in Seq(SUBSET Refs)
    /\ singles \subseteq RefsOf(choices)
    /\ uncovered \subseteq AllPairs
    /\ phase \in {"singles", "pairs", "done"}

\* A row that says it is a scenario is one: no point has two choices in it, and none
\* that the point does not have.
RowsAreScenarios ==
    \A row \in Rows :
        /\ row \subseteq RefsOf(choices)
        /\ \A r, s \in row : r[1] = s[1] => r = s

\* What is still counted as uncovered is what no row covers: striking off too much
\* would leave a pair untested, and striking off too little would repeat rows.
CoverageIsAccounted ==
    phase = "pairs" => \A pair \in AllPairs : pair \in uncovered <=> ~Covered(pair)

\* Unless the limit ended the search, every choice has a scenario of its own and
\* every pair of choices is in some scenario.
CoveredUnlessLimited ==
    (phase = "done" /\ Len(rows) < maxScenarios) =>
        /\ \A ref \in RefsOf(choices) : {ref} \in Rows
        /\ \A pair \in AllPairs : Covered(pair)

\* Every row of the second phase covers a pair that no row before it did.
RowsEarnTheirPlace == [][phase = "pairs" /\ rows' # rows => uncovered' # uncovered]_vars

=============================================================================

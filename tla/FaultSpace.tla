------------------------------ MODULE FaultSpace ------------------------------
(***************************************************************************)
(* The scenarios a fault space gives rise to: enumerateScenarios of        *)
(* packages/core/src/search.ts and the rows of covering.ts, for planners   *)
(* and exploration loops.  A space is the sequence of its fault points,    *)
(* each the set of its choices; choices are numbers, in the order they are *)
(* listed, and no two points share one.                                    *)
(***************************************************************************)
EXTENDS Naturals, FiniteSets, Sequences

CONSTANT MaxPoints  \* bound: the fault points of a space

Elements(seq) == {seq[k] : k \in DOMAIN seq}

\* A limit that is checked after something was added lets one through.
AtLeastOne(n) == IF n = 0 THEN 1 ELSE n

ChoicesIn(space) == UNION {space[k] : k \in DOMAIN space}

\* One choice of each of at most `depth' points.
Combinations(space, depth) ==
    {set \in SUBSET ChoicesIn(space) :
        /\ Cardinality(set) \in 1 .. depth
        /\ \A k \in DOMAIN space : Cardinality(set \cap space[k]) <= 1}

\* Ids tell a combination from the row of the covering with the same set.
Combination(set) == [by |-> "combination", set |-> set]
Row(set) == [by |-> "pairwise", set |-> set]

\* The members of S from the first to the last: each at the place its rank gives it.
Sorted(S, Before(_, _)) ==
    LET rank == [x \in S |-> Cardinality({y \in S : Before(y, x)})]
    IN  [k \in 1 .. Cardinality(S) |-> CHOOSE x \in S : rank[x] = k - 1]

Less(a, b) == a < b
Lexicographic(s, t) ==
    \E k \in DOMAIN s : s[k] < t[k] /\ \A j \in 1 .. k - 1 : s[j] = t[j]

PointsWith(space, set) == Sorted({k \in DOMAIN space : set \cap space[k] # {}}, Less)
ChoicesAlong(space, set) ==
    [k \in DOMAIN PointsWith(space, set) |->
        CHOOSE p \in set : p \in space[PointsWith(space, set)[k]]]

\* By depth, then by points, then by choices.
EnumeratedBefore(space, s, t) ==
    \/ Cardinality(s) < Cardinality(t)
    \/ /\ Cardinality(s) = Cardinality(t)
       /\ \/ Lexicographic(PointsWith(space, s), PointsWith(space, t))
          \/ /\ PointsWith(space, s) = PointsWith(space, t)
             /\ Lexicographic(ChoicesAlong(space, s), ChoicesAlong(space, t))

Enumerated(space, depth) ==
    LET Before(s, t) == EnumeratedBefore(space, s, t)
        sets == Sorted(Combinations(space, depth), Before)
    IN  [k \in DOMAIN sets |-> Combination(sets[k])]

\* The rows of pairwiseScenarios; PairwiseCovering is its loop.
Covering(space, left) ==
    INSTANCE PairwiseCovering
        WITH NumPoints <- MaxPoints, ChoiceCounts <- {}, Limits <- {}, maxScenarios <- 0,
             choices <- [k \in 1 .. MaxPoints |->
                            IF k \in DOMAIN space THEN Cardinality(space[k]) ELSE 0],
             uncovered <- left, rows <- <<>>, singles <- {}, phase <- "pairs"

CoveringRows(space) ==
    LET from[left \in SUBSET Covering(space, {})!AllPairs] ==
            IF left = {} THEN <<>>
            ELSE LET wanted == CHOOSE pair \in left : Covering(space, left)!Best(pair)
                     row == Covering(space, left)!RowFor(wanted)
                 IN  <<row>> \o from[left \ Covering(space, left)!PairsOf(row)]
    IN  from[Covering(space, {})!AllPairs]

PairwiseRows(space) ==
    LET rows == CoveringRows(space)
        ChoiceOf(ref) == Sorted(space[ref[1]], Less)[ref[2]]
    IN  [k \in DOMAIN rows |-> Row({ChoiceOf(ref) : ref \in rows[k]})]
===============================================================================

SPECIFICATION MCSpec
CONSTANTS
    NumPoints = 4
    ChoiceCounts <- MCChoiceCounts
    Limits <- MCLimits
    MaxPoints = 3
    NumCalls = 3
    Systems <- MCSystems
    OptionSets <- MCOptionSets
    NoLimit = NoLimit
    Calls = {"a", "b"}
    Timed = {"a"}
    Features = {"f"}
    Copies = {1, 2}
    MaxSkew = 1
    Ahead = 1
    MaxClock = 2
INVARIANTS
    CoveredUnlessLimited
    PlansAreComplete
    SearchesAreComplete
    AgentsRunOnce
PROPERTIES
    RowsEarnTheirPlace
    TimedCallsSettle
CHECK_DEADLOCK FALSE

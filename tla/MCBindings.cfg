SPECIFICATION Spec
CONSTANTS
    c1 = c1
    c2 = c2
    Callers = {c1, c2}
    Names <- MCNames
    Statements <- MCStatements
    Batch <- MCBatch
    NumParts = 2
    Queries <- MCQueries
    Reads <- MCReads
    Setups <- MCSetups
    Scenarios <- MCScenarios
INVARIANTS
    HistoryMatchesAnswers
    ClaimedOutcomesAreTrue
    DataIsWhole
    InjectedWithinLimit
PROPERTIES
    CallsSettle
CHECK_DEADLOCK FALSE

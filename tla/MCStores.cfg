SPECIFICATION MCSpec
CONSTANTS
    Workers = {w1, w2}
    Scenarios <- MCScenarios
    MaxCalls = 4
    MaxStarts = 3
    NumSuites = 2
    Codes <- MCCodes
    Candidates <- MCCandidates
    MaxScenarios = 2
    GuidanceFile <- MCGuidanceFile
    Budgeted = {1}
    Interrupted = TRUE
INVARIANTS
    GreenIsEarned
    
PROPERTIES
    NoSecondExecution
SYMMETRY Symmetry
CHECK_DEADLOCK FALSE

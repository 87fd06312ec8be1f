SPECIFICATION MCSpec
CONSTANTS
    Callers = {c1, c2}
    Names <- MCNames
    Requests <- MCRequests
    Scenarios <- MCScenarios
    HasOracle = TRUE
    LossyNetwork = TRUE
    OverlappingKeys = FALSE
    MaxCalls = 2
    NumCases = 2
    Expected <- MCExpected
    Matches <- MCMatches
    Capabilities = {"mutation"}
    Versions = {1, 2}
    MaxReleases = 3
    Adapters <- MCAdapters
    Batches <- MCBatches
    OwnFaults <- MCOwnFaults
INVARIANTS
    OneChargePerKey
    PaymentClaimsAreTrue
    CatalogIsSound
    ContractsAreKept
PROPERTIES
    RoutesAreKept
SYMMETRY Symmetry
CHECK_DEADLOCK FALSE

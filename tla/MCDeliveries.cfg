SPECIFICATION MCSpec
CONSTANTS
    Callers = {"delivery"}
    Names <- MCNames
    Scenarios <- MCScenarios
    CreatedAt <- ByIndex
    Idempotent = FALSE
    LateErrors = FALSE
    Ids = {"m1", "m2"}
    Inputs <- MCInputs
    MaxRetries = 2
    Rounds = {1, 5}
    HasDlq = TRUE
    Workloads <- MCWorkloads
INVARIANTS
    DeliveriesFollowTheScenario
    DeliveryChecksAreTrue
    MessagesAreSettled
    WorkloadsAreOnRecord
CHECK_DEADLOCK FALSE

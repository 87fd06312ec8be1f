SPECIFICATION MCSpec
CONSTANTS
    Observers = {1, 2}
    Keys = {"k"}
    Database = "db"
    MaxLag = 1
    MaxEvents = 4
    Skews = {0, 1}
    Clients = {1}
    Routes <- MCRoutes
    Operations <- MCOperations
    KvKeys = {"k"}
    KeyLists <- MCKeyLists
    Regions = {"local", "cloudfault", "far"}
    Texts <- MCTexts
    Choices <- MCChoices
    Profiles <- MCProfiles
    MaxRequests = 2
    MaxVersions = 3
    MaxSends = 1
    MaxScenarios = 2
INVARIANTS
    ChecksAreTrue
    WorkersObeyScenarios
PROPERTIES
    ImplementsSessions

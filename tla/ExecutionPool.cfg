\* Every combination of the options, with budgets small enough to bite.
SPECIFICATION FairSpec
CONSTANTS
  MaxScenarios = 4
  Costs = {1, 2}
  Concurrency = {1, 2, 3}
  MaxRuns = {{}, {2}}
  MaxEstimatedCost = {{}, {4}}
  Outcomes = {"pass", "fail", "reject"}
INVARIANTS
  NoScenarioLost
  BudgetsHold
  FirstFailureIsDeterministic
PROPERTIES
  WorkersDrain

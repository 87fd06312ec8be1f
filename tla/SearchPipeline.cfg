\* Early stop or not, with and without a budget of two runs; systems whose executions
\* pass, fail, throw, or pass at one time and fail at another.
SPECIFICATION SearchSpec
CONSTANTS
  MaxPerturbation = 2
  MaxScenarios = 3
  Costs = {1}
  Concurrency = {1, 2}
  MaxRuns = {{}, {2}}
  MaxEstimatedCost = {{}}
  Outcomes = {"pass", "fail", "reject"}
  AnswerSets = {{"pass"}, {"fail"}, {"reject"}, {"pass", "fail"}}
INVARIANTS
  StrictPassMeansExplored
  ArtifactIsFirstFailure

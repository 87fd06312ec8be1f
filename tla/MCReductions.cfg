SPECIFICATION MCSpec
CONSTANTS
  MaxSize = 3
  VerdictSets <- FlakyVerdicts
  MaxRounds = 2
  WorkloadSize = 4
  MaxFaults = 2
  Commands = {1, 2, 3, 4}
  Systems <- SmallSystems
  Needs <- NeedsOf
INVARIANTS
  ReportedSetIsOneMinimal
  JointlyOneMinimal
PROPERTIES
  MinimizationEnds
  ImplementsReduction

SPECIFICATION MCSpec
CONSTANTS
  Actors = 3
  MaxPoints = 2
  Schedules <- ShortSchedules
  Blocking = {0, 1}
INVARIANTS
  ReleasedSegmentsAreAtomic
  UndivergedRunFollowsPlan
  CompleteMeansEveryOrder
PROPERTIES
  RunEnds

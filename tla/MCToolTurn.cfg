SPECIFICATION Spec
CONSTANTS
  MaxIterations = 2
  Workers = 2
  MaxCalls = 3
  MaxTurns = 2
  MaxAhead = 1
  MaxJobs = 3
INVARIANTS OwnResults QuietAfterAnswer UnwantedOnlyByMixUp
PROPERTY TurnEnds
CHECK_DEADLOCK FALSE

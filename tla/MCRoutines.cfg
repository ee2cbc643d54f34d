SPECIFICATION Spec
CONSTANTS
  Processes <- SomeProcesses
  Files = {1, 2}
  Containers = {1}
  Protected = {2}
  Names = {1, 2}
  Lower <- LowerCase
  Defaults = {1}
  DefaultScript <- TheScript
  Scripts <- SomeScripts
  Calls <- SomeCalls
  Workers = {1, 2}
  Bypass = FALSE
  MaxTools = 2
  MaxEdits = 2
  MaxCrashes = 1
INVARIANTS FileFollowsMemory CreatedIsKept AnswersHold
PROPERTIES MissedOnlyMidSave NothingLostUnasked
CHECK_DEADLOCK FALSE

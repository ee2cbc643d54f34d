SPECIFICATION Spec
CONSTANTS
  Processes <- SomeProcesses
  Files = {1, 2}
  Containers = {1}
  Protected = {2}
  Names = {1, 2}
  Lower <- LowerCase
  Defaults = {1}
  DefaultScript <- TheScript
  Scripts <- SomeScripts
  Calls <- SomeCalls
  Workers = {1, 2}
  Bypass = FALSE
  MaxTools = 0
  MaxEdits = 2
  MaxCrashes = 0
PROPERTY AlwaysConfirmed
CHECK_DEADLOCK FALSE

SPECIFICATION Spec
CONSTANTS
  People = {dad, mum, guest}
  Enrolled = {dad, mum}
  MaxMoves = 3
  MaxCommands = 2
  MaxFaults = 2
  MaxRestarts = 1
INVARIANT RowsTellAll
PROPERTY RoomReported
CHECK_DEADLOCK FALSE

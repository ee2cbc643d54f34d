SPECIFICATION LoopSpec
CONSTANTS
  l1 = l1
  l2 = l2
  l3 = l3
  l4 = l4
  l5 = l5
  l6 = l6
  Listeners <- MCListeners
  MaxUtterances = 2
  MaxTurns = 2
INVARIANTS TurnsAreDetected ReadyWhenWaiting
PROPERTY WakeAnswered
CHECK_DEADLOCK FALSE

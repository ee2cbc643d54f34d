SPECIFICATION Spec
CONSTANTS
  Typed = {p1, p2}
  Spoken = {v1}
  Workers = 2
  MaxHistory = 4
  MaxToolTurns = 2
  MaxCalls = 2
INVARIANTS OrbIdleWhenQuiet AnswerAfterQuestion WholeExchanges
PROPERTY PromptAnswered

CHECK_DEADLOCK FALSE

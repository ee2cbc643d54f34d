SPECIFICATION MCSpec
CONSTANTS
  Requests = {r1}
  StartUp = start
  Callers = {c1}
  MaxRetries = 3
  Ttl = 2
  MaxTime = 2
  MaxFlips = 2
  MaxFaults = 1
INVARIANTS HealthAnswersFresh
PROPERTIES EveryTurnAnswers WatchersSettle

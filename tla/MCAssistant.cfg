SPECIFICATION AssistantSpec
CONSTANTS
  Lines <- SomeLines
  MaxResults = 2
  HistoryLength = 2
  MaxExchanges = 3
INVARIANTS StateFollowsRequests HelpIsTrue
PROPERTIES CommandsBypassMemory OnlyRepeatsAreStale
CHECK_DEADLOCK FALSE

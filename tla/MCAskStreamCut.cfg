SPECIFICATION Spec
CONSTANTS
  q1 = q1  q2 = q2
  Request = {q1}
  MaxTokens = 2
  HighWater = 2
  PoolSize = 1
  Searches = 0
  Nobody = nobody
INVARIANT EndsWithTerminal
CHECK_DEADLOCK FALSE

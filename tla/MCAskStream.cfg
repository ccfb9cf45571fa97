SPECIFICATION FairSpec
CONSTANTS
  q1 = q1  q2 = q2
  Request = {q1, q2}
  MaxTokens = 2
  HighWater = 2
  PoolSize = 2
  Searches = 1
  Nobody = nobody
INVARIANTS TypeOK EventOrder CompleteIsComplete TextOfThisQuestion
PROPERTIES PageSettles TaskEnds PoolRefills
CHECK_DEADLOCK FALSE

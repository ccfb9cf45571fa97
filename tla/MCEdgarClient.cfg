SPECIFICATION Spec
CONSTANTS
  MinInterval = 3
  Second = 8
  Limit = 3
  MaxAttempts = 5
  MaxWait = 4
  MaxRedirects = 1
INVARIANTS TypeOK AttemptsAlmostWithinLimit

SPECIFICATION FairSpec
CONSTANTS
  r1 = r1  r2 = r2  r3 = r3  ask = ask  search = search
  Request = {r1, r2, r3}
  Source = {ask, search}
  SourceOf <- MCSourceOf
  Limit <- MCLimit
  WindowLength = 2
  MaxClock = 4
  MaxOutages = 1
  Never = never
INVARIANTS TypeOK LifeLimit LimitedWithCause OrphanHasCause
PROPERTIES KeyOutlivesWindow EveryRequestAnswered
CHECK_DEADLOCK FALSE

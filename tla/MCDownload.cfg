SPECIFICATION Spec
CONSTANTS
  g1 = g1  g2 = g2  g3 = g3  g4 = g4  n1 = n1
  Submissions <- MCSubmissions
  Orders <- MCOrders
  MaxRuns = 3
INVARIANTS TypeOK PairedUnlessCut OrderFulfilled
CHECK_DEADLOCK FALSE

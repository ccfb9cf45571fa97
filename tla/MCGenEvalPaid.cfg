SPECIFICATION Spec
CONSTANTS
  g1 = g1  g2 = g2
  Golden <- MCGolden
  Answerable = {g1}
  Config = {rerank, plain}
  Name = {n1, n2}
  MaxRuns = 2
  Torn = torn
  NoAnswer = noanswer
INVARIANT NeverPaidTwice
CHECK_DEADLOCK FALSE

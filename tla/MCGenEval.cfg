SPECIFICATION GateSpec
CONSTANTS
  g1 = g1  g2 = g2
  Golden <- MCGolden
  Answerable = {g1}
  Config = {rerank, plain}
  Name = {n1, n2}
  MaxRuns = 5
  Torn = torn
  NoAnswer = noanswer
INVARIANTS TypeOK ResultsComplete
PROPERTIES RowsSurvive RecordedIsNotPaidAgain MixedHasCause RunEnds GateTurnsWithCause
CHECK_DEADLOCK FALSE

SPECIFICATION PageSpec
CONSTANTS
  MaxHeadingLen = 12
  TargetTokens = 8
  MaxTokens = 10
  MinMergeTokens = 2
  MergeSlack = 2
  Pages <- MCPages
  Text <- MCText
INVARIANTS TextKept SectionsByRecords ChunksKeepText SizesHaveCause
CHECK_DEADLOCK FALSE

SPECIFICATION Spec
CONSTANTS
  f1 = f1  f2 = f2
  p1 = p1  p2 = p2  p3 = p3
  Filing = {f1, f2}
  Proc = {p1, p2}
  Forced = {}
  DraftCounts = {0, 1}
  SlotOf <- MCSlotOf
  Rank <- MCRank
  Earlier = earlier
  NoFiling = nofiling
PROPERTIES OnlyForceReplaces
CHECK_DEADLOCK FALSE

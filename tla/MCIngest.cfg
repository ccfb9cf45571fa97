SPECIFICATION FairSpec
CONSTANTS
  f1 = f1  f2 = f2
  p1 = p1  p2 = p2  p3 = p3
  Filing = {f1, f2}
  Proc = {p1, p2, p3}
  Forced = {p2, p3}
  DraftCounts = {0, 2}
  SlotOf <- MCSlotOf
  Rank <- MCRank
  Earlier = earlier
  NoFiling = nofiling
INVARIANTS TypeOK WholeVersions DoneMeansStored
PROPERTIES StoredIsKept CorpusSpec StartedEnds
CHECK_DEADLOCK FALSE

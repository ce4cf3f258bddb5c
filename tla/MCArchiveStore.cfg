SPECIFICATION FairSpec
CONSTANTS
  a1 = a1 a2 = a2 a3 = a3 a4 = a4 f3 = f3 f4 = f4 f5 = f5
  Blocks <- MCBlocks
  Height <- MCHeight
  Parent <- MCParent
  Absent = Absent
  Torn = Torn
  NoBlock = NoBlock
  Tries = 8
  MaxRuns = 3
INVARIANTS ChainKept
PROPERTIES StoredKept WalkEnds
CHECK_DEADLOCK FALSE

SPECIFICATION BoxSpec
CONSTANTS
  t1 = t1 t2 = t2 t3 = t3
  b1 = b1 b2 = b2 b3 = b3
  e1 = e1 s1 = s1 s2 = s2
  Tips = {t1, t2, t3}
  Height <- MCHeight
  Chain <- MCChain
  Epoch <- MCEpoch
  Snarked <- MCSnarked
  Nobody = Nobody
  Absent = Absent
  Torn = Torn
  NoTip = NoTip
  MaxRuns = 3
INVARIANTS TypeOK Replayable TornByStop ProofsMissing  TestsJudge
PROPERTIES BlocksKept
CHECK_DEADLOCK FALSE

SPECIFICATION FairSpec
CONSTANTS
  OutIds = {0, 1}
  MaxInbound = 1
  MaxOpens = 2
  MaxSends = 2
  MaxRefused = 1
  MaxMail = 1
INVARIANTS TypeOK IdAccounting IdsAreWaiting CommandsInOrder
PROPERTIES NoStarvation
CHECK_DEADLOCK FALSE

SPECIFICATION Spec
CONSTANTS
  OutIds = {0, 1}
  MaxInbound = 0
  MaxOpens = 1
  MaxSends = 1
  MaxRefused = 0
  MaxMail = 0
PROPERTIES NoTakeover
CHECK_DEADLOCK FALSE

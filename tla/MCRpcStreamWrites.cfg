SPECIFICATION FairSpec
CONSTANTS
  Header = 1
  InitialSize = 2
  PayloadLens = {1}
  Kinds = {"handshake", "menuQuery"}
  MaxSends = 2
  MaxAdds = 1
  MaxReopens = 1
  Credits = {1}
  LocalLen = 1
  Truncates = TRUE
INVARIANTS WritesInOrder MisframedOnlyByReopen
PROPERTIES QueueDrains 
CHECK_DEADLOCK FALSE

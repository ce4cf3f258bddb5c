SPECIFICATION Spec
CONSTANTS
  Header = 1
  InitialSize = 4
  PayloadLens = {2, 3, 6}
  Kinds = {"query", "heartbeat", "garbage"}
  MaxSends = 2
  MaxAdds = 0
  MaxReopens = 1
  Credits = {8}
  LocalLen = 6
  Truncates = FALSE
INVARIANTS TypeOK RoomToRead StallOnlyAtBoundary
PROPERTIES CapStep PipeSpec
CHECK_DEADLOCK FALSE

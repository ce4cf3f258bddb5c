SPECIFICATION Spec
CONSTANTS
  Depth = 4
  Batch = 2
  ByteBits = 2
  Ledgers <- MCLedgers
  None = None
  MaxRelays = 1
INVARIANTS OthersFetched SyncedIsWanted NoPanic
CHECK_DEADLOCK FALSE

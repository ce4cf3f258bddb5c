SPECIFICATION Spec
CONSTANTS
  Peers = {p1, p2}
  Conns = {c1, c2, c3}
  NoConn = NoConn
  InboxSize = 1
  MaxCommands = 3
  MaxEvents = 1
SYMMETRY Symmetry
INVARIANTS TypeOK PeersAreConnected ConnectionOrder OnePlace PendingMeansAway EventOrder
CHECK_DEADLOCK FALSE

SPECIFICATION Spec
CONSTANTS
  Peers = {p1, p2}
  Conns = {c1, c2}
  NoConn = NoConn
  NoPeer = NoPeer
  InboxSize = 1
  MaxCommands = 6
  MaxEvents = 12
  MaxCalls = 2
  MaxRemote = 2
SYMMETRY Symmetry
 
PROPERTIES AnswersOwnQuery
CHECK_DEADLOCK FALSE

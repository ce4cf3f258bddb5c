SPECIFICATION FairSpec
CONSTANTS
  Peers = {p1}
  Conns = {c1, c2}
  NoConn = NoConn
  NoPeer = NoPeer
  InboxSize = 1
  MaxCommands = 4
  MaxEvents = 12
  MaxCalls = 1
  MaxRemote = 1
PROPERTIES RpcReturns RemotesAnswered
CHECK_DEADLOCK FALSE

SPECIFICATION FairSpec
CONSTANTS
  Peers = {1, 2}
  Conns = {1, 2}
  NoConn = NoConn
  InboxSize = 1
  MaxCommands = 2
  MaxEvents = 2
  MaxStreams = 1
INVARIANTS AnswersHome
PROPERTIES QueriesAnswered CommandsSettle
CHECK_DEADLOCK FALSE

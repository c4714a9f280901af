SPECIFICATION SumSpec
CONSTANTS
  MaxPushes = 2
  MaxFiles = 2
  MaxDeinits = 1
  MaxConn = 2
  MaxRestarts = 1
  MaxFd = 4
  MaxNames = 3
  MaxConnections = 4
  MaxBacklog = 2
  MaxFaults = 1
  MaxConnects = 3
CHECK_DEADLOCK FALSE
INVARIANT SumTypeOK
INVARIANT RequestFindsNoTransfer
INVARIANT WatchedAreOpen
INVARIANT SocketsAreFound
INVARIANT EventTellsItsConnect
INVARIANT PortsAreHeld
PROPERTY TransfersEnd
PROPERTY AgentGoes

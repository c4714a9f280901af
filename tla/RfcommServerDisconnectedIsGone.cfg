SPECIFICATION Spec
CONSTANTS
  MaxConn = 1
  MaxFd = 4
  MaxNames = 2
  MaxRestarts = 0
  MaxConnections = 3
  MaxBacklog = 2
  MaxFaults = 0
CHECK_DEADLOCK FALSE
PROPERTY DisconnectedIsGone

SPECIFICATION PowerSpec
CONSTANTS
  MaxRequests = 2
  MaxDestroyTimers = 1
  MaxFaults = 1
  MaxInbox = 4
INVARIANT LibAgreesWhenQuiet
INVARIANT AgentAgreesWhenQuiet
PROPERTY DaemonSettles

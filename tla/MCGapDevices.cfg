SPECIFICATION SumSpec
CONSTANTS
  headset = headset
  phone = phone
  Device <- MCDevice
  Headsets <- MCHeadsets
  NoDevice = NoDevice
  MaxCalls = 3
  MaxInbox = 2
  Overlap = FALSE
  MaxSignals = 3
  MaxResTimers = 2
  MaxLeaked = 1
  Proc = {app, other}
  Setter = app
  MaxSets = 3
  MaxFailures = 1
  MaxWaiting = 3
CHECK_DEADLOCK FALSE
INVARIANT SumTypeOK
INVARIANT TimerHasRequest
INVARIANT RunningDiscoveryIsKnown
INVARIANT ReportIsTrue
INVARIANT TimeLeftRuns
PROPERTY RequestEnds
PROPERTY FinishedIsTrue
PROPERTY SeenEndIsReported

SPECIFICATION SumSpec
CONSTANTS
  Device = {d1, d2}
  MaxSearches = 2
  MaxChanges = 2
  Proc = {p1, p2}
  MaxAudioChanges = 4
  MaxConnects = 1
  MaxAudioSessions = 1
  MaxHidRequests = 3
  MaxHidSessions = 2
  MaxAdapters = 2
  MaxNetworkRequests = 2
  MaxNetworkChanges = 2
  App = {a1, a2}
  Path = {c1, c2}
  MaxConnections = 2
  MaxFds = 2
  MaxActivations = 3
  Contact = {1, 2}
  CallType <- MCCallType
  MaxHandle = 2
  MaxContactChanges = 3
SYMMETRY Symmetry
CHECK_DEADLOCK FALSE
INVARIANT FlagHasCall
INVARIANT HeadsetFollows
INVARIANT FailureOfThisSession
INVARIANT NetworkIsTold
INVARIANT ChannelsAreTold
INVARIANT ListingIsKept

SPECIFICATION SumSpec
CONSTANTS
  Levels = {4, 20, 99, 100}
  MaxChanges = 3
  MaxCall = 1
  MaxHeadset = 1
  MaxOps = 3
  MaxRequests = 1
  MaxRestarts = 1
CHECK_DEADLOCK FALSE
INVARIANT StatusFollows
INVARIANT CountIsExplained
INVARIANT HeadsetStateFollows
PROPERTY HeadsetAnswered

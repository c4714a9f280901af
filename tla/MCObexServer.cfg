SPECIFICATION Spec
CONSTANTS
  MaxPushes = 3
  MaxInits = 2
  MaxRestarts = 1
INVARIANT AnswersReachTheirPush
INVARIANT OnePermissionOnePush
INVARIANT TransfersAreThoseOfObexd
CHECK_DEADLOCK FALSE

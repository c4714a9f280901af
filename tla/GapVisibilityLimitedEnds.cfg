SPECIFICATION Spec
CONSTANTS
  Proc = {app, other}
  Setter = app
  MaxSets = 2
  MaxFailures = 0
  MaxInbox = 3
CHECK_DEADLOCK FALSE
PROPERTY LimitedEnds

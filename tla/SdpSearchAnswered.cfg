SPECIFICATION Spec
CONSTANTS
  Device = {d1, d2}
  MaxSearches = 1
  MaxChanges = 0
CHECK_DEADLOCK FALSE
PROPERTY SearchAnswered

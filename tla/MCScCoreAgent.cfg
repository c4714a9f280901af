SPECIFICATION Spec
CONSTANTS
  headset = headset
  keyboard = keyboard
  Device <- MCDevice
  Headsets <- MCHeadsets
  Keyboards <- MCKeyboards
  NoDevice = NoDevice
  MaxRequests = 3
CHECK_DEADLOCK FALSE
INVARIANT SlotHoldsOpenCall
INVARIANT BluezAnsweredOnce
INVARIANT RequestIsHeld

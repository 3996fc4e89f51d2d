\* Option -J with -v on a machine whose host bridge has no physical slot.
SPECIFICATION Spec
CONSTANTS
  Domains = {0}
  Buses = {0, 1, 2}
  Slots = {0, 1, 2, 3}
  Word = 16
  Slotted = {}
  HostDev = TRUE
  LastBus = 2
  MaxDev = 1
  MaxFunc = 1
  Hardware <- OneMachine
  Unstable = {}
  Listings = {}
PROPERTY ClimbsReturn
CHECK_DEADLOCK FALSE

\* Every way to populate six addresses, and listings of two domains.
SPECIFICATION Spec
CONSTANTS
  Domains = {0, 1}
  Buses = {0, 1, 2}
  Slots = {0, 1, 2, 3}
  Word = 16
  Slotted = {}
  HostDev = FALSE
  LastBus = 2
  MaxDev = 1
  MaxFunc = 1
  Hardware <- AllHardware
  Unstable <- Changing
  Listings <- SomeListings
INVARIANTS LoopsCutOff ScanComplete TreeRight
PROPERTIES TreeIsShown ClimbsReturn
CHECK_DEADLOCK FALSE

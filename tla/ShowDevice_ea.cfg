\* The same, where an entry of Enhanced Allocation may be cleared.
SPECIFICATION Spec
CONSTANTS
  Reachable = {64, 256, 384}
  Doublings = 4
  Entries <- AnyEntries
  MaxRepeat = 2
  StdPointers = {64, 252}
  ExtPointers = {256, 380}
  SpaceEnd = 384
  Verbosities = {0, 1, 2}
  MaxDecoded = 2
INVARIANT NoInternalBug
CHECK_DEADLOCK FALSE

\* Functions of 64, 256 or 384 readable bytes with two capabilities of interest.
SPECIFICATION FairSpec
CONSTANTS
  Reachable = {64, 256, 384}
  Doublings = 4
  Entries <- GoodEntries
  MaxRepeat = 2
  StdPointers = {64, 252}
  ExtPointers = {256, 380}
  SpaceEnd = 384
  Verbosities = {0, 1, 2}
  MaxDecoded = 2
INVARIANTS TypeOK BufferOK NoInternalBug
PROPERTY ShowEnds
CHECK_DEADLOCK FALSE

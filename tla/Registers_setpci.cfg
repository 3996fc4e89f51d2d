\* A client of libpci that reads and writes through its cache, and setpci with
\* every combination of options and operations of the instance.
SPECIFICATION Spec
CONSTANTS
  Functions <- SomeFunctions
  Positions <- SomePositions
  Handles <- Clients
  CacheLens <- Lengths
  Accesses <- SomeAccesses
  Fills <- SomeFills
  Parameters <- Defaults
  Sane <- Bridges
  Order <- ListOrder
  Identity <- SomeIdentity
  Capabilities <- SomeCapabilities
  Initial <- Contents
INVARIANTS DumpRight  DoneAsAsked
PROPERTIES ClientIsRaw ParsedBeforeWritten
CHECK_DEADLOCK FALSE

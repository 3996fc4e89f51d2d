\* A client that asks the DNS, skipping pci.ids, in some of its calls only.
SPECIFICATION FairSpec
CONSTANTS
  k1 = k1
  k2 = k2
  k3 = k3
  Procs = {a}
  first = b
  second = c
  Keys = {k1, k2}
  NONE = NONE
  NoFile = NoFile
  EMPTY = EMPTY
  LocalName = LocalName
  HwdbName = HwdbName
  NetNames = {n1}
  Local = {k2}
  Hwdb = {k2}
  Modes <- DefaultOnly
  Extras <- MixedExtras
  Requests <- Pair
  Readable = TRUE
  IoErrors = FALSE
  Kills = FALSE
PROPERTY LookupsReturn
CHECK_DEADLOCK FALSE

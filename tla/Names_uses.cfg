\* Processes that run one after the other with the options of lspci, or choose
\* sources call by call, alone or in pairs; any may be killed.
SPECIFICATION Uses
CONSTANTS
  k1 = k1
  k2 = k2
  k3 = k3
  Procs = {a}
  first = b
  second = c
  Keys = {k1, k2, k3}
  NONE = NONE
  NoFile = NoFile
  EMPTY = EMPTY
  LocalName = LocalName
  HwdbName = HwdbName
  NetNames = {n1}
  Local = {k2}
  Hwdb = {k2, k3}
  Modes <- LspciModes
  Extras <- NoExtras
  Requests <- Chains
  Readable = TRUE
  IoErrors = FALSE
  Kills = TRUE
INVARIANTS AnswersRight CacheFileRight SessionAskedOnce
PROPERTIES SessionCachedStays UsesReturn
CHECK_DEADLOCK FALSE

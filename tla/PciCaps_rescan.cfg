\* A client rescans a device whose capabilities it knows.
SPECIFICATION Spec
CONSTANTS
  Cells = {c1, c2, c3, c4, c5}
  NULL = NULL
  exp = exp
  msi = msi
  ff = ff
  TradAddr <- Trad
  ExtAddr <- Ext1
  ExtBase = 256
  CapIds <- Ids
  ExpId = exp
  BadId = ff
  Fields <- SomeFields
  Supported <- SomeSupported
  Requests <- RescanRequests
  Queries <- NoQueries
  Configs <- FewConfigs
  Volatile <- NoConfigs
SYMMETRY CellSymmetry
INVARIANT LastCapInList
CHECK_DEADLOCK FALSE

\* Quiet hardware with every configuration space, whose clients search the list
\* of capabilities, and hardware that changes at any time; memory may run out.
SPECIFICATION FairSpec
CONSTANTS
  Cells = {c1, c2, c3}
  NULL = NULL
  exp = exp
  msi = msi
  ff = ff
  TradAddr <- Trad
  ExtAddr <- Ext1
  ExtBase = 256
  CapIds <- Ids
  ExpId = exp
  BadId = ff
  Fields <- SomeFields
  Supported <- SomeSupported
  Requests <- PlainRequests
  Queries <- SomeQueries
  Configs <- QuietAndFew
  Volatile <- FewConfigs
INVARIANTS TypeOK ListOK KnownIsTrue
PROPERTIES CapsStay CallsReturn
CHECK_DEADLOCK FALSE

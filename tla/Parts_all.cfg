\* The parts that do not interact, one at a time.
SPECIFICATION Spec
CONSTANTS
  CommandLines <- Lines
  Visitors <- SomeVisitors
  ShowOrders <- SomeOrders
  Lookups <- SomeLookups
  MapFiles <- SomeFiles
  ConfigOf <- SomeConfigs
  Mask = 16
  BufSize = 4
  ItemLengths <- SomeLengths
  Listed <- SomeListed
  Loose <- SomeLoose
  AddressOf <- SomeAddresses
  SlotLists <- SomeSlots
  FileLists <- SomeFileLists
  FillRequests <- SomeRequests
  Trees <- SomeTrees
  Contents <- SomeContents
  Fits <- NameFits
  Fresh <- SomeAnswers
  Wide <- LongVersions
  Chains <- SomeChains
  Lists <- SomeLists
  Structures <- SomeStructs
  Firmwares <- SomeFirmwares
  DevOrder <- SomeDevices
  Bridged <- SomeMachines
  GeoId <- Geo
  Hex <- SomeHex
  Sessions <- SomeSessions
  Subjects <- SomeSubjects
  Replies <- SomeReplies
INVARIANTS FiltersRight ModulesAreOwn VpdInside ChecksumCovers BasesRight
INVARIANTS VersionsRight FreedOnce SlotsRight NamesRight NetNameRight
PROPERTIES VpdEnds StringsRight
CHECK_DEADLOCK FALSE

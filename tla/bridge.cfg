SPECIFICATION FairBridgeSpec
CONSTANTS
  RetryLimits <- Limits
  NSubs = 2
  NBatches = 2
  NItems = 2
  MaxSessions = 2
  MaxFailures = 2
  NEndpoints = 2
  MaxTicks = 1
  U32Max = 1000
  NodeIds <- Parsed
  Identifiers <- Tables
  SocketAddresses <- Addresses
  NamedFiles <- Files
  Configs <- AllConfigs
  MysqlUrls <- Urls
  BufferPaths <- Paths
  OpcUaEndpoints <- Endpoints
  DescriptionMaps <- Maps
  HttpUrls <- Requests
  HttpHeaders <- Headers
  MaxCapacity <- Capacity
INVARIANTS MonitorsAllButRefused OneCompleteSession RoundsAreWhole EndsForAReason OnlyOpaqueValuesFail NobodyOffersToAStoppedSink
PROPERTIES SignalEndsTheProcess StopsUnlessUnreachable
CHECK_DEADLOCK FALSE

SPECIFICATION Spec
CONSTANTS
  NSamples = 4
  Tables <- TwoTables
  TableOf <- Mixed
  Rejected = {}
  BatchSize = 2
  ChannelCap = 2
  BufferCap = 2
  MaxFaults <- OneOfEach
INVARIANTS Accounted DuplicatesNeedFaults RealtimeFollowsHistory BufferBounded ReplayKeepsOrder
PROPERTIES DurableUntilStored StopLosesOnlyLateArrivals ImplementsDelivery
CHECK_DEADLOCK FALSE

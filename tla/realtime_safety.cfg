SPECIFICATION RealtimeSpec
CONSTANTS
  NSamples = 4
  Tables <- TwoTables
  TableOf <- TagTables
  Rejected = {}
  BatchSize = 2
  ChannelCap = 2
  BufferCap = 4
  MaxFaults <- OneOfEach
  NodeOf <- Tags
  TsOf <- Spread
  AlarmOf <- Alarms
INVARIANTS NewestShown CountOfFaults
CHECK_DEADLOCK FALSE

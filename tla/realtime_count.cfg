SPECIFICATION RealtimeSpec
CONSTANTS
  NSamples = 4
  Tables <- TwoTables
  TableOf <- TagTables
  Rejected = {}
  BatchSize = 2
  ChannelCap = 2
  BufferCap = 4
  MaxFaults <- OneOutage
  NodeOf <- Tags
  TsOf <- Spread
  AlarmOf <- Alarms
INVARIANTS CountsEveryFault
CHECK_DEADLOCK FALSE

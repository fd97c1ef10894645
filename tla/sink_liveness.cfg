SPECIFICATION FairSpec
CONSTANTS
  NSamples = 5
  Tables <- TwoTables
  TableOf <- Mixed
  Rejected = {2, 4}
  BatchSize = 2
  ChannelCap = 2
  BufferCap = 3
  MaxFaults <- NoCrash
PROPERTIES EventuallyStored BufferedEventuallyReplayed ShutdownCompletes
CHECK_DEADLOCK FALSE

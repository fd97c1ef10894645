SPECIFICATION FairSpec
CONSTANTS
  Session = {"event", "operator"}
  NTables = 2
  Row <- Rows
  TableOf <- Tables
  MonthOf <- Months
  FaultRow <- Faulty
  GroupOf <- Groups
  Late <- LateRows
  BatchSize = 1
  LastMonth = 2
  MaxCalls = 1
  MaxFaults = 1
INVARIANTS KeptUnlessLate CompletedMeansMoved CountCatchesLateRows StatsAgree NothingMissed FoundOnce
PROPERTIES RefreshSeesEverything EventuallyArchived
CHECK_DEADLOCK FALSE

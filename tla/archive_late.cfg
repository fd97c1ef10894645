SPECIFICATION Spec
CONSTANTS
  Session = {"event", "operator"}
  NTables = 2
  Row <- Rows
  TableOf <- Tables
  MonthOf <- Months
  FaultRow <- Faulty
  GroupOf <- Groups
  Late <- LateRows
  BatchSize = 1
  LastMonth = 2
  MaxCalls = 0
  MaxFaults = 0
PROPERTIES DeletesOnlyCopied
CHECK_DEADLOCK FALSE

SPECIFICATION FairSpec
CONSTANTS
  s1 = s1
  s2 = s2
  s3 = s3
  Session <- TwoSessions
  NEvents = 3
  PointOf <- Points
  TimeOf <- Times
  ActiveOf <- Actives
  Mappable = {1, 2}
  BatchSize = 2
  MaxAttempts = 2
  MaxSubmits = 1
  MaxFaults <- OneCrash
PROPERTIES EventuallySettled
CHECK_DEADLOCK FALSE

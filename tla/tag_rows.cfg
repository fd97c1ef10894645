SPECIFICATION RowsSpec
CONSTANTS
  Tags <- AllTags
  Changes <- AllChanges
  MaxStarts = 2
INVARIANTS ReportsTheTable DescribedByFirstSource RowFollowsConfiguration FieldsAsDocumented
CHECK_DEADLOCK FALSE

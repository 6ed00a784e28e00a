SPECIFICATION Spec
CONSTANTS
  Absent = Absent
  NullKey = NullKey
  Nested = Nested
  Pipelines <- MCPipelines
  Scheduled = {"feed", "audit"}
  Asset <- MCAsset
  Merging = {"feed", "correct", "audit"}
  Databases <- MCDatabases
  Present = {}
  Store <- MCStore
  Values <- MCValues
  Unfit <- MCUnfit
  Batches <- MCBatches
  Before <- MCBefore
  MaxStarts <- MCStarts
INVARIANTS Whole NoneLost SerialUnlessOutlived
PROPERTIES RefusedForCause
CHECK_DEADLOCK FALSE

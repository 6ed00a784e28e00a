SPECIFICATION FairSpec
CONSTANTS
  NoValue = NoValue
  NullKey = NullKey
  Tasks <- DiamondTasks
  Ingest = {"r1", "r2"}
  Outputs = {"write"}
  Once = {"write"}
  Inputs <- DiamondInputs
  Deps <- DiamondDeps
  Values <- MCValues
  Apply <- MCApply
  Fits <- MCFits
  Rejects <- MCRejects
  Alarms <- MCAlarms
  Store <- MCStore
  Base <- MCBase
  SourceTables <- LongTables
  Retries <- MCRetries
  MaxRetries = 1
  Retried = {"write"}
  Concurrency = 2
  Mode = "upsert"
  First <- OldRows
  Disturbances = {"crash", "lost", "authority"}
INVARIANTS UpstreamFirst SuccessIsTotal EffectOnce
PROPERTIES RunEnds
CHECK_DEADLOCK FALSE

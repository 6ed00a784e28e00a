SPECIFICATION Spec
CONSTANTS
  NoValue = NoValue
  NullKey = NullKey
  Tasks <- ChainTasks
  Ingest = {"read"}
  Outputs = {"write"}
  Once = {"write"}
  Inputs <- ChainInputs
  Deps <- ChainInputs
  Order <- ChainOrder
  Values <- MCValues
  Apply <- MCApplyAt
  Fits <- MCFits
  Rejects <- MCRejectsAt
  Window <- MCWindow
  Clocks = {2}
  Store <- MCStore
  Base <- MCBase
  SourceTables <- GateTables
  Mode = "upsert"
  First = NoValue
  Policies = {"success", "failure"}
  MaxRuns = 2
  Disturbances = {}
INVARIANTS RerunConverges
CHECK_DEADLOCK FALSE

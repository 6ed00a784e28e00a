SPECIFICATION Spec
CONSTANTS
  NoValue = NoValue
  NullKey = NullKey
  Tasks <- ChainTasks
  Ingest = {"read"}
  Outputs = {"write"}
  Once = {"write"}
  Inputs <- ChainInputs
  Deps <- ChainInputs
  Order <- ChainOrder
  Values <- MCValues
  Apply <- MCApplyAt
  Fits <- MCFits
  Rejects <- MCRejectsAt
  Window <- MCWindow
  Clocks = {2, 3, 4}
  Store <- MCStore
  Base <- MCBase
  SourceTables <- DayTables
  Mode = "upsert"
  First <- LateRows
  Policies = {"success", "failure"}
  MaxRuns = 3
  Disturbances = {"source", "crash", "io", "late"}
INVARIANTS RecordTruth RecordMatchesDisk EventsAgree RerunConverges
PROPERTIES KeepsPromise
CHECK_DEADLOCK FALSE

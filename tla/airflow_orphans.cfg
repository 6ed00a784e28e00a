SPECIFICATION Spec
CONSTANTS
  NoValue = NoValue
  NullKey = NullKey
  Tasks <- ChainTasks
  Ingest = {"read"}
  Outputs = {"write"}
  Once = {"write"}
  Inputs <- ChainInputs
  Deps <- ChainInputs
  Values <- MCValues
  Apply <- MCApply
  Fits <- MCFits
  Rejects <- MCRejects
  Alarms <- MCAlarms
  Store <- MCStore
  Base <- MCBase
  SourceTables <- GateTables
  Retries <- MCRetries
  MaxRetries = 1
  Retried = {"read", "check"}
  Concurrency = 2
  Mode = "upsert"
  First <- OldRows
  Disturbances = {"source", "lost", "timeout"}
INVARIANTS TypeOK Provenance ArtifactStable EvidenceBound QuarantineBound
PROPERTIES KeepsPromise

SPECIFICATION Spec
CONSTANTS
  None = None
  NoSpec = NoSpec
  Commands <- MCCommands
  Paths <- MCPaths
  Dag <- MCDag
  Test <- MCTest
  Catalog <- MCCatalog
  Disks <- MCDisks
  Jobs <- MCJobs
INVARIANTS PairAgrees DagsWhole AnswersWhole ValidRuns GuardedEffects
CHECK_DEADLOCK FALSE

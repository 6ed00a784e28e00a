SPECIFICATION Spec
CONSTANTS
  Designs = {"draft", "normalized"}
  Normal <- MCNormal
  RetryLimit = 1
  Catalogs = {"plain", "external", "missing"}
  Valid <- MCValid
  Sensitive <- MCSensitive
  Life = 1
  None = None
  MaxClock = 1
  MaxCommands = 6
  MaxSigned = 2
INVARIANTS ActsAuthorised InstalledAuthorised ManifestProves
PROPERTIES RefusesForCause ProposalGrounded RepairAnswers
CHECK_DEADLOCK FALSE

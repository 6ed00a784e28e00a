SPECIFICATION Spec
CONSTANTS
  Names <- MCNames
  Gate <- MCGate
  Drafts <- MCDrafts
  Stacked = TRUE
INVARIANTS NoBypass
CHECK_DEADLOCK FALSE

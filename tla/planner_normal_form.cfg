SPECIFICATION Spec
CONSTANTS
  Names <- MCNames
  Gate <- MCGate
  Drafts <- MCDrafts
  Stacked = FALSE
INVARIANTS DraftRespected NoBypass NormalForm RefusedForCause
CHECK_DEADLOCK FALSE

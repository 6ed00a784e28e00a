SPECIFICATION Spec
CONSTANTS
  Gates = {"q_orders", "q_stock"}
  RulesOf <- MCRulesOf
  Tables <- MCTables
  Assets <- MCAssets
  Null = Null
  Threshold = 40
  Now = 4
  MaxTries = 2
  BadKeys = "bad_keys"
  BadDuplicates = "bad_duplicates"
  BadValues = "bad_values"
INVARIANTS NothingLost DownstreamClean EvidenceAccounts
CHECK_DEADLOCK FALSE

SPECIFICATION ContestedSpec
CONSTANTS
  a = a
  b = b
  c = c
  Server = {a, b, c}
  Nil = Nil
  log_compaction_enabled = FALSE
  MaxTerm = 3
  MaxLog = 3
  MaxCalls = 1
  MaxTimeoutNow = 1
  MaxRestarts = 0
CONSTRAINT BStandsToo
INVARIANTS ElectionPending ElectionSafety VoteInv

SPECIFICATION LaggingSpec
CONSTANTS
  a = a
  b = b
  c = c
  Server = {a, b, c}
  Nil = Nil
  log_compaction_enabled = TRUE
  MaxTerm = 3
  MaxLog = 6
  MaxCalls = 1
  MaxTimeoutNow = 0
  MaxRestarts = 1
CONSTRAINT NoCampaign
INVARIANTS CompactionAgrees

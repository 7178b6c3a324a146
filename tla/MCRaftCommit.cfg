SPECIFICATION TakeoverSpec
CONSTANTS
  a = a
  b = b
  c = c
  Server = {a, b, c}
  Nil = Nil
  log_compaction_enabled = FALSE
  MaxTerm = 3
  MaxLog = 5
  MaxCalls = 1
  MaxTimeoutNow = 0
  MaxRestarts = 0
CONSTRAINT NoCampaign
INVARIANTS CommittedOnQuorum

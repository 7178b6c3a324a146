SPECIFICATION ReelectedSpec
CONSTANTS
  a = a
  b = b
  c = c
  Server = {a, b}
  Nil = Nil
  log_compaction_enabled = TRUE
  MaxTerm = 4
  MaxLog = 4
  MaxCalls = 1
  MaxTimeoutNow = 0
  MaxRestarts = 0
PROPERTIES ReplicationProgress

SPECIFICATION Spec
CONSTANTS
  a = a
  b = b
  c = c
  Server = {a, b}
  Nil = Nil
  log_compaction_enabled = TRUE
  MaxTerm = 3
  MaxLog = 4
  MaxCalls = 1
  MaxTimeoutNow = 0
  MaxRestarts = 1
SYMMETRY Symmetry
INVARIANTS TypeOK CommittedOnQuorum CommitWithinLog
PROPERTIES LeaderAppendOnly VoteIsFinal

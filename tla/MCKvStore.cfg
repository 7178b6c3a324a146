SPECIFICATION Spec
CONSTANTS
  k = k
  m = m
  v = v
  v_hash = v_hash
  Key <- OneKey
  SetKey <- OneKey
  FirstWord <- OneWord
  Value <- Values
  ReadBack <- UpToHash
  Nil = Nil
  Session = {s, t}
  log_compaction_enabled = FALSE
  MaxLog = 2
  MaxRestarts = 1
  MaxTransfers = 1
SYMMETRY Symmetry
CONSTRAINT Explored
INVARIANTS TypeOK DatabaseIsReplay AnsweredIsApplied KvInv

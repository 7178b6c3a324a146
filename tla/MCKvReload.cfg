SPECIFICATION Spec
CONSTANTS
  k = k
  m = m
  v = v
  v_hash = v_hash
  Key <- PlainKeys
  SetKey <- PlainKeys
  FirstWord <- PlainWords
  Value <- Values
  ReadBack <- UpToHash
  Nil = Nil
  Session = {s}
  log_compaction_enabled = TRUE
  MaxLog = 2
  MaxRestarts = 1
  MaxTransfers = 0
CONSTRAINT NoStaleCommand
INVARIANTS DatabaseIsReplay

\* Appends, chops, drops, transfers, failed growth and restarts on a log of up to 3 entries.
SPECIFICATION Spec
CONSTANTS
  NoConfig = NoConfig
  Command = {x}
  Config = {a, b}
  SizeOf <- MCSizeOf
  PageSize = 4
  MaxIndex = 3
  MaxTerm = 2
  MaxBatch = 2
  MaxBatchConfigs = 1
SYMMETRY Symmetry
INVARIANTS
  TypeOK
  FileInv
  ReloadAgrees
  MarkerInMapping
  ChainInv
  ConfigInEffect
PROPERTY ImplementsLog

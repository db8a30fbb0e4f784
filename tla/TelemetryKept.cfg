SPECIFICATION FairLogSpec
CONSTANTS
  Finalizers = {f}
  Sweepers = {s, t}
  Ops = {"torn", "restore", "reindex", "overlap"}
  MaxRecords = 2
  MaxMishaps = 2
INVARIANTS RawLogKept LogSound
PROPERTY PutAway
CHECK_DEADLOCK FALSE

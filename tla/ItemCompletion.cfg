SPECIFICATION Spec
CONSTANTS
  p = p  q = q
  Procs = {p, q}
  Asked <- Commands
  Remote = TRUE
  Manifest = TRUE
  MaxWrites = 3
  MaxFaults = 1
INVARIANTS DoneIsAccounted DoneIsDurable

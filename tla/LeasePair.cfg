SPECIFICATION Spec
CONSTANTS
  Procs = {p1, p2}
  Past = Past
  Timely = FALSE
  Leftovers = {"lock", "lease"}
  MaxCalls = 1
  MaxFaults = 1
  NoProc = NoProc
  NoLock = NoLock
INVARIANTS TypeOK SoundUntilUsurped
PROPERTIES OwnLockOnly ImplementsAuthority
SYMMETRY Alike
CHECK_DEADLOCK FALSE

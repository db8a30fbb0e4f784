SPECIFICATION Spec
CONSTANTS
  Procs = {p1, p2}
  Paths = {a, b}
  Ignored = {b}
  Commands = {"transition", "complete", "flush", "retry"}
  MaxAttempts = 1
  MaxVersion = 2
  MaxFaults = 1
  NoProc = NoProc
  NoPath = NoPath
INVARIANT OutboxSound
PROPERTIES OnlySettledLeave StrangersUntouched KeepsThePromise DeadLettersKept
SYMMETRY Alike

SPECIFICATION FairSpec
CONSTANTS
  Procs = {p1, p2}
  Paths = {a, b}
  Ignored = {}
  Commands = {"transition", "flush", "gate", "clear", "git"}
  MaxAttempts = 2
  MaxVersion = 1
  MaxFaults = 0
  NoProc = NoProc
  NoPath = NoPath
PROPERTIES QueueDrains GatePassEarned

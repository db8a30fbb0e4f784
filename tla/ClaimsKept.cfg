SPECIFICATION Spec
CONSTANTS
  Sessions = {a, b}
  Procs = {p1, p2}
  Commands = {"start", "force", "complete", "block", "stale", "reconcile"}
  MaxTime = 6
  MaxFaults = 1
  NoSession = NoSession
  NoProc = NoProc
INVARIANTS ClaimsSound CaughtUp
PROPERTIES FirstRunClaimStands
SYMMETRY Alike
CHECK_DEADLOCK FALSE

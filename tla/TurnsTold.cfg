SPECIFICATION FairSpec
CONSTANTS
  Callers = {c1, c2}
  MaxTasks = 2
  Ops = {"clear", "exit", "lostHint", "concurrent"}
INVARIANT TurnsSound
PROPERTIES SettledOnTruth  AckIsOwnTurn WaitSettles
CHECK_DEADLOCK FALSE

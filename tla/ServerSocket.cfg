SPECIFICATION LiveSpec
CONSTANTS
  Procs = {p1, p2}
  Launchers = {c1, c2}
  Past = Past
  Timely = FALSE
  Signals = TRUE
  MaxFaults = 1
  NoProc = NoProc
INVARIANT ServerSound
PROPERTIES SocketKept DaemonsExit
CHECK_DEADLOCK FALSE

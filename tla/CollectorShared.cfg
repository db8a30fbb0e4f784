SPECIFICATION FairSpec
CONSTANTS
  Launchers = {l1, l2}
  Collectors <- Pids
  Ports = {p1, p2}
  Faults <- AllFaults
  MaxFaults = 2
  None = None
INVARIANT CollectorSound
PROPERTIES NotAbandoned LaunchersServed CollectorsLeave
CHECK_DEADLOCK FALSE

SPECIFICATION RowsSpec
CONSTANTS
  Clients = {c1, c2}
  Runs = {r1, r2, r3}
  Keys = {k1, k2, k3}
  Panes = {p1, p2, p3}
  MaxWorkers = 2
  Faults = {"die", "exit", "person", "refuse", "reuse"}
  MaxFaults = 1
  None = None
INVARIANTS RowsSound EndsFinished
PROPERTY NoneKilled
SYMMETRY Alike
CHECK_DEADLOCK FALSE

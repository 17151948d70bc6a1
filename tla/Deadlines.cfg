SPECIFICATION Spec
CONSTANTS
  Calls = {c1, c2}
  Dbs = {d1, d2}
  NoDb = NoDb
  Timeouts = {2, 4}
  Args = {1, 2, 8}
  MaxConns = 1
  Second = 2
  MaxInt = 7
  MaxDuration = 15
  probeTimeout = 3
  sessionSlack = 3
  toolTimeoutSlack = 6
  minToolTimeout = 9
  Pause = 1
  Horizon = 11
SYMMETRY Symmetry
INVARIANTS
  MiddlewareLast
  ProbePrompt
  TimeoutHonoured

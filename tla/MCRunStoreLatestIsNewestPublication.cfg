SPECIFICATION Spec
CONSTANTS
  Proc = {p1, p2}
  Runs = {c1, c2, c3}
  MaxRev = 2
  MaxFaults = 3
  NoProc = NoProc
  NoRun = NoRun
CHECK_DEADLOCK FALSE
INVARIANT LatestIsNewestPublication

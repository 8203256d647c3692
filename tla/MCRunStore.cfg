SPECIFICATION FairSpec
CONSTANTS
  Proc = {p1, p2}
  Runs = {c1, c2, c3}
  MaxRev = 3
  MaxFaults = 2
  NoProc = NoProc
  NoRun = NoRun
CHECK_DEADLOCK FALSE
INVARIANTS
  IInv
  RunsKeptOnce
  ShownRunIsTheStoredRun
PROPERTIES
  ReceiptsPermanent
  LatestOnlyAdvances
  SettledStaysPublished
  ImplementsLedger
  LockIsReleased

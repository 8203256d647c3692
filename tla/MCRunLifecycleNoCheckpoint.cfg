SPECIFICATION FairSpec
CONSTANTS
  Preparer = {p1}
  Host = {h1}
  Collections = {c1}
  TimedOut = {}
  Drafts = {good, bad, worse}
  Valid = {good}
  Renderable = {good}
  CrashPoints = {"config"}
  MaxFaults = 1
  None = None
CHECK_DEADLOCK FALSE
PROPERTY
  PreparedRunEnds

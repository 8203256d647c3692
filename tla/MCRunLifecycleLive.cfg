SPECIFICATION FairSpec
CONSTANTS
  Preparer = {p1}
  Host = {h1}
  Collections = {c1}
  TimedOut = {}
  Drafts = {good, mute, bad, worse}
  Valid = {good, mute}
  Renderable = {good}
  CrashPoints <- Resumable
  MaxFaults = 1
  None = None
CHECK_DEADLOCK FALSE
INVARIANTS
  TypeOK
PROPERTY
  PreparedRunEnds

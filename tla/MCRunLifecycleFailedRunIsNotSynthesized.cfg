SPECIFICATION Spec
CONSTANTS
  Preparer = {p1, p2}
  Host = {h1}
  Collections = {c1}
  TimedOut = {}
  Drafts = {good}
  Valid = {good}
  Renderable = {good}
  CrashPoints = {}
  MaxFaults = 0
  None = None
CHECK_DEADLOCK FALSE
INVARIANT
  FailedRunIsNotSynthesized

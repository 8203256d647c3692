SPECIFICATION Spec
CONSTANTS
  Preparer = {p1}
  Host = {h1, h2}
  Collections = {c1}
  TimedOut = {}
  Drafts = {good, bad, worse}
  Valid = {good}
  Renderable = {good}
  CrashPoints = {}
  MaxFaults = 0
  None = None
SYMMETRY Symmetry
CHECK_DEADLOCK FALSE
INVARIANTS
  AttemptsInOrder
PROPERTY
  FinalCheckpointIsFinal

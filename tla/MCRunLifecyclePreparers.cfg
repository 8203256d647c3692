SPECIFICATION Spec
CONSTANTS
  Preparer = {p1, p2}
  Host = {h1}
  Collections = {c1, c2}
  TimedOut = {c2}
  Drafts = {good}
  Valid = {good}
  Renderable = {good}
  CrashPoints = {"seal_freeze"}
  MaxFaults = 1
  None = None
SYMMETRY Symmetry
CHECK_DEADLOCK FALSE
INVARIANTS
  EvidenceFrozenOnce
  OneEvidence
  FailureIsNeverSynthesized
  PublicationMatchesRecord

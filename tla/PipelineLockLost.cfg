SPECIFICATION LockLossSpec
CONSTANTS
  Explicit = {}
  Detectable = {"hr"}
  Meetings = {1}
  Workers = {w1, w2}
  Handlers = {h1}
  ProgressMarks = {}
  MaxVersions = 2
SYMMETRY WorkerSymmetry
PROPERTY RetryResumesFailedStage

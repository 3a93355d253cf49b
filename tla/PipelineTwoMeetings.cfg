SPECIFICATION Spec
CONSTANTS
  Explicit = {}
  Detectable = {"hr"}
  Meetings = {1, 2}
  Workers = {w1, w2}
  Handlers = {h1}
  ProgressMarks = {}
  MaxVersions = 1
SYMMETRY WorkerSymmetry
INVARIANT OneWorkerPerMeeting
INVARIANT ClaimStaysValid

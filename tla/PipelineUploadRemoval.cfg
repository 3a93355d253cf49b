SPECIFICATION Spec
CONSTANTS
  Explicit = {"sr"}
  Detectable = {"hr"}
  Meetings = {1}
  Workers = {w1}
  Handlers = {h1}
  ProgressMarks = {}
  MaxVersions = 2
INVARIANT UploadRemovedWithStatus

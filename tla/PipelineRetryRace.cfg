SPECIFICATION Spec
CONSTANTS
  Explicit = {"sr"}
  Detectable = {"hr"}
  Meetings = {1}
  Workers = {w1}
  Handlers = {h1, h2}
  ProgressMarks = {40}
  MaxVersions = 2
PROPERTY RetryResumesFailedStage

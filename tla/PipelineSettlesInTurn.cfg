SPECIFICATION FairSpec
CONSTANTS
  Explicit = {}
  Detectable = {"hr"}
  Meetings = {1, 2}
  Workers = {w1}
  Handlers = {}
  ProgressMarks = {}
  MaxVersions = 2
PROPERTY EverythingSettles

SPECIFICATION FairSpec
CONSTANTS
  Explicit = {"sr", "en"}
  Detectable = {"en", "hr"}
  Meetings = {1}
  Workers = {w1, w2}
  Handlers = {h1}
  ProgressMarks = {40, 99}
  MaxVersions = 2
INVARIANT TypeOK
INVARIANT AudioIsNeverLost
INVARIANT StageHasItsInput
INVARIANT TranscriptMatchesLanguage
INVARIANT DoneIsComplete
INVARIANT CheckIsNeverViolated
PROPERTY RetryResumesFailedStage
PROPERTY VersionsAreKept
PROPERTY ImplementsLifecycle
PROPERTY EverythingSettles

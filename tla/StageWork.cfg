SPECIFICATION FairSpec
CONSTANTS
  MaxTime = 4
  Durations = {0, 3}
  MinDelta = 66
  MinWords = 2
  LongSegment = 2
  MaxSegments = 2
  GapTolerance = 1
  Turns <- MCTurns
  MaxTurns = 3
  Delays <- MCDelays
  Codes = {0, 200, 400, 401, 403, 404, 408, 429, 500, 503}
INVARIANTS
  TypeOK
  ProgressKeepsUp
  LongestSpeakerWins
  SpeakersAreStable
  GivesUpLate
PROPERTIES
  NormalizationKeepsAudio
  AnswerIsFinal
  WorkEnds
CHECK_DEADLOCK FALSE

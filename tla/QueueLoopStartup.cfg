SPECIFICATION CrashSpec
CONSTANTS
  Meetings = {m1, m2}
PROPERTY StartupPicksUp

SPECIFICATION FairSpec
CONSTANTS
  Meetings = {m1, m2, m3}
INVARIANT TypeOK
INVARIANT NoLostWakeup
PROPERTY QueueIsWorkedOff
PROPERTY StopEnds

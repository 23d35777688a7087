SPECIFICATION FairSpec
CONSTANTS
  s1 = s1
  s2 = s2
  c1 = c1
  NoEvent = NoEvent
  Events <- MCEvents
  Security <- MCSecurity
  Workers = {w1}
  BatchSize = 2
  ReadCount = 2
  MaxLen = 1
  MaxFaults = 2
  ColdStart = TRUE
  LogSockets = {TRUE, FALSE}
INVARIANTS ATypeOK OneRowPerPath TouchedIsRecorded
PROPERTIES AckedIsRecorded EventRecorded
CHECK_DEADLOCK FALSE

SPECIFICATION FairSpec
CONSTANTS
  Screen = {s0, s1}
  FirstScreen = s0
  QueueSize = 3
  Time = {5}
  StartTime = 5
  TimeSlop = 2
  MaxPosted = 5
PROPERTIES
  NeverOverwritten
  ImplementsStream
  Drains
CHECK_DEADLOCK FALSE

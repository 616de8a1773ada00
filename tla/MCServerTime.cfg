SPECIFICATION FairTimeSpec
CONSTANTS
  TimeAlarms = {a1, a2}
  TimeDeltas = {0, 2}
  MaxTime = 3
INVARIANTS
  NoOversleep
  AllChecked
PROPERTY GoesOff
CHECK_DEADLOCK FALSE

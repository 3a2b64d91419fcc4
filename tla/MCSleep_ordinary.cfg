CONSTANTS
  Sleeps <- Ordinary
  MaxElapsed = 8
SPECIFICATION SleepSpec
INVARIANT SleepsExactly
CHECK_DEADLOCK FALSE

SPECIFICATION RestartSpec
CONSTANTS
  Tests <- LateFebruary
  MaxTries = 2
CHECK_DEADLOCK FALSE
INVARIANTS
  FindsItsRestart

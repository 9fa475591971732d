SPECIFICATION RestartSpec
CONSTANTS
  Tests <- MCTests
  MaxTries = 2
CHECK_DEADLOCK FALSE
INVARIANTS
  FindsItsRestart
  RestartInv

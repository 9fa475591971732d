\* Built and submitted up to three times; jobs are killed and cancelled
SPECIFICATION Spec
CONSTANTS
  MaxSubmits = 3
  MaxBuilds = 3
  MayKill = {"run"}
CHECK_DEADLOCK FALSE
INVARIANTS SetupInv ComparesOneAttempt PassIsComplete

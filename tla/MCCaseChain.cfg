\* A batch system; RESUBMIT up to 2, edited by the user up to twice
SPECIFICATION Spec
CONSTANTS
  Batch = TRUE
  AllowFail = FALSE
  MaxResubmit = 2
  Retries = 1
  MaxEdits = 2
  None = None
CHECK_DEADLOCK FALSE
INVARIANT ChainInv
PROPERTIES ChainEnds ChainImplemented

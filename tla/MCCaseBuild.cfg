\* Two components, two compile-time settings, two queues
SPECIFICATION Spec
CONSTANTS
  Comps = {atm, lnd}
  Opts = {debug, opt}
  Queues = {short, long}
  Outcomes = {"ok", "failed"}
  MaxEdits = 3
  SmpExported = FALSE
  ReadOnly = TRUE
  None = None
SYMMETRY Symmetry
CHECK_DEADLOCK TRUE
INVARIANTS BuildInv StaleBuildDetected
 

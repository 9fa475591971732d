\* Three runs of two days, history files of three days, two kills
SPECIFICATION Spec
CONSTANTS
  Order <- MCOrder
  Days = 6
  StopN = 2
  Width = 3
  LastDates = {NoDate}
  CopyOnly = {FALSE}
  Many = {}
  MaxKills = 2
  NoDate = NoDate
CHECK_DEADLOCK FALSE
INVARIANTS ArchiveInv RunContinuable NoHistoryLost

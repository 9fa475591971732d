\* Two processes that check the input data of a case, two servers, one kill
SPECIFICATION MCSpec
CONSTANTS
  Cases = {c1, c2}
  Files <- MCFiles
  Outside = {"other"}
  RunFiles = {"run"}
  Hashed = {"file"}
  RefDir = "refdir"
  Servers = 2
  MaxKills = 1
CHECK_DEADLOCK FALSE
INVARIANTS InputInv InputIsThere
PROPERTIES CheckEnds

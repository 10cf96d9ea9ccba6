SPECIFICATION FairAuthSpec
CONSTANTS
  MaxConv = 1
  MaxMsgs = 2
  Infos = {"locked", "minutes"}
  Codes = {"Failed"}
  Outcomes = {"ok"}
  Crashes = FALSE
  Minutes = {1, 2}
CHECK_DEADLOCK FALSE
PROPERTIES
  LockoutEnds

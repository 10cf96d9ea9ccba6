SPECIFICATION AuthSpec
CONSTANTS
  MaxConv = 1
  MaxMsgs = 1
  Infos = {"locked", "minutes"}
  Codes = {"Success", "Failed", "error"}
  Outcomes = {"ok", "fork_failed"}
  Crashes = TRUE
  Minutes = {1, 2}
CHECK_DEADLOCK FALSE
INVARIANTS
  NoStrayKill

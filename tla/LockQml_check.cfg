SPECIFICATION MCFairSpec
CONSTANTS
  MaxConv = 2
  MaxMsgs = 2
  Infos = {"locked", "minutes"}
  Codes = {"Success", "Failed", "error"}
  Outcomes = {"ok", "invalid_config", "pipe_failed"}
  Crashes = TRUE
  Minutes = {1, 2}
  s1 = s1
  s2 = s2
  Screens = {s1, s2}
  StartFlags = {FALSE}
  HotPlug = FALSE
  Components = {"null", "good"}
CHECK_DEADLOCK FALSE
INVARIANTS
  AuthConsistent
  PromptsAnswered
  NoStrayKill
  LockedIsVisible
PROPERTIES
  AuthServed
  UnlockCarriedOut
  WishesServed

SPECIFICATION FairPamSpec
CONSTANTS
  MaxConv = 2
  MaxMsgs = 2
  Infos = {"info"}
  Codes = {"Success", "error"}
  Outcomes = {"ok", "invalid_config", "pipe_failed"}
  Crashes = TRUE
CONSTRAINT FewAnswers
CHECK_DEADLOCK FALSE
INVARIANTS
  PamConsistent
PROPERTIES
  AbortSilences
  ChildrenReaped

SPECIFICATION Spec
CONSTANTS
  s1 = s1
  s2 = s2
  Screens = {s1, s2}
  StartFlags = {FALSE}
  HotPlug = FALSE
  Components = {"null", "good"}
SYMMETRY Outputs
CHECK_DEADLOCK FALSE
INVARIANTS
  NeverDestroyedGranted

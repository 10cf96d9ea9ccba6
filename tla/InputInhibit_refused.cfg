SPECIFICATION InhibitSpec
CONSTANTS
  InhibitWindows = {"w1", "w2"}
  InhibitItems = {"i1", "i2"}
  NoWin = "none"
CHECK_DEADLOCK FALSE
INVARIANTS
  RefusedIsActive

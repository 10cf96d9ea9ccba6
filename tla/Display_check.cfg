SPECIFICATION MCSpec
CONSTANTS
  s1 = s1
  s2 = s2
  Screens = {s1, s2}
  StartFlags = {TRUE, FALSE}
  HotPlug = TRUE
  Components = {"null", "good", "bad"}
  LockOutputs = {"o1", "o2"}
  NoOutput = "none"
  WinSizes = {1}
  MaxLockWins = 3
  MaxLocks = 2
  MaxPlugs = 3
  BufWindows = {"w1", "w2"}
  DrmDevices = {1, 2, 3}
  NodeOf <- MCNodeOf
  Creatable <- MCCreatable
  Feedbacks <- MCFeedbacks
  Renderers <- MCRenderers
  Requests <- MCRequests
  MaxBufSteps = 4
  InhibitWindows = {"w1", "w2"}
  InhibitItems = {"i1", "i2"}
  NoWin = "none"
  ActionLists <- MCActionLists
  MaxNotes = 2
  MaxOwners = 1
  MaxCalls = 2
  Pics = {"a", "b", "c", "x"}
  OnDisk = {"a", "b", "c"}
  Allowed = {"a", "b", "x"}
  WallLists <- MCWallLists
  NoWallFile = NoWallFile
  BadFile = BadFile
  MaxEdits = 3
  Procs = {"shell", "panel"}
  Themes = {"t1", "t2"}
  Handlers = {"h1"}
  Versions = {"v1"}
  Length <- MCLength
  MaxDeeds = 5
  Fields = {"spacing", "rounding", "font", "apps"}
  Scales = {10, 15}
  Others = {"a", "b", "x"}
  Accepted = {"a", "b"}
  KeepsOld = {"apps"}
  Validator <- MCValidator
  MaxTyped = 4
  Apps = {"", "a", "b", "c"}
  UserFiles <- MCUserFiles
  NoFile = NoFile
  Bad = Bad
  Keys = {"k1", "k2"}
  MaxSteps = 4
CHECK_DEADLOCK FALSE
INVARIANTS
  LockConsistent
  LockWindowsSound
  BuffersFit
  InhibitHolds
  NoteAccounts
  WallpaperSettled
  ThemesAgree
  FormTruthful
  StateKept
PROPERTIES
  EngageCoversOutputs
  OnlyUnlockReleases
  ImplementsContract

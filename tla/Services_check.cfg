SPECIFICATION MCSpec
CONSTANTS
  Windows = {"w1", "w2"}
  Spaces = {1, 2}
  Searches <- MCSearches
  NoWindow = "none"
  Leftovers = {"none", "w1"}
  MaxTopSteps = 3
  SpaceIds = {1, 2, 3}
  Monitors = {1, 2}
  Tops = {"t1", "t2"}
  NoTop = "none"
  MaxSpaceSteps = 3
  Evdev <- MCEvdev
  Lists <- MCLists
  MaxTouches = 3
  NodeNames = {"n1", "n2"}
  NoName = "none"
  ClassOf <- MCClassOf
  TrackedTypes <- MCTracked
  MaxNodeIds = 3
  MaxPipeSteps = 5
  AudioNodes = {"out", "in"}
  Visuals <- MCVisuals
  Loudest = 2
  VolumeStep <- MCStep
  MaxVolSteps = 2
  Ids = {1, 2, 3}
  ParentOf <- MCParentOf
  MenuViews = {v1}
  v1 = v1
  MaxChanges = 2
  MaxAsks = 1
  PixmapLists <- MCPixmapLists
  Wanted = 2
  MaxItemSteps = 2
CHECK_DEADLOCK FALSE
INVARIANTS
  ToplevelsAgree
  SpacesAgree
  KeyboardAgrees
  PipeAgrees
  VolumesAgree
  MenuAgrees
  ItemCurrent
PROPERTIES
  PictureReloads

SPECIFICATION MCSpec
CONSTANTS
  Sizes = {1, 2}
  Addrs = {p, q, r}
  p = p
  q = q
  r = r
  Regions = {r1}
  r1 = r1
  AllocFails = TRUE
  Sources = {a, b}
  a = a
  b = b
  NoSource = NoSource
  Lives = {TRUE, FALSE}
  EntryIds = {1, 2}
  EntryDirs = 2
  DiskStarts <- MCDiskStarts
  EntryKinds = {"none", "app"}
  Queries = {{1, 2}, {1}}
  TornCache = TornCache
  MaxEntryDeeds = 4
SYMMETRY Addresses
INVARIANTS
  IccConsistent
  DamageCovers
  ViewConsistent
  EntriesAgree
  CapturesAccounted
PROPERTIES
  PresentedUpToDate

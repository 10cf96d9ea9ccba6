SPECIFICATION IccSpec
CONSTANTS
  Sizes = {1, 2}
  Addrs = {p, q, r}
  p = p
  q = q
  r = r
  Regions = {r1, r2}
  r1 = r1
  r2 = r2
  AllocFails = FALSE
PROPERTIES
  RetriesWithNewParams

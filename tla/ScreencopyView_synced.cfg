SPECIFICATION ViewSpec
CONSTANTS
  Sizes = {1}
  Addrs = {p, q, r}
  p = p
  q = q
  r = r
  Regions = {r1}
  r1 = r1
  AllocFails = FALSE
  Sources = {a, b}
  a = a
  b = b
  NoSource = NoSource
  Lives = {TRUE, FALSE}
PROPERTIES
  PaintShowsFront

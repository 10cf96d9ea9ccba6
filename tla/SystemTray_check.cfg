SPECIFICATION Spec
CONSTANTS
  b = b
  h = h
  c = c
  b1 = b1
  b2 = b2
  c1 = c1
  Services <- MCServices
  Items <- MCItems
  ServiceOf <- MCServiceOf
  ServicePrefix <- MCServicePrefix
  ItemPrefix <- MCItemPrefix
  MenuItems = {b1, c1}
  HostServices = {h}
  MaxTraffic = 3
INVARIANTS
  TrayConsistent
  DepartureNoticed
  ShownGhostsLeave
  LossNoticed
CHECK_DEADLOCK FALSE

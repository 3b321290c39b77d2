\* One pane, two sessions.
SPECIFICATION MCSpec
CONSTANTS
  Parts = {"watch"}
  None = None
  k1 = k1
  k2 = k2
  k3 = k3
  p1 = p1
  p2 = p2
  p3 = p3
  a = a
  b = b
  c = c
  x = x
  y = y
  e = e
  Bad = Bad
  v1 = v1
  v2 = v2
  Default = Default
INVARIANT HistoryKept
CHECK_DEADLOCK FALSE

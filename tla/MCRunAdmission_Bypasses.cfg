SPECIFICATION FairSpec
CONSTANTS
  a1 = a1  s1 = s1  s2 = s2  s3 = s3  r1 = r1  x1 = x1  b1 = b1  l1 = l1
  p1 = p1  p2 = p2  f = f  g = g  d1 = d1  d2 = d2  d3 = d3  k = k  k2 = k2
  None = None
  Calls = {x1, b1, l1, s1, s2}
  Spaces = {p1}
  Flows = {f, g}
  Digests = {d1, d2, d3}
  Keys = {k, k2}
  RunKeyed = {f}
  Request <- Bypasses
  Configs <- LimitOne
CHECK_DEADLOCK FALSE
PROPERTY QueuedCallReturns

SPECIFICATION Spec
CONSTANTS
  v1 = v1
  v2 = v2
  v3 = v3
  c1 = c1
  c2 = c2
  c3 = c3
  c4 = c4
  c5 = c5
  None = None
  Versions = {v1, v2}
  Calls = {c1, c2, c3}
  MaxFaults <- NoFaults
PROPERTY UnpublishedStaysDown
CHECK_DEADLOCK FALSE

\* One followed object with two properties, which may be invalidated together.
CONSTANTS
  p1 = p1
  transfer = transfer
  message = message
  foreign = foreign
  k1 = k1
  k2 = k2
  v1 = v1
  v2 = v2
  Paths = {p1}
  Keys = {k1, k2}
  Values = {v1, v2}
  NoValue = NoValue
  IllTyped = IllTyped
  Interfaces = {transfer}
  ObexInterfaces = {transfer}
  MaxChanges = 3
SPECIFICATION FairSpec
INVARIANTS CurrentWhenQuiet
PROPERTIES EventuallyCurrent
CHECK_DEADLOCK FALSE

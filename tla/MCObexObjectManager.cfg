\* One path with two followed interfaces, for handler loops of two iterations,
\* and a foreign one.
CONSTANTS
  p1 = p1
  transfer = transfer
  message = message
  foreign = foreign
  k1 = k1
  k2 = k2
  v1 = v1
  v2 = v2
  Paths = {p1}
  Keys = {k1}
  Values = {v1, v2}
  NoValue = NoValue
  IllTyped = IllTyped
  Interfaces = {transfer, message, foreign}
  ObexInterfaces = {transfer, message}
  MaxChanges = 3
SPECIFICATION Spec
SYMMETRY ValueSymmetry
INVARIANTS TypeOK ListenerMirrorsCache FailureStopsHandlers NothingMissed
PROPERTIES AnnouncedOnce PropertiesWithinLifetime SilentAfterEnd
CHECK_DEADLOCK FALSE

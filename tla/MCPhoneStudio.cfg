\* Two devices, two clients, two sessions; the view may close at any time.
CONSTANTS
  Devices = {d1, d2}
  NoDevice = NoDevice
  MaxClients = 2
  MaxSessions = 2
SPECIFICATION Spec
INVARIANTS OneEndpoint SessionsCurrent WorkspaceOutlivesUse
PROPERTIES NothingLeft
CHECK_DEADLOCK FALSE

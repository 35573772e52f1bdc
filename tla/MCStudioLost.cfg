\* A service that goes away under a view that stays open.
CONSTANTS
  Devices = {d1, d2}
  NoDevice = NoDevice
  MaxClients = 2
  MaxSessions = 2
SPECIFICATION Spec
PROPERTIES LostClientsReplaced
CHECK_DEADLOCK FALSE

\* Messages pushed before and after another session is removed.
CONSTANTS
  MaxSessions = 2
  MaxTransfers = 3
SPECIFICATION Spec
PROPERTIES MessagesStayThemselves
CHECK_DEADLOCK FALSE

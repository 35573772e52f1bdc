\* Two sessions, two transfers, every order of calls.
CONSTANTS
  MaxSessions = 2
  MaxTransfers = 2
SPECIFICATION Spec
INVARIANTS EventsMatchListing NoOrphans
PROPERTIES PathsNotReused
CHECK_DEADLOCK FALSE

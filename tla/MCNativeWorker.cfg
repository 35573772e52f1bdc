\* Three calls, a disposal, and native events between them.
CONSTANTS
  c1 = c1
  c2 = c2
  c3 = c3
  Calls = {c1, c2, c3}
  Dispose = Dispose
  MaxEvents = 2
SPECIFICATION FairSpec
INVARIANTS TypeOK RunsInOrder DisposalDrains NobodyLeftWaiting
PROPERTIES EventsInOrder ImplementsContract
CHECK_DEADLOCK FALSE

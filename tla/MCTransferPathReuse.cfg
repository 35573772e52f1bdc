\* A path an earlier transfer had, and replies that overtake events.
CONSTANTS
  mine = mine
  other = other
  p1 = p1
  p2 = p2
  Transfers = {mine, other}
  Mine = mine
  Paths = {p1, p2}
  Environments <- Native
SPECIFICATION FairSpec
INVARIANTS TruthfulOutcome
CHECK_DEADLOCK FALSE

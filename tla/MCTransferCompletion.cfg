\* The watched transfer beside another one.
CONSTANTS
  mine = mine
  other = other
  p1 = p1
  p2 = p2
  Transfers = {mine, other}
  Mine = mine
  Paths = {p1, p2}
  Environments <- Sheltered
SPECIFICATION FairSpec
INVARIANTS TruthfulSuccess TruthfulFailure NothingMissed
PROPERTIES Returns
CHECK_DEADLOCK FALSE

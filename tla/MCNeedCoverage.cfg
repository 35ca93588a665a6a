SPECIFICATION FairSpec
CONSTANTS
  n1 = n1
  n2 = n2
  s1 = s1
  Needs = {n1, n2}
  Donations = {d1, d2}
  Editors = {m1}
  Supplies = {s1}
  Required = {2}
  MaxQuantity = 2
  Baskets <- MCBaskets
  LastDay = 2
  EditOps = {"update", "updateProgress", "close"}
  NoNeed = NoNeed
  NoOne = NoOne
INVARIANTS
  TypeOK
  CommitHoldsItsRows
PROPERTIES
  NoCreditLost
  DonationsEnd
\* Once every donation has ended and the days are over, nothing happens.
CHECK_DEADLOCK FALSE

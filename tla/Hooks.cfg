SPECIFICATION FairSpec
CONSTANTS
  Cards <- Vendors
  Claimed = {TRUE, FALSE}
  Faults = TRUE
INVARIANTS
  TypeOK
  DisplayReleased
  NextStartUnblocked
PROPERTY DisplayReturns

SPECIFICATION Spec
CONSTANTS
  Cards <- Geforce
  Claimed = {FALSE}
  Faults = FALSE
INVARIANT NativeReturns

SPECIFICATION Spec
CONSTANTS
  Hosts <- SystemdBootHosts
  Edits = FALSE
INVARIANT LandedMeansReady
CHECK_DEADLOCK FALSE

SPECIFICATION Spec
CONSTANTS
  Hosts <- SetupHosts
  Edits = TRUE
INVARIANTS
  TypeOK
  KnownFailures
  LandedMeansReady
  HostGpuKept
  GroupViable
  PinningSound
  ReplanSatisfied
  RecommendationSuffices
CHECK_DEADLOCK FALSE

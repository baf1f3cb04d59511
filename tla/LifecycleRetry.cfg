SPECIFICATION FairSpec
CONSTANTS
  Cycle = {c1}
  NoCycle = NoCycle
  NoManifest = NoManifest
  HasHook = TRUE
  CreateDisk = TRUE
  Existing = {}
  Undefines = TRUE
  MayRollback = FALSE
PROPERTY ResumeFinishes

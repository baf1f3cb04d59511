SPECIFICATION Spec
CONSTANTS
  Cycle = {c1}
  NoCycle = NoCycle
  NoManifest = NoManifest
  HasHook = TRUE
  CreateDisk = TRUE
  Existing = {}
  Undefines = FALSE
  MayRollback = TRUE
PROPERTY NeverOverwritesDisk

SPECIFICATION Spec
CONSTANTS
  Cycle = {c1, c2}
  NoCycle = NoCycle
  NoManifest = NoManifest
  HasHook = TRUE
  CreateDisk = TRUE
  Existing = {}
  Undefines = TRUE
  MayRollback = TRUE
INVARIANTS
  TypeOK
  DiskTracked
  DomainUndoable
  HostRestored
PROPERTIES
  CompleteMeansInstalled
  PendingMeansStaged
SYMMETRY Symmetry

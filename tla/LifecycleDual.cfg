SPECIFICATION Spec
CONSTANTS
  Cycle = {c1, c2}
  NoCycle = NoCycle
  NoManifest = NoManifest
  HasHook = FALSE
  CreateDisk = FALSE
  Existing = {"xml"}
  Undefines = TRUE
  MayRollback = TRUE
INVARIANTS
  HostRestored
  GuestDiskKept
SYMMETRY Symmetry

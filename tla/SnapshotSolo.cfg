SPECIFICATION Spec
CONSTANTS
  Path = {"grub", "xml", "hook"}
  Bytes <- MCBytes
  Absent = Absent
  Unseen = Unseen
  NoManifest = NoManifest
  Name <- MCName
  BackupName <- MCBackupName
  Run = {r1}
  Resume = {i1, i2}
  NoRun = NoRun
  Touches <- SoloTouches
  WorkA <- SoloWorkA
  WorkB <- SoloWorkB
  FlushB = {"xml", "hook"}
  MustExist = {"grub"}
  Rewrite <- MCRewrite
  Rollback = {b1}
  EditBytes <- MCEditBytes
  MaxEdits = 1
INVARIANTS
  TypeOK
  UserBytesKept
  BaselineIntact
  PendingIsDurable
  RollbackComplete
PROPERTY BaselineFrozen
SYMMETRY Symmetry
CHECK_DEADLOCK FALSE

SPECIFICATION Spec
CONSTANTS
  Path = {"grub", "xml"}
  Bytes <- MCBytes
  Absent = Absent
  Unseen = Unseen
  NoManifest = NoManifest
  Name <- MCName
  BackupName <- MCBackupName
  Run = {r1, r2}
  Resume = {i1}
  NoRun = NoRun
  Touches <- DuoTouches
  WorkA <- DuoWorkA
  WorkB <- DuoWorkB
  FlushB = {"xml"}
  MustExist = {"grub"}
  Rewrite <- MCRewrite
  Rollback = {b1}
  EditBytes <- MCEditBytes
  MaxEdits = 1
INVARIANTS
  UserBytesKept
  BaselineIntact
  RollbackComplete
PROPERTY ImplementsRecoverable
SYMMETRY Symmetry
CHECK_DEADLOCK FALSE

SPECIFICATION Spec
CONSTANT Hosts <- WizardHosts
INVARIANTS
  TypeOK
  PreviewCurrent
  RolesAligned
  ConfirmedRenders
  ReserveKept
CHECK_DEADLOCK FALSE

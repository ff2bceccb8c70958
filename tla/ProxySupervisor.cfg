SPECIFICATION Spec
CONSTANTS
  NFields = 3
  Bypass = {3}
  NoSnapshot = NoSnapshot
  MaxAttempts = 2
  CrashRelaunch = FALSE
INVARIANTS
  NoStranding
PROPERTIES
  StopRestores
  CustodySpec
  DispatchTerminates
  ServedOrOpen

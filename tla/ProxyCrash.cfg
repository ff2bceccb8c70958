SPECIFICATION Spec
CONSTANTS
  NFields = 2
  Bypass = {2}
  NoSnapshot = NoSnapshot
  MaxAttempts = 1
  CrashRelaunch = TRUE
INVARIANT RouteBack

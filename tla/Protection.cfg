SPECIFICATION ProtectionSpec
CONSTANTS
  Cooldown = 3
  ReadyWindow = 1
  DisarmWindow = 2
  Apps = {a, b}
  NeverApps = {b}
  None = None
  MaxNow = 12
  MaxDowntime = 1
INVARIANT
  RebootVoids

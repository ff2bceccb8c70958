SPECIFICATION LogSpec
CONSTANTS
  Tail64 = 3
  MaxEntries = 2
  Slack = 2
  Coalesce = 2
  MaxClock = 2
INVARIANTS
  AttemptsCounted
PROPERTIES
  NoFalseAlarm
  KillIsNoticed
  KillIsOnRecord
  ModeIsWatched

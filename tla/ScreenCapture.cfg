SPECIFICATION Spec
CONSTANTS
  MaxSessions = 2
  MaxInbox = 2
  Planes <- MCPlanes
  Width = 4
  Height = 2
  RowStride = 5
  GridWidth = 3
  GridHeight = 1
  ChangeThreshold = 2
INVARIANT EndsWithService
PROPERTIES DisarmReleases DriftIsSeen
CHECK_DEADLOCK FALSE

SPECIFICATION Spec
CONSTANTS
  MaxSessions = 2
  MaxQueue = 2
INVARIANTS
  EndIsRecorded
  OneReader
PROPERTIES
  ThreadsEnd
  ArmedIsFiltered

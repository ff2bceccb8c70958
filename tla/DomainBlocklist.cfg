SPECIFICATION Spec
CONSTANTS
  Targets = {"target"}
  MaxHops = 2
  NDomains = 2
  Special = {}
  Ttl = 1
  Quarantine = 2
  CanaryEvery = 1
  AliveControls = {"alive"}
  DeadControls = {"dead"}
  CheckpointEvery = 1
  Crooked = {"primary"}
  Unreadable = {1}
  NoEntry = NoEntry
  NoTime = NoTime
  MaxClock = 3
  NoFile = NoFile
  MaxVersion = 4
  MaxPublished = 5
  MaxCrashes = 3
  None = None
  NNames = 4
  Under <- MCUnder
  Registrable = {2, 4}
  Jobs = {"blocklist", "adult", "dating"}
  SourceOf <- MCSourceOf
  MayList <- MCMayList
  Reviewed <- MCReviewed
  Allowed <- MCAllowed
  Attempts = 2
  Mortal = {3}
  Denylist = {}
  ControlSet = {2, 4}
  Exclusions = {}
  MinControl = 1
  MaxFpPct = 50
  MaxDropPct = 25
  MaxGrowPct = 50
  Floor = 0
  Ceiling = 4
  Samples = {0, 2}
  MaxBuilds = 2
  MaxFailed = 1
INVARIANTS
  DiskTrusted
  FallbackKept
  ControlIsSafe
  SourcesAreHonoured
  LossIsBounded
PROPERTIES
  PrunesTheDown
  PrunesConfirmed
  PrunesOnLatestRead
  ImplementsStore

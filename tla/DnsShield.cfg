SPECIFICATION ShieldSpec
CONSTANTS
  Callers = {c1, c2}
  Domains <- MCDomains
  Listed <- MCListed
  Capacity = 1
  CacheSize = 1
  Fragile <- MCListed
  Nothing = Nothing
  LabelSet <- MCLabels
  Packets <- MCPackets
  Key <- MCKey
  Allowed <- MCAllowed
  Explicit <- MCExplicit
  Artifact <- MCArtifact
  PublicSuffixes <- MCSuffixes
  Words = {"fresh", "mail"}
  Usable = {"fresh"}
  Carries <- MCCarries
  V4Width = 3
  Mapped <- MCMapped
  IpRules <- MCIpRules
INVARIANTS
  OneRequest
  PolicyDecides
PROPERTIES
  EntriesDrain
  SlowAnswersKept

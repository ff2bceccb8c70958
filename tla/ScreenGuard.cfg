SPECIFICATION AppSpec
CONSTANTS
  Packages = {"settings", "app"}
  Watched = {"settings"}
  Listable = {"app"}
  Self = "self"
  NoPackage = NoPackage
  Surfaces = {"admin"}
  NoSurface = NoSurface
  Texts = {"odd"}
  NoText = NoText
  Blocked = {}
  Warned = {"odd"}
  MaxBackOuts = 1
  MaxLooks = 2
  Cooldown = 3
  ReadyWindow = 1
  DisarmWindow = 2
  Apps = {a, b}
  NeverApps = {b}
  None = None
  MaxNow = 12
  MaxDowntime = 1
INVARIANT
  OneCooldownOneWindow
PROPERTIES
  FallsAreServed
  RemovalServed
  GuardedIsHandled
  ListedIsCovered
  CustomCoverGoes

SPECIFICATION Spec
CONSTANTS
  Packages = {"settings", "app"}
  Watched = {"settings"}
  Listable = {"app"}
  Self = "self"
  NoPackage = NoPackage
  Surfaces = {"admin"}
  NoSurface = NoSurface
  Texts = {"odd"}
  NoText = NoText
  Blocked = {}
  Warned = {"odd"}
  MaxBackOuts = 1
  MaxLooks = 2
PROPERTY
  RefusalHeals

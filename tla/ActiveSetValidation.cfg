SPECIFICATION Spec
CONSTANTS
  Modules <- MCModules
  Versions <- MCVersions
  Manifests <- MCManifests
  Registry <- MCRegistry
  Paths <- MCPaths
  Letters = {"s", "t"}
  MaxLength = 4
  Platform = "platform"
  Blank = Blank
  NoIcon = ""
  NoVersion = "none"
  NoRelease = NoRelease
CHECK_DEADLOCK FALSE
INVARIANTS
  RefusedIsContested
  VerdictIsOrderFree

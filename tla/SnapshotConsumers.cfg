SPECIFICATION ConsumerSpec
CONSTANTS
  c1 = c1
  gateway = gateway
  identity = identity
  Clients = {c1}
  Gateways = {gateway}
  Identities = {identity}
  Modules <- MCModules
  Versions <- MCVersions
  Manifests <- MCManifests
  Platform = "platform"
  Blank = Blank
  NoIcon = ""
  NoVersion = NoVersion
  NoRelease = NoRelease
  NoSnapshot = NoSnapshot
  Traffic <- MCTraffic
  LegacyStates = {}
  NoRequest = NoRequest
  NoResult = NoResult
  MaxRevision = 3
INVARIANTS
  ActiveAdmissible
  GrantedIsReachable
PROPERTIES
  ViewsNeverRegress

SPECIFICATION LegacySpec
CONSTANTS
  c1 = c1
  c2 = c2
  Clients = {c1, c2}
  Modules <- MCModules
  Versions <- MCVersions
  Manifests <- MCManifests
  Platform = "platform"
  Blank = Blank
  NoIcon = ""
  NoVersion = NoVersion
  NoRelease = NoRelease
  Traffic <- MCTraffic
  LegacyStates <- Databases
  NoRequest = NoRequest
  NoResult = NoResult
  MaxRevision = 3
SYMMETRY Symmetry
INVARIANTS
  AcknowledgedReleaseKept
PROPERTIES
  AcceptedActivationAdmissible
  ReleasesImmutable
  RevisionCountsActiveSets
  PlatformStaysActive

SPECIFICATION FairSpec
CONSTANTS
  w1 = w1
  w2 = w2
  Workers = {w1, w2}
  Modules <- MCModules
  Versions <- MCVersions
  Manifests <- LiveManifests
  Permissions <- MCPermissions
  Traffic <- LiveTraffic
  Platform = "platform"
  Blank = Blank
  NoIcon = ""
  NoVersion = NoVersion
  NoRelease = NoRelease
  NoRequest = NoRequest
  NoResult = NoResult
  NoState = NoState
  NoOwner = NoOwner
  NoOrphan = NoOrphan
  Free = Free
  Server = Server
  MaxAttempts = 3
  MaxRevision = 2
PROPERTIES
  EveryRequestAnswered
  RowLockReleased

SPECIFICATION ProvisioningSpec
CONSTANTS
  c1 = c1
  c2 = c2
  site = site
  elsewhere = elsewhere
  gatewayKey = gatewayKey
  releaseKey = releaseKey
  platformKey = platformKey
  otherKey = otherKey
  gatewayID = gatewayID
  identityID = identityID
  strangerID = strangerID
  notAnID = notAnID
  Clients = {c1, c2}
  Configurations <- Variants
  Inbound <- MCInbound
  SpiffeIDs = {gatewayID, identityID, strangerID}
  NoOrigin = NoOrigin
  NoToken = NoToken
  NoPeer = NoPeer
  NoReply = NoReply
  Modules <- MCModules
  Versions <- MCVersions
  Manifests <- MCManifests
  Platform = "platform"
  Blank = Blank
  NoIcon = ""
  NoVersion = NoVersion
  NoRelease = NoRelease
  Traffic <- MCTraffic
  LegacyStates = {}
  NoRequest = NoRequest
  NoResult = NoResult
  MaxRevision = 3
CONSTRAINT Sparse
SYMMETRY Symmetry
CHECK_DEADLOCK FALSE
INVARIANTS
  GrantedOnly
  SnapshotsSeparate
  ListedWorkloadServed
  DefiniteAnswers
  ReadsNeverBlamed
  RepliesAgree

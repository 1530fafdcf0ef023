SPECIFICATION MigrationSpec
CONSTANTS
  Jobs = {first, again, edited}
  Digests = {"baseline", "amended"}
  DigestOf <- MountedDigest
  first = first
  again = again
  edited = edited
  None = None
  MaxRevision = 3
INVARIANTS
  RecordedIsComplete
  ServingIsMigrated
PROPERTY RowKept

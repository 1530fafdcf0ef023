SPECIFICATION FairSpec
CONSTANTS
  FileOrder <- MCFileOrder
  Keys <- MCKeys
  Generations = {1, 2, 3, 4}
  Job = "job"
  Owner = "owner"
  Directory = "directory"
  Absent = Absent
  NoGeneration = 0
  MaxCrashes = 2
INVARIANTS
  SuccessIsServable
  NeverDenied
PROPERTIES
  ValidAuthorityKept
  FailureIsRepaired

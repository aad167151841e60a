SPECIFICATION FairSpec
CONSTANTS
  c1 = c1
  c2 = c2
  c3 = c3
  Unset = Unset
  Outside = Outside
  None = None
  Calls = {c1, c2}
INVARIANTS
  TypeOK
  NoDanglingConfig
  OwnCredentials
  RestoredWhenFree
PROPERTIES
  DeployReturns
  LeaseImplemented

SPECIFICATION FairSpec
CONSTANTS
  Refreshers = {"renewal"}
  Hosts = {"app", "other"}
  RenewalAge = 1
  LeafLife = 2
  AuthorityLife = 2
  Restores = 1
  Failures = 1
  MaxIssued = 6
  MaxTime = 2
INVARIANTS
  MarkerMeansWhole
  HandshakeIsTrusted
PROPERTIES
  AuthorityPersists
  CacheHeals
CHECK_DEADLOCK FALSE

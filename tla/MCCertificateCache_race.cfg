SPECIFICATION Spec
CONSTANTS
  Refreshers = {"renewal", "resume"}
  Hosts = {"app"}
  RenewalAge = 1
  LeafLife = 2
  AuthorityLife = 2
  Restores = 0
  Failures = 0
  MaxIssued = 3
  MaxTime = 1
INVARIANT MarkerMeansWhole
CHECK_DEADLOCK FALSE

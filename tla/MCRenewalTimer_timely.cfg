SPECIFICATION FairSpec
CONSTANTS
  Fraction = 2
  RenewalAge = 3
  LeafLife = 6
  AuthorityLife = 8
  RetryDelay = 1
  MaxTime = 26
INVARIANT ExpiryIsExcused
PROPERTY DropEndsRenewal
CHECK_DEADLOCK FALSE

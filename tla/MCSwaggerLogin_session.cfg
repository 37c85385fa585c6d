\* A page with two loads and two logins, in any order and overlapping.
SPECIFICATION FairSpec
CONSTANTS
  S1 = S1
  S2 = S2
  S3 = S3
  O1 = O1
  O2 = O2
  Read = Read
  Write = Write
  MaxLoads = 2
  Schemes = {S1, S2, S3}
  Operations = {O1, O2}
  SchemeOrder <- MCOrder
  Flow <- MCFlow
  TokenName <- MCTokenName
  ScopeOf <- MCScopeOf
  Required <- MCRequired
  MaxLogins = 2
INVARIANTS TypeOK ShownIsCurrent TokenOfItsScheme LostOnlyIfOverlapped
PROPERTIES CredentialsKept LoadIsAnswered

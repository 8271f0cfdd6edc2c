SPECIFICATION FairSpec
CONSTANTS
  l1 = l1
  l2 = l2
  m1 = m1
  m2 = m2
  Live <- OneTurn
  Managers <- TwoManagers
  MaxAttempts = 2
  MaxReads = 1
  MaxClaimTries = 2
  FlakyUpTo = 2
  MaxFaults = 1
INVARIANT TypeOK AtMostOnePost UnsentIsUnposted ReadsAreBounded DeliveredHasEvidence SendsAreCounted
PROPERTY KeepsPromise Settles
CHECK_DEADLOCK FALSE

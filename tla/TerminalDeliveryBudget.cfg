SPECIFICATION Spec
CONSTANTS
  l1 = l1
  l2 = l2
  m1 = m1
  m2 = m2
  Live <- OneTurn
  Managers <- OneManager
  MaxAttempts = 2
  MaxReads = 2
  MaxClaimTries = 3
  FlakyUpTo = 3
  MaxFaults = 1
INVARIANT SendsWithinBudget
CHECK_DEADLOCK FALSE

\* The system stops once every connection is gone.
SPECIFICATION Spec
CONSTANTS
  p1 = p1
  w1 = w1
  v1 = v1
  P = P
  W = W
  V = V
  id1 = id1
  id2 = id2
  Sweeper = Sweeper
  None = None
  Names <- ThreeNames
  Handles <- Three
  NameOf <- NamesOfThree
  Max <- OneEach
  MaySend <- Senders
  Ids <- TwoIds
  Selectors <- Pick
  Deadlines <- Soon
  MaxGen = 3
  MaxInflight = 2
  MaxDepth = 2
  MaxAhead = 1
  MaxLosses = 0
  Horizon = 0
SYMMETRY IdsAlike
INVARIANT AncestryIsGenuine
CHECK_DEADLOCK FALSE

\* The system stops once every connection is gone.
SPECIFICATION Spec
CONSTANTS
  p1 = p1
  w1 = w1
  v1 = v1
  P = P
  W = W
  V = V
  id1 = id1
  id2 = id2
  Sweeper = Sweeper
  None = None
  Names <- ThreeNames
  Handles <- Two
  NameOf <- NamesOfTwo
  Max <- OneOfTwo
  MaySend <- Senders
  Ids <- OneId
  Selectors <- PickWorker
  Deadlines <- Soon
  MaxGen = 1
  MaxInflight = 1
  MaxDepth = 1
  MaxAhead = 1
  MaxLosses = 1
  Horizon = 1
INVARIANT DisconnectFails
CHECK_DEADLOCK FALSE

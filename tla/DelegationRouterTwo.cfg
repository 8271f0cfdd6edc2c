\* The system stops once every connection is gone.
SPECIFICATION FairSpec
CONSTANTS
  p1 = p1
  w1 = w1
  v1 = v1
  P = P
  W = W
  V = V
  id1 = id1
  id2 = id2
  Sweeper = Sweeper
  None = None
  Names <- ThreeNames
  Handles <- Two
  NameOf <- NamesOfTwo
  Max <- OneOfTwo
  MaySend <- Senders
  Ids <- OneId
  Selectors <- PickWorker
  Deadlines <- SoonOrLater
  MaxGen = 2
  MaxInflight = 2
  MaxDepth = 2
  MaxAhead = 1
  MaxLosses = 2
  Horizon = 2
INVARIANT TypeOK SlotsAreCounted EndsAreTrue TerminalOnce NothingForTheDead
PROPERTY KeepsPromise Settles
CHECK_DEADLOCK FALSE

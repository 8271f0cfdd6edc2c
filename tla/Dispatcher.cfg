SPECIFICATION FairSpec
CONSTANTS
  thread = thread
  lane1 = lane1
  lane2 = lane2
  u1 = u1
  u2 = u2
  nw = nw
  Keys = {thread}
  Messages <- Three
  KeyOf <- OfThread
  Native <- NativeOne
  Tokens <- Weights
  Cap = 2
  MaxTokens = 2
  MaxConsumers = 3
INVARIANT TypeOK OneConsumer InOrderOnce BatchesAreFit RetryGoesElsewhere
PROPERTY EveryMessageEnds KeepsPromise
CHECK_DEADLOCK FALSE

SPECIFICATION Spec
CONSTANTS
  thread = thread
  lane1 = lane1
  lane2 = lane2
  u1 = u1
  u2 = u2
  nw = nw
  Keys = {lane1, lane2}
  Messages <- Two
  KeyOf <- OfSender
  Native = {}
  Tokens <- Ones
  Cap = 2
  MaxTokens = 2
  MaxConsumers = 4
INVARIANT TurnsSerialise
CHECK_DEADLOCK FALSE

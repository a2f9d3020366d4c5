CONSTANTS
  a = a
  b = b
  NoConn = NoConn
  Clients <- TwoClients
  FdLimits <- TwoOrThree
  CreateFails = TRUE
  MaxChars = 2
SPECIFICATION Spec
INVARIANT EchoIsOwn
PROPERTY EveryoneIsServed
CHECK_DEADLOCK FALSE

\* Three clients, one of them slow, two descriptors for them.
CONSTANTS
  a = a  b = b  c = c
  Conns <- ThreeConns
  NumFds = 3
  Slow <- OnlyB
  AcceptFails = FALSE
  Listener = Listener
  NoConn = NoConn
  MaxSent = 2
SPECIFICATION Spec
INVARIANTS RecordsAreWatched NoEdgeLost OneOrder
PROPERTY ClosedForCause
CHECK_DEADLOCK FALSE

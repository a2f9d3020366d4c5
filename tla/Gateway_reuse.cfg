\* Descriptor reuse inside one round of the loop.
CONSTANTS
  a = a  b = b
  Conns <- TwoConns
  NumFds = 3
  AcceptFails = FALSE
  Slow <- Nobody
  Splits <- Nobody
  Listener = Listener
  NoConn = NoConn
  MaxCmds = 0
  MaxSerial = 1
  MaxFrames = 1
  MaxRecords = 4
SPECIFICATION Spec
PROPERTY SweepClosesOnlyShutdown
CHECK_DEADLOCK FALSE

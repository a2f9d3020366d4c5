\* Two clients, one with commands that come in two parts.
CONSTANTS
  a = a  b = b
  Conns <- TwoConns
  NumFds = 3
  AcceptFails = TRUE
  Slow <- Nobody
  Splits <- OnlyB
  Listener = Listener
  NoConn = NoConn
  MaxCmds = 1
  MaxSerial = 1
  MaxFrames = 1
  MaxRecords = 2
SPECIFICATION Spec
PROPERTIES ClosedAfterDrain ClientsAreServed
CHECK_DEADLOCK FALSE

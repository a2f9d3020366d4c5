\* Two clients, one slow, commands in one part; accept() may fail.
CONSTANTS
  a = a  b = b
  Conns <- TwoConns
  NumFds = 3
  AcceptFails = TRUE
  Slow <- OnlyA
  Splits <- Nobody
  Listener = Listener
  NoConn = NoConn
  MaxCmds = 1
  MaxSerial = 1
  MaxFrames = 2
  MaxRecords = 3
SPECIFICATION Spec
INVARIANTS TypeOK RecordsAreOpenFds EarlierRecordsMissLess MissesBoundedByDrops
PROPERTIES KilledByReported ImplementsHub
CHECK_DEADLOCK FALSE

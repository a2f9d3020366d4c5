CONSTANTS
  Inputs <- OnlyMessages
  MaxMsgs = 2
  MaxOther = 0
  DataLengths = {}
  Contents = {}
  Splits <- Both
  MaxBroadcasts = 0
SPECIFICATION MCSpec
INVARIANT NeverWalksFreed
CHECK_DEADLOCK FALSE

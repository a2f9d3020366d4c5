\* The timer manager, the Uart v1.0 program, the serial libraries, the loops.
CONSTANTS
  p = p
  q = q
  r = r
  Addrs <- ThreeAddrs
  NumTimers = 3
  MAX_TIMER = 2
  BUFSIZE = 3
  MaxBytes = 5
  Libs <- ThreeLibs
  NumFds = 3
  Requests <- SomeRequests
  Values <- ThreeValues
  MaxSize = 4
SPECIFICATION MCSpec
INVARIANTS EventsAreCurrent EchoedInOrder ActsOnOwnPort ToldIsSet SortedSoFar
PROPERTIES StopIsObeyed DueIsCalled OnlyGapStrands
CHECK_DEADLOCK FALSE

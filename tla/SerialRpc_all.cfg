\* Two lengths of frames; either kind of empty read; one byte lost.
CONSTANTS
  ByteMod = 12
  Lengths <- NoneOrOne
  DataValues <- CmdValues
  EmptyReads <- ZeroOrAgain
  MallocFails = TRUE
  MaxFrames = 3
  MaxLost = 1
SPECIFICATION Spec
INVARIANTS TypeOK SentAreFrames OverreadsAsLost
PROPERTIES GivenUpIsUnfinished RpcReturns
CHECK_DEADLOCK FALSE

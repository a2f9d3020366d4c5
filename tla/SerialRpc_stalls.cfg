\* An empty read is 0, as the port is set up; the SoC may stop in a frame.
CONSTANTS
  ByteMod = 12
  Lengths <- NoneOrOne
  DataValues <- JustOne
  EmptyReads <- OnlyZero
  MallocFails = FALSE
  MaxFrames = 2
  MaxLost = 0
SPECIFICATION Spec
PROPERTY StalledFrameIsLeft
CHECK_DEADLOCK FALSE

\* Threads: four messages, two other inputs.  Frames: three broadcasts.
CONSTANTS
  Inputs <- AllInputs
  MaxMsgs = 4
  MaxOther = 2
  DataLengths <- UpToTwo
  Contents <- TwoContents
  Splits <- Both
  MaxBroadcasts = 3
SPECIFICATION MCSpec
INVARIANTS TypeOK HandledInOrder LastMessageKept ListExclusive QueuedAreBroadcasts
PROPERTY ReaderGetsMutex
CHECK_DEADLOCK FALSE

CONSTANTS
  Commands <- LedAndTemp
  MaxSent = 2
  SplitModes <- Both
  CharSigns <- Both
SPECIFICATION CmdSpec
INVARIANTS ExecutedAsSent LedOffIsTheOnlyInvention
PROPERTY CommandsAreServed
CHECK_DEADLOCK FALSE

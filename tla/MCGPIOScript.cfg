SPECIFICATION FairScript
CONSTANTS
  Commands <- MCCommands
  Others <- MCOthers
  Garbled <- MCGarbled
  Guarded = TRUE
  MaxRaised = 2
  MaxPending = 2
  STEP_SIZE = 5
  MaxTravel = 20
INVARIANTS
  LeftOff
  QuietWhileWaiting
  NoDrift
PROPERTIES
  ClosedForGood
  NeverSlips
  InterruptEnds
  ImplementsInterface
  ImplementsMotor
CHECK_DEADLOCK FALSE

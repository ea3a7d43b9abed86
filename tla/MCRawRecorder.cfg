SPECIFICATION FairSpec
CONSTANTS
  Timestamps = {t1, t2, t3}
  DevNull = DevNull
  NULL = NULL
  RawTimeLimit = 4
  MaxSizeTime = 8
  Late = 1
  Lag = 2
INVARIANTS
  FramesFollow
PROPERTIES
  ClipsKept
  StoreSpec
  ClipEnds

SPECIFICATION FairSpec
CONSTANTS
  Timestamps = {t1, t2}
  DevNull = DevNull
  NULL = NULL
  RawTimeLimit = 4
  MaxSizeTime = 4
  Late = 1
  Lag = 2
PROPERTIES
  ClipsKept

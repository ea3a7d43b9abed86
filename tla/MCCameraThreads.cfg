SPECIFICATION FairSpec
CONSTANTS
  SourceIds = {s1, s2, s3, s4, s5}
  Teardown = {"client"}
  MaxMedia = 2
  MaxSends = 2
INVARIANTS
  StreamStaysArmed
  StoppedListening
PROPERTIES
  RecordingEndsInStream
  TriggersHeard
CHECK_DEADLOCK FALSE

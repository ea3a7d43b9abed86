SPECIFICATION FairSpec
CONSTANTS
  Location = "site"
  Hostname = "cam1"
  SourceIds = {s1, s2, s3}
  Messages <- AllMessages
  MaxSends = 3
  RecordRaw = TRUE
  Faults = {"no_dir", "no_file", "no_sensor"}
  StartupSettings <- LaunchSettings
  Settings = {"9.5"}
INVARIANTS
  SourcesTracked
  RecordingIsLimited
  IdleIsQuiet
  FlagMatchesFile
  ClipIsDocumented
PROPERTIES
  SessionSpec
  RecordingEnds
CHECK_DEADLOCK FALSE

SPECIFICATION FairSpec
CONSTANTS
  Location = "site"
  Hostname = "cam1"
  SourceIds = {s1, s2, s3, s4}
  Messages <- ClipMessages
  MaxSends = 2
  RecordRaw = TRUE
  Faults = {}
  StartupSettings <- LaunchSettings
  Settings = {"9.5"}
PROPERTIES
  TriggersFiled
CHECK_DEADLOCK FALSE

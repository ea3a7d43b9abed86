SPECIFICATION SetupSpec
CONSTANTS
  IntMax = 99999
  NestingLimit = 2
  Models <- MCModels
  Cameras <- MCCameras
  NoCamera = NoCamera
  Numbers <- MCNumbers
  ExposureTimes = {15}
  Edits <- MCEdits
  MaxChanges = 2
  Written <- SetupText
  Recorded <- StaticTexts
  Edited <- EditedText
  Load <- LoadSensorSetupInfo
INVARIANTS
  SettingsPersist
CHECK_DEADLOCK FALSE

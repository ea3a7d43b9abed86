SPECIFICATION StartSpec
CONSTANTS
  NumScripts = 2
  MayFail <- EveryStep
  MaxCtrlC = 2
  IntMax = 99999
  NestingLimit = 2
  Models <- MCModels
  Cameras <- MCCameras
  NoCamera = NoCamera
  Numbers <- MCNumbers
  ExposureTimes = {15}
  Edits <- MCEdits
  MaxChanges = 3
  Written <- SetupText
  Recorded <- StaticTexts
  Edited <- EditedText
  Load <- LoadSensorSetupInfo
INVARIANTS
  LabelsUseWhatIsValid
  CleanupIsComplete
  NoScriptOutlives
  AtMostTwoInterrupts
  CapsFitCamera
  SetupKept
  ParseIsClean
CHECK_DEADLOCK FALSE

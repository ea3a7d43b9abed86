SPECIFICATION Spec
CONSTANTS
  NULL = NULL
  Documents <- MCDocuments
  InterfaceLists <- MCInterfaceLists
  Spelling <- MCSpelling
  Texts <- MCTexts
  Faults <- MCFaults
INVARIANTS
  FailureFreesAll
  OnlyMalformedCrash
  StatusOnControlNetwork
  GoodFilesAccepted
  AddressesRecognised
CHECK_DEADLOCK FALSE

SPECIFICATION Spec
CONSTANTS
  IntMax = 99999
  NestingLimit = 10
  Callers = {"status", "probe"}
  Reports <- MCReports
  Unplugged = Unplugged
  ConfigHeap <- MCConfigHeap
  Scripts <- MCScripts
  ControlData <- MCControlData
  Machines <- MCMachines
  Threads = {"main", "client"}
  Paths = {p1, p2}
  NoPath = NoPath
  Freed = Freed
  MaxSwaps = 4
  MaxEvents = 4
SYMMETRY PathSymmetry
INVARIANTS
  ConfigJSONKept
  TemperatureValid
  CsvWellFormed
  SinkFollowsPath
PROPERTIES
  MessageReadable
CHECK_DEADLOCK FALSE

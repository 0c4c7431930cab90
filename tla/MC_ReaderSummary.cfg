CONSTANTS
  None = None
  Star = Star
  AnyPart <- Star
  StreamIds <- MCStreamIds
  RecordTypes <- MCRecordTypes
  Timestamps <- MCTimestamps
  MaxRecords = 3
  AutoModes = {TRUE, FALSE}
  Patterns <- MCPatterns
  TypeArgs <- MCTypeArgs
  TimeArgs <- MCTimeArgs
  Epsilons <- MCEpsilons
  Positions <- MCPositions
  StreamArgs <- MCStreamArgs
  Facades = {"sync", "async"}
SPECIFICATION SSpec
INVARIANT STypeOK

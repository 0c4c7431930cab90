CONSTANTS
  None = None
  Star = Star
  AnyPart <- Star
  StreamIds <- MCStreamIds
  RecordTypes <- MCRecordTypes
  Timestamps <- MCTimestamps
  MaxRecords = 3
  AutoModes = {TRUE}
  Patterns <- MCPatternsOfFile
  TypeArgs = {"data"}
  TimeArgs = {}
  Epsilons <- MCEpsilons
  Positions <- MCPositions
  StreamArgs <- MCStreamIds
SPECIFICATION HSpec
PROPERTY RSSpec

SPECIFICATION StagingSpec
CONSTANTS
  Cases <- Scripts
  Keys = {1, 2, 3}
  Vals = {10, 20}
  Rows <- TwoRows
  Schemas = {"addIndex", "addCheck"}
  Unsupported = {"addCheck"}
  MaxOps = 4
  MaxSteps = 5
  None = None
  Servers = {"a", "b"}
  NewNames = {"c"}
  Serverless = {"b"}
  MaxAsks = 3
  MaxOthers = 2
  Tables <- TwoTables
  Files <- CsvFiles
  Entries <- TypedMappings
  Markers = {"x", ""}
  Trim <- NoSpace
  Fold <- LowerCase
  ReadsAs <- ClassesOf
  Class <- ClassOfType
  Sniffed = 2
  Previewed = 2
  SampleSize = 3
  MaxImports = 2
  MaxEvents = 2
CHECK_DEADLOCK FALSE
INVARIANTS Stoppable AnswersAsAsked Refreshed  IndexSound  CommitMatchesPreview ImportTruth

SPECIFICATION TreeSpec
CONSTANTS
  Databases <- TwoDatabases
  Tables <- OneTable
  Patterns = {"g"}
  MaxAsks = 2
  MaxOpen = 2
  Droppable = {"a"}
CHECK_DEADLOCK FALSE
INVARIANTS TreeTruth
PROPERTY CursorFollows

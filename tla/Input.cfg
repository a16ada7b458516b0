SPECIFICATION InputSpec
CONSTANTS
  Engines = {"pg", "sqlite"}
  FileBased = {"sqlite"}
  InMemory = {}
  MaxEdits = 2
  MaxForms = 1
  MaxTests = 1
  Columns <- RepeatedName
  Width <- SomeWide
  Boxes <- OffScreenToo
  MaxRows = 2
  MaxPhantoms = 1
  MaxShapes = 2
  Conns <- ThreeConns
  Supported <- WhatEachDoes
  Frozen = {"frozen"}
  Typed <- SomeForms
  TableColumns <- OneColumn
  MaxStaged = 2
  MaxDraft = 2
  MaxDials = 1
CHECK_DEADLOCK FALSE
INVARIANTS  GridTruth 

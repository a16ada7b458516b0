SPECIFICATION WritesSpec
CONSTANTS
  p1 = p1  p2 = p2  p3 = p3  h1 = h1  h2 = h2  s1 = s1  s2 = s2  s3 = s3  c1 = c1  c2 = c2
  NoProc = NoProc  NoTx = NoTx  None = None
  Procs <- TwoProcs
  Handles <- TwoHandles
  Engines <- Everywhere
  ReadOnly = FALSE
  Queries = {"stmt", "savepoint", "control", "ddl", "call"}
  Phenomena = {}
  MaxCalls = 6
  Sessions <- ThreeSessions
  Changes <- TwoChanges
  ReadOnlySessions <- Third
  MaxDials = 2
  MaxCommits = 2
  DDLEngines = {"postgres", "mysql", "mariadb", "sqlite", "duckdb"}
  NewDefaults = {"keep", "none", "expr"}
  OldExtras = {{}, {"on update"}}
  Written <- ThreeTables
  MaxStaged = 2
  MaxTries = 1
SYMMETRY Symmetry
CHECK_DEADLOCK FALSE
INVARIANTS TypeOK CommitTruth StateTruth NoStray AppliedAsStaged OutcomeIsTrue  
PROPERTY ContractSpec

SPECIFICATION EndsSpec
CONSTANTS
  p1 = p1  p2 = p2  p3 = p3  h1 = h1  h2 = h2
  NoProc = NoProc  NoTx = NoTx
  Procs <- TwoProcs
  Handles <- TwoHandles
  Engines <- Everywhere
  ReadOnly = FALSE
  Queries = {"stmt", "call"}
  Phenomena = {"lateError", "procCommit"}
  MaxCalls = 4
  Direct = {"d"}
  Spliced = {"s"}
  Closers = {1, 2}
CHECK_DEADLOCK FALSE
INVARIANTS PooledClean Reachable TunnelTidy
PROPERTIES CallsReturn 

SPECIFICATION LiveSpec
CONSTANTS
  t1 = t1  t2 = t2
  None = None
  Sessions = {1, 2}
  Txs <- OneTx
  Runs = {1, 2}
  MaxDials = 2
  MaxStmts = 1
CHECK_DEADLOCK FALSE
INVARIANTS RunsAlone TxTruth
PROPERTIES Served

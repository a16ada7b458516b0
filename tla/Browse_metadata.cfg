SPECIFICATION Spec
CONSTANTS
  n1 = n1  n2 = n2  all = all  some = some
  None = None
  Names = {n1, n2}
  Relations <- TwoRelations
  Filters = {all, some}
  Plain = all
  RowsIn <- Rows
  Limit = 2
  FKs <- Pointing
  MaxHistory = 1
  MaxFlying = 2
  MaxKeys = 5
SYMMETRY Sym
CHECK_DEADLOCK FALSE
INVARIANTS MetaOfItsRelation

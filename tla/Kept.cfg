SPECIFICATION KeptSpec
CONSTANTS
  Rows = {p, r}
  HostKeys = {k1, k2}
  MaxDials = 2
  MaxEdits = 1
  Names = {"a", "b"}
  MaxTyped = 2
  MaxCmds = 3
  MaxFails = 1
SYMMETRY Symmetry
CHECK_DEADLOCK FALSE
INVARIANTS SessionsOwned ProfilesKept

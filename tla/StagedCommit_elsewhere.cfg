SPECIFICATION StagedSpec
CONSTANTS
  s1 = s1  s2 = s2  s3 = s3  c1 = c1  c2 = c2
  None = None
  Sessions <- ThreeSessions
  Changes <- TwoChanges
  ReadOnlySessions <- Third
  MaxDials = 2
  MaxCommits = 2
SYMMETRY Sym
CHECK_DEADLOCK FALSE
INVARIANT NeverElsewhere

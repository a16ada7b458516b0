SPECIFICATION BackgroundSpec
CONSTANTS
  MaxJobs = 2
  MaxDue = 1
  Texts = {1, 2}
  Scopes = {3, 4}
  MaxEntries = 2
  MaxRelation = 2
  MaxWrites = 2
  MaxStops = 1
CHECK_DEADLOCK FALSE
INVARIANTS Heard  Settled
PROPERTIES OneAtATime NothingLost

SPECIFICATION Spec
CONSTANTS
  MaxJobs = 2
  MaxDue = 1
CHECK_DEADLOCK FALSE
PROPERTIES RemovesOnlyPartial

CONSTANTS
  NrNodes = 2
  OnFailure = "terminate"
  Faults = {}
SPECIFICATION Spec
INVARIANTS
  CanceledRunsExcluded

SPECIFICATION Spec
CONSTANTS
  Strings <- AllStrings
  Specifications <- Distinct
INVARIANTS
  PlanComplete
  VMsSuitable
  OnlyUsedVMsRemain

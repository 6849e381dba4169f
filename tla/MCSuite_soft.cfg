SPECIFICATION SuiteFairSpec
CONSTANTS
  LastSubnet <- Plenty
  Strings <- SomeStrings
  VMs <- TwoBases
  TestRuns <- MixedRuns
  StartVM = 2
  NrVMs = 2
  OnFailure = "continue"
  Pulling = FALSE
  Provisioning = FALSE
  SoftTimeout = TRUE
  Faults = {"network"}
  FailedResults <- Ways
PROPERTIES
  EarlyFailureReported

SPECIFICATION FairSpec
CONSTANTS
  LastSubnet <- Scarce
  Strings <- SomeStrings
  VMs <- TwoBases
  TestRuns <- MixedRuns
  StartVM = 2
  NrVMs = 2
  OnFailure = "keep-vms"
  Pulling = TRUE
  Provisioning = TRUE
  SoftTimeout = TRUE
  Faults = {"test", "pull", "provision", "network", "remove", "interrupt"}
  FailedResults <- AnyFailed
INVARIANTS
  NetworksBounded
  FailureCancels
  ResultsComplete
  SubnetsDisjoint
  NetworksLive
PROPERTIES
  KeepsPool
  OnlyFailureCancels
  StepsRunOut

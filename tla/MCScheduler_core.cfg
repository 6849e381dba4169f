SPECIFICATION FairSpec
CONSTANTS
  LastSubnet <- Plenty
  Strings <- SomeStrings
  VMs <- TwoImages
  TestRuns <- FiveRuns
  StartVM = 2
  NrVMs = 5
  OnFailure = "continue"
  Pulling = TRUE
  Provisioning = TRUE
  SoftTimeout = TRUE
  Faults = {"test", "pull", "provision", "network", "interrupt"}
  FailedResults <- TestFailed
INVARIANTS
  TypeOK
  ResourcesExclusive
  SingleNetworkAdd
  StagesMatchActions
  TestsEquipped
  NoRunForgotten
  TestsOnReadyImages
PROPERTIES
  LargerRunsFirst
  StopIsFinal
  Termination

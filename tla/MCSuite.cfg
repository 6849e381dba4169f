SPECIFICATION SuiteSpec
CONSTANTS
  LastSubnet <- Plenty
  Strings <- SomeStrings
  VMs <- TwoImages
  TestRuns <- TwoRuns
  StartVM = 2
  NrVMs = 2
  OnFailure = "keep-vms"
  Pulling = TRUE
  Provisioning = TRUE
  SoftTimeout = TRUE
  Faults = {"test", "pull", "provision", "network", "remove", "init", "save", "interrupt"}
  FailedResults <- Ways
INVARIANTS
  ImageFailureReported
  ZeroMeansSuccess
  KeptVMsConnected
  NoImageLeft
PROPERTIES
  KeptVMsSurvive

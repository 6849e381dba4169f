CONSTANTS
  NrNodes = 2
  OnFailure = "keep-vms"
  Faults = {"mkdir", "clean", "boot", "script", "remove", "write"}
SPECIFICATION FairSpec
INVARIANTS
  ScriptOnFreshVMs
  VerdictNamesCause
  ReportsAgree
  VMsRemovedOrLeft
PROPERTIES
  TestEnds
  KeepsTestPromise

CONSTANTS
  test1 = "small"
  test2 = "large"
  vm1 = "vm1"
  vm2 = "vm2"
  Tests <- TwoTests
  Nodes <- TwoNodes
SPECIFICATION Spec
INVARIANTS
  ResultHasMessages

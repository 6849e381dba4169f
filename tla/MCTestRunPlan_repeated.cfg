SPECIFICATION Spec
CONSTANTS
  Strings <- AllStrings
  Specifications <- Repeated
INVARIANTS
  IDsUnique

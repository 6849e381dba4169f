CONSTANTS
  base = base
  plain = plain
  faulty = faulty
  Bases <- OneBase
  Images <- TwoImages
  Faulty <- SomeFaulty
SPECIFICATION FairSpec
INVARIANTS
  ProvisionedFresh
PROPERTIES
  CancelWins
  KeepsPromise

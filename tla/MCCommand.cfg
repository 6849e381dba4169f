CONSTANTS
  build = build
  script = script
  Commands <- BuildAndScript
  Timed <- BuildAndScript
  Detached <- None
  Logged <- OnlyBuild
  WithMeta <- OnlyBuild
  Stubborn <- OnlyScript
  HoldsPipe <- OnlyScript
  Faulty <- OnlyBuild
  WriteFails <- OnlyBuild
SPECIFICATION FairSpec
INVARIANTS
  NothingLeftBehind
  ReportsTrue
PROPERTIES
  NoExtraSignal
  KeepsPromise

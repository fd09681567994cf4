SPECIFICATION Spec
CONSTANTS
  NumRecs = 4
  NProcs = 3
  PipeCap = 1
  IntMax = 2
  Inputs <- AllInputs
  MaxFaults = 1
INVARIANTS
  TypeOK
  OutputSorted
  NothingTwice
  EmptyIsFinal
  LossReported
  BrokenPipeOnlyForOrphans
  WildOnlyAtIntMax
PROPERTY
  MergeSpec

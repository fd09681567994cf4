SPECIFICATION FairSpec
CONSTANTS
  NumRecs = 6
  NProcs = 2
  PipeCap = 1
  IntMax = 9
  Inputs <- SomeInputs
  MaxFaults = 1
PROPERTIES
  ParentEnds
  ChildrenEnd

SPECIFICATION Spec
CONSTANTS
  Candidates = {"candidate"}
  Stubborn = {"ceiling"}
  Profiles = {"Acquisition", "Settling"}
  RawWrites = {"rest"}
  FailuresLand = FALSE
  SLICES = 1
INVARIANTS PublishedHolds 
PROPERTIES LossNoticed

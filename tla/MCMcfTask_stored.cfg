SPECIFICATION Spec
CONSTANTS
  Candidates = {"candidate"}
  Stubborn = {}
  Profiles = {"Acquisition", "Settling"}
  RawWrites = {"rest"}
  FailuresLand = FALSE
  SLICES = 1

PROPERTIES AppliedIsStored

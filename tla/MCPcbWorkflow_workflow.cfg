SPECIFICATION Spec
CONSTANTS
  None = None
  Procs = {p1}
  Runs = {r1, r2}
  Sources = {0, 1}
  Natives = {0, 1, 2}
  Exports <- MCExports
  Agrees <- MCAgrees
  Faults <- MCFaults
  Unsound = {}
  Guarded <- MCGuarded
  Restores = FALSE
  MaxReviews = 2
SYMMETRY MCSymmetry
CHECK_DEADLOCK FALSE
INVARIANTS WorkflowConsistent
PROPERTIES   AppliesToBaseline

SPECIFICATION Spec
CONSTANTS
  Uuids <- Known
  Boards <- MCBoards
  Requests <- MCRequests
  MaxOps = 2
CHECK_DEADLOCK FALSE
INVARIANTS BoardKept ReadbackAgrees OrderIrrelevant

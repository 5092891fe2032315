SPECIFICATION Spec
CONSTANTS
  Txns = {t1, t2}
  SchEdits = {e1}
  Board = board
  Project = project
  Schematic = schematic
  Inputs = {}
  Content = {v0, v1, absent}
  Absent = absent
  Torn = torn
  NoOne = noone
  NoFile = nofile
  MaxOutside = 1
SYMMETRY Interchangeable
CHECK_DEADLOCK FALSE
INVARIANTS Protected 
PROPERTIES  NoLostEdit EditorUndisturbed

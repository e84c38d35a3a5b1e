CONSTANTS
  Columns = {0, 1}
  CellValues = {1, 2}
  MinRows = 2
  MaxRows = 3
SPECIFICATION Spec
INVARIANT
  DataRowsPreserved

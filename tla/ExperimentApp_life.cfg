SPECIFICATION Spec
CONSTANTS
  MaxExp = 2
  MaxMsg = 2
  Reports = {"gps"}
INVARIANTS
  TypeOK
  RowsMatch
  ColumnsWritten
CHECK_DEADLOCK FALSE

SPECIFICATION Spec
CONSTANTS
  Procs = {p1, p2, p3}
  MaxOpens = 1
  MaxCells = 4
INVARIANTS TypeOK HeaderFirst CreatorsReady
PROPERTIES InitKeepsRecords

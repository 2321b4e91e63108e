SPECIFICATION Spec
CONSTANTS
  Capacity = 1
  MaxPage = 2
  AValues = {v1, v2}
  BValues = {w1}
  Texts = {t1}
  MaxRow = 3
  MaxCost = 3
SYMMETRY Symmetry
INVARIANTS TypeOK CurrentPageStays OperationsFound IndexAgrees  UniqueRows
CHECK_DEADLOCK FALSE

CONSTANTS
  t1 = t1
  t2 = t2
  k = k
  v1 = v1
  v2 = v2
  Nothing = Nothing
  Thread = {t1, t2}
  Key = {k}
  Value = {v1, v2}
  MaxCol = 2
  Columns = 1
  Batch <- MCBatch
  MaxWrites = 3
  MaxLosses = 3
SPECIFICATION Spec
SYMMETRY Symmetry
INVARIANTS GetIsAtomic StaysUsable
PROPERTY ImplementsMap
CHECK_DEADLOCK FALSE

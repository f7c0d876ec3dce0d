SPECIFICATION Spec
CONSTANTS
  Key = {1, 2, 3, 4, 5}
  Value = {"short", "long"}
  Long = {"long"}
  MaxOps = 6
  MaxDepth = 5
INVARIANTS
  LooksUp
  IteratesInOrder
  HeightsSuffice
CHECK_DEADLOCK FALSE

\* Every request and every node with three documents of two types.
CONSTANTS
  Doc = {d1, d2, d3}
  DocType = {t1, t2}
  PageSize = 2
SPECIFICATION FilterSpec
INVARIANTS
  PreviewIsHonest
  InputsAreRight
CHECK_DEADLOCK FALSE

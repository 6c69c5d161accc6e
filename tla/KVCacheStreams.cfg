SPECIFICATION Spec
CONSTANTS
  t1 = t1
  t2 = t2
  NSeq = 2
  Unified = FALSE
  Size = 2
  NSwa = 0
  MaxPos = 1
  MaxBatch = 2
  Coupled = FALSE
  Toks <- TwoToks
  Calls = {"cp", "add", "div", "decode"}
SYMMETRY Symmetry
INVARIANTS
  RowsMatchCells
  PrepareRestores

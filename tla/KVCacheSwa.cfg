SPECIFICATION Spec
CONSTANTS
  t1 = t1
  t2 = t2
  NSeq = 2
  Unified = TRUE
  Size = 3
  NSwa = 2
  MaxPos = 3
  MaxBatch = 3
  Coupled = FALSE
  Toks <- OneTok
  Calls = {"clear", "rm", "rm_any", "cp", "keep", "decode"}
INVARIANTS
  TypeOK
  
  
  RowsMatchCells

SPECIFICATION Spec
CONSTANTS
  Tokens <- Varied
  StopWords <- Stops
  NPredict = 4
  NCtx = 5
  NPrompts = {1, 3}
  NIndent = 1
  TimeLimit = TRUE
  DraftMax = 2
  MaxMap = 4
INVARIANTS
  TypeOK
  StreamedIsText
  
  OnlyHeldBack
  
  RangeOrdered
CHECK_DEADLOCK FALSE

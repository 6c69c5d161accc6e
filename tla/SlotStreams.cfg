SPECIFICATION Spec
CONSTANTS
  bos = bos
  nl = nl
  a = a
  b = b
  NSlots = 2
  Unified = FALSE
  NCells = 6
  NCtx = 4
  NBatch = 2
  CtxShift = TRUE
  NKeep = 0
  MaxSaved = 1
  MaxMap = 0
  MaxTokens = 5
  Prompts <- TwoPrompts
  Bos = bos
  Blank = nl
  Gen = {a}
  Kinds = {"completion","reuse"}
  Faults = {"cancel", "erase"}
INVARIANTS
  TypeOK
  
CHECK_DEADLOCK FALSE

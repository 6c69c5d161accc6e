SPECIFICATION Spec
CONSTANTS
  bos = bos
  nl = nl
  a = a
  b = b
  NSlots = 2
  Unified = FALSE
  NCells = 6
  NCtx = 6
  NBatch = 2
  CtxShift = FALSE
  NKeep = 0
  MaxSaved = 0
  MaxMap = 1
  MaxTokens = 8
  Prompts <- ShortPrompts
  Bos = bos
  Blank = nl
  Gen = {a}
  Kinds = {"completion", "fresh"}
  Faults = {}
INVARIANTS
  NeverAborts
CHECK_DEADLOCK FALSE

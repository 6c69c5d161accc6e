SPECIFICATION Spec
CONSTANTS
  bos = bos
  nl = nl
  a = a
  b = b
  NSlots = 1
  Unified = FALSE
  NCells = 4
  NCtx = 4
  NBatch = 2
  CtxShift = FALSE
  NKeep = 0
  MaxSaved = 0
  MaxMap = 0
  MaxTokens = 8
  Prompts <- SomePrompts
  Bos = bos
  Blank = nl
  Gen = {a, b}
  Kinds = {"completion"}
  Faults = {}
PROPERTIES
  NeverRefused
CHECK_DEADLOCK FALSE

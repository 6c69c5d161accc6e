SPECIFICATION Spec
CONSTANTS
  bos = bos
  nl = nl
  a = a
  b = b
  NSlots = 2
  Unified = TRUE
  NCells = 4
  NCtx = 4
  NBatch = 2
  CtxShift = FALSE
  NKeep = 0
  MaxSaved = 0
  MaxMap = 0
  MaxTokens = 3
  Prompts <- PairPrompts
  Bos = bos
  Blank = nl
  Gen = {a}
  Kinds = {"completion","reuse","fresh"}
  Faults = {"compute"}
INVARIANTS
  KVMatchesTokens
  NoLeak
CHECK_DEADLOCK FALSE
PROPERTIES
  IdleUntouched

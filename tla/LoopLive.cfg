SPECIFICATION FairSpec
CONSTANTS
  r1 = r1
  r2 = r2
  r3 = r3
  pair = pair
  t1 = t1
  t2 = t2
  NSlots = 2
  Batch <- Three
  Kinds <- SlotKinds
  MaxWork = 2
  Faults = {"full", "decode"}
INVARIANTS
  NoStrandedTask
PROPERTIES
  EveryRequestAnswered
CHECK_DEADLOCK FALSE

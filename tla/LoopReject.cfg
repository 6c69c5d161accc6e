SPECIFICATION Spec
CONSTANTS
  r1 = r1
  r2 = r2
  r3 = r3
  pair = pair
  t1 = t1
  t2 = t2
  NSlots = 2
  Batch <- Two
  Kinds <- JustAny
  MaxWork = 1
  Faults = {"reject"}
INVARIANTS
  NeverAborts
CHECK_DEADLOCK FALSE

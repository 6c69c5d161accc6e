SPECIFICATION Spec
CONSTANTS
  r1 = r1
  r2 = r2
  r3 = r3
  pair = pair
  t1 = t1
  t2 = t2
  NSlots = 2
  Batch <- Pair
  Kinds <- AnyKind
  MaxWork = 2
  Faults = {"launch", "reject", "full", "decode", "leave", "abandon"}
INVARIANTS
  TypeOK
  Conservation
  AnswersKept
  ResultsAwaited
PROPERTIES
  LivesForward
CHECK_DEADLOCK FALSE

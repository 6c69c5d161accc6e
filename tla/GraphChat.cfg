SPECIFICATION FairSpec
CONSTANTS
  SlotIds = {0}
  MaxTurns = 3
  MaxChunks = 2
  Faults = {"fail"}
INVARIANTS
  TypeOK
  StreamText
  TreeConsistent
  OneStream
PROPERTIES
  
  AnimationEnds
CHECK_DEADLOCK FALSE

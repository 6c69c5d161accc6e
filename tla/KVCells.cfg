SPECIFICATION Spec
CONSTANTS
  c1 = c1
  c2 = c2
  s1 = s1
  s2 = s2
  Cells <- CellsMC
  Seqs <- SeqsMC
  MaxPos = 2
  Divisors = {2, 3}
SYMMETRY Symmetry
INVARIANTS
  TypeOK
  Occupancy
  SeqPosCounts
  PresentIsHeld
  HasShiftCoversShifts

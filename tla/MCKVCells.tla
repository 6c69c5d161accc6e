------------------------------ MODULE MCKVCells ------------------------------
(* Small instances of KVCells for TLC: cells and sequences are model values  *)
(* and interchangeable.                                                      *)
EXTENDS KVCells, TLC

CONSTANTS c1, c2, s1, s2

CellsMC == {c1, c2}
SeqsMC  == {s1, s2}
Symmetry == Permutations(CellsMC) \cup Permutations(SeqsMC)
=============================================================================

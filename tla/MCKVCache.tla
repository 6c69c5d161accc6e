------------------------------ MODULE MCKVCache ------------------------------
(* Instances of KVCache for TLC: one or two distinguishable token contents,  *)
(* which are interchangeable.                                                *)
EXTENDS KVCache

CONSTANTS t1, t2

OneTok   == {t1}
TwoToks  == {t1, t2}
Symmetry == Permutations(TwoToks)
=============================================================================

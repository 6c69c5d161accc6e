------------------------------ MODULE MCSlotCache ------------------------------
(* Instances of SlotCache for TLC.  Every prompt starts with the token that  *)
(* starts a text, as the tokenizer makes it, and no sampled token is it.     *)
EXTENDS SlotCache

CONSTANTS bos, nl, a, b

ShortPrompts == {<<bos>>, <<bos, a>>}
SomePrompts  == {<<bos, a>>, <<bos, b>>, <<bos, a, b>>}
TwoPrompts   == {<<bos, a>>, <<bos, b>>}
PairPrompts  == {<<bos, b>>, <<bos, a, b>>}
=============================================================================

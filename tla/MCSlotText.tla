----------------------------- MODULE MCSlotText -----------------------------
(* Instances of SlotText for TLC: a stop word of three characters that tokens *)
(* bring together, one by one or with other text, a character of two bytes,  *)
(* alone and behind other text, and lines.                                   *)
EXTENDS SlotText

End      == <<"a", "a", "b">>
Letters  == {<<"a">>, <<"b">>, <<"b", "a">>}
Bytes    == {<<"L">>, <<"C">>, <<"b", "L">>}
Lines    == {<<"n">>, <<" ">>}
Varied   == Letters \cup Bytes \cup Lines \cup {<<>>}
Stops    == {End}
=============================================================================

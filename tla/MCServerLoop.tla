----------------------------- MODULE MCServerLoop -----------------------------
(* Instances of ServerLoop for TLC.  A request with one task shares its      *)
(* name; `pair` is a request with two tasks.                                 *)
EXTENDS ServerLoop

CONSTANTS r1, r2, r3, pair, t1, t2

Two   == (r1 :> <<r1>>) @@ (r2 :> <<r2>>)
Three == Two @@ (r3 :> <<r3>>)
Pair  == (pair :> <<t1, t2>>) @@ (r1 :> <<r1>>)

Completion(s) == [type |-> "completion", slot |-> s]
Branch(s)     == [type |-> "branch", slot |-> s]
Action(s)     == [type |-> "action", slot |-> s]
Metrics       == [type |-> "metrics", slot |-> AnySlot]

AnyKind      == {Completion(AnySlot), Branch(0), Action(0), Metrics}
SlotKinds    == {Completion(AnySlot), Completion(0)}
JustAny      == {Completion(AnySlot)}
=============================================================================

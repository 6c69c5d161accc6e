------------------------------- MODULE TaskLife -------------------------------
(***************************************************************************)
(* What the server promises about a task (struct server_task,              *)
(* backend/tools/server/server.cpp), whatever happens to queues, slots and *)
(* connections: its life only moves forward.  It is never answered twice,  *)
(* never runs again once it ran, and never comes back once it was dropped. *)
(* ServerLoop is shown to implement this.                                  *)
(***************************************************************************)
CONSTANT Tasks

VARIABLE life       \* life[t]: where task t is in its life

Lives == {"new", "pending", "running", "answered", "dropped"}

(* What one step may make of one task. *)
Moves == {<<"new", "pending">>,
          <<"pending", "running">>, <<"pending", "answered">>,
          <<"pending", "dropped">>,
          <<"running", "answered">>, <<"running", "dropped">>}

Init == life = [t \in Tasks |-> "new"]

(* One step may move several tasks: a request posts all of its tasks at    *)
(* once, and a failed batch answers every running one.                     *)
Next ==
  /\ life' \in [Tasks -> Lives]
  /\ \A t \in Tasks : life'[t] # life[t] => <<life[t], life'[t]>> \in Moves

Spec == Init /\ [][Next]_life
=============================================================================

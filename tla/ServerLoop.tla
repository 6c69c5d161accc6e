------------------------------ MODULE ServerLoop ------------------------------
(***************************************************************************)
(* The request path of llama-server (backend/tools/server/server.cpp): the *)
(* task queue with its deferred tasks (server_queue), the result queue     *)
(* (server_response), the life cycle of the slots (server_slot), the one   *)
(* worker thread that runs server_queue::start_loop, and the HTTP threads  *)
(* that post tasks, wait for results and cancel.                           *)
(*                                                                         *)
(* Every critical section of the two mutexes is one step.  update_slots is *)
(* one step too: it runs on the worker alone, and the HTTP threads meet it *)
(* only in the queues, where what it posts and sends commutes with them.   *)
(* Partial results only carry text and are left out: a task sends at most  *)
(* one result here, its final one or its error.                            *)
(***************************************************************************)
EXTENDS Integers, FiniteSets, Sequences, SequencesExt, FiniteSetsExt

CONSTANTS
  NSlots,     \* n_parallel
  Batch,      \* Batch[r]: the tasks of request r, in order of their ids
  Kinds,      \* the kinds of requests that clients make
  MaxWork,    \* bound: batches a slot takes part in before it must finish
  Faults      \* what may go wrong, among AllFaults

Requests   == DOMAIN Batch
TasksOf(r) == Range(Batch[r])
Tasks      == UNION {TasksOf(r) : r \in Requests}
Slots      == 0 .. NSlots - 1
NoTask     == "no task"

AnySlot     == -1         \* id_slot when the client names no slot
Unknown == NSlots     \* an id that is not a slot

(* A completion names the slot it wants, a branch its parent, a slot       *)
(* action (save, restore, erase) its slot.                                 *)
AllKinds == [type : {"completion", "branch", "action", "metrics"},
             slot : Slots \cup {AnySlot, Unknown}]

(* launch: tokens or grammar rejected; reject: the prompt is empty or too  *)
(* large for update_slots; full: the tokens a slot still remembers fill    *)
(* its context; decode: llama_decode fails for good; leave: a connection   *)
(* closes; abandon: it closes before its stream was started.               *)
AllFaults == {"launch", "reject", "full", "decode", "leave", "abandon"}

ASSUME NSlotsAssumption  == NSlots \in Nat \ {0}
ASSUME MaxWorkAssumption == MaxWork \in Nat \ {0}
ASSUME KindsAssumption   == Kinds \subseteq AllKinds
ASSUME FaultsAssumption  == Faults \subseteq AllFaults
ASSUME BatchAssumption   ==
  \A r \in Requests :
    /\ Len(Batch[r]) > 0
    /\ Batch[r] \in Seq(TasksOf(r))
    /\ Cardinality(TasksOf(r)) = Len(Batch[r])
    /\ \A q \in Requests \ {r} : TasksOf(q) \cap TasksOf(r) = {}
ASSUME NoTaskAssumption == NoTask \notin Tasks

VARIABLES
  queue,      \* queue_tasks: messages, oldest first
  deferred,   \* queue_tasks_deferred: tasks
  hand,       \* the message the worker has taken and not yet processed
  worker,     \* where the worker is in start_loop
  state,      \* state[s]: slot_state of slot s
  task,       \* task[s]: server_slot::task
  left,       \* left[s]: batches left before slot s must finish
  waiting,    \* waiting_task_ids
  results,    \* queue_results
  client,     \* client[r]: how far the HTTP thread of r is
  kind,       \* kind[r]: what the request asks for
  got,        \* got[r]: final results the request has received
  answers     \* ghost: results sent per task, whether awaited or not

slotVars   == <<state, task, left>>
clientVars == <<client, kind, got>>
vars == <<queue, deferred, hand, worker, state, task, left,
          waiting, results, client, kind, got, answers>>

NoMsg  == [op |-> "none", task |-> NoTask]
NoKind == [type |-> "none", slot |-> AnySlot]

RunMsg(t)    == [op |-> "run", task |-> t]
CancelMsg(t) == [op |-> "cancel", task |-> t]
NextMsg      == [op |-> "next", task |-> NoTask]
Messages     == {RunMsg(t) : t \in Tasks} \cup {CancelMsg(t) : t \in Tasks} \cup {NextMsg}

States  == {"idle", "started", "prompt", "generating"}
Busy    == {s \in Slots : state[s] # "idle"}
Idle    == Slots \ Busy
Owner(t)  == CHOOSE r \in Requests : t \in TasksOf(r)
KindOf(t) == kind[Owner(t)]

QueuesOK == queue \in Seq(Messages) /\ deferred \in Seq(Tasks)

WorkerOK ==
  /\ worker \in {"pull", "handle", "update", "wait", "aborted"}
  /\ hand \in Messages \cup {NoMsg} /\ (worker = "handle" <=> hand # NoMsg)

SlotsOK ==
  /\ state \in [Slots -> States] /\ left \in [Slots -> 0 .. MaxWork]
  /\ task \in [Slots -> Tasks \cup {NoTask}]
  /\ \A s \in Busy : task[s] # NoTask

ClientsOK ==
  /\ waiting \subseteq Tasks
  /\ results \subseteq [task : Tasks, kind : {"final", "error"}]
  /\ client \in [Requests -> {"new", "registered", "waiting", "leaving",
                              "served", "cancelled", "abandoned"}]
  /\ kind \in [Requests -> Kinds \cup {NoKind}]
  /\ \A r \in Requests : client[r] = "new" <=> kind[r] = NoKind
  /\ got \in [Requests -> Nat]
  /\ answers \in [Tasks -> Nat]

TypeOK == QueuesOK /\ WorkerOK /\ SlotsOK /\ ClientsOK

Init ==
  /\ queue = <<>> /\ deferred = <<>>
  /\ worker = "pull" /\ hand = NoMsg
  /\ state = [s \in Slots |-> "idle"]
  /\ task = [s \in Slots |-> NoTask]
  /\ left = [s \in Slots |-> 0]
  /\ waiting = {} /\ results = {}
  /\ client = [r \in Requests |-> "new"]
  /\ kind = [r \in Requests |-> NoKind]
  /\ got = [r \in Requests |-> 0]
  /\ answers = [t \in Tasks |-> 0]
-----------------------------------------------------------------------------
(* The HTTP threads.                                                       *)

(* add_waiting_task_id(s): before the tasks are posted, so that no answer  *)
(* can come too early.                                                     *)
Register(r, k) ==
  /\ client[r] = "new"
  /\ client' = [client EXCEPT ![r] = "registered"]
  /\ kind' = [kind EXCEPT ![r] = k]
  /\ waiting' = waiting \cup TasksOf(r)
  /\ UNCHANGED <<queue, deferred, hand, worker, slotVars, results, got,
                 answers>>

(* post(): at the end of the queue, metrics at the front. *)
Post(r) ==
  LET msgs == [i \in DOMAIN Batch[r] |-> RunMsg(Batch[r][i])]
  IN  /\ client[r] = "registered"
      /\ client' = [client EXCEPT ![r] = "waiting"]
      /\ queue' = IF kind[r].type = "metrics" THEN Reverse(msgs) \o queue
                  ELSE queue \o msgs
      /\ UNCHANGED <<deferred, hand, worker, slotVars, waiting, results,
                     kind, got, answers>>

MayCancel(r) == kind[r].type \in {"completion", "branch"}

(* Mutant of Forget: remove_waiting_task_ids() in its place. *)
ForgetKeepsResults(r) == waiting' = waiting \ TasksOf(r) /\ UNCHANGED results

(* remove_waiting_task_id(): the task is no longer awaited and what it has *)
(* sent is thrown away.                                                    *)
Forget(r) ==
  /\ waiting' = waiting \ TasksOf(r)
  /\ results' = {m \in results : m.task \notin TasksOf(r)}

(* recv takes one result of the request.  An error makes a completion or a *)
(* branch cancel all of its tasks; otherwise the last final result, or the *)
(* only result of an action, ends the request.                             *)
TookAll(m) == {x \in results : Owner(x.task) # Owner(m.task)}   \* mutant of Took

Took(m) == results \ {m}

Receive(r) ==
  \E m \in results :
    /\ client[r] = "waiting" /\ m.task \in TasksOf(r)
    /\ IF m.kind = "error" /\ MayCancel(r)
       THEN /\ Forget(r)
            /\ client' = [client EXCEPT ![r] = "leaving"]
            /\ UNCHANGED got
       ELSE /\ got' = [got EXCEPT ![r] = @ + 1]
            /\ results' = Took(m)
            /\ IF got'[r] = Len(Batch[r])
               THEN /\ client' = [client EXCEPT ![r] = "served"]
                    /\ waiting' = waiting \ TasksOf(r)
               ELSE UNCHANGED <<client, waiting>>
    /\ UNCHANGED <<queue, deferred, hand, worker, slotVars, kind, answers>>

(* The connection is seen closed, with or without a result just taken. *)
Leave(r) ==
  /\ "leave" \in Faults
  /\ client[r] = "waiting" /\ MayCancel(r)
  /\ Forget(r)
  /\ client' = [client EXCEPT ![r] = "leaving"]
  /\ UNCHANGED <<queue, deferred, hand, worker, slotVars, kind, got, answers>>

(* The places in K, in their order. *)
InOrder(K) ==
  {f \in [1 .. Cardinality(K) -> K] :
     /\ Range(f) = K
     /\ \A i, j \in DOMAIN f : i < j => f[i] < f[j]}

(* post() of the CANCEL tasks at the front: cleanup_pending_task first     *)
(* removes the tasks that are still in one of the two queues, and what     *)
(* stays keeps its order (erase of remove_if).                             *)
PostCancel(r) ==
  LET pending == {i \in DOMAIN queue :
                    queue[i].op = "run" /\ queue[i].task \in TasksOf(r)}
      parked  == {i \in DOMAIN deferred : deferred[i] \in TasksOf(r)}
      cancels == [i \in DOMAIN Batch[r] |-> CancelMsg(Batch[r][i])]
  IN  /\ client[r] = "leaving"
      /\ client' = [client EXCEPT ![r] = "cancelled"]
      /\ \E f \in InOrder(DOMAIN queue \ pending) :
           queue' = Reverse(cancels) \o [i \in DOMAIN f |-> queue[f[i]]]
      /\ \E g \in InOrder(DOMAIN deferred \ parked) :
           deferred' = [i \in DOMAIN g |-> deferred[g[i]]]
      /\ UNCHANGED <<hand, worker, slotVars, waiting, results, kind, got,
                     answers>>

(* The connection closes before the stream's content provider is called:   *)
(* only on_complete runs, and remove_waiting_task_ids cancels nothing and  *)
(* keeps the results.                                                      *)
Abandon(r) ==
  /\ "abandon" \in Faults
  /\ client[r] = "waiting" /\ MayCancel(r) /\ got[r] = 0
  /\ client' = [client EXCEPT ![r] = "abandoned"]
  /\ waiting' = waiting \ TasksOf(r)
  /\ UNCHANGED <<queue, deferred, hand, worker, slotVars, results, kind, got,
                 answers>>
-----------------------------------------------------------------------------
(* The worker.                                                             *)

(* send(): a result is queued only while its task is awaited. *)
Send(T, k) ==
  /\ results' = results \cup {[task |-> t, kind |-> k] : t \in T \cap waiting}
  /\ answers' = [t \in Tasks |-> IF t \in T THEN answers[t] + 1 ELSE answers[t]]

(* Mutants: a release that forgets the state, callbacks that move nothing, *)
(* and a pop_deferred_task without its pop_front.                          *)
IdledStillBusy(S) == /\ UNCHANGED <<state, left>>
                     /\ task' = [s \in Slots |-> IF s \in S THEN NoTask ELSE task[s]]
PoppedNone(n) == 0

(* release() of the slots in S, and of how many deferred tasks each of the *)
(* callbacks (pop_deferred_task) can move to the front of the queue.       *)
Popped(n) == Min({n, Len(deferred)})

Idled(S) == /\ state' = [s \in Slots |-> IF s \in S THEN "idle" ELSE state[s]]
            /\ task' = [s \in Slots |-> IF s \in S THEN NoTask ELSE task[s]]
            /\ left' = [s \in Slots |-> IF s \in S THEN 0 ELSE left[s]]

Requeued(n, q) ==
  [i \in 1 .. n |-> RunMsg(deferred[n + 1 - i])] \o q

PopKeepsDeferred(n, q) == queue' = Requeued(Popped(n), q) /\ UNCHANGED deferred

PopDeferred(n, q) ==
  /\ queue' = Requeued(Popped(n), q)
  /\ deferred' = SubSeq(deferred, Popped(n) + 1, Len(deferred))

(* The worker takes the next message, or finds none. *)
Pull ==
  /\ worker = "pull" /\ queue # <<>>
  /\ hand' = Head(queue) /\ queue' = Tail(queue)
  /\ worker' = "handle"
  /\ UNCHANGED <<deferred, slotVars, waiting, results, clientVars, answers>>

Drained ==
  /\ worker = "pull" /\ queue = <<>>
  /\ worker' = "update"
  /\ UNCHANGED <<queue, deferred, hand, slotVars, waiting, results,
                 clientVars, answers>>

(* process_single_task is done with the message. *)
Handled == worker' = "pull" /\ hand' = NoMsg

(* The slots a completion or a branch may be launched on: the one asked    *)
(* for, or any idle one, which for a branch is not its parent.             *)
Candidates(t) ==
  LET k == KindOf(t)
  IN  CASE k.type = "branch"                   -> Idle \ {k.slot}
        [] k.type = "completion" /\ k.slot = AnySlot -> Idle
        [] OTHER                               -> Idle \cap {k.slot}

Hands(t) == worker = "handle" /\ hand = RunMsg(t)
Launches(t) == Hands(t) /\ KindOf(t).type \in {"completion", "branch"}
Acts(t) == Hands(t) /\ KindOf(t).type \in {"action", "metrics"}

(* launch_branch refuses a parent that is not a slot or is not idle. *)
ParentReady(t) == KindOf(t).type = "branch" => KindOf(t).slot \in Idle

Launch(t, s) ==
  /\ Launches(t) /\ s \in Candidates(t) /\ ParentReady(t)
  /\ state' = [state EXCEPT ![s] = "started"]
  /\ task' = [task EXCEPT ![s] = t]
  /\ left' = [left EXCEPT ![s] = MaxWork]
  /\ Handled
  /\ UNCHANGED <<queue, deferred, waiting, results, clientVars, answers>>

(* The slot keeps the task but stays idle, and is not released. *)
LaunchFails(t, s) ==
  /\ Launches(t) /\ s \in Candidates(t)
  /\ "launch" \in Faults \/ ~ParentReady(t)
  /\ task' = [task EXCEPT ![s] = t]
  /\ Send({t}, "error")
  /\ Handled
  /\ UNCHANGED <<queue, deferred, state, left, waiting, clientVars>>

(* No slot: the task waits in the deferred queue. *)
Defer(t) ==
  /\ \/ Launches(t) /\ Candidates(t) = {}
     \/ Acts(t) /\ KindOf(t).type = "action" /\ KindOf(t).slot \in Busy
  /\ deferred' = Append(deferred, t)
  /\ Handled
  /\ UNCHANGED <<queue, slotVars, waiting, results, clientVars, answers>>

(* Metrics, and an action on an idle slot, are answered at once; an action *)
(* on an unknown slot, or one that fails, with an error.                   *)
Act(t) ==
  /\ Acts(t)
  /\ KindOf(t).type = "action" => KindOf(t).slot \notin Busy
  /\ \E k \in {"final", "error"} :
       /\ KindOf(t).type = "metrics" => k = "final"
       /\ KindOf(t).type = "action" /\ KindOf(t).slot \notin Slots => k = "error"
       /\ Send({t}, k)
  /\ Handled
  /\ UNCHANGED <<queue, deferred, slotVars, waiting, clientVars>>

(* CANCEL: the slot that holds the task is released, if it is processing.  *)
HandleCancel ==
  LET S == {s \in Busy : task[s] = hand.task}
  IN  /\ worker = "handle" /\ hand # NoMsg /\ hand.op = "cancel"
      /\ Idled(S)
      /\ PopDeferred(Cardinality(S), queue)
      /\ Handled
      /\ UNCHANGED <<waiting, results, clientVars, answers>>

(* NEXT_RESPONSE only keeps the loop turning. *)
HandleNext ==
  /\ worker = "handle" /\ hand = NextMsg
  /\ Handled
  /\ UNCHANGED <<queue, deferred, slotVars, waiting, results, clientVars,
                 answers>>

(* The wait on the condition variable ends when there is a task. *)
Wake ==
  /\ worker = "wait" /\ queue # <<>>
  /\ worker' = "pull"
  /\ UNCHANGED <<queue, deferred, hand, slotVars, waiting, results,
                 clientVars, answers>>
-----------------------------------------------------------------------------
(* update_slots.  The first slot that generates, or else the first one     *)
(* that processes, decides which slots are batched with it: those whose    *)
(* task has the same type (the adapters are the same everywhere here).     *)
Generating == {s \in Slots : state[s] = "generating"}
First      == Min(IF Generating # {} THEN Generating ELSE Busy)
Mates      == {s \in Busy : KindOf(task[s]).type = KindOf(task[First]).type}

(* Slots that still have a prompt are visited in order until the batch is  *)
(* full, at slot `end`.                                                    *)
Visited(end) == {s \in Mates \ Generating : s <= end}
Ends == IF Mates \subseteq Generating THEN {0} ELSE Mates \ Generating

(* What is refused on the way: an empty or too large prompt. *)
Rejects(end) ==
  IF "reject" \in Faults
  THEN SUBSET {s \in Visited(end) : state[s] = "started"} ELSE {{}}

UpdateIdle ==
  /\ worker = "update" /\ Busy = {}
  /\ worker' = "wait"
  /\ UNCHANGED <<queue, deferred, hand, slotVars, waiting, results,
                 clientVars, answers>>

(* Started slots whose context is full are refused before anything is      *)
(* batched; update_slots goes on with the others, if there are any, and    *)
(* NEXT_RESPONSE is posted once.                                           *)
UpdateOverflows ==
  /\ worker = "update" /\ "full" \in Faults
  /\ \E O \in (SUBSET {s \in Busy : state[s] = "started"}) \ {{}} :
       /\ Idled(O)
       /\ PopDeferred(Cardinality(O), IF O = Busy THEN Append(queue, NextMsg) ELSE queue)
       /\ Send({task[s] : s \in O}, "error")
  /\ UNCHANGED <<hand, worker, waiting, clientVars>>

(* The first slot is refused and released, but the loop still compares the *)
(* next ones with it: can_batch_with asserts that it has a task.           *)
UpdateAborts ==
  /\ worker = "update" /\ Busy # {}
  /\ Busy # {First} /\ \E end \in Ends : \E R \in Rejects(end) : First \in R
  /\ worker' = "aborted"
  /\ UNCHANGED <<queue, deferred, hand, slotVars, waiting, results,
                 clientVars, answers>>

(* Mutant of Finish: no NEXT_RESPONSE is posted. *)
FinishWithoutNext(F, E) ==
  /\ PopDeferred(Cardinality(F \cup E), queue)
  /\ Send({task[s] : s \in F \cup E}, "final")
  /\ worker' = "wait"
  /\ UNCHANGED <<hand, waiting, clientVars>>

(* NEXT_RESPONSE is posted first; every slot that ends pops one deferred   *)
(* task.  The slots in F end with their final result, those in E with an   *)
(* error.                                                                  *)
Finish(F, E) ==
  /\ PopDeferred(Cardinality(F \cup E), Append(queue, NextMsg))
  /\ results' = results
       \cup {[task |-> task[s], kind |-> "final"] : s \in {x \in F : task[x] \in waiting}}
       \cup {[task |-> task[s], kind |-> "error"] : s \in {x \in E : task[x] \in waiting}}
  /\ answers' = [t \in Tasks |->
       IF \E s \in F \cup E : task[s] = t THEN answers[t] + 1 ELSE answers[t]]
  /\ worker' = "wait"
  /\ UNCHANGED <<hand, waiting, clientVars>>

(* The slots of the batch. *)
Batched(end, R) == (Mates \cap Generating) \cup (Visited(end) \ R)

(* What the decoded batch B makes of the slots: those in F and R are       *)
(* released, the prompt of those in `more` is not finished yet.            *)
Advance(B, F, R, more) ==
  /\ state' = [s \in Slots |->
       CASE s \in F \cup R -> "idle"
         [] s \in more     -> "prompt"
         [] s \in B \ (F \cup more) -> "generating"
         [] OTHER          -> state[s]]
  /\ task' = [s \in Slots |-> IF s \in F \cup R THEN NoTask ELSE task[s]]
  /\ left' = [s \in Slots |-> IF s \in F \cup R THEN 0
                              ELSE IF s \in B THEN left[s] - 1 ELSE left[s]]

(* The batch is decoded.  A slot in it goes on or ends; a prompt that was  *)
(* not finished stays in its state.  An empty prompt ends with a final     *)
(* result, one that is too large with an error.                            *)
UpdateDecodes ==
  /\ worker = "update" /\ Busy # {}
  /\ \E end \in Ends : \E R \in Rejects(end) :
       /\ First \notin R \/ Busy = {First}
       /\ \E F \in SUBSET Batched(end, R), empty \in SUBSET R,
             more \in SUBSET (Visited(end) \ R) :
            /\ F \cap more = {}
            /\ \A s \in Batched(end, R) \ F : left[s] > 1     \* bound MaxWork
            /\ Finish(F \cup empty, R \ empty)
            /\ Advance(Batched(end, R), F, R, more)

(* Mutant of UpdateFails: the tasks are tried again, as nothing was sent. *)
UpdateFailsRetries ==
  /\ worker = "update" /\ Busy # {} /\ "decode" \in Faults
  /\ queue' = queue \o SetToSeq({RunMsg(task[s]) : s \in Busy})
  /\ worker' = "wait"
  /\ Idled(Busy)
  /\ UNCHANGED <<deferred, hand, waiting, results, clientVars, answers>>

(* llama_decode fails for good: every slot that is processing, batched or  *)
(* not, gets an error and is released; what was refused before was         *)
(* answered as above, and so were the slots in F, which had ended in a     *)
(* part of the batch that was decoded before the one that failed.          *)
UpdateFails ==
  /\ worker = "update" /\ Busy # {}
  /\ "decode" \in Faults
  /\ \E end \in Ends : \E R \in Rejects(end) :
       /\ First \notin R
       /\ \E F \in (SUBSET Batched(end, R)) \ {Batched(end, R)},
             empty \in SUBSET R :
            Finish(F \cup empty, Busy \ (F \cup empty))
  /\ Idled(Busy)

Worker ==
  \/ Pull
  \/ Drained
  \/ \E t \in Tasks : Defer(t) \/ Act(t)
  \/ \E t \in Tasks, s \in Slots : Launch(t, s) \/ LaunchFails(t, s)
  \/ HandleCancel
  \/ HandleNext
  \/ UpdateIdle
  \/ UpdateOverflows
  \/ UpdateAborts
  \/ UpdateDecodes
  \/ UpdateFails
  \/ Wake

Client(r) == Post(r) \/ Receive(r) \/ PostCancel(r)

Next ==
  \/ Worker
  \/ \E r \in Requests : \E k \in Kinds : Register(r, k)
  \/ \E r \in Requests : Client(r)
  \/ \E r \in Requests : Leave(r)
  \/ \E r \in Requests : Abandon(r)

Spec == Init /\ [][Next]_vars

(* The worker thread runs whenever it can, and so do the HTTP threads that *)
(* have begun a request; nobody has to begin one or to leave.              *)
FairSpec == Spec /\ WF_vars(Worker) /\ \A r \in Requests : WF_vars(Client(r))
-----------------------------------------------------------------------------
(* The places a task can be in. *)
Copies(t) ==
    Cardinality({i \in DOMAIN queue : queue[i] = RunMsg(t)})
  + Cardinality({i \in DOMAIN deferred : deferred[i] = t})
  + Cardinality({s \in Busy : task[s] = t})
  + (IF hand = RunMsg(t) THEN 1 ELSE 0)

(* No task is lost or doubled on its way through the two queues, the       *)
(* worker's hand and the slots: while its client waits, it is either in    *)
(* exactly one place and not answered, or answered exactly once and gone;  *)
(* and without a waiting client it is still never in two places, nor       *)
(* anywhere after its answer.                                              *)
Conservation ==
  \A r \in Requests : \A t \in TasksOf(r) :
    /\ Copies(t) + answers[t] <= 1
    /\ client[r] = "waiting" => Copies(t) + answers[t] = 1

(* What was sent while the client waits is either still in the result      *)
(* queue or has been received: no answer comes before its task is awaited, *)
(* and none is thrown away by somebody else's cancellation.                *)
AnswersKept ==
  \A r \in Requests : client[r] = "waiting" =>
    Cardinality({t \in TasksOf(r) : answers[t] > 0})
      = got[r] + Cardinality({m \in results : m.task \in TasksOf(r)})

(* The result queue holds nothing that nobody will ever take (recv spins   *)
(* while it is not empty), except what an abandoned stream leaves there.   *)
ResultsAwaited ==
  \A m \in results : m.task \in waiting \/ client[Owner(m.task)] = "abandoned"

(* The worker never sleeps while a task waits for a slot and every slot is *)
(* idle: a deferred task is deferred only until one slot is available.     *)
NoStrandedTask ==
  worker = "wait" /\ queue = <<>> /\ deferred # <<>> => Busy # {}

(* GGML_ASSERT(task) in can_batch_with never fails. *)
NeverAborts == worker # "aborted"

(* Every request that is posted is answered in the end. *)
EveryRequestAnswered ==
  \A r \in Requests : client[r] = "registered" ~> client[r] \in {"served", "cancelled"}

(* Where a task is in its life: a task that came back after its answer     *)
(* would be pending or running again.                                      *)
LifeOf(t) ==
  IF client[Owner(t)] \in {"new", "registered"} THEN "new"
  ELSE IF \E s \in Busy : task[s] = t THEN "running"
  ELSE IF Copies(t) > 0 THEN "pending"
  ELSE IF answers[t] > 0 THEN "answered"
  ELSE "dropped"

Life == INSTANCE TaskLife WITH life <- [t \in Tasks |-> LifeOf(t)]

(* A task's life only moves forward, whatever queues, slots, faults and    *)
(* cancellations do: the loop implements TaskLife.                         *)
LivesForward == Life!Spec
=============================================================================

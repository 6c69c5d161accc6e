--------------------------- MODULE ServerLoopProofs ---------------------------
(***************************************************************************)
(* Proofs about ServerLoop, for any number of slots, any batch of requests *)
(* and any set of faults: type correctness, that no task is lost or        *)
(* doubled, that no answer is lost, and that the loop implements TaskLife. *)
(***************************************************************************)
EXTENDS ServerLoop, FiniteSetTheorems, SequenceTheorems, TLAPS

(* The slots are numbers, finitely many, and at least one.                 *)
LEMMA SlotsFinite ==
  /\ IsFiniteSet(Slots) /\ 0 \in Slots /\ Slots \subseteq Int
  /\ AnySlot \notin Slots /\ Unknown \notin Slots
<1>1. IsFiniteSet(0 .. NSlots - 1)
  BY NSlotsAssumption, FS_Interval
<1> QED
  BY <1>1, NSlotsAssumption DEF Slots, AnySlot, Unknown

(* The tasks of a request are those of its batch.                          *)
LEMMA TasksOfBatch ==
  ASSUME NEW r \in Requests
  PROVE  /\ DOMAIN Batch[r] = 1 .. Len(Batch[r]) /\ Len(Batch[r]) \in Nat
         /\ \A i \in DOMAIN Batch[r] : Batch[r][i] \in TasksOf(r)
         /\ \A t \in TasksOf(r) : \E i \in DOMAIN Batch[r] : Batch[r][i] = t
         /\ TasksOf(r) \subseteq Tasks
<1>1. Batch[r] \in Seq(TasksOf(r))
  BY BatchAssumption
<1>2. DOMAIN Batch[r] = 1 .. Len(Batch[r]) /\ Len(Batch[r]) \in Nat
  BY <1>1
<1> QED
  BY <1>2 DEF TasksOf, Tasks, Range

(* Every task belongs to exactly one request.                              *)
LEMMA OwnerIs ==
  /\ \A t \in Tasks : Owner(t) \in Requests /\ t \in TasksOf(Owner(t))
  /\ \A r \in Requests : \A t \in TasksOf(r) : t \in Tasks /\ Owner(t) = r
<1>1. ASSUME NEW t \in Tasks
      PROVE  Owner(t) \in Requests /\ t \in TasksOf(Owner(t))
  <2>1. \E r \in Requests : t \in TasksOf(r)
    BY DEF Tasks
  <2> QED
    BY <2>1 DEF Owner
<1>2. ASSUME NEW r \in Requests, NEW t \in TasksOf(r)
      PROVE  t \in Tasks /\ Owner(t) = r
  <2>1. t \in Tasks
    BY DEF Tasks
  <2>2. Owner(t) \in Requests /\ t \in TasksOf(Owner(t))
    BY <1>1, <2>1
  <2>3. \A q \in Requests \ {r} : TasksOf(q) \cap TasksOf(r) = {}
    BY BatchAssumption
  <2> QED
    BY <2>1, <2>2, <2>3
<1> QED
  BY <1>1, <1>2

(* Messages are told apart by what they ask for and by their task.         *)
LEMMA MessagesDiffer ==
  /\ \A t \in Tasks : /\ RunMsg(t) \in Messages /\ CancelMsg(t) \in Messages
                      /\ RunMsg(t) # NoMsg /\ CancelMsg(t) # NoMsg
                      /\ RunMsg(t) # NextMsg /\ CancelMsg(t) # NextMsg
  /\ \A t, u \in Tasks : /\ RunMsg(t) # CancelMsg(u)
                         /\ RunMsg(t) = RunMsg(u) => t = u
                         /\ CancelMsg(t) = CancelMsg(u) => t = u
  /\ NextMsg \in Messages /\ NextMsg # NoMsg /\ NoMsg \notin Messages
BY DEF RunMsg, CancelMsg, NextMsg, NoMsg, Messages

LEMMA MessageIs ==
  ASSUME NEW m \in Messages
  PROVE  /\ m.op = "run" => m.task \in Tasks /\ m = RunMsg(m.task)
         /\ m.op = "cancel" => m.task \in Tasks /\ m = CancelMsg(m.task)
         /\ \A t \in Tasks : /\ m = RunMsg(t) => m.op = "run" /\ m.task = t
                             /\ m = CancelMsg(t) => m.op = "cancel" /\ m.task = t
BY DEF RunMsg, CancelMsg, NextMsg, Messages
-----------------------------------------------------------------------------
(* Lemmas on the queues. *)

LEMMA ReverseIs ==
  ASSUME NEW S, NEW q \in Seq(S)
  PROVE  /\ Reverse(q) \in Seq(S) /\ Len(Reverse(q)) = Len(q)
         /\ \A i \in 1 .. Len(q) : Reverse(q)[i] = q[Len(q) - i + 1]
BY DEF Reverse

(* A choice of places in order is an enumeration of them.                  *)
LEMMA InOrderIs ==
  ASSUME NEW n \in Nat, NEW K \in SUBSET (1 .. n), NEW f \in InOrder(K)
  PROVE  /\ Cardinality(K) \in Nat /\ DOMAIN f = 1 .. Cardinality(K)
         /\ \A i \in DOMAIN f : f[i] \in K
         /\ \A k \in K : \E i \in DOMAIN f : f[i] = k
         /\ \A i, j \in DOMAIN f : f[i] = f[j] => i = j
<1>1. IsFiniteSet(K)
  <2>1. IsFiniteSet(1 .. n)
    BY FS_Interval
  <2> QED
    BY <2>1, FS_Subset
<1>2. Cardinality(K) \in Nat
  BY <1>1, FS_CardinalityType
<1>3. /\ DOMAIN f = 1 .. Cardinality(K)
      /\ \A i \in DOMAIN f : f[i] \in K
      /\ {f[i] : i \in DOMAIN f} = K
      /\ \A i, j \in DOMAIN f : i < j => f[i] < f[j]
  BY DEF InOrder, Range
<1>4. ASSUME NEW i \in DOMAIN f, NEW j \in DOMAIN f, f[i] = f[j]
      PROVE  i = j
  <2>1. i \in Nat /\ j \in Nat /\ f[i] \in Nat /\ f[j] \in Nat
    <3>1. f[i] \in 1 .. n /\ f[j] \in 1 .. n
      BY <1>3
    <3>2. DOMAIN f = 1 .. Cardinality(K)
      BY <1>3
    <3>3. i \in 1 .. Cardinality(K) /\ j \in 1 .. Cardinality(K)
      BY <3>2
    <3> QED
      BY <1>2, <3>1, <3>3
  <2>2. ~(i < j) /\ ~(j < i)
    BY <1>3, <1>4, <2>1
  <2> QED
    BY <2>1, <2>2
<1>5. \A k \in K : \E i \in DOMAIN f : f[i] = k
  BY <1>3
<1> QED
  BY <1>2, <1>3, <1>4, <1>5

(* What a callback can move is a number of deferred tasks.                 *)
LEMMA PoppedIs ==
  ASSUME NEW n \in Nat, deferred \in Seq(Tasks)
  PROVE  /\ Popped(n) \in 0 .. Len(deferred)
         /\ n > 0 /\ deferred # <<>> => Popped(n) > 0
<1> DEFINE least(x) == x \in {n, Len(deferred)} /\ \A y \in {n, Len(deferred)} : x <= y
<1>1. Len(deferred) \in Nat
  OBVIOUS
<1>2. \E x : least(x)
  <2>1. CASE n <= Len(deferred)
    BY <2>1, <1>1
  <2>2. CASE ~(n <= Len(deferred))
    <3>1. least(Len(deferred))
      BY <2>2, <1>1
    <3> QED
      BY <3>1
  <2> QED
    BY <2>1, <2>2
<1>3. Popped(n) = CHOOSE x \in {n, Len(deferred)} : \A y \in {n, Len(deferred)} : x <= y
  BY DEF Popped, Min
<1>4. least(Popped(n))
  BY <1>2, <1>3
<1>5. deferred # <<>> => Len(deferred) > 0
  OBVIOUS
<1> QED
  BY <1>1, <1>4, <1>5
-----------------------------------------------------------------------------
(* Type correctness. *)

LEMMA BusyIs ==
  ASSUME TypeOK
  PROVE  /\ Busy \subseteq Slots /\ IsFiniteSet(Busy)
         /\ \A s \in Busy : task[s] \in Tasks
<1>1. Busy \subseteq Slots
  BY DEF Busy
<1>2. IsFiniteSet(Busy)
  BY <1>1, SlotsFinite, FS_Subset
<1> QED
  BY <1>1, <1>2 DEF TypeOK, SlotsOK

(* How many of the busy slots are released is a number.                    *)
LEMMA ReleasedCount ==
  ASSUME TypeOK, NEW S \in SUBSET Busy
  PROVE  /\ Cardinality(S) \in Nat
         /\ S # {} => Cardinality(S) > 0
<1>1. IsFiniteSet(S)
  BY BusyIs, FS_Subset
<1>2. Cardinality(S) \in Nat
  BY <1>1, FS_CardinalityType
<1>3. Cardinality(S) = 0 <=> S = {}
  BY <1>1, FS_EmptySet
<1> QED
  BY <1>2, <1>3

LEMMA PopTyped ==
  ASSUME QueuesOK, NEW n \in Nat, NEW q \in Seq(Messages), PopDeferred(n, q)
  PROVE  QueuesOK'
<1> DEFINE k == Popped(n)
           p == [i \in 1 .. k |-> RunMsg(deferred[k + 1 - i])]
<1>1. deferred \in Seq(Tasks) /\ Len(deferred) \in Nat
  BY DEF QueuesOK
<1>2. k \in 0 .. Len(deferred)
  BY <1>1, PoppedIs
<1>3. p \in Seq(Messages)
  <2>1. ASSUME NEW i \in 1 .. k PROVE RunMsg(deferred[k + 1 - i]) \in Messages
    <3>1. k + 1 - i \in 1 .. Len(deferred)
      BY <1>1, <1>2
    <3>2. deferred[k + 1 - i] \in Tasks
      BY <1>1, <3>1
    <3> QED
      BY <3>2, MessagesDiffer
  <2>2. k \in Nat
    BY <1>1, <1>2
  <2> HIDE DEF k
  <2> QED
    BY <2>1, <2>2
<1>4. queue' = p \o q
  BY DEF PopDeferred, Requeued
<1>5. deferred' = SubSeq(deferred, k + 1, Len(deferred))
  BY DEF PopDeferred
<1> HIDE DEF p, k
<1>6. queue' \in Seq(Messages)
  BY <1>3, <1>4, ConcatProperties
<1>7. deferred' \in Seq(Tasks)
  BY <1>1, <1>2, <1>5
<1> QED
  BY <1>6, <1>7 DEF QueuesOK

LEMMA IdledTyped ==
  ASSUME SlotsOK, NEW S, Idled(S)
  PROVE  SlotsOK'
<1>1. 0 \in 0 .. MaxWork
  BY MaxWorkAssumption
<1> QED
  BY <1>1 DEF SlotsOK, Idled, States, Busy

LEMMA SendTyped ==
  ASSUME ClientsOK, NEW T \in SUBSET Tasks, NEW k \in {"final", "error"}, Send(T, k),
         UNCHANGED <<waiting, clientVars>>
  PROVE  ClientsOK'
<1>1. results' \subseteq [task : Tasks, kind : {"final", "error"}]
  BY DEF ClientsOK, Send
<1>2. answers' \in [Tasks -> Nat]
  BY DEF ClientsOK, Send
<1> QED
  BY <1>1, <1>2 DEF ClientsOK, clientVars

LEMMA FinishTyped ==
  ASSUME TypeOK, NEW F \in SUBSET Busy, NEW E \in SUBSET Busy, Finish(F, E)
  PROVE  QueuesOK' /\ ClientsOK'
<1>1. Cardinality(F \cup E) \in Nat
  BY ReleasedCount
<1>2. queue \in Seq(Messages) /\ Append(queue, NextMsg) \in Seq(Messages)
  BY MessagesDiffer DEF TypeOK, QueuesOK
<1>3. QueuesOK'
  BY <1>1, <1>2, PopTyped DEF Finish, TypeOK
<1>4. results' \subseteq [task : Tasks, kind : {"final", "error"}]
  BY BusyIs DEF TypeOK, ClientsOK, Finish
<1>5. answers' \in [Tasks -> Nat]
  BY DEF TypeOK, ClientsOK, Finish
<1>6. ClientsOK'
  BY <1>4, <1>5 DEF TypeOK, ClientsOK, Finish, clientVars
<1> QED
  BY <1>3, <1>6
LEMMA InitTyped == Init => TypeOK
<1> SUFFICES ASSUME Init PROVE TypeOK
  OBVIOUS
<1>1. QueuesOK
  BY DEF Init, QueuesOK
<1>2. WorkerOK
  BY DEF Init, WorkerOK
<1>3. SlotsOK
  BY MaxWorkAssumption DEF Init, SlotsOK, States, Busy
<1>4. ClientsOK
  BY DEF Init, ClientsOK
<1> QED
  BY <1>1, <1>2, <1>3, <1>4 DEF TypeOK

(* A part of the state that a step leaves alone keeps its type.            *)
LEMMA Untouched ==
  /\ QueuesOK /\ UNCHANGED <<queue, deferred>> => QueuesOK'
  /\ WorkerOK /\ UNCHANGED <<worker, hand>> => WorkerOK'
  /\ SlotsOK /\ UNCHANGED slotVars => SlotsOK'
  /\ ClientsOK /\ UNCHANGED <<waiting, results, clientVars, answers>> => ClientsOK'
<1>1. QueuesOK /\ UNCHANGED <<queue, deferred>> => QueuesOK'
  BY DEF QueuesOK
<1>2. WorkerOK /\ UNCHANGED <<worker, hand>> => WorkerOK'
  BY DEF WorkerOK
<1>3. SlotsOK /\ UNCHANGED slotVars => SlotsOK'
  BY DEF SlotsOK, slotVars, Busy
<1>4. ClientsOK /\ UNCHANGED <<waiting, results, clientVars, answers>> => ClientsOK'
  BY DEF ClientsOK, clientVars
<1> QED
  BY <1>1, <1>2, <1>3, <1>4

(* A kind that a client asks for is not the kind of a request not yet made. *)
LEMMA KindsMade == NoKind \notin Kinds
BY KindsAssumption DEF NoKind, AllKinds

LEMMA RegisterTyped ==
  ASSUME TypeOK, NEW r \in Requests, NEW k \in Kinds, Register(r, k)
  PROVE  TypeOK'
<1>1. ClientsOK'
  BY TasksOfBatch, KindsMade DEF TypeOK, ClientsOK, Register
<1> QED
  BY <1>1, Untouched DEF TypeOK, Register, slotVars

LEMMA PostTyped ==
  ASSUME TypeOK, NEW r \in Requests, Post(r)
  PROVE  TypeOK'
<1> DEFINE msgs == [i \in DOMAIN Batch[r] |-> RunMsg(Batch[r][i])]
<1>1. msgs \in Seq(Messages)
  BY TasksOfBatch, MessagesDiffer
<1>2. Reverse(msgs) \in Seq(Messages)
  BY <1>1, ReverseIs
<1>3. queue' \in {Reverse(msgs) \o queue, queue \o msgs}
  BY DEF Post
<1>4. QueuesOK'
  <2>1. queue \in Seq(Messages)
    BY DEF TypeOK, QueuesOK
  <2>2. queue' \in Seq(Messages)
    <3> HIDE DEF msgs
    <3> QED
      BY <1>1, <1>2, <1>3, <2>1, ConcatProperties
  <2> QED
    BY <2>2 DEF TypeOK, QueuesOK, Post
<1>5. ClientsOK'
  BY DEF TypeOK, ClientsOK, Post
<1> QED
  BY <1>4, <1>5, Untouched DEF TypeOK, Post, slotVars

LEMMA ReceiveTyped ==
  ASSUME TypeOK, NEW r \in Requests, Receive(r)
  PROVE  TypeOK'
<1>1. waiting' \subseteq Tasks
  BY DEF TypeOK, ClientsOK, Receive, Forget
<1>2. results' \subseteq results
  BY DEF Receive, Forget, Took
<1>3. got' \in [Requests -> Nat]
  BY DEF TypeOK, ClientsOK, Receive
<1>4. /\ client' \in [Requests -> {"new", "registered", "waiting", "leaving",
                              "served", "cancelled", "abandoned"}]
      /\ client[r] = "waiting" /\ client'[r] # "new"
      /\ \A q \in Requests \ {r} : client'[q] = client[q]
  BY DEF TypeOK, ClientsOK, Receive
<1>5. kind' = kind /\ answers' = answers
  BY DEF Receive
<1>6. ClientsOK'
  BY <1>1, <1>2, <1>3, <1>4, <1>5 DEF TypeOK, ClientsOK
<1>7. UNCHANGED <<queue, deferred, hand, worker, slotVars>>
  BY DEF Receive
<1> QED
  BY <1>6, <1>7, Untouched DEF TypeOK

LEMMA LeaveTyped ==
  ASSUME TypeOK, NEW r \in Requests, Leave(r) \/ Abandon(r)
  PROVE  TypeOK'
<1>1. ClientsOK'
  <2>1. waiting' \subseteq waiting /\ results' \subseteq results
    BY DEF Leave, Abandon, Forget
  <2>2. /\ client' \in [Requests -> {"new", "registered", "waiting", "leaving",
                              "served", "cancelled", "abandoned"}]
        /\ client[r] = "waiting" /\ client'[r] # "new"
        /\ \A q \in Requests \ {r} : client'[q] = client[q]
    BY DEF TypeOK, ClientsOK, Leave, Abandon
  <2>3. kind' = kind /\ answers' = answers /\ got' = got
    BY DEF Leave, Abandon
  <2> QED
    BY <2>1, <2>2, <2>3 DEF TypeOK, ClientsOK
<1>2. UNCHANGED <<queue, deferred, hand, worker, slotVars>>
  BY DEF Leave, Abandon
<1> QED
  BY <1>1, <1>2, Untouched DEF TypeOK

(* What the removal leaves of a queue is a sequence of its elements.       *)
LEMMA KeptTyped ==
  ASSUME NEW S, NEW q \in Seq(S), NEW K \in SUBSET DOMAIN q, NEW f \in InOrder(K)
  PROVE  [i \in DOMAIN f |-> q[f[i]]] \in Seq(S)
<1>1. DOMAIN q = 1 .. Len(q) /\ Len(q) \in Nat
  OBVIOUS
<1>2. /\ Cardinality(K) \in Nat /\ DOMAIN f = 1 .. Cardinality(K)
      /\ \A i \in DOMAIN f : f[i] \in K
  BY <1>1, InOrderIs
<1>3. \A i \in DOMAIN f : q[f[i]] \in S
  BY <1>1, <1>2
<1> QED
  BY <1>2, <1>3

LEMMA PostCancelTyped ==
  ASSUME TypeOK, NEW r \in Requests, PostCancel(r)
  PROVE  TypeOK'
<1> DEFINE cancels == [i \in DOMAIN Batch[r] |-> CancelMsg(Batch[r][i])]
           K == DOMAIN queue \ {i \in DOMAIN queue :
                    queue[i].op = "run" /\ queue[i].task \in TasksOf(r)}
           D == DOMAIN deferred \ {i \in DOMAIN deferred : deferred[i] \in TasksOf(r)}
<1>1. Reverse(cancels) \in Seq(Messages)
  <2>1. cancels \in Seq(Messages)
    BY TasksOfBatch, MessagesDiffer
  <2> QED
    BY <2>1, ReverseIs
<1>2. queue' \in Seq(Messages)
  <2>1. PICK f \in InOrder(K) :
          queue' = Reverse(cancels) \o [i \in DOMAIN f |-> queue[f[i]]]
    BY DEF PostCancel
  <2>2. [i \in DOMAIN f |-> queue[f[i]]] \in Seq(Messages)
    BY KeptTyped DEF TypeOK, QueuesOK
  <2> HIDE DEF cancels
  <2> QED
    BY <1>1, <2>1, <2>2, ConcatProperties
<1>3. deferred' \in Seq(Tasks)
  <2>1. PICK g \in InOrder(D) : deferred' = [i \in DOMAIN g |-> deferred[g[i]]]
    BY DEF PostCancel
  <2> QED
    BY <2>1, KeptTyped DEF TypeOK, QueuesOK
<1>4. ClientsOK'
  BY DEF TypeOK, ClientsOK, PostCancel
<1> QED
  BY <1>2, <1>3, <1>4, Untouched DEF TypeOK, QueuesOK, PostCancel, slotVars

LEMMA PullTyped ==
  ASSUME TypeOK, Pull \/ Drained
  PROVE  TypeOK'
<1>1. CASE Pull
  <2>1. Head(queue) \in Messages /\ Tail(queue) \in Seq(Messages)
    BY <1>1 DEF Pull, TypeOK, QueuesOK
  <2>2. QueuesOK'
    BY <1>1, <2>1 DEF Pull, TypeOK, QueuesOK
  <2>3. WorkerOK'
    BY <1>1, <2>1, MessagesDiffer DEF Pull, TypeOK, WorkerOK
  <2> QED
    BY <1>1, <2>2, <2>3, Untouched DEF Pull, TypeOK, slotVars
<1>2. CASE Drained
  <2>1. WorkerOK'
    BY <1>2 DEF Drained, TypeOK, WorkerOK
  <2> QED
    BY <1>2, <2>1, Untouched DEF Drained, TypeOK, slotVars
<1> QED
  BY <1>1, <1>2

(* The worker is done with its message. *)
LEMMA HandledTyped ==
  ASSUME Handled
  PROVE  WorkerOK'
BY DEF Handled, WorkerOK

LEMMA LaunchTyped ==
  ASSUME TypeOK, NEW t \in Tasks, NEW s \in Slots, Launch(t, s) \/ LaunchFails(t, s)
  PROVE  TypeOK'
<1>1. s \in Idle
  BY DEF Launch, LaunchFails, Candidates
<1>2. WorkerOK'
  BY HandledTyped DEF Launch, LaunchFails
<1>3. MaxWork \in 0 .. MaxWork
  BY MaxWorkAssumption
<1>4. t # NoTask
  BY NoTaskAssumption
<1>5. CASE Launch(t, s)
  <2>1. SlotsOK'
    BY <1>3, <1>4, <1>5 DEF TypeOK, SlotsOK, Launch, States, Busy
  <2> QED
    BY <1>2, <1>5, <2>1, Untouched DEF TypeOK, Launch
<1>6. CASE LaunchFails(t, s)
  <2>1. SlotsOK'
    BY <1>1, <1>6 DEF TypeOK, SlotsOK, LaunchFails, Busy, Idle
  <2>2. ClientsOK'
    BY <1>6, SendTyped DEF TypeOK, LaunchFails
  <2> QED
    BY <1>2, <1>6, <2>1, <2>2, Untouched DEF TypeOK, LaunchFails
<1> QED
  BY <1>5, <1>6

LEMMA DeferTyped ==
  ASSUME TypeOK, NEW t \in Tasks, Defer(t) \/ Act(t)
  PROVE  TypeOK'
<1>1. WorkerOK'
  BY HandledTyped DEF Defer, Act
<1>2. CASE Defer(t)
  <2>1. QueuesOK'
    BY <1>2 DEF TypeOK, QueuesOK, Defer
  <2> QED
    BY <1>1, <1>2, <2>1, Untouched DEF TypeOK, Defer
<1>3. CASE Act(t)
  <2>1. PICK k \in {"final", "error"} : Send({t}, k)
    BY <1>3 DEF Act
  <2>2. ClientsOK'
    BY <1>3, <2>1, SendTyped DEF TypeOK, Act
  <2> QED
    BY <1>1, <1>3, <2>2, Untouched DEF TypeOK, Act
<1> QED
  BY <1>2, <1>3

LEMMA HandleTyped ==
  ASSUME TypeOK, HandleCancel \/ HandleNext
  PROVE  TypeOK'
<1>1. WorkerOK'
  BY HandledTyped DEF HandleCancel, HandleNext
<1>2. CASE HandleCancel
  <2> DEFINE S == {s \in Busy : task[s] = hand.task}
  <2>1. Cardinality(S) \in Nat
    <3>1. S \in SUBSET Busy
      OBVIOUS
    <3> HIDE DEF S
    <3> QED
      BY <3>1, ReleasedCount
  <2>2. QueuesOK'
    BY <1>2, <2>1, PopTyped DEF TypeOK, QueuesOK, HandleCancel
  <2>3. SlotsOK'
    BY <1>2, IdledTyped DEF TypeOK, HandleCancel
  <2> QED
    BY <1>1, <1>2, <2>2, <2>3, Untouched DEF TypeOK, HandleCancel
<1>3. CASE HandleNext
  BY <1>1, <1>3, Untouched DEF TypeOK, HandleNext
<1> QED
  BY <1>2, <1>3

LEMMA WaitTyped ==
  ASSUME TypeOK, Wake \/ UpdateIdle \/ UpdateAborts
  PROVE  TypeOK'
<1>1. WorkerOK'
  BY DEF TypeOK, WorkerOK, Wake, UpdateIdle, UpdateAborts
<1>2. UNCHANGED <<queue, deferred, slotVars, waiting, results, clientVars, answers>>
  BY DEF Wake, UpdateIdle, UpdateAborts
<1> QED
  BY <1>1, <1>2, Untouched DEF TypeOK

LEMMA OverflowsTyped ==
  ASSUME TypeOK, UpdateOverflows
  PROVE  TypeOK'
<1>1. PICK O \in SUBSET Busy :
        /\ Idled(O)
        /\ PopDeferred(Cardinality(O), IF O = Busy THEN Append(queue, NextMsg) ELSE queue)
        /\ Send({task[s] : s \in O}, "error")
  BY DEF UpdateOverflows
<1>2. Cardinality(O) \in Nat
  BY ReleasedCount
<1>3. queue \in Seq(Messages) /\ Append(queue, NextMsg) \in Seq(Messages)
  BY MessagesDiffer DEF TypeOK, QueuesOK
<1>4. QueuesOK'
  BY <1>1, <1>2, <1>3, PopTyped DEF TypeOK
<1>5. SlotsOK'
  BY <1>1, IdledTyped DEF TypeOK
<1>6. ClientsOK'
  <2>1. {task[s] : s \in O} \in SUBSET Tasks
    BY BusyIs
  <2> QED
    BY <1>1, <2>1, SendTyped DEF TypeOK, UpdateOverflows
<1>7. WorkerOK'
  BY Untouched DEF UpdateOverflows, TypeOK
<1> QED
  BY <1>4, <1>5, <1>6, <1>7 DEF TypeOK

(* What update_slots batches and refuses are busy slots, and the two are   *)
(* apart.                                                                  *)
LEMMA BatchIsBusy ==
  ASSUME NEW end, NEW R \in Rejects(end)
  PROVE  /\ R \subseteq Busy /\ Batched(end, R) \subseteq Busy
         /\ R \cap Batched(end, R) = {}
         /\ Visited(end) \ R \subseteq Batched(end, R)
<1>1. R \subseteq Visited(end)
  BY DEF Rejects
<1> QED
  BY <1>1 DEF Batched, Visited, Mates

(* What a decoded batch amounts to: the slots of F and of R end, the others *)
(* keep their task and stay busy if they were.                             *)
LEMMA DecodesIs ==
  ASSUME TypeOK, UpdateDecodes
  PROVE  \E F \in SUBSET Busy, E \in SUBSET Busy :
           /\ F \cap E = {}
           /\ Finish(F, E)
           /\ SlotsOK'
           /\ \A s \in Slots :
                /\ s \in F \cup E => s \notin Busy'
                /\ s \notin F \cup E => task'[s] = task[s] /\ (s \in Busy' <=> s \in Busy)
<1>1. PICK end \in Ends : \E R \in Rejects(end) :
        \E F \in SUBSET Batched(end, R), empty \in SUBSET R,
             more \in SUBSET (Visited(end) \ R) :
            /\ F \cap more = {}
            /\ \A s \in Batched(end, R) \ F : left[s] > 1
            /\ Finish(F \cup empty, R \ empty)
            /\ Advance(Batched(end, R), F, R, more)
  BY DEF UpdateDecodes
<1>2. PICK R \in Rejects(end) :
        \E F \in SUBSET Batched(end, R), empty \in SUBSET R,
             more \in SUBSET (Visited(end) \ R) :
            /\ F \cap more = {}
            /\ \A s \in Batched(end, R) \ F : left[s] > 1
            /\ Finish(F \cup empty, R \ empty)
            /\ Advance(Batched(end, R), F, R, more)
  BY <1>1
<1> DEFINE B == Batched(end, R)
<1>3. PICK F \in SUBSET B, empty \in SUBSET R, more \in SUBSET (Visited(end) \ R) :
            /\ F \cap more = {}
            /\ \A s \in B \ F : left[s] > 1
            /\ Finish(F \cup empty, R \ empty)
            /\ Advance(B, F, R, more)
  BY <1>2
<1>4. B \subseteq Busy /\ R \subseteq Busy /\ R \cap B = {} /\ more \subseteq B
  BY <1>3, BatchIsBusy
<1> HIDE DEF B
<1>5. Busy \subseteq Slots
  BY DEF Busy
<1>6. ASSUME NEW s \in Slots
      PROVE  /\ s \in F \cup R => s \notin Busy'
             /\ s \notin F \cup R => task'[s] = task[s] /\ (s \in Busy' <=> s \in Busy)
  <2>1. CASE s \in F \cup R
    <3>1. s \notin more
      BY <1>3, <1>4, <2>1
    <3>2. state'[s] = "idle"
      BY <1>3, <1>4, <2>1, <3>1 DEF Advance
    <3> QED
      BY <2>1, <3>2 DEF Busy
  <2>2. CASE s \in B \ (F \cup R)
    <3>1. state'[s] # "idle"
      BY <1>3, <2>2 DEF Advance
    <3>2. s \in Busy'
      BY <3>1 DEF Busy
    <3>3. task'[s] = task[s]
      BY <1>3, <2>2 DEF Advance
    <3> QED
      BY <1>4, <2>2, <3>2, <3>3
  <2>3. CASE s \notin B \cup F \cup R
    <3>1. state'[s] = state[s] /\ task'[s] = task[s]
      BY <1>3, <1>4, <2>3 DEF Advance
    <3> QED
      BY <2>3, <3>1 DEF Busy
  <2> QED
    BY <2>1, <2>2, <2>3
<1>7. SlotsOK'
  <2>1. state' \in [Slots -> States]
    BY <1>3 DEF TypeOK, SlotsOK, States, Advance
  <2>2. task' \in [Slots -> Tasks \cup {NoTask}]
    BY <1>3 DEF TypeOK, SlotsOK, Advance
  <2>3. left' \in [Slots -> 0 .. MaxWork]
    <3>1. ASSUME NEW s \in Slots PROVE left'[s] \in 0 .. MaxWork
      <4>1. left[s] \in 0 .. MaxWork /\ 0 \in 0 .. MaxWork
        BY MaxWorkAssumption DEF TypeOK, SlotsOK
      <4>2. left'[s] = IF s \in F \cup R THEN 0
                       ELSE IF s \in B THEN left[s] - 1 ELSE left[s]
        BY <1>3 DEF Advance
      <4>3. s \in B \ F => left[s] > 1
        BY <1>3
      <4> QED
        BY <4>1, <4>2, <4>3, MaxWorkAssumption
    <3> QED
      BY <1>3, <3>1 DEF Advance
  <2>4. ASSUME NEW s \in Busy' PROVE task'[s] # NoTask
    <3>1. s \in Slots
      BY DEF Busy
    <3>2. s \in Busy /\ task'[s] = task[s]
      BY <1>6, <3>1
    <3> QED
      BY <3>2 DEF TypeOK, SlotsOK
  <2> QED
    BY <2>1, <2>2, <2>3, <2>4 DEF SlotsOK
<1>8. F \cup R = (F \cup empty) \cup (R \ empty)
  BY <1>3
<1>9. (F \cup empty) \cap (R \ empty) = {}
  BY <1>3, <1>4
<1>10. F \cup empty \in SUBSET Busy /\ R \ empty \in SUBSET Busy
  BY <1>3, <1>4
<1> QED
  BY <1>3, <1>6, <1>7, <1>8, <1>9, <1>10

LEMMA DecodesTyped ==
  ASSUME TypeOK, UpdateDecodes
  PROVE  TypeOK'
<1>1. PICK F \in SUBSET Busy, E \in SUBSET Busy : Finish(F, E) /\ SlotsOK'
  BY DecodesIs
<1>2. QueuesOK' /\ ClientsOK'
  BY <1>1, FinishTyped
<1>3. WorkerOK'
  BY <1>1 DEF Finish, TypeOK, WorkerOK, UpdateDecodes
<1> QED
  BY <1>1, <1>2, <1>3 DEF TypeOK

(* What a failed batch amounts to: every busy slot ends, some of them with *)
(* a final result.                                                         *)
LEMMA FailsIs ==
  ASSUME UpdateFails
  PROVE  \E F \in SUBSET Busy : Finish(F, Busy \ F) /\ Idled(Busy)
<1>1. PICK end \in Ends : \E R \in Rejects(end) :
        \E F \in SUBSET Batched(end, R), empty \in SUBSET R :
            Finish(F \cup empty, Busy \ (F \cup empty))
  BY DEF UpdateFails
<1>2. PICK R \in Rejects(end) :
        \E F \in SUBSET Batched(end, R), empty \in SUBSET R :
            Finish(F \cup empty, Busy \ (F \cup empty))
  BY <1>1
<1>3. PICK F \in SUBSET Batched(end, R), empty \in SUBSET R :
            Finish(F \cup empty, Busy \ (F \cup empty))
  BY <1>2
<1>4. F \cup empty \in SUBSET Busy
  BY <1>3, BatchIsBusy
<1> QED
  BY <1>3, <1>4 DEF UpdateFails

LEMMA FailsTyped ==
  ASSUME TypeOK, UpdateFails
  PROVE  TypeOK'
<1>1. PICK F \in SUBSET Busy : Finish(F, Busy \ F) /\ Idled(Busy)
  BY FailsIs
<1>2. QueuesOK' /\ ClientsOK'
  BY <1>1, FinishTyped
<1>3. WorkerOK'
  BY <1>1 DEF Finish, TypeOK, WorkerOK, UpdateFails
<1>4. SlotsOK'
  BY <1>1, IdledTyped DEF TypeOK
<1> QED
  BY <1>2, <1>3, <1>4 DEF TypeOK

LEMMA NextTyped == TypeOK /\ [Next]_vars => TypeOK'
<1> SUFFICES ASSUME TypeOK, [Next]_vars PROVE TypeOK'
  OBVIOUS
<1>1. CASE Worker
  BY <1>1, PullTyped, DeferTyped, LaunchTyped, HandleTyped, WaitTyped, OverflowsTyped,
     DecodesTyped, FailsTyped DEF Worker
<1>2. CASE \E r \in Requests : \E k \in Kinds : Register(r, k)
  BY <1>2, RegisterTyped
<1>3. CASE \E r \in Requests : Client(r)
  BY <1>3, PostTyped, ReceiveTyped, PostCancelTyped DEF Client
<1>4. CASE \E r \in Requests : Leave(r) \/ Abandon(r)
  BY <1>4, LeaveTyped
<1>5. CASE UNCHANGED vars
  BY <1>5, Untouched DEF TypeOK, vars, slotVars, clientVars
<1> QED
  BY <1>1, <1>2, <1>3, <1>4, <1>5 DEF Next

(* Every variable keeps its type, whatever requests are made, answered and *)
(* cancelled and whatever fails (TypeOK).                                  *)
THEOREM WellTyped == Spec => []TypeOK
BY InitTyped, NextTyped, PTL DEF Spec
-----------------------------------------------------------------------------
(* What is in a queue, and that it is there once.                          *)
In(q, x)   == \E i \in DOMAIN q : q[i] = x
Once(q, x) == \A i, j \in DOMAIN q : q[i] = x /\ q[j] = x => i = j

LEMMA InAppend ==
  ASSUME NEW S, NEW q \in Seq(S), NEW y \in S, NEW x
  PROVE  /\ In(Append(q, y), x) <=> In(q, x) \/ x = y
         /\ Once(q, x) /\ ~(In(q, x) /\ x = y) => Once(Append(q, y), x)
<1> DEFINE a == Append(q, y)
<1>1. /\ DOMAIN q = 1 .. Len(q) /\ Len(q) \in Nat
      /\ DOMAIN a = 1 .. Len(q) + 1
      /\ \A i \in 1 .. Len(q) : a[i] = q[i]
      /\ a[Len(q) + 1] = y
  OBVIOUS
<1> HIDE DEF a
<1>2. In(a, x) <=> In(q, x) \/ x = y
  <2>1. ASSUME In(a, x) PROVE In(q, x) \/ x = y
    BY <1>1, <2>1 DEF In
  <2>2. ASSUME In(q, x) PROVE In(a, x)
    BY <1>1, <2>2 DEF In
  <2>3. ASSUME x = y PROVE In(a, x)
    BY <1>1, <2>3 DEF In
  <2> QED
    BY <2>1, <2>2, <2>3
<1>3. ASSUME Once(q, x), ~(In(q, x) /\ x = y),
             NEW i \in DOMAIN a, NEW j \in DOMAIN a, a[i] = x, a[j] = x
      PROVE  i = j
  <2>1. CASE i \in 1 .. Len(q) /\ j \in 1 .. Len(q)
    BY <1>1, <1>3, <2>1 DEF Once
  <2>2. CASE i = Len(q) + 1 \/ j = Len(q) + 1
    BY <1>1, <1>3, <2>2 DEF In
  <2> QED
    BY <1>1, <2>1, <2>2
<1> QED
  BY <1>2, <1>3 DEF a, Once

LEMMA InConcat ==
  ASSUME NEW S, NEW p \in Seq(S), NEW q \in Seq(S), NEW x
  PROVE  /\ In(p \o q, x) <=> In(p, x) \/ In(q, x)
         /\ Once(p, x) /\ Once(q, x) /\ ~(In(p, x) /\ In(q, x)) => Once(p \o q, x)
<1> DEFINE c == p \o q
<1>1. /\ DOMAIN p = 1 .. Len(p) /\ Len(p) \in Nat
      /\ DOMAIN q = 1 .. Len(q) /\ Len(q) \in Nat
      /\ DOMAIN c = 1 .. Len(p) + Len(q)
      /\ \A i \in 1 .. Len(p) : c[i] = p[i]
      /\ \A i \in Len(p) + 1 .. Len(p) + Len(q) : c[i] = q[i - Len(p)]
  BY ConcatProperties
<1> HIDE DEF c
<1>2. ASSUME In(c, x) PROVE In(p, x) \/ In(q, x)
  <2>1. PICK i \in DOMAIN c : c[i] = x
    BY <1>2 DEF In
  <2>2. CASE i \in 1 .. Len(p)
    BY <1>1, <2>1, <2>2 DEF In
  <2>3. CASE i \in Len(p) + 1 .. Len(p) + Len(q)
    <3>1. i - Len(p) \in 1 .. Len(q) /\ q[i - Len(p)] = x
      BY <1>1, <2>1, <2>3
    <3> QED
      BY <1>1, <3>1 DEF In
  <2> QED
    BY <1>1, <2>2, <2>3
<1>3. ASSUME In(p, x) PROVE In(c, x)
  BY <1>1, <1>3 DEF In
<1>4. ASSUME In(q, x) PROVE In(c, x)
  <2>1. PICK i \in 1 .. Len(q) : q[i] = x
    BY <1>1, <1>4 DEF In
  <2>2. Len(p) + i \in Len(p) + 1 .. Len(p) + Len(q) /\ Len(p) + i - Len(p) = i
    BY <1>1, <2>1
  <2>3. c[Len(p) + i] = x
    BY <1>1, <2>1, <2>2
  <2>4. Len(p) + i \in DOMAIN c
    BY <1>1, <2>2
  <2> QED
    BY <2>3, <2>4 DEF In
<1>5. ASSUME Once(p, x), Once(q, x), ~(In(p, x) /\ In(q, x)),
             NEW i \in DOMAIN c, NEW j \in DOMAIN c, c[i] = x, c[j] = x
      PROVE  i = j
  <2>1. CASE i \in 1 .. Len(p) /\ j \in 1 .. Len(p)
    BY <1>1, <1>5, <2>1 DEF Once
  <2>2. CASE i \in Len(p) + 1 .. Len(p) + Len(q) /\ j \in Len(p) + 1 .. Len(p) + Len(q)
    <3>1. /\ i - Len(p) \in 1 .. Len(q) /\ q[i - Len(p)] = x
          /\ j - Len(p) \in 1 .. Len(q) /\ q[j - Len(p)] = x
      BY <1>1, <1>5, <2>2
    <3>2. i - Len(p) = j - Len(p)
      BY <1>1, <1>5, <3>1 DEF Once
    <3> QED
      BY <1>1, <2>2, <3>2
  <2>3. ASSUME NEW k \in 1 .. Len(p), NEW l \in Len(p) + 1 .. Len(p) + Len(q),
               c[k] = x, c[l] = x
        PROVE  FALSE
    <3>1. In(p, x)
      BY <1>1, <2>3 DEF In
    <3>2. l - Len(p) \in 1 .. Len(q) /\ q[l - Len(p)] = x
      BY <1>1, <2>3
    <3>3. In(q, x)
      BY <1>1, <3>2 DEF In
    <3> QED
      BY <1>5, <3>1, <3>3
  <2> QED
    BY <1>1, <1>5, <2>1, <2>2, <2>3
<1> QED
  BY <1>2, <1>3, <1>4, <1>5 DEF c, Once

LEMMA InTail ==
  ASSUME NEW S, NEW q \in Seq(S), q # <<>>, NEW x
  PROVE  /\ In(q, x) <=> x = Head(q) \/ In(Tail(q), x)
         /\ Once(q, x) => Once(Tail(q), x) /\ (x = Head(q) => ~In(Tail(q), x))
<1> DEFINE u == Tail(q)
<1>1. /\ DOMAIN q = 1 .. Len(q) /\ Len(q) \in Nat /\ Len(q) > 0
      /\ Head(q) = q[1]
      /\ DOMAIN u = 1 .. Len(q) - 1
      /\ \A i \in 1 .. Len(q) - 1 : u[i] = q[i + 1]
  OBVIOUS
<1> HIDE DEF u
<1>2. ASSUME In(q, x), x # Head(q) PROVE In(u, x)
  <2>1. PICK i \in 1 .. Len(q) : q[i] = x
    BY <1>1, <1>2 DEF In
  <2>2. i - 1 \in 1 .. Len(q) - 1 /\ i - 1 + 1 = i
    BY <1>1, <1>2, <2>1
  <2>3. u[i - 1] = x
    BY <1>1, <2>1, <2>2
  <2> QED
    BY <1>1, <2>2, <2>3 DEF In
<1>3. ASSUME In(u, x) PROVE \E i \in DOMAIN q : i > 1 /\ q[i] = x
  <2>1. PICK i \in 1 .. Len(q) - 1 : u[i] = x
    BY <1>1, <1>3 DEF In
  <2>2. i + 1 \in 1 .. Len(q) /\ i + 1 > 1 /\ q[i + 1] = x
    BY <1>1, <2>1
  <2> QED
    BY <1>1, <2>2
<1>4. x = Head(q) => 1 \in DOMAIN q /\ q[1] = x
  BY <1>1
<1>5. ASSUME Once(q, x), x = Head(q) PROVE ~In(u, x)
  BY <1>1, <1>3, <1>4, <1>5 DEF Once
<1>6. ASSUME Once(q, x), NEW i \in DOMAIN u, NEW j \in DOMAIN u, u[i] = x, u[j] = x
      PROVE  i = j
  <2>1. /\ i + 1 \in 1 .. Len(q) /\ q[i + 1] = x
        /\ j + 1 \in 1 .. Len(q) /\ q[j + 1] = x
    BY <1>1, <1>6
  <2>2. i + 1 = j + 1
    BY <1>1, <1>6, <2>1 DEF Once
  <2> QED
    BY <1>1, <1>6, <2>2
<1>7. In(q, x) <=> x = Head(q) \/ In(u, x)
  BY <1>2, <1>3, <1>4 DEF In
<1> QED
  BY <1>5, <1>6, <1>7 DEF u, Once

LEMMA InReverse ==
  ASSUME NEW S, NEW q \in Seq(S), NEW x
  PROVE  /\ In(Reverse(q), x) <=> In(q, x)
         /\ Once(q, x) => Once(Reverse(q), x)
<1> DEFINE v == Reverse(q)
<1>1. /\ DOMAIN q = 1 .. Len(q) /\ Len(q) \in Nat
      /\ DOMAIN v = 1 .. Len(q)
      /\ \A i \in 1 .. Len(q) : v[i] = q[Len(q) - i + 1]
  BY DEF Reverse
<1> HIDE DEF v
<1>2. \A i \in 1 .. Len(q) : Len(q) - i + 1 \in 1 .. Len(q) /\ Len(q) - (Len(q) - i + 1) + 1 = i
  BY <1>1
<1>3. ASSUME In(v, x) PROVE In(q, x)
  BY <1>1, <1>2, <1>3 DEF In
<1>4. ASSUME In(q, x) PROVE In(v, x)
  <2>1. PICK i \in 1 .. Len(q) : q[i] = x
    BY <1>1, <1>4 DEF In
  <2>2. v[Len(q) - i + 1] = x
    BY <1>1, <1>2, <2>1
  <2> QED
    BY <1>1, <1>2, <2>2 DEF In
<1>5. ASSUME Once(q, x), NEW i \in DOMAIN v, NEW j \in DOMAIN v, v[i] = x, v[j] = x
      PROVE  i = j
  <2>1. Len(q) - i + 1 = Len(q) - j + 1
    BY <1>1, <1>2, <1>5 DEF Once
  <2>2. i \in Int /\ j \in Int /\ Len(q) \in Int
    BY <1>1
  <2> QED
    BY <2>1, <2>2
<1> QED
  BY <1>3, <1>4, <1>5 DEF v, Once

(* Of the elements of a queue, the removal leaves those at the places kept. *)
LEMMA InKept ==
  ASSUME NEW S, NEW q \in Seq(S), NEW K \in SUBSET DOMAIN q, NEW f \in InOrder(K), NEW x
  PROVE  LET p == [i \in DOMAIN f |-> q[f[i]]]
         IN  /\ In(p, x) <=> \E k \in K : q[k] = x
             /\ Once(q, x) => Once(p, x)
<1> DEFINE p == [i \in DOMAIN f |-> q[f[i]]]
<1>1. DOMAIN q = 1 .. Len(q) /\ Len(q) \in Nat
  OBVIOUS
<1>2. /\ \A i \in DOMAIN f : f[i] \in K
      /\ \A k \in K : \E i \in DOMAIN f : f[i] = k
      /\ \A i, j \in DOMAIN f : f[i] = f[j] => i = j
  BY <1>1, InOrderIs
<1>3. In(p, x) <=> \E k \in K : q[k] = x
  BY <1>2 DEF In
<1>4. Once(q, x) => Once(p, x)
  BY <1>2 DEF Once
<1> QED
  BY <1>3, <1>4

(* The callbacks move tasks from the one queue to the other: each is still *)
(* in one of them, and no other message is touched.                        *)
LEMMA PopKeeps ==
  ASSUME QueuesOK, NEW n \in Nat, NEW q \in Seq(Messages), PopDeferred(n, q), NEW t \in Tasks
  PROVE  /\ In(queue', RunMsg(t)) \/ In(deferred', t)
              <=> In(q, RunMsg(t)) \/ In(deferred, t)
         /\ In(queue', CancelMsg(t)) <=> In(q, CancelMsg(t))
         /\ Once(q, RunMsg(t)) /\ Once(deferred, t) /\ ~(In(q, RunMsg(t)) /\ In(deferred, t))
              => /\ Once(queue', RunMsg(t)) /\ Once(deferred', t)
                 /\ ~(In(queue', RunMsg(t)) /\ In(deferred', t))
<1> DEFINE k == Popped(n)
           p == [i \in 1 .. k |-> RunMsg(deferred[k + 1 - i])]
           d == SubSeq(deferred, k + 1, Len(deferred))
           n2 == Len(deferred)
<1>1. deferred \in Seq(Tasks) /\ DOMAIN deferred = 1 .. n2 /\ n2 \in Nat
  BY DEF QueuesOK
<1>2. k \in Nat /\ k <= n2
  BY <1>1, PoppedIs
<1>3. queue' = p \o q /\ deferred' = d
  BY DEF PopDeferred, Requeued
<1>4. /\ DOMAIN d = 1 .. n2 - k
      /\ \A i \in 1 .. n2 - k : d[i] = deferred[k + i]
  BY <1>1, <1>2
<1> HIDE DEF k, d, n2
<1>5. \A i \in 1 .. k : k + 1 - i \in 1 .. k /\ k + 1 - i \in 1 .. n2 /\ k + 1 - (k + 1 - i) = i
  BY <1>1, <1>2
<1>6. \A i \in 1 .. n2 - k : k + i \in k + 1 .. n2 /\ k + i \in 1 .. n2
  BY <1>1, <1>2
<1>7. \A i \in k + 1 .. n2 : i - k \in 1 .. n2 - k /\ k + (i - k) = i
  BY <1>1, <1>2
<1>8. \A i \in 1 .. n2 : deferred[i] \in Tasks
  BY <1>1
<1>9. p \in Seq(Messages) /\ DOMAIN p = 1 .. k
  <2>1. \A i \in 1 .. k : RunMsg(deferred[k + 1 - i]) \in Messages
    BY <1>5, <1>8, MessagesDiffer
  <2> QED
    BY <1>2, <2>1
<1>10. \A i \in 1 .. k : p[i] = RunMsg(t) <=> deferred[k + 1 - i] = t
  BY <1>5, <1>8, MessagesDiffer
<1>11. ~In(p, CancelMsg(t))
  <2>1. \A i \in 1 .. k : p[i] # CancelMsg(t)
    BY <1>5, <1>8, MessagesDiffer
  <2> QED
    BY <1>9, <2>1 DEF In
<1> HIDE DEF p
<1>12. In(p, RunMsg(t)) <=> \E i \in 1 .. k : deferred[i] = t
  <2>1. ASSUME In(p, RunMsg(t)) PROVE \E i \in 1 .. k : deferred[i] = t
    BY <1>5, <1>9, <1>10, <2>1 DEF In
  <2>2. ASSUME NEW i \in 1 .. k, deferred[i] = t PROVE In(p, RunMsg(t))
    <3>1. p[k + 1 - i] = RunMsg(t)
      BY <1>5, <1>10, <2>2
    <3> QED
      BY <1>5, <1>9, <3>1 DEF In
  <2> QED
    BY <2>1, <2>2
<1>13. In(d, t) <=> \E i \in k + 1 .. n2 : deferred[i] = t
  <2>1. ASSUME In(d, t) PROVE \E i \in k + 1 .. n2 : deferred[i] = t
    BY <1>4, <1>6, <2>1 DEF In
  <2>2. ASSUME NEW i \in k + 1 .. n2, deferred[i] = t PROVE In(d, t)
    <3>1. d[i - k] = t
      BY <1>4, <1>7, <2>2
    <3> QED
      BY <1>4, <1>7, <3>1 DEF In
  <2> QED
    BY <2>1, <2>2
<1>14. \A i : i \in 1 .. n2 <=> i \in 1 .. k \/ i \in k + 1 .. n2
  BY <1>1, <1>2
<1>15. In(deferred, t) <=> In(p, RunMsg(t)) \/ In(d, t)
  BY <1>1, <1>12, <1>13, <1>14 DEF In
<1>16. In(queue', RunMsg(t)) <=> In(p, RunMsg(t)) \/ In(q, RunMsg(t))
  BY <1>3, <1>9, InConcat
<1>17. In(queue', CancelMsg(t)) <=> In(q, CancelMsg(t))
  BY <1>3, <1>9, <1>11, InConcat
<1>18. ASSUME Once(q, RunMsg(t)), Once(deferred, t), ~(In(q, RunMsg(t)) /\ In(deferred, t))
       PROVE  /\ Once(queue', RunMsg(t)) /\ Once(deferred', t)
              /\ ~(In(queue', RunMsg(t)) /\ In(deferred', t))
  <2>1. \A i, j \in 1 .. n2 : deferred[i] = t /\ deferred[j] = t => i = j
    BY <1>1, <1>18 DEF Once
  <2>2. Once(p, RunMsg(t))
    <3>1. ASSUME NEW i \in 1 .. k, NEW j \in 1 .. k, p[i] = RunMsg(t), p[j] = RunMsg(t)
          PROVE  i = j
      <4>1. k + 1 - i = k + 1 - j
        BY <1>5, <1>10, <2>1, <3>1
      <4> QED
        BY <1>2, <4>1
    <3> QED
      BY <1>9, <3>1 DEF Once
  <2>3. Once(queue', RunMsg(t))
    BY <1>3, <1>9, <1>15, <1>18, <2>2, InConcat
  <2>4. Once(d, t)
    <3>1. ASSUME NEW i \in 1 .. n2 - k, NEW j \in 1 .. n2 - k, d[i] = t, d[j] = t
          PROVE  i = j
      <4>1. k + i = k + j
        BY <1>4, <1>6, <2>1, <3>1
      <4> QED
        BY <1>2, <4>1
    <3> QED
      BY <1>4, <3>1 DEF Once
  <2>5. ~(In(p, RunMsg(t)) /\ In(d, t))
    <3>1. \A i \in 1 .. k : \A j \in k + 1 .. n2 : i \in 1 .. n2 /\ j \in 1 .. n2 /\ i # j
      BY <1>1, <1>2
    <3> QED
      BY <1>12, <1>13, <2>1, <3>1
  <2>6. ~(In(queue', RunMsg(t)) /\ In(deferred', t))
    BY <1>3, <1>15, <1>16, <1>18, <2>5
  <2> QED
    BY <1>3, <2>3, <2>4, <2>6
<1> QED
  BY <1>3, <1>15, <1>16, <1>17, <1>18
-----------------------------------------------------------------------------
(* Where a task is, and that it is in one place only. *)
Pending(t) == In(queue, RunMsg(t)) \/ In(deferred, t) \/ hand = RunMsg(t)
Running(t) == \E s \in Busy : task[s] = t

OncePending(t) ==
  /\ Once(queue, RunMsg(t)) /\ Once(deferred, t)
  /\ In(queue, RunMsg(t)) => ~In(deferred, t) /\ hand # RunMsg(t)
  /\ In(deferred, t) => hand # RunMsg(t)

OnceRunning(t) == \A s, u \in Busy : task[s] = t /\ task[u] = t => s = u

Alone(t) ==
  /\ OncePending(t) /\ OnceRunning(t)
  /\ Running(t) => ~Pending(t)
  /\ answers[t] > 0 => ~Running(t) /\ ~Pending(t)
  /\ answers[t] <= 1

(* What a step may make of a task. *)
Keeps(t)   == /\ Pending(t)' <=> Pending(t)
              /\ Running(t)' <=> Running(t)
              /\ answers'[t] = answers[t]
Enters(t)  == /\ ~Pending(t) /\ ~Running(t) /\ answers[t] = 0
              /\ Pending(t)' /\ ~Running(t)' /\ answers'[t] = 0
Starts(t)  == /\ Pending(t) /\ ~Running(t) /\ answers[t] = 0
              /\ ~Pending(t)' /\ Running(t)' /\ answers'[t] = 0
Answers(t) == /\ Pending(t) \/ Running(t)
              /\ answers[t] = 0
              /\ ~Pending(t)' /\ ~Running(t)' /\ answers'[t] = 1
Drops(t)   == /\ Pending(t) \/ Running(t)
              /\ answers[t] = 0
              /\ ~Pending(t)' /\ ~Running(t)' /\ answers'[t] = 0

(* The messages that cancel a task. *)
Cancelling(t) == hand = CancelMsg(t) \/ In(queue, CancelMsg(t))

LEMMA AnswersTyped ==
  ASSUME TypeOK, NEW t \in Tasks, Alone(t)
  PROVE  /\ answers[t] \in {0, 1}
         /\ Pending(t) \/ Running(t) => answers[t] = 0
<1>1. answers[t] \in Nat
  BY DEF TypeOK, ClientsOK
<1> QED
  BY <1>1 DEF Alone

(* A step that leaves a task where it is, and alone there.                 *)
LEMMA AloneKept ==
  ASSUME NEW t \in Tasks, Alone(t), Keeps(t), OncePending(t)', OnceRunning(t)'
  PROVE  Alone(t)'
BY DEF Alone, Keeps

(* Unchanged slots and queues. *)
LEMMA SlotsKeep ==
  ASSUME UNCHANGED <<state, task>>, NEW t \in Tasks
  PROVE  (Running(t)' <=> Running(t)) /\ (OnceRunning(t) => OnceRunning(t)')
<1>1. Busy' = Busy
  BY DEF Busy
<1> QED
  BY <1>1 DEF Running, OnceRunning

LEMMA QueuesKeep ==
  ASSUME UNCHANGED <<queue, deferred>>, NEW t \in Tasks,
         hand' = RunMsg(t) <=> hand = RunMsg(t),
         hand' = CancelMsg(t) => hand = CancelMsg(t)
  PROVE  /\ Pending(t)' <=> Pending(t)
         /\ OncePending(t) => OncePending(t)'
         /\ Cancelling(t)' => Cancelling(t)
BY DEF Pending, OncePending, Cancelling

(* A step that changes no place. *)
LEMMA QuietKeeps ==
  ASSUME NEW t \in Tasks, Alone(t), UNCHANGED <<queue, deferred, state, task, answers>>,
         hand' = hand \/ (hand' = NoMsg /\ hand = NextMsg)
  PROVE  Alone(t)' /\ Keeps(t) /\ (Cancelling(t)' => Cancelling(t))
<1>1. /\ hand' = RunMsg(t) <=> hand = RunMsg(t)
      /\ hand' = CancelMsg(t) => hand = CancelMsg(t)
  BY MessagesDiffer
<1>2. Keeps(t) /\ (Cancelling(t)' => Cancelling(t))
  BY <1>1, SlotsKeep, QueuesKeep DEF Keeps
<1>3. OncePending(t)' /\ OnceRunning(t)'
  BY <1>1, SlotsKeep, QueuesKeep DEF Alone
<1> QED
  BY <1>2, <1>3, AloneKept

LEMMA PullMoves ==
  ASSUME TypeOK, NEW t \in Tasks, Alone(t), Pull
  PROVE  Alone(t)' /\ Keeps(t) /\ (Cancelling(t)' => Cancelling(t))
<1>1. queue \in Seq(Messages) /\ queue # <<>> /\ hand = NoMsg
  BY DEF Pull, TypeOK, QueuesOK, WorkerOK
<1>2. queue' = Tail(queue) /\ hand' = Head(queue) /\ UNCHANGED <<deferred, state, task, answers>>
  BY DEF Pull, slotVars
<1>3. hand # RunMsg(t) /\ hand # CancelMsg(t)
  BY <1>1, MessagesDiffer
<1>4. /\ In(queue, RunMsg(t)) <=> hand' = RunMsg(t) \/ In(queue', RunMsg(t))
      /\ In(queue, CancelMsg(t)) <=> hand' = CancelMsg(t) \/ In(queue', CancelMsg(t))
      /\ Once(queue, RunMsg(t)) => /\ Once(queue', RunMsg(t))
                                   /\ hand' = RunMsg(t) => ~In(queue', RunMsg(t))
  BY <1>1, <1>2, InTail
<1>5. Keeps(t)
  BY <1>2, <1>3, <1>4, SlotsKeep DEF Keeps, Pending
<1>6. OncePending(t)'
  BY <1>2, <1>3, <1>4 DEF Alone, OncePending
<1>7. OnceRunning(t)'
  BY <1>2, SlotsKeep DEF Alone
<1> QED
  BY <1>4, <1>5, <1>6, <1>7, AloneKept DEF Cancelling

(* The worker is done with a message: the task it was about is not pending *)
(* any more, all others stay where they are.                               *)
LEMMA HandledKeeps ==
  ASSUME NEW t \in Tasks, NEW u \in Tasks, Alone(u), hand = RunMsg(t), Handled,
         UNCHANGED <<queue, deferred>>
  PROVE  /\ Pending(u) /\ ~Pending(u)' <=> u = t
         /\ Pending(u)' => Pending(u)
         /\ OncePending(u)'
         /\ Cancelling(u)' => Cancelling(u)
         /\ u = t => ~Running(u)
<1>1. hand' = NoMsg
  BY DEF Handled
<1>2. hand' # RunMsg(u) /\ hand' # CancelMsg(u) /\ (hand = RunMsg(u) <=> u = t)
  BY <1>1, MessagesDiffer
<1>3. u # t \/ (~In(queue, RunMsg(t)) /\ ~In(deferred, t))
  BY DEF Alone, OncePending
<1> QED
  BY <1>2, <1>3 DEF Pending, OncePending, Cancelling, Alone

LEMMA LaunchMoves ==
  ASSUME TypeOK, NEW u \in Tasks, NEW s \in Slots, Launch(u, s), NEW t \in Tasks, Alone(t)
  PROVE  /\ Alone(t)' /\ (Keeps(t) \/ Starts(t))
         /\ Cancelling(t)' => Cancelling(t)
<1>1. /\ hand = RunMsg(u) /\ Handled /\ UNCHANGED <<queue, deferred, answers>>
      /\ s \in Slots /\ s \notin Busy
  BY DEF Launch, Launches, Hands, Candidates, Idle
<1>2. /\ Busy' = Busy \cup {s} /\ task'[s] = u
      /\ \A x \in Slots \ {s} : task'[x] = task[x]
  BY <1>1 DEF Launch, TypeOK, SlotsOK, Busy
<1>3. \A x \in Busy : x # s /\ task'[x] = task[x]
  BY <1>1, <1>2 DEF Busy
<1>4. /\ Pending(t) /\ ~Pending(t)' <=> t = u
      /\ Pending(t)' => Pending(t)
      /\ OncePending(t)'
      /\ Cancelling(t)' => Cancelling(t)
      /\ t = u => ~Running(t)
  BY <1>1, HandledKeeps
<1>5. Running(t)' <=> Running(t) \/ t = u
  BY <1>2, <1>3 DEF Running
<1>6. OnceRunning(t)'
  BY <1>2, <1>3, <1>4 DEF OnceRunning, Running, Alone
<1>7. answers[t] \in {0, 1} /\ answers'[t] = answers[t]
  BY <1>1, AnswersTyped
<1>8. CASE t = u
  <2>1. Starts(t)
    BY <1>4, <1>5, <1>7, <1>8 DEF Starts, Alone
  <2> QED
    BY <1>4, <1>6, <1>7, <2>1 DEF Starts, Alone
<1>9. CASE t # u
  <2>1. Keeps(t)
    BY <1>4, <1>5, <1>7, <1>9 DEF Keeps
  <2> QED
    BY <1>4, <1>6, <2>1, AloneKept
<1> QED
  BY <1>8, <1>9

(* The task in the worker's hand is answered at once. *)
LEMMA AnsweredMoves ==
  ASSUME TypeOK, NEW u \in Tasks, NEW k, hand = RunMsg(u), Handled, Send({u}, k),
         UNCHANGED <<queue, deferred>>, Busy' = Busy, \A x \in Busy : task'[x] = task[x],
         NEW t \in Tasks, Alone(t)
  PROVE  /\ Alone(t)' /\ (t # u => Keeps(t)) /\ (t = u => Answers(t))
         /\ Cancelling(t)' => Cancelling(t)
<1>1. /\ Pending(t) /\ ~Pending(t)' <=> t = u
      /\ Pending(t)' => Pending(t)
      /\ OncePending(t)'
      /\ Cancelling(t)' => Cancelling(t)
      /\ t = u => ~Running(t)
  BY HandledKeeps
<1>2. (Running(t)' <=> Running(t)) /\ OnceRunning(t)'
  BY DEF Running, OnceRunning, Alone
<1>3. /\ answers[t] \in {0, 1} /\ (Pending(t) => answers[t] = 0)
      /\ answers'[t] = IF t = u THEN answers[t] + 1 ELSE answers[t]
  BY AnswersTyped DEF Send
<1>4. CASE t = u
  <2>1. Answers(t)
    BY <1>1, <1>2, <1>3, <1>4 DEF Answers
  <2> QED
    BY <1>1, <1>2, <1>4, <2>1 DEF Answers, Alone
<1>5. CASE t # u
  <2>1. Keeps(t)
    BY <1>1, <1>2, <1>3, <1>5 DEF Keeps
  <2> QED
    BY <1>1, <1>2, <1>5, <2>1, AloneKept
<1> QED
  BY <1>4, <1>5

LEMMA LaunchFailsMoves ==
  ASSUME TypeOK, NEW u \in Tasks, NEW s \in Slots, LaunchFails(u, s), NEW t \in Tasks, Alone(t)
  PROVE  /\ Alone(t)' /\ (t # u => Keeps(t)) /\ (t = u => Answers(t))
         /\ Cancelling(t)' => Cancelling(t)
<1>1. /\ hand = RunMsg(u) /\ Handled /\ UNCHANGED <<queue, deferred, state>>
      /\ s \notin Busy /\ Send({u}, "error")
  BY DEF LaunchFails, Launches, Hands, Candidates, Idle
<1>2. Busy' = Busy /\ \A x \in Busy : task'[x] = task[x]
  BY <1>1 DEF LaunchFails, TypeOK, SlotsOK, Busy
<1> QED
  BY <1>1, <1>2, AnsweredMoves

LEMMA ActMoves ==
  ASSUME TypeOK, NEW u \in Tasks, Act(u), NEW t \in Tasks, Alone(t)
  PROVE  /\ Alone(t)' /\ (t # u => Keeps(t)) /\ (t = u => Answers(t))
         /\ Cancelling(t)' => Cancelling(t)
<1>1. PICK k : Send({u}, k)
  BY DEF Act
<1>2. hand = RunMsg(u) /\ Handled /\ UNCHANGED <<queue, deferred, state, task>>
  BY DEF Act, Acts, Hands, slotVars
<1>3. Busy' = Busy /\ \A x \in Busy : task'[x] = task[x]
  BY <1>2 DEF Busy
<1> QED
  BY <1>1, <1>2, <1>3, AnsweredMoves

LEMMA DeferMoves ==
  ASSUME TypeOK, NEW u \in Tasks, Defer(u), NEW t \in Tasks, Alone(t)
  PROVE  Alone(t)' /\ Keeps(t) /\ (Cancelling(t)' => Cancelling(t))
<1>1. /\ hand = RunMsg(u) /\ hand' = NoMsg /\ UNCHANGED <<queue, state, task, answers>>
      /\ deferred' = Append(deferred, u) /\ deferred \in Seq(Tasks)
  BY DEF Defer, Launches, Acts, Hands, Handled, slotVars, TypeOK, QueuesOK
<1>2. hand' # RunMsg(t) /\ hand' # CancelMsg(t) /\ (hand = RunMsg(t) <=> t = u)
  BY <1>1, MessagesDiffer
<1>3. /\ In(deferred', t) <=> In(deferred, t) \/ t = u
      /\ Once(deferred, t) /\ ~(In(deferred, t) /\ t = u) => Once(deferred', t)
  BY <1>1, InAppend
<1>4. Keeps(t)
  BY <1>1, <1>2, <1>3, SlotsKeep DEF Keeps, Pending
<1>5. OncePending(t)' /\ OnceRunning(t)'
  BY <1>1, <1>2, <1>3, SlotsKeep DEF Alone, OncePending
<1>6. Cancelling(t)' => Cancelling(t)
  BY <1>1, <1>2 DEF Cancelling
<1> QED
  BY <1>4, <1>5, <1>6, AloneKept

(* The slots of S are released and the callbacks move deferred tasks.      *)
LEMMA ReleaseMoves ==
  ASSUME TypeOK, NEW S \in SUBSET Busy, NEW q \in {queue, Append(queue, NextMsg)},
         PopDeferred(Cardinality(S), q), hand' = hand \/ (hand' = NoMsg /\ hand.op # "run"),
         \A s \in Slots : /\ s \in S => s \notin Busy'
                          /\ s \notin S => task'[s] = task[s] /\ (s \in Busy' <=> s \in Busy),
         NEW t \in Tasks, Alone(t)
  PROVE  /\ Pending(t)' <=> Pending(t)
         /\ Running(t)' <=> Running(t) /\ ~\E s \in S : task[s] = t
         /\ OncePending(t)' /\ OnceRunning(t)'
         /\ Cancelling(t)' => Cancelling(t)
<1>1. Cardinality(S) \in Nat
  BY ReleasedCount
<1>2. queue \in Seq(Messages) /\ q \in Seq(Messages)
  BY MessagesDiffer DEF TypeOK, QueuesOK
<1>3. /\ In(q, RunMsg(t)) <=> In(queue, RunMsg(t))
      /\ In(q, CancelMsg(t)) <=> In(queue, CancelMsg(t))
      /\ Once(queue, RunMsg(t)) => Once(q, RunMsg(t))
  <2>1. CASE q = queue
    BY <2>1
  <2>2. CASE q = Append(queue, NextMsg)
    <3>1. NextMsg \in Messages /\ RunMsg(t) # NextMsg /\ CancelMsg(t) # NextMsg
      BY MessagesDiffer
    <3> QED
      BY <1>2, <2>2, <3>1, InAppend
  <2> QED
    BY <2>1, <2>2
<1>4. /\ In(queue', RunMsg(t)) \/ In(deferred', t) <=> In(q, RunMsg(t)) \/ In(deferred, t)
      /\ In(queue', CancelMsg(t)) <=> In(q, CancelMsg(t))
      /\ Once(q, RunMsg(t)) /\ Once(deferred, t) /\ ~(In(q, RunMsg(t)) /\ In(deferred, t))
              => /\ Once(queue', RunMsg(t)) /\ Once(deferred', t)
                 /\ ~(In(queue', RunMsg(t)) /\ In(deferred', t))
  BY <1>1, <1>2, PopKeeps DEF TypeOK
<1>5. (hand' = RunMsg(t) <=> hand = RunMsg(t)) /\ (hand' = CancelMsg(t) => hand = CancelMsg(t))
  <2>1. RunMsg(t).op = "run" /\ NoMsg # RunMsg(t) /\ NoMsg # CancelMsg(t)
    BY MessagesDiffer DEF RunMsg
  <2>2. CASE hand' = hand
    BY <2>2
  <2>3. CASE hand' = NoMsg /\ hand.op # "run"
    BY <2>1, <2>3
  <2> QED
    BY <2>2, <2>3
<1>6. Busy' = Busy \ S /\ \A s \in Busy \ S : task'[s] = task[s]
  BY DEF Busy
<1>7. Running(t)' <=> Running(t) /\ ~\E s \in S : task[s] = t
  BY <1>6 DEF Running, OnceRunning, Alone
<1>8. OnceRunning(t)'
  BY <1>6 DEF OnceRunning, Alone
<1>9. Pending(t)' <=> Pending(t)
  BY <1>3, <1>4, <1>5 DEF Pending
<1>10. OncePending(t)'
  BY <1>3, <1>4, <1>5 DEF OncePending, Alone
<1>11. Cancelling(t)' => Cancelling(t)
  BY <1>3, <1>4, <1>5 DEF Cancelling
<1> QED
  BY <1>7, <1>8, <1>9, <1>10, <1>11

LEMMA HandleCancelMoves ==
  ASSUME TypeOK, HandleCancel, NEW t \in Tasks, Alone(t)
  PROVE  /\ Alone(t)' /\ (Keeps(t) \/ (Drops(t) /\ Cancelling(t)))
         /\ Cancelling(t)' => Cancelling(t)
<1> DEFINE S == {s \in Busy : task[s] = hand.task}
<1>1. /\ Idled(S) /\ PopDeferred(Cardinality(S), queue) /\ hand' = NoMsg
      /\ hand.op = "cancel" /\ hand \in Messages /\ answers' = answers
  BY DEF HandleCancel, Handled, TypeOK, WorkerOK
<1>2. S \in SUBSET Busy
  OBVIOUS
<1>3. hand = CancelMsg(hand.task)
  BY <1>1, MessageIs
<1>4. \A s \in S : task[s] = hand.task
  OBVIOUS
<1>5. \A s \in Busy : task[s] = hand.task => s \in S
  OBVIOUS
<1> HIDE DEF S
<1>6. \A s \in Slots : /\ s \in S => s \notin Busy'
                       /\ s \notin S => task'[s] = task[s] /\ (s \in Busy' <=> s \in Busy)
  BY <1>1 DEF Idled, Busy
<1>7. /\ Pending(t)' <=> Pending(t)
      /\ Running(t)' <=> Running(t) /\ ~\E s \in S : task[s] = t
      /\ OncePending(t)' /\ OnceRunning(t)'
      /\ Cancelling(t)' => Cancelling(t)
  <2>1. queue \in {queue, Append(queue, NextMsg)}
    OBVIOUS
  <2>2. hand' = hand \/ (hand' = NoMsg /\ hand.op # "run")
    BY <1>1
  <2> QED
    BY <1>1, <1>2, <1>6, <2>1, <2>2, ReleaseMoves
<1>8. CASE Running(t) /\ t = hand.task
  <2>1. ~Running(t)' /\ ~Pending(t)'
    BY <1>5, <1>7, <1>8 DEF Running, Alone
  <2>2. answers[t] = 0 /\ answers'[t] = 0
    BY <1>1, <1>8, AnswersTyped
  <2>3. Drops(t) /\ Cancelling(t)
    BY <1>3, <1>8, <2>1, <2>2 DEF Drops, Cancelling
  <2> QED
    BY <1>7, <2>1, <2>2, <2>3 DEF Alone
<1>9. CASE ~(Running(t) /\ t = hand.task)
  <2>1. Running(t)' <=> Running(t)
    BY <1>4, <1>7, <1>9
  <2>2. Keeps(t)
    BY <1>1, <1>7, <2>1 DEF Keeps
  <2> QED
    BY <1>7, <2>2, AloneKept
<1> QED
  BY <1>8, <1>9

(* The tasks of T are answered, each of them once.                         *)
Sent(T) ==
  /\ answers' = [t \in Tasks |-> IF t \in T THEN answers[t] + 1 ELSE answers[t]]
  /\ \E N : /\ results' = results \cup N
            /\ \A m \in N : m.task \in T \cap waiting
            /\ \A t \in T \cap waiting : \E m \in N : m.task = t
            /\ \A m, n \in N : m.task = n.task => m = n

(* The busy slots S end in update_slots, and their tasks are answered.     *)
SlotsEnd(S) ==
  /\ hand' = hand /\ UNCHANGED <<waiting, clientVars>>
  /\ \E q \in {queue, Append(queue, NextMsg)} : PopDeferred(Cardinality(S), q)
  /\ \A s \in Slots : /\ s \in S => s \notin Busy'
                      /\ s \notin S => task'[s] = task[s] /\ (s \in Busy' <=> s \in Busy)
  /\ Sent({task[s] : s \in S})

LEMMA SendIsSent ==
  ASSUME NEW T, NEW k, Send(T, k)
  PROVE  Sent(T)
<1> DEFINE N == {[task |-> t, kind |-> k] : t \in T \cap waiting}
<1>1. results' = results \cup N
  BY DEF Send
<1>2. /\ \A m \in N : m.task \in T \cap waiting
      /\ \A t \in T \cap waiting : \E m \in N : m.task = t
      /\ \A m, n \in N : m.task = n.task => m = n
  <2>1. \A m \in N : \E t \in T \cap waiting : m = [task |-> t, kind |-> k]
    OBVIOUS
  <2>2. \A t \in T \cap waiting : [task |-> t, kind |-> k] \in N
    OBVIOUS
  <2>3. \A t : [task |-> t, kind |-> k].task = t
    OBVIOUS
  <2> HIDE DEF N
  <2>4. \A m \in N : m.task \in T \cap waiting /\ m = [task |-> m.task, kind |-> k]
    BY <2>1, <2>3
  <2>5. \A t \in T \cap waiting : \E m \in N : m.task = t
    BY <2>2, <2>3
  <2>6. \A m, n \in N : m.task = n.task => m = n
    BY <2>4
  <2> QED
    BY <2>4, <2>5, <2>6
<1>3. answers' = [t \in Tasks |-> IF t \in T THEN answers[t] + 1 ELSE answers[t]]
  BY DEF Send
<1> QED
  BY <1>1, <1>2, <1>3 DEF Sent

LEMMA FinishIsSent ==
  ASSUME NEW F \in SUBSET Busy, NEW E \in SUBSET Busy, F \cap E = {}, Finish(F, E),
         TypeOK, \A t \in Tasks : OnceRunning(t)
  PROVE  Sent({task[s] : s \in F \cup E})
<1> DEFINE T == {task[s] : s \in F \cup E}
           NF == {[task |-> task[s], kind |-> "final"] : s \in {x \in F : task[x] \in waiting}}
           NE == {[task |-> task[s], kind |-> "error"] : s \in {x \in E : task[x] \in waiting}}
           N == NF \cup NE
<1>1. results' = results \cup N
  BY DEF Finish
<1>2. /\ \A m \in NF : \E s \in F : m = [task |-> task[s], kind |-> "final"] /\ task[s] \in waiting
      /\ \A m \in NE : \E s \in E : m = [task |-> task[s], kind |-> "error"] /\ task[s] \in waiting
      /\ \A s \in F : task[s] \in waiting => [task |-> task[s], kind |-> "final"] \in NF
      /\ \A s \in E : task[s] \in waiting => [task |-> task[s], kind |-> "error"] \in NE
  OBVIOUS
<1>3. \A s, u \in Busy : task[s] = task[u] => s = u
  BY BusyIs DEF OnceRunning
<1> HIDE DEF NF, NE
<1>4. \A m \in N : m.task \in T \cap waiting
  BY <1>2
<1>5. \A t \in T \cap waiting : \E m \in N : m.task = t
  <2>1. ASSUME NEW t \in T \cap waiting PROVE \E m \in N : m.task = t
    <3>1. PICK s \in F \cup E : task[s] = t
      OBVIOUS
    <3>2. t \in waiting
      OBVIOUS
    <3>3. CASE s \in F
      <4>1. [task |-> t, kind |-> "final"] \in N
        BY <1>2, <3>1, <3>2, <3>3
      <4> QED
        BY <4>1
    <3>4. CASE s \in E
      <4>1. [task |-> t, kind |-> "error"] \in N
        BY <1>2, <3>1, <3>2, <3>4
      <4> QED
        BY <4>1
    <3> QED
      BY <3>3, <3>4
  <2> QED
    BY <2>1
<1>6. ASSUME NEW m \in N, NEW n \in N, m.task = n.task PROVE m = n
  <2>1. CASE m \in NF /\ n \in NF
    BY <1>2, <1>6, <2>1
  <2>2. CASE m \in NE /\ n \in NE
    BY <1>2, <1>6, <2>2
  <2>3. ASSUME NEW x \in NF, NEW y \in NE, x.task = y.task PROVE FALSE
    <3>1. PICK s \in F : x = [task |-> task[s], kind |-> "final"]
      BY <1>2, <2>3
    <3>2. PICK u \in E : y = [task |-> task[u], kind |-> "error"]
      BY <1>2, <2>3
    <3>3. task[s] = task[u]
      BY <2>3, <3>1, <3>2
    <3>4. s = u
      BY <1>3, <3>3
    <3> QED
      BY <3>4
  <2> QED
    BY <1>6, <2>1, <2>2, <2>3
<1>7. answers' = [t \in Tasks |-> IF t \in T THEN answers[t] + 1 ELSE answers[t]]
  <2>1. \A t : t \in T <=> \E s \in F \cup E : task[s] = t
    OBVIOUS
  <2>2. answers' = [t \in Tasks |->
          IF \E s \in F \cup E : task[s] = t THEN answers[t] + 1 ELSE answers[t]]
    BY DEF Finish
  <2> HIDE DEF T
  <2> QED
    BY <2>1, <2>2
<1> QED
  BY <1>1, <1>4, <1>5, <1>6, <1>7 DEF Sent

(* Whatever ends in update_slots, refused, finished or failed, ends alike. *)
LEMMA UpdateEnds ==
  ASSUME TypeOK, \A t \in Tasks : OnceRunning(t),
         UpdateOverflows \/ UpdateDecodes \/ UpdateFails
  PROVE  \E S \in SUBSET Busy : SlotsEnd(S)
<1> DEFINE Slot(S) == \A s \in Slots :
             /\ s \in S => s \notin Busy'
             /\ s \notin S => task'[s] = task[s] /\ (s \in Busy' <=> s \in Busy)
<1>1. ASSUME NEW S \in SUBSET Busy, Idled(S) PROVE Slot(S)
  BY <1>1 DEF Idled, Busy
<1>2. CASE UpdateOverflows
  <2>1. PICK O \in SUBSET Busy :
          /\ Idled(O)
          /\ PopDeferred(Cardinality(O), IF O = Busy THEN Append(queue, NextMsg) ELSE queue)
          /\ Send({task[s] : s \in O}, "error")
    BY <1>2 DEF UpdateOverflows
  <2>2. Sent({task[s] : s \in O})
    BY <2>1, SendIsSent
  <2>3. Slot(O)
    BY <1>1, <2>1
  <2>4. hand' = hand /\ UNCHANGED <<waiting, clientVars>>
    BY <1>2 DEF UpdateOverflows
  <2>5. \E q \in {queue, Append(queue, NextMsg)} : PopDeferred(Cardinality(O), q)
    BY <2>1
  <2> QED
    BY <2>2, <2>3, <2>4, <2>5 DEF SlotsEnd
<1>3. ASSUME NEW F \in SUBSET Busy, NEW E \in SUBSET Busy, F \cap E = {}, Finish(F, E),
             Slot(F \cup E)
      PROVE  SlotsEnd(F \cup E)
  <2>1. Sent({task[s] : s \in F \cup E})
    BY <1>3, FinishIsSent
  <2>2. hand' = hand /\ UNCHANGED <<waiting, clientVars>>
    BY <1>3 DEF Finish
  <2>3. \E q \in {queue, Append(queue, NextMsg)} : PopDeferred(Cardinality(F \cup E), q)
    BY <1>3 DEF Finish
  <2> QED
    BY <1>3, <2>1, <2>2, <2>3 DEF SlotsEnd
<1>4. CASE UpdateDecodes
  <2>1. PICK F \in SUBSET Busy, E \in SUBSET Busy : F \cap E = {} /\ Finish(F, E) /\ Slot(F \cup E)
    BY <1>4, DecodesIs
  <2>2. SlotsEnd(F \cup E) /\ F \cup E \in SUBSET Busy
    BY <1>3, <2>1
  <2> QED
    BY <2>2
<1>5. CASE UpdateFails
  <2>1. PICK F \in SUBSET Busy : Finish(F, Busy \ F) /\ Idled(Busy)
    BY <1>5, FailsIs
  <2>2. F \cup (Busy \ F) = Busy /\ Slot(Busy)
    BY <1>1, <2>1
  <2>3. SlotsEnd(F \cup (Busy \ F))
    BY <1>3, <2>1, <2>2
  <2> QED
    BY <2>2, <2>3
<1> QED
  BY <1>2, <1>4, <1>5

LEMMA EndsMoves ==
  ASSUME TypeOK, NEW S \in SUBSET Busy, SlotsEnd(S), NEW t \in Tasks, Alone(t)
  PROVE  /\ Alone(t)'
         /\ (\E s \in S : task[s] = t) => Answers(t)
         /\ ~(\E s \in S : task[s] = t) => Keeps(t)
         /\ Cancelling(t)' => Cancelling(t)
<1>1. PICK q \in {queue, Append(queue, NextMsg)} : PopDeferred(Cardinality(S), q)
  BY DEF SlotsEnd
<1>2. \A s \in Slots : /\ s \in S => s \notin Busy'
                       /\ s \notin S => task'[s] = task[s] /\ (s \in Busy' <=> s \in Busy)
  BY DEF SlotsEnd
<1>3. /\ Pending(t)' <=> Pending(t)
      /\ Running(t)' <=> Running(t) /\ ~\E s \in S : task[s] = t
      /\ OncePending(t)' /\ OnceRunning(t)'
      /\ Cancelling(t)' => Cancelling(t)
  <2>1. hand' = hand
    BY DEF SlotsEnd
  <2> QED
    BY <1>1, <1>2, <2>1, ReleaseMoves
<1>4. answers'[t] = IF \E s \in S : task[s] = t THEN answers[t] + 1 ELSE answers[t]
  <2>1. t \in {task[s] : s \in S} <=> \E s \in S : task[s] = t
    OBVIOUS
  <2>2. answers'[t] = IF t \in {task[s] : s \in S} THEN answers[t] + 1 ELSE answers[t]
    BY DEF SlotsEnd, Sent
  <2> QED
    BY <2>1, <2>2
<1>5. CASE \E s \in S : task[s] = t
  <2>1. Running(t) /\ ~Pending(t) /\ answers[t] = 0
    BY <1>5, AnswersTyped DEF Running, Alone
  <2>2. Answers(t)
    BY <1>3, <1>4, <1>5, <2>1 DEF Answers
  <2>3. Alone(t)'
    BY <1>3, <2>2 DEF Answers, Alone
  <2> QED
    BY <1>3, <1>5, <2>2, <2>3
<1>6. CASE ~\E s \in S : task[s] = t
  <2>1. Keeps(t)
    BY <1>3, <1>4, <1>6 DEF Keeps
  <2> QED
    BY <1>3, <1>6, <2>1, AloneKept
<1> QED
  BY <1>5, <1>6

(* The tasks of a request are different ones.                              *)
LEMMA BatchOnce ==
  ASSUME NEW r \in Requests, NEW i \in DOMAIN Batch[r], NEW j \in DOMAIN Batch[r],
         Batch[r][i] = Batch[r][j]
  PROVE  i = j
<1> DEFINE n == Len(Batch[r])
           f == [k \in 1 .. n |-> Batch[r][k]]
<1>1. /\ DOMAIN Batch[r] = 1 .. n /\ n \in Nat
      /\ \A k \in 1 .. n : Batch[r][k] \in TasksOf(r)
      /\ \A t \in TasksOf(r) : \E k \in 1 .. n : Batch[r][k] = t
  BY TasksOfBatch
<1>2. Cardinality(TasksOf(r)) = n
  BY BatchAssumption
<1> HIDE DEF n
<1>3. IsFiniteSet(1 .. n) /\ Cardinality(1 .. n) = n
  <2>1. n >= 0 /\ n \in Int /\ 1 \in Int
    BY <1>1
  <2>2. IsFiniteSet(1 .. n) /\ Cardinality(1 .. n) = IF 1 > n THEN 0 ELSE n - 1 + 1
    BY <2>1, FS_Interval
  <2> QED
    BY <1>1, <2>2
<1>4. f \in Surjection(1 .. n, TasksOf(r))
  BY <1>1 DEF Surjection
<1> HIDE DEF f
<1>5. f \in Injection(1 .. n, TasksOf(r))
  BY <1>2, <1>3, <1>4, FS_SurjSameCardinalityImpliesInj
<1>6. f[i] = Batch[r][i] /\ f[j] = Batch[r][j]
  BY <1>1 DEF f
<1> QED
  BY <1>1, <1>5, <1>6 DEF Injection, IsInjective

(* The messages made of a batch. *)
LEMMA BatchMessages ==
  ASSUME NEW r \in Requests
  PROVE  LET runs    == [i \in DOMAIN Batch[r] |-> RunMsg(Batch[r][i])]
             cancels == [i \in DOMAIN Batch[r] |-> CancelMsg(Batch[r][i])]
         IN  /\ runs \in Seq(Messages) /\ cancels \in Seq(Messages)
             /\ \A t \in Tasks :
                  /\ In(runs, RunMsg(t)) <=> t \in TasksOf(r)
                  /\ Once(runs, RunMsg(t))
                  /\ ~In(runs, CancelMsg(t))
                  /\ ~In(cancels, RunMsg(t))
                  /\ In(cancels, CancelMsg(t)) => t \in TasksOf(r)
                  /\ Once(cancels, RunMsg(t))
<1> DEFINE runs    == [i \in DOMAIN Batch[r] |-> RunMsg(Batch[r][i])]
           cancels == [i \in DOMAIN Batch[r] |-> CancelMsg(Batch[r][i])]
<1>1. runs \in Seq(Messages) /\ cancels \in Seq(Messages)
  BY TasksOfBatch, MessagesDiffer
<1>2. \A i \in DOMAIN Batch[r] : Batch[r][i] \in TasksOf(r) /\ Batch[r][i] \in Tasks
  BY TasksOfBatch
<1>3. ASSUME NEW t \in Tasks
      PROVE  /\ In(runs, RunMsg(t)) <=> t \in TasksOf(r)
             /\ Once(runs, RunMsg(t))
             /\ ~In(runs, CancelMsg(t))
             /\ ~In(cancels, RunMsg(t))
             /\ In(cancels, CancelMsg(t)) => t \in TasksOf(r)
             /\ Once(cancels, RunMsg(t))
  <2>1. \A i \in DOMAIN Batch[r] :
          /\ runs[i] = RunMsg(t) <=> Batch[r][i] = t
          /\ runs[i] # CancelMsg(t)
          /\ cancels[i] # RunMsg(t)
          /\ cancels[i] = CancelMsg(t) <=> Batch[r][i] = t
    BY <1>2, MessagesDiffer
  <2>2. DOMAIN runs = DOMAIN Batch[r] /\ DOMAIN cancels = DOMAIN Batch[r]
    OBVIOUS
  <2>3. t \in TasksOf(r) <=> \E i \in DOMAIN Batch[r] : Batch[r][i] = t
    BY TasksOfBatch
  <2>4. \A i, j \in DOMAIN Batch[r] : Batch[r][i] = Batch[r][j] => i = j
    BY BatchOnce
  <2> HIDE DEF runs, cancels
  <2> QED
    BY <2>1, <2>2, <2>3, <2>4 DEF In, Once
<1> QED
  BY <1>1, <1>3

LEMMA PostMoves ==
  ASSUME TypeOK, NEW r \in Requests, Post(r), NEW t \in Tasks, Alone(t),
         t \in TasksOf(r) => ~Pending(t) /\ ~Running(t) /\ answers[t] = 0
  PROVE  /\ Alone(t)'
         /\ t \in TasksOf(r) => Enters(t)
         /\ t \notin TasksOf(r) => Keeps(t)
         /\ Cancelling(t)' => Cancelling(t)
<1> DEFINE runs == [i \in DOMAIN Batch[r] |-> RunMsg(Batch[r][i])]
<1>1. /\ runs \in Seq(Messages)
      /\ In(runs, RunMsg(t)) <=> t \in TasksOf(r)
      /\ Once(runs, RunMsg(t)) /\ ~In(runs, CancelMsg(t))
  BY BatchMessages
<1>2. queue' = Reverse(runs) \o queue \/ queue' = queue \o runs
  BY DEF Post
<1>3. UNCHANGED <<deferred, hand, state, task, answers>> /\ queue \in Seq(Messages)
  BY DEF Post, slotVars, TypeOK, QueuesOK
<1> HIDE DEF runs
<1>4. /\ Reverse(runs) \in Seq(Messages)
      /\ In(Reverse(runs), RunMsg(t)) <=> In(runs, RunMsg(t))
      /\ Once(Reverse(runs), RunMsg(t)) /\ ~In(Reverse(runs), CancelMsg(t))
  BY <1>1, ReverseIs, InReverse
<1>5. ASSUME NEW p \in Seq(Messages), queue' = p \o queue \/ queue' = queue \o p,
             In(p, RunMsg(t)) <=> t \in TasksOf(r),
             Once(p, RunMsg(t)), ~In(p, CancelMsg(t))
      PROVE  /\ In(queue', RunMsg(t)) <=> In(queue, RunMsg(t)) \/ t \in TasksOf(r)
             /\ In(queue', CancelMsg(t)) <=> In(queue, CancelMsg(t))
             /\ Once(queue', RunMsg(t))
  <2>1. Once(queue, RunMsg(t)) /\ ~(In(p, RunMsg(t)) /\ In(queue, RunMsg(t)))
    BY <1>5 DEF Alone, OncePending, Pending
  <2>2. CASE queue' = p \o queue
    BY <1>3, <1>5, <2>1, <2>2, InConcat
  <2>3. CASE queue' = queue \o p
    BY <1>3, <1>5, <2>1, <2>3, InConcat
  <2> QED
    BY <1>5, <2>2, <2>3
<1>6. /\ In(queue', RunMsg(t)) <=> In(queue, RunMsg(t)) \/ t \in TasksOf(r)
      /\ In(queue', CancelMsg(t)) <=> In(queue, CancelMsg(t))
      /\ Once(queue', RunMsg(t))
  BY <1>1, <1>2, <1>4, <1>5
<1>7. (Running(t)' <=> Running(t)) /\ OnceRunning(t)'
  BY <1>3, SlotsKeep DEF Alone
<1>8. OncePending(t)' /\ (Pending(t)' <=> Pending(t) \/ t \in TasksOf(r))
  BY <1>3, <1>6 DEF Alone, OncePending, Pending
<1>9. Cancelling(t)' => Cancelling(t)
  BY <1>3, <1>6 DEF Cancelling
<1>10. CASE t \in TasksOf(r)
  <2>1. Enters(t)
    BY <1>3, <1>7, <1>8, <1>10 DEF Enters
  <2> QED
    BY <1>7, <1>8, <1>9, <1>10, <2>1 DEF Enters, Alone
<1>11. CASE t \notin TasksOf(r)
  <2>1. Keeps(t)
    BY <1>3, <1>7, <1>8, <1>11 DEF Keeps
  <2> QED
    BY <1>7, <1>8, <1>9, <1>11, <2>1, AloneKept
<1> QED
  BY <1>10, <1>11

LEMMA PostCancelMoves ==
  ASSUME TypeOK, NEW r \in Requests, PostCancel(r), NEW t \in Tasks, Alone(t)
  PROVE  /\ Alone(t)'
         /\ Keeps(t) \/ (t \in TasksOf(r) /\ Drops(t))
         /\ Cancelling(t)' => Cancelling(t) \/ t \in TasksOf(r)
         /\ In(queue', RunMsg(t)) <=> In(queue, RunMsg(t)) /\ t \notin TasksOf(r)
         /\ In(deferred', t) <=> In(deferred, t) /\ t \notin TasksOf(r)
<1> DEFINE cancels == [i \in DOMAIN Batch[r] |-> CancelMsg(Batch[r][i])]
           K == DOMAIN queue \ {i \in DOMAIN queue :
                    queue[i].op = "run" /\ queue[i].task \in TasksOf(r)}
           D == DOMAIN deferred \ {i \in DOMAIN deferred : deferred[i] \in TasksOf(r)}
<1>1. /\ cancels \in Seq(Messages) /\ ~In(cancels, RunMsg(t)) /\ Once(cancels, RunMsg(t))
      /\ In(cancels, CancelMsg(t)) => t \in TasksOf(r)
  BY BatchMessages
<1>2. PICK f \in InOrder(K) : queue' = Reverse(cancels) \o [i \in DOMAIN f |-> queue[f[i]]]
  BY DEF PostCancel
<1>3. PICK g \in InOrder(D) : deferred' = [i \in DOMAIN g |-> deferred[g[i]]]
  BY DEF PostCancel
<1>4. UNCHANGED <<hand, state, task, answers>>
  BY DEF PostCancel, slotVars
<1>5. queue \in Seq(Messages) /\ deferred \in Seq(Tasks)
  BY DEF TypeOK, QueuesOK
<1>6. K \in SUBSET DOMAIN queue /\ D \in SUBSET DOMAIN deferred
  OBVIOUS
<1>7. /\ \A i \in DOMAIN queue : i \in K <=> ~(queue[i].op = "run" /\ queue[i].task \in TasksOf(r))
      /\ \A i \in DOMAIN deferred : i \in D <=> deferred[i] \notin TasksOf(r)
  OBVIOUS
<1> DEFINE p == [i \in DOMAIN f |-> queue[f[i]]]
<1> HIDE DEF cancels, K, D
<1>8. /\ Reverse(cancels) \in Seq(Messages) /\ ~In(Reverse(cancels), RunMsg(t))
      /\ Once(Reverse(cancels), RunMsg(t))
      /\ In(Reverse(cancels), CancelMsg(t)) => t \in TasksOf(r)
  BY <1>1, ReverseIs, InReverse
<1>9. /\ p \in Seq(Messages)
      /\ In(p, RunMsg(t)) <=> \E k \in K : queue[k] = RunMsg(t)
      /\ In(p, CancelMsg(t)) <=> \E k \in K : queue[k] = CancelMsg(t)
      /\ Once(queue, RunMsg(t)) => Once(p, RunMsg(t))
  BY <1>5, <1>6, KeptTyped, InKept
<1>10. /\ In(deferred', t) <=> \E k \in D : deferred[k] = t
       /\ Once(deferred, t) => Once(deferred', t)
  BY <1>3, <1>5, <1>6, InKept
<1>11. In(p, RunMsg(t)) <=> In(queue, RunMsg(t)) /\ t \notin TasksOf(r)
  <2>1. RunMsg(t).op = "run" /\ RunMsg(t).task = t
    BY DEF RunMsg
  <2> QED
    BY <1>6, <1>7, <1>9, <2>1 DEF In
<1>12. In(p, CancelMsg(t)) => In(queue, CancelMsg(t))
  BY <1>6, <1>9 DEF In
<1>13. In(deferred', t) <=> In(deferred, t) /\ t \notin TasksOf(r)
  BY <1>6, <1>7, <1>10 DEF In
<1> HIDE DEF p
<1>14. /\ In(queue', RunMsg(t)) <=> In(queue, RunMsg(t)) /\ t \notin TasksOf(r)
       /\ Once(queue, RunMsg(t)) => Once(queue', RunMsg(t))
       /\ In(queue', CancelMsg(t)) => In(queue, CancelMsg(t)) \/ t \in TasksOf(r)
  <2>1. queue' = Reverse(cancels) \o p
    BY <1>2 DEF p
  <2>2. /\ In(queue', RunMsg(t)) <=> In(Reverse(cancels), RunMsg(t)) \/ In(p, RunMsg(t))
        /\ In(queue', CancelMsg(t)) <=> In(Reverse(cancels), CancelMsg(t)) \/ In(p, CancelMsg(t))
        /\ Once(p, RunMsg(t)) => Once(queue', RunMsg(t))
    BY <1>8, <1>9, <2>1, InConcat
  <2> QED
    BY <1>8, <1>9, <1>11, <1>12, <2>2
<1>15. (Running(t)' <=> Running(t)) /\ OnceRunning(t)'
  BY <1>4, SlotsKeep DEF Alone
<1>16. OncePending(t)'
  BY <1>4, <1>10, <1>13, <1>14 DEF Alone, OncePending
<1>17. Pending(t)' <=> \/ hand = RunMsg(t)
                       \/ Pending(t) /\ t \notin TasksOf(r)
  BY <1>4, <1>13, <1>14 DEF Pending
<1>18. Cancelling(t)' => Cancelling(t) \/ t \in TasksOf(r)
  BY <1>4, <1>14 DEF Cancelling
<1>19. hand = RunMsg(t) => Pending(t)
  BY DEF Pending
<1>20. CASE Pending(t) /\ ~Pending(t)'
  <2>1. ~Running(t) /\ answers[t] = 0 /\ t \in TasksOf(r)
    BY <1>17, <1>20, AnswersTyped DEF Alone
  <2>2. Drops(t)
    BY <1>4, <1>15, <1>20, <2>1 DEF Drops
  <2> QED
    BY <1>13, <1>14, <1>15, <1>16, <1>18, <2>1, <2>2 DEF Drops, Alone
<1>21. CASE ~(Pending(t) /\ ~Pending(t)')
  <2>1. Keeps(t)
    BY <1>4, <1>15, <1>17, <1>19, <1>21 DEF Keeps
  <2> QED
    BY <1>13, <1>14, <1>15, <1>16, <1>18, <2>1, AloneKept
<1> QED
  BY <1>20, <1>21
-----------------------------------------------------------------------------
(* The inductive invariant. *)

(* A task is in one place at most, in none before it is posted, and while  *)
(* its client waits it is in one or answered.                              *)
Placed ==
  \A t \in Tasks :
    /\ Alone(t)
    /\ client[Owner(t)] \in {"new", "registered"}
         => ~Pending(t) /\ ~Running(t) /\ answers[t] = 0
    /\ client[Owner(t)] = "waiting" => Pending(t) \/ Running(t) \/ answers[t] = 1

(* Only a request that was cancelled has messages that cancel its tasks.   *)
Cancelled == \A t \in Tasks : Cancelling(t) => client[Owner(t)] = "cancelled"

(* A task is awaited from its registration until its client has its answer *)
(* or leaves.                                                              *)
Awaited == \A t \in Tasks : t \in waiting <=> client[Owner(t)] \in {"registered", "waiting"}

(* A result is the only one of its task, which was answered, and its client *)
(* waits for it or has closed its stream before it began.                  *)
Resulted ==
  \A m \in results :
    /\ answers[m.task] = 1
    /\ client[Owner(m.task)] \in {"waiting", "abandoned"}
    /\ \A n \in results : n.task = m.task => n = m

(* The tasks whose answers the client of r has taken.                      *)
Received(r) == {t \in TasksOf(r) : answers[t] = 1 /\ \A m \in results : m.task # t}

Counted ==
  \A r \in Requests :
    /\ client[r] \in {"new", "registered"} => got[r] = 0
    /\ client[r] = "waiting" => got[r] = Cardinality(Received(r))

LoopInv == TypeOK /\ Placed /\ Cancelled /\ Awaited /\ Resulted /\ Counted

LEMMA InitInv == Init => LoopInv
<1> SUFFICES ASSUME Init PROVE LoopInv
  OBVIOUS
<1>1. TypeOK
  BY InitTyped
<1>2. ASSUME NEW t \in Tasks
      PROVE  /\ ~Pending(t) /\ ~Running(t) /\ answers[t] = 0
             /\ ~Cancelling(t) /\ OncePending(t) /\ OnceRunning(t)
             /\ client[Owner(t)] = "new"
  <2>1. queue = <<>> /\ deferred = <<>> /\ hand = NoMsg /\ Busy = {} /\ answers[t] = 0
    BY DEF Init, Busy
  <2>2. hand # RunMsg(t) /\ hand # CancelMsg(t)
    BY <2>1, MessagesDiffer
  <2>3. client[Owner(t)] = "new"
    BY OwnerIs DEF Init
  <2>4. \A x : ~In(<<>>, x) /\ Once(<<>>, x)
    BY DEF In, Once
  <2> QED
    BY <2>1, <2>2, <2>3, <2>4 DEF Pending, Running, Cancelling, OncePending, OnceRunning
<1>3. Placed /\ Cancelled
  BY <1>2 DEF Placed, Cancelled, Alone
<1>4. Awaited /\ Resulted
  BY <1>2 DEF Init, Awaited, Resulted
<1>5. Counted
  BY DEF Init, Counted
<1> QED
  BY <1>1, <1>3, <1>4, <1>5 DEF LoopInv

(* What a step of the worker does to every task.                           *)
LEMMA WorkerMoves ==
  ASSUME TypeOK, \A t \in Tasks : Alone(t), Worker, NEW t \in Tasks
  PROVE  /\ Alone(t)' /\ (Keeps(t) \/ Starts(t) \/ Answers(t) \/ (Drops(t) /\ Cancelling(t)))
         /\ Cancelling(t)' => Cancelling(t)
<1>1. Alone(t)
  OBVIOUS
<1>2. CASE Pull
  BY <1>1, <1>2, PullMoves
<1>3. CASE Drained \/ HandleNext \/ Wake \/ UpdateIdle \/ UpdateAborts
  <2>1. /\ UNCHANGED <<queue, deferred, state, task, answers>>
        /\ hand' = hand \/ (hand' = NoMsg /\ hand = NextMsg)
    BY <1>3 DEF Drained, HandleNext, Wake, UpdateIdle, UpdateAborts, Handled, slotVars
  <2> QED
    BY <1>1, <2>1, QuietKeeps
<1>4. ASSUME NEW u \in Tasks, Defer(u) \/ Act(u)
      PROVE  /\ Alone(t)' /\ (Keeps(t) \/ Answers(t))
             /\ Cancelling(t)' => Cancelling(t)
  BY <1>1, <1>4, DeferMoves, ActMoves
<1>5. ASSUME NEW u \in Tasks, NEW s \in Slots, Launch(u, s) \/ LaunchFails(u, s)
      PROVE  /\ Alone(t)' /\ (Keeps(t) \/ Starts(t) \/ Answers(t))
             /\ Cancelling(t)' => Cancelling(t)
  BY <1>1, <1>5, LaunchMoves, LaunchFailsMoves
<1>6. CASE HandleCancel
  BY <1>1, <1>6, HandleCancelMoves
<1>7. CASE UpdateOverflows \/ UpdateDecodes \/ UpdateFails
  <2>1. \A u \in Tasks : OnceRunning(u)
    BY DEF Alone
  <2>2. PICK S \in SUBSET Busy : SlotsEnd(S)
    BY <1>7, <2>1, UpdateEnds
  <2> QED
    BY <1>1, <2>2, EndsMoves
<1> QED
  BY <1>2, <1>3, <1>4, <1>5, <1>6, <1>7 DEF Worker

(* A task on its way, which has no answer yet.                             *)
Unanswered(t) == (Pending(t) \/ Running(t)) /\ answers[t] = 0

(* What it does to the answers: nothing, or it sends those of tasks that   *)
(* were not answered before.                                               *)
LEMMA WorkerSends ==
  ASSUME TypeOK, \A t \in Tasks : Alone(t), Worker
  PROVE  /\ UNCHANGED <<waiting, client, kind, got>>
         /\ \/ UNCHANGED <<results, answers>>
            \/ \E T \in SUBSET Tasks : Sent(T) /\ \A t \in T : Unanswered(t)
<1>1. ASSUME NEW u \in Tasks, NEW k, Send({u}, k), hand = RunMsg(u)
      PROVE  \E T \in SUBSET Tasks : Sent(T) /\ \A t \in T : Unanswered(t)
  <2>1. Pending(u) /\ Alone(u)
    BY <1>1 DEF Pending
  <2>2. Unanswered(u)
    BY <2>1, AnswersTyped DEF Unanswered
  <2>3. Sent({u})
    BY <1>1, SendIsSent
  <2> QED
    BY <2>2, <2>3
<1>2. CASE Pull \/ Drained \/ HandleCancel \/ HandleNext \/ Wake \/ UpdateIdle \/ UpdateAborts
  BY <1>2 DEF Pull, Drained, HandleCancel, HandleNext, Wake, UpdateIdle, UpdateAborts, clientVars
<1>3. ASSUME NEW u \in Tasks, Defer(u)
      PROVE  UNCHANGED <<waiting, client, kind, got, results, answers>>
  BY <1>3 DEF Defer, clientVars
<1>4. ASSUME NEW u \in Tasks, NEW s \in Slots, Launch(u, s)
      PROVE  UNCHANGED <<waiting, client, kind, got, results, answers>>
  BY <1>4 DEF Launch, clientVars
<1>5. ASSUME NEW u \in Tasks, Act(u)
      PROVE  /\ UNCHANGED <<waiting, client, kind, got>>
             /\ \E T \in SUBSET Tasks : Sent(T) /\ \A t \in T : Unanswered(t)
  <2>1. PICK k : Send({u}, k)
    BY <1>5 DEF Act
  <2>2. hand = RunMsg(u)
    BY <1>5 DEF Act, Acts, Hands
  <2>3. UNCHANGED <<waiting, client, kind, got>>
    BY <1>5 DEF Act, clientVars
  <2> QED
    BY <1>1, <2>1, <2>2, <2>3
<1>6. ASSUME NEW u \in Tasks, NEW s \in Slots, LaunchFails(u, s)
      PROVE  /\ UNCHANGED <<waiting, client, kind, got>>
             /\ \E T \in SUBSET Tasks : Sent(T) /\ \A t \in T : Unanswered(t)
  <2>1. Send({u}, "error") /\ hand = RunMsg(u)
    BY <1>6 DEF LaunchFails, Launches, Hands
  <2>2. UNCHANGED <<waiting, client, kind, got>>
    BY <1>6 DEF LaunchFails, clientVars
  <2> QED
    BY <1>1, <2>1, <2>2
<1>7. CASE UpdateOverflows \/ UpdateDecodes \/ UpdateFails
  <2>1. \A u \in Tasks : OnceRunning(u)
    BY DEF Alone
  <2>2. PICK S \in SUBSET Busy : SlotsEnd(S)
    BY <1>7, <2>1, UpdateEnds
  <2>3. UNCHANGED <<waiting, client, kind, got>> /\ Sent({task[s] : s \in S})
    BY <2>2 DEF SlotsEnd, clientVars
  <2>4. \A s \in S : task[s] \in Tasks /\ Unanswered(task[s])
    <3>1. ASSUME NEW s \in S PROVE task[s] \in Tasks /\ Unanswered(task[s])
      <4>1. task[s] \in Tasks
        BY BusyIs
      <4>2. Running(task[s]) /\ Alone(task[s])
        BY <4>1 DEF Running
      <4> QED
        BY <4>1, <4>2, AnswersTyped DEF Unanswered
    <3> QED
      BY <3>1
  <2>5. {task[s] : s \in S} \in SUBSET Tasks
    BY <2>4
  <2>6. \A t \in {task[s] : s \in S} : Unanswered(t)
    BY <2>4
  <2> QED
    BY <2>3, <2>5, <2>6
<1> QED
  BY <1>2, <1>3, <1>4, <1>5, <1>6, <1>7 DEF Worker

LEMMA TasksOfFinite ==
  ASSUME NEW r \in Requests, NEW T \in SUBSET TasksOf(r)
  PROVE  /\ IsFiniteSet(T) /\ IsFiniteSet(TasksOf(r))
         /\ Cardinality(T) = Len(Batch[r]) => T = TasksOf(r)
<1> DEFINE n == Len(Batch[r])
           f == [k \in 1 .. n |-> Batch[r][k]]
<1>1. /\ DOMAIN Batch[r] = 1 .. n /\ n \in Nat
      /\ \A k \in 1 .. n : Batch[r][k] \in TasksOf(r)
      /\ \A t \in TasksOf(r) : \E k \in 1 .. n : Batch[r][k] = t
  BY TasksOfBatch
<1>2. Cardinality(TasksOf(r)) = n
  BY BatchAssumption
<1> HIDE DEF n
<1>3. IsFiniteSet(1 .. n)
  BY <1>1, FS_Interval
<1>4. f \in Surjection(1 .. n, TasksOf(r))
  BY <1>1 DEF Surjection
<1> HIDE DEF f
<1>5. IsFiniteSet(TasksOf(r))
  BY <1>3, <1>4, FS_Surjection
<1>6. IsFiniteSet(T) /\ (Cardinality(TasksOf(r)) = Cardinality(T) => TasksOf(r) = T)
  BY <1>5, FS_Subset
<1> QED
  BY <1>2, <1>5, <1>6 DEF n


(* Sending answers of tasks that had none leaves what was received alone   *)
(* and queues no second result of a task.                                  *)
LEMMA SentKeeps ==
  ASSUME LoopInv, NEW T \in SUBSET Tasks, Sent(T), \A t \in T : Unanswered(t),
         UNCHANGED <<waiting, client, got>>
  PROVE  Resulted' /\ Counted'
<1>1. PICK N : /\ results' = results \cup N
               /\ \A m \in N : m.task \in T \cap waiting
               /\ \A t \in T \cap waiting : \E m \in N : m.task = t
               /\ \A m, n \in N : m.task = n.task => m = n
  BY DEF Sent
<1>2. \A t \in Tasks : answers'[t] = IF t \in T THEN answers[t] + 1 ELSE answers[t]
  BY DEF Sent
<1>3. \A m \in results : m.task \in Tasks /\ answers[m.task] = 1 /\ m.task \notin T
  BY DEF LoopInv, TypeOK, ClientsOK, Resulted, Unanswered
<1>4. \A t \in T : answers'[t] = 1
  BY <1>2 DEF Unanswered
<1>5. \A m \in N : m.task \in Tasks /\ client[Owner(m.task)] = "waiting"
  <2>1. ASSUME NEW m \in N PROVE m.task \in Tasks /\ client[Owner(m.task)] = "waiting"
    <3>1. m.task \in T /\ m.task \in waiting /\ m.task \in Tasks
      BY <1>1
    <3>2. client[Owner(m.task)] \in {"registered", "waiting"}
      BY <3>1 DEF LoopInv, Awaited
    <3>3. client[Owner(m.task)] # "registered"
      BY <3>1 DEF LoopInv, Placed, Unanswered
    <3> QED
      BY <3>1, <3>2, <3>3
  <2> QED
    BY <2>1
<1>6. Resulted'
  <2>1. ASSUME NEW m \in results'
        PROVE  answers'[m.task] = 1 /\ client[Owner(m.task)] \in {"waiting", "abandoned"}
    <3>1. CASE m \in N
      BY <1>1, <1>4, <1>5, <3>1
    <3>2. CASE m \in results
      BY <1>2, <1>3, <3>2 DEF LoopInv, Resulted
    <3> QED
      BY <1>1, <3>1, <3>2
  <2>2. ASSUME NEW m \in results', NEW n \in results', n.task = m.task
        PROVE  n = m
    <3>1. CASE m \in N /\ n \in N
      BY <1>1, <2>2, <3>1
    <3>2. CASE m \in results /\ n \in results
      BY <2>2, <3>2 DEF LoopInv, Resulted
    <3>3. CASE (m \in N /\ n \in results) \/ (m \in results /\ n \in N)
      BY <1>1, <1>3, <2>2, <3>3
    <3> QED
      BY <1>1, <3>1, <3>2, <3>3
  <2> QED
    BY <2>1, <2>2 DEF Resulted
<1>7. ASSUME NEW r \in Requests, client[r] = "waiting"
      PROVE  Received(r)' = Received(r)
  <2>1. ASSUME NEW t \in TasksOf(r)
        PROVE  t \in Received(r)' <=> t \in Received(r)
    <3>1. t \in Tasks /\ Owner(t) = r
      BY OwnerIs
    <3>2. CASE t \in T
      <4>1. t \in waiting
        BY <1>7, <3>1 DEF LoopInv, Awaited
      <4>2. \E m \in results' : m.task = t
        BY <1>1, <3>2, <4>1
      <4>3. answers[t] = 0
        BY <3>2 DEF Unanswered
      <4> QED
        BY <4>2, <4>3 DEF Received
    <3>3. CASE t \notin T
      <4>1. answers'[t] = answers[t]
        BY <1>2, <3>1, <3>3
      <4>2. (\A m \in results' : m.task # t) <=> (\A m \in results : m.task # t)
        BY <1>1, <3>3
      <4> QED
        BY <4>1, <4>2 DEF Received
    <3> QED
      BY <3>2, <3>3
  <2>2. Received(r) \subseteq TasksOf(r) /\ Received(r)' \subseteq TasksOf(r)
    BY DEF Received
  <2> QED
    BY <2>1, <2>2
<1>8. Counted'
  BY <1>7 DEF LoopInv, Counted
<1> QED
  BY <1>6, <1>8

LEMMA WorkerKeepsInv ==
  ASSUME LoopInv, Worker
  PROVE  LoopInv'
<1>1. TypeOK' /\ TypeOK
  BY NextTyped DEF Next, LoopInv
<1>2. UNCHANGED <<waiting, client, kind, got>>
  BY WorkerSends DEF LoopInv, Placed
<1>3. ASSUME NEW t \in Tasks
      PROVE  /\ Alone(t)'
             /\ Keeps(t) \/ Starts(t) \/ Answers(t) \/ (Drops(t) /\ Cancelling(t))
             /\ Cancelling(t)' => Cancelling(t)
  BY WorkerMoves DEF LoopInv, Placed
<1>4. Placed'
  <2>1. ASSUME NEW t \in Tasks
        PROVE  /\ client[Owner(t)] \in {"new", "registered"}
                    => ~Pending(t)' /\ ~Running(t)' /\ answers'[t] = 0
               /\ client[Owner(t)] = "waiting" => Pending(t)' \/ Running(t)' \/ answers'[t] = 1
    <3>1. /\ client[Owner(t)] \in {"new", "registered"}
               => ~Pending(t) /\ ~Running(t) /\ answers[t] = 0
          /\ client[Owner(t)] = "waiting" => Pending(t) \/ Running(t) \/ answers[t] = 1
          /\ Cancelling(t) => client[Owner(t)] = "cancelled"
      BY DEF LoopInv, Placed, Cancelled
    <3> QED
      BY <1>3, <3>1 DEF Keeps, Starts, Answers, Drops
  <2> QED
    BY <1>2, <1>3, <2>1 DEF Placed
<1>5. Cancelled'
  BY <1>2, <1>3 DEF LoopInv, Cancelled
<1>6. Awaited'
  BY <1>2 DEF LoopInv, Awaited
<1>7. Resulted' /\ Counted'
  <2>1. CASE UNCHANGED <<results, answers>>
    BY <1>2, <2>1 DEF LoopInv, Resulted, Counted, Received
  <2>2. CASE \E T \in SUBSET Tasks : Sent(T) /\ \A t \in T : Unanswered(t)
    BY <1>2, <2>2, SentKeeps
  <2> QED
    BY <2>1, <2>2, WorkerSends DEF LoopInv, Placed
<1> QED
  BY <1>1, <1>4, <1>5, <1>6, <1>7 DEF LoopInv

(* A step of one client leaves the others where they are.                  *)
LEMMA OneClient ==
  ASSUME TypeOK, NEW r \in Requests, NEW c,
         client' = [client EXCEPT ![r] = c]
  PROVE  /\ client'[r] = c
         /\ \A q \in Requests : q # r => client'[q] = client[q]
         /\ \A t \in Tasks : /\ t \in TasksOf(r) <=> Owner(t) = r
                             /\ t \in TasksOf(r) => client'[Owner(t)] = c
                             /\ t \notin TasksOf(r) => client'[Owner(t)] = client[Owner(t)]
<1>1. /\ client'[r] = c
      /\ \A q \in Requests : q # r => client'[q] = client[q]
  BY DEF TypeOK, ClientsOK
<1> QED
  BY <1>1, OwnerIs

LEMMA RegisterKeepsInv ==
  ASSUME LoopInv, NEW r \in Requests, NEW k \in Kinds, Register(r, k)
  PROVE  LoopInv'
<1>1. TypeOK' /\ TypeOK
  BY RegisterTyped DEF LoopInv
<1>2. /\ client[r] = "new" /\ client' = [client EXCEPT ![r] = "registered"]
      /\ waiting' = waiting \cup TasksOf(r)
      /\ UNCHANGED <<queue, deferred, hand, state, task, results, got, answers>>
  BY DEF Register, slotVars
<1>3. /\ client'[r] = "registered"
      /\ \A q \in Requests : q # r => client'[q] = client[q]
      /\ \A t \in Tasks : /\ t \in TasksOf(r) <=> Owner(t) = r
                          /\ t \in TasksOf(r) => client'[Owner(t)] = "registered"
                          /\ t \notin TasksOf(r) => client'[Owner(t)] = client[Owner(t)]
  BY <1>1, <1>2, OneClient
<1>4. \A t \in Tasks : Alone(t)' /\ Keeps(t) /\ (Cancelling(t)' => Cancelling(t))
  BY <1>2, QuietKeeps DEF LoopInv, Placed
<1>5. Placed'
  BY <1>2, <1>3, <1>4 DEF LoopInv, Placed, Keeps
<1>6. Cancelled'
  BY <1>2, <1>3, <1>4 DEF LoopInv, Cancelled
<1>7. Awaited'
  BY <1>2, <1>3 DEF LoopInv, Awaited
<1>8. \A m \in results : m.task \in Tasks
  BY <1>1 DEF TypeOK, ClientsOK
<1>9. Resulted'
  BY <1>2, <1>3, <1>8 DEF LoopInv, Resulted
<1>10. Counted'
  <2>1. ASSUME NEW q \in Requests PROVE Received(q)' = Received(q)
    BY <1>2 DEF Received
  <2> QED
    BY <1>2, <1>3, <2>1 DEF LoopInv, Counted
<1> QED
  BY <1>1, <1>5, <1>6, <1>7, <1>9, <1>10 DEF LoopInv

LEMMA PostKeepsInv ==
  ASSUME LoopInv, NEW r \in Requests, Post(r)
  PROVE  LoopInv'
<1>1. TypeOK' /\ TypeOK
  BY PostTyped DEF LoopInv
<1>2. /\ client[r] = "registered" /\ client' = [client EXCEPT ![r] = "waiting"]
      /\ UNCHANGED <<waiting, results, got, answers>>
  BY DEF Post
<1>3. /\ client'[r] = "waiting"
      /\ \A q \in Requests : q # r => client'[q] = client[q]
      /\ \A t \in Tasks : /\ t \in TasksOf(r) <=> Owner(t) = r
                          /\ t \in TasksOf(r) => client'[Owner(t)] = "waiting"
                          /\ t \notin TasksOf(r) => client'[Owner(t)] = client[Owner(t)]
  BY <1>1, <1>2, OneClient
<1>4. ASSUME NEW t \in Tasks
      PROVE  /\ Alone(t)' /\ (t \in TasksOf(r) => Enters(t)) /\ (t \notin TasksOf(r) => Keeps(t))
             /\ Cancelling(t)' => Cancelling(t)
  <2>1. Alone(t) /\ (t \in TasksOf(r) => ~Pending(t) /\ ~Running(t) /\ answers[t] = 0)
    BY <1>2, <1>3 DEF LoopInv, Placed
  <2> QED
    BY <1>1, <2>1, PostMoves
<1>5. Placed'
  BY <1>3, <1>4 DEF LoopInv, Placed, Keeps, Enters
<1>6. Cancelled'
  BY <1>2, <1>3, <1>4 DEF LoopInv, Cancelled
<1>7. Awaited'
  BY <1>2, <1>3 DEF LoopInv, Awaited
<1>8. \A m \in results : m.task \in Tasks
  BY <1>1 DEF TypeOK, ClientsOK
<1>9. Resulted'
  BY <1>2, <1>3, <1>8 DEF LoopInv, Resulted
<1>10. Counted'
  <2>1. ASSUME NEW q \in Requests PROVE Received(q)' = Received(q)
    BY <1>2 DEF Received
  <2>2. got[r] = Cardinality(Received(r))
    <3>1. \A t \in TasksOf(r) : answers[t] = 0
      BY <1>2, <1>3, OwnerIs DEF LoopInv, Placed
    <3>2. Received(r) = {}
      BY <3>1 DEF Received
    <3> QED
      BY <1>2, <3>2, FS_EmptySet DEF LoopInv, Counted
  <2>3. ASSUME NEW q \in Requests
        PROVE  /\ client'[q] \in {"new", "registered"} => got'[q] = 0
               /\ client'[q] = "waiting" => got'[q] = Cardinality(Received(q)')
    <3>1. CASE q = r
      BY <1>2, <1>3, <2>1, <2>2, <3>1
    <3>2. CASE q # r
      BY <1>2, <1>3, <2>1, <3>2 DEF LoopInv, Counted
    <3> QED
      BY <3>1, <3>2
  <2> QED
    BY <2>3 DEF Counted
<1> QED
  BY <1>1, <1>5, <1>6, <1>7, <1>9, <1>10 DEF LoopInv

LEMMA PostCancelKeepsInv ==
  ASSUME LoopInv, NEW r \in Requests, PostCancel(r)
  PROVE  LoopInv'
<1>1. TypeOK' /\ TypeOK
  BY PostCancelTyped DEF LoopInv
<1>2. /\ client[r] = "leaving" /\ client' = [client EXCEPT ![r] = "cancelled"]
      /\ UNCHANGED <<waiting, results, got, answers>>
  BY DEF PostCancel
<1>3. /\ client'[r] = "cancelled"
      /\ \A q \in Requests : q # r => client'[q] = client[q]
      /\ \A t \in Tasks : /\ t \in TasksOf(r) <=> Owner(t) = r
                          /\ t \in TasksOf(r) => client'[Owner(t)] = "cancelled"
                          /\ t \notin TasksOf(r) => client'[Owner(t)] = client[Owner(t)]
  BY <1>1, <1>2, OneClient
<1>4. \A t \in Tasks : /\ Alone(t)' /\ (Keeps(t) \/ (t \in TasksOf(r) /\ Drops(t)))
                       /\ Cancelling(t)' => Cancelling(t) \/ t \in TasksOf(r)
  BY <1>1, PostCancelMoves DEF LoopInv, Placed
<1>5. Placed'
  BY <1>2, <1>3, <1>4 DEF LoopInv, Placed, Keeps
<1>6. Cancelled'
  BY <1>2, <1>3, <1>4 DEF LoopInv, Cancelled
<1>7. Awaited'
  BY <1>2, <1>3 DEF LoopInv, Awaited
<1>8. \A m \in results : m.task \in Tasks
  BY <1>1 DEF TypeOK, ClientsOK
<1>9. Resulted'
  BY <1>2, <1>3, <1>8 DEF LoopInv, Resulted
<1>10. Counted'
  <2>1. ASSUME NEW q \in Requests PROVE Received(q)' = Received(q)
    BY <1>2 DEF Received
  <2> QED
    BY <1>2, <1>3, <2>1 DEF LoopInv, Counted
<1> QED
  BY <1>1, <1>5, <1>6, <1>7, <1>9, <1>10 DEF LoopInv

(* A client goes: its tasks are not awaited any more, and unless it only   *)
(* abandons its stream, its results are thrown away.                       *)
LEMMA GoesKeepsInv ==
  ASSUME LoopInv, TypeOK', NEW r \in Requests, NEW c \in {"leaving", "abandoned"},
         client[r] = "waiting", client' = [client EXCEPT ![r] = c],
         waiting' = waiting \ TasksOf(r),
         IF c = "leaving" THEN results' = {m \in results : m.task \notin TasksOf(r)}
                          ELSE results' = results,
         UNCHANGED <<queue, deferred, hand, state, task, got, answers>>
  PROVE  LoopInv'
<1>1. TypeOK
  BY DEF LoopInv
<1>2. /\ client'[r] = c
      /\ \A q \in Requests : q # r => client'[q] = client[q]
      /\ \A t \in Tasks : /\ t \in TasksOf(r) <=> Owner(t) = r
                          /\ t \in TasksOf(r) => client'[Owner(t)] = c
                          /\ t \notin TasksOf(r) => client'[Owner(t)] = client[Owner(t)]
  BY <1>1, OneClient
<1>3. \A t \in Tasks : Alone(t)' /\ Keeps(t) /\ (Cancelling(t)' => Cancelling(t))
  BY QuietKeeps DEF LoopInv, Placed
<1>4. Placed'
  BY <1>2, <1>3 DEF LoopInv, Placed, Keeps
<1>5. Cancelled'
  BY <1>2, <1>3 DEF LoopInv, Cancelled
<1>6. Awaited'
  BY <1>2 DEF LoopInv, Awaited
<1>7. \A m \in results : m.task \in Tasks
  BY <1>1 DEF TypeOK, ClientsOK
<1>8. results' \subseteq results /\ (c = "leaving" => \A m \in results' : m.task \notin TasksOf(r))
  OBVIOUS
<1>9. Resulted'
  BY <1>2, <1>7, <1>8 DEF LoopInv, Resulted
<1>10. Counted'
  <2>1. ASSUME NEW q \in Requests, q # r PROVE Received(q)' = Received(q)
    <3>1. \A t \in TasksOf(q) : t \notin TasksOf(r)
      BY <2>1, OwnerIs
    <3>2. \A t \in TasksOf(q) : (\A m \in results' : m.task # t) <=> (\A m \in results : m.task # t)
      BY <3>1
    <3> QED
      BY <3>2 DEF Received
  <2> QED
    BY <1>2, <2>1 DEF LoopInv, Counted
<1> QED
  BY <1>4, <1>5, <1>6, <1>9, <1>10 DEF LoopInv

LEMMA LeaveKeepsInv ==
  ASSUME LoopInv, NEW r \in Requests, Leave(r) \/ Abandon(r)
  PROVE  LoopInv'
<1>1. TypeOK'
  BY LeaveTyped DEF LoopInv
<1>2. CASE Leave(r)
  <2>1. /\ client[r] = "waiting" /\ client' = [client EXCEPT ![r] = "leaving"]
        /\ waiting' = waiting \ TasksOf(r)
        /\ results' = {m \in results : m.task \notin TasksOf(r)}
        /\ UNCHANGED <<queue, deferred, hand, state, task, got, answers>>
    BY <1>2 DEF Leave, Forget, slotVars
  <2> QED
    BY <1>1, <2>1, GoesKeepsInv
<1>3. CASE Abandon(r)
  <2>1. /\ client[r] = "waiting" /\ client' = [client EXCEPT ![r] = "abandoned"]
        /\ waiting' = waiting \ TasksOf(r) /\ results' = results
        /\ UNCHANGED <<queue, deferred, hand, state, task, got, answers>>
    BY <1>3 DEF Abandon, slotVars
  <2> QED
    BY <1>1, <2>1, GoesKeepsInv
<1> QED
  BY <1>2, <1>3

(* A client that has taken as many answers as it has tasks has taken all.  *)
LEMMA ReceiveKeepsInv ==
  ASSUME LoopInv, NEW r \in Requests, Receive(r)
  PROVE  LoopInv'
<1>1. TypeOK' /\ TypeOK
  BY ReceiveTyped DEF LoopInv
<1>2. PICK m \in results :
    /\ client[r] = "waiting" /\ m.task \in TasksOf(r)
    /\ IF m.kind = "error" /\ MayCancel(r)
       THEN /\ Forget(r)
            /\ client' = [client EXCEPT ![r] = "leaving"]
            /\ UNCHANGED got
       ELSE /\ got' = [got EXCEPT ![r] = @ + 1]
            /\ results' = Took(m)
            /\ IF got'[r] = Len(Batch[r])
               THEN /\ client' = [client EXCEPT ![r] = "served"]
                    /\ waiting' = waiting \ TasksOf(r)
               ELSE UNCHANGED <<client, waiting>>
    /\ UNCHANGED <<queue, deferred, hand, worker, slotVars, kind, answers>>
  BY DEF Receive
<1>3. UNCHANGED <<queue, deferred, hand, state, task, answers>>
  BY <1>2 DEF slotVars
<1>4. CASE m.kind = "error" /\ MayCancel(r)
  <2>1. /\ client[r] = "waiting" /\ client' = [client EXCEPT ![r] = "leaving"]
        /\ waiting' = waiting \ TasksOf(r)
        /\ results' = {x \in results : x.task \notin TasksOf(r)}
        /\ UNCHANGED got
    BY <1>2, <1>4 DEF Forget
  <2> QED
    BY <1>1, <1>3, <2>1, GoesKeepsInv
<1>5. CASE ~(m.kind = "error" /\ MayCancel(r))
  <2>1. got' = [got EXCEPT ![r] = @ + 1] /\ results' = results \ {m}
    BY <1>2, <1>5 DEF Took
  <2>2. \/ /\ got'[r] = Len(Batch[r])
           /\ client' = [client EXCEPT ![r] = "served"]
           /\ waiting' = waiting \ TasksOf(r)
        \/ /\ client' = [client EXCEPT ![r] = "waiting"]
           /\ waiting' = waiting
    BY <1>1, <1>2, <1>5 DEF TypeOK, ClientsOK
  <2>3. \A t \in Tasks : Alone(t)' /\ Keeps(t) /\ (Cancelling(t)' => Cancelling(t))
    BY <1>3, QuietKeeps DEF LoopInv, Placed
  <2>4. /\ client'[r] \in {"served", "waiting"}
        /\ \A q \in Requests : q # r => client'[q] = client[q]
        /\ \A t \in Tasks : /\ t \in TasksOf(r) <=> Owner(t) = r
                            /\ t \in TasksOf(r) => client'[Owner(t)] = client'[r]
                            /\ t \notin TasksOf(r) => client'[Owner(t)] = client[Owner(t)]
    BY <1>1, <2>2, OneClient
  <2>5. Placed'
    BY <1>2, <2>3, <2>4 DEF LoopInv, Placed, Keeps
  <2>6. Cancelled'
    BY <1>2, <2>3, <2>4 DEF LoopInv, Cancelled
  <2>7. Awaited'
    <3>1. CASE client' = [client EXCEPT ![r] = "served"] /\ waiting' = waiting \ TasksOf(r)
      <4>1. client'[r] = "served"
        BY <1>1, <3>1, OneClient
      <4> QED
        BY <2>4, <3>1, <4>1 DEF LoopInv, Awaited
    <3>2. CASE client' = [client EXCEPT ![r] = "waiting"] /\ waiting' = waiting
      <4>1. client'[r] = "waiting"
        BY <1>1, <3>2, OneClient
      <4> QED
        BY <1>2, <2>4, <3>2, <4>1 DEF LoopInv, Awaited
    <3> QED
      BY <2>2, <3>1, <3>2
  <2>8. /\ \A x \in results : x.task \in Tasks /\ answers[x.task] = 1
        /\ \A x \in results : x.task = m.task => x = m
    BY <1>1 DEF LoopInv, TypeOK, ClientsOK, Resulted
  <2>9. /\ Received(r)' = Received(r) \cup {m.task}
        /\ m.task \notin Received(r)
    <3>1. m.task \in TasksOf(r) /\ answers'[m.task] = 1 /\ answers[m.task] = 1
      BY <1>2, <1>3, <2>8
    <3>2. \A x \in results' : x.task # m.task
      BY <2>1, <2>8
    <3>3. m.task \in Received(r)' /\ m.task \notin Received(r)
      BY <3>1, <3>2 DEF Received
    <3>4. ASSUME NEW t \in TasksOf(r), t # m.task
          PROVE  t \in Received(r)' <=> t \in Received(r)
      <4>1. (\A x \in results' : x.task # t) <=> (\A x \in results : x.task # t)
        BY <2>1, <3>4
      <4> QED
        BY <1>3, <4>1 DEF Received
    <3>5. Received(r) \subseteq TasksOf(r) /\ Received(r)' \subseteq TasksOf(r)
      BY DEF Received
    <3> QED
      BY <3>1, <3>3, <3>4, <3>5
  <2>10. Received(r) \in SUBSET TasksOf(r) /\ Received(r)' \in SUBSET TasksOf(r)
    BY DEF Received
  <2>11. got'[r] = Cardinality(Received(r)')
    <3>1. IsFiniteSet(Received(r))
      BY <2>10, TasksOfFinite
    <3>2. Cardinality(Received(r)') = Cardinality(Received(r)) + 1
      BY <2>9, <3>1, FS_AddElement
    <3>3. got'[r] = got[r] + 1
      BY <1>1, <2>1 DEF TypeOK, ClientsOK
    <3> QED
      BY <1>2, <3>2, <3>3 DEF LoopInv, Counted
  <2>12. client'[r] = "served" => \A x \in results' : x.task \notin TasksOf(r)
    <3>1. ASSUME client'[r] = "served" PROVE Received(r)' = TasksOf(r)
      <4>1. client' # [client EXCEPT ![r] = "waiting"]
        <5>1. "served" # "waiting"
          OBVIOUS
        <5> QED
          BY <1>1, <3>1, <5>1, OneClient
      <4>2. Cardinality(Received(r)') = Len(Batch[r])
        BY <2>2, <2>11, <4>1
      <4> QED
        BY <2>10, <4>2, TasksOfFinite
    <3> QED
      BY <3>1 DEF Received
  <2>13. Resulted'
    <3>1. results' \subseteq results
      BY <2>1
    <3> QED
      BY <1>2, <1>3, <2>4, <2>8, <2>12, <3>1 DEF LoopInv, Resulted
  <2>14. Counted'
    <3>1. ASSUME NEW q \in Requests, q # r PROVE Received(q)' = Received(q)
      <4>1. \A t \in TasksOf(q) : t # m.task
        BY <1>2, <3>1, OwnerIs
      <4>2. \A t \in TasksOf(q) : (\A x \in results' : x.task # t) <=> (\A x \in results : x.task # t)
        BY <2>1, <4>1
      <4> QED
        BY <1>3, <4>2 DEF Received
    <3>2. ASSUME NEW q \in Requests
          PROVE  /\ client'[q] \in {"new", "registered"} => got'[q] = 0
                 /\ client'[q] = "waiting" => got'[q] = Cardinality(Received(q)')
      <4>1. CASE q = r
        BY <2>4, <2>11, <4>1
      <4>2. CASE q # r
        <5>1. got'[q] = got[q]
          BY <1>1, <2>1, <4>2 DEF TypeOK, ClientsOK
        <5> QED
          BY <2>4, <3>1, <4>2, <5>1 DEF LoopInv, Counted
      <4> QED
        BY <4>1, <4>2
    <3> QED
      BY <3>2 DEF Counted
  <2> QED
    BY <1>1, <2>5, <2>6, <2>7, <2>13, <2>14 DEF LoopInv
<1> QED
  BY <1>4, <1>5

LEMMA NextInv == LoopInv /\ [Next]_vars => LoopInv'
<1> SUFFICES ASSUME LoopInv, [Next]_vars PROVE LoopInv'
  OBVIOUS
<1>1. CASE Worker
  BY <1>1, WorkerKeepsInv
<1>2. CASE \E r \in Requests : \E k \in Kinds : Register(r, k)
  BY <1>2, RegisterKeepsInv
<1>3. CASE \E r \in Requests : Client(r)
  BY <1>3, PostKeepsInv, ReceiveKeepsInv, PostCancelKeepsInv DEF Client
<1>4. CASE \E r \in Requests : Leave(r) \/ Abandon(r)
  BY <1>4, LeaveKeepsInv
<1>5. CASE UNCHANGED vars
  <2>1. TypeOK'
    BY NextTyped DEF LoopInv
  <2>2. UNCHANGED <<queue, deferred, hand, state, task, answers, client, waiting, results, got>>
    BY <1>5 DEF vars, slotVars, clientVars
  <2>3. \A t \in Tasks : Alone(t)' /\ Keeps(t) /\ (Cancelling(t)' => Cancelling(t))
    BY <2>2, QuietKeeps DEF LoopInv, Placed
  <2>4. Placed' /\ Cancelled'
    BY <2>2, <2>3 DEF LoopInv, Placed, Cancelled, Keeps
  <2>5. Awaited' /\ Resulted' /\ Counted'
    BY <2>2 DEF LoopInv, Awaited, Resulted, Counted, Received
  <2> QED
    BY <2>1, <2>4, <2>5 DEF LoopInv
<1> QED
  BY <1>1, <1>2, <1>3, <1>4, <1>5 DEF Next

LEMMA AlwaysInv == Spec => []LoopInv
BY InitInv, NextInv, PTL DEF Spec
-----------------------------------------------------------------------------
(* What follows from the invariant. *)

(* No result waits for a client that is not there (ResultsAwaited).        *)
THEOREM ResultsHaveReaders == Spec => []ResultsAwaited
<1>1. LoopInv => ResultsAwaited
  <2> SUFFICES ASSUME LoopInv, NEW m \in results
               PROVE  m.task \in waiting \/ client[Owner(m.task)] = "abandoned"
    BY DEF ResultsAwaited
  <2>1. m.task \in Tasks /\ client[Owner(m.task)] \in {"waiting", "abandoned"}
    BY DEF LoopInv, TypeOK, ClientsOK, Resulted
  <2> QED
    BY <2>1 DEF LoopInv, Awaited
<1> QED
  BY <1>1, AlwaysInv, PTL

(* A set without two different elements has one element or none.           *)
LEMMA AtMostOne ==
  ASSUME NEW S, \A x, y \in S : x = y
  PROVE  Cardinality(S) = IF S = {} THEN 0 ELSE 1
<1>1. CASE S = {}
  BY <1>1, FS_EmptySet
<1>2. CASE S # {}
  <2>1. PICK x : S = {x}
    BY <1>2
  <2>2. Cardinality({x}) = 1
    BY FS_Singleton
  <2> QED
    BY <1>2, <2>1, <2>2
<1> QED
  BY <1>1, <1>2

(* The number of copies of a task is that of the places it is in.          *)
LEMMA CopiesAre ==
  ASSUME NEW t \in Tasks, Alone(t)
  PROVE  Copies(t) = IF Pending(t) \/ Running(t) THEN 1 ELSE 0
<1> DEFINE Q == {i \in DOMAIN queue : queue[i] = RunMsg(t)}
           D == {i \in DOMAIN deferred : deferred[i] = t}
           S == {s \in Busy : task[s] = t}
<1>1. /\ \A i, j \in Q : i = j
      /\ \A i, j \in D : i = j
      /\ \A i, j \in S : i = j
  BY DEF Alone, OncePending, OnceRunning, Once
<1>2. /\ Q = {} <=> ~In(queue, RunMsg(t))
      /\ D = {} <=> ~In(deferred, t)
      /\ S = {} <=> ~Running(t)
  BY DEF In, Running
<1>3. Copies(t) = Cardinality(Q) + Cardinality(D) + Cardinality(S)
                    + (IF hand = RunMsg(t) THEN 1 ELSE 0)
  BY DEF Copies
<1> HIDE DEF Q, D, S
<1>4. /\ Cardinality(Q) = IF In(queue, RunMsg(t)) THEN 1 ELSE 0
      /\ Cardinality(D) = IF In(deferred, t) THEN 1 ELSE 0
      /\ Cardinality(S) = IF Running(t) THEN 1 ELSE 0
  BY <1>1, <1>2, AtMostOne
<1>5. /\ In(queue, RunMsg(t)) => ~In(deferred, t) /\ hand # RunMsg(t) /\ ~Running(t)
      /\ In(deferred, t) => hand # RunMsg(t) /\ ~Running(t)
      /\ hand = RunMsg(t) => ~Running(t)
      /\ Pending(t) <=> In(queue, RunMsg(t)) \/ In(deferred, t) \/ hand = RunMsg(t)
  BY DEF Alone, OncePending, Pending
<1> QED
  BY <1>3, <1>4, <1>5

(* No task is lost or doubled in the queues, the hand and the slots, and   *)
(* none is answered twice (Conservation).                                  *)
THEOREM NothingLost == Spec => []Conservation
<1>1. LoopInv => Conservation
  <2> SUFFICES ASSUME LoopInv, NEW r \in Requests, NEW t \in TasksOf(r)
               PROVE  /\ Copies(t) + answers[t] <= 1
                      /\ client[r] = "waiting" => Copies(t) + answers[t] = 1
    BY DEF Conservation
  <2>1. t \in Tasks /\ Owner(t) = r
    BY OwnerIs
  <2>2. Alone(t) /\ (client[r] = "waiting" => Pending(t) \/ Running(t) \/ answers[t] = 1)
    BY <2>1 DEF LoopInv, Placed
  <2>3. answers[t] \in {0, 1} /\ (Pending(t) \/ Running(t) => answers[t] = 0)
    BY <2>1, <2>2, AnswersTyped DEF LoopInv
  <2>4. Copies(t) = IF Pending(t) \/ Running(t) THEN 1 ELSE 0
    BY <2>1, <2>2, CopiesAre
  <2> QED
    BY <2>2, <2>3, <2>4
<1> QED
  BY <1>1, AlwaysInv, PTL

(* While a client waits, the answers to its tasks are those it has taken   *)
(* and those in the result queue (AnswersKept).                            *)
THEOREM AnswersNotLost == Spec => []AnswersKept
<1>1. LoopInv => AnswersKept
  <2> SUFFICES ASSUME LoopInv, NEW r \in Requests, client[r] = "waiting"
               PROVE  Cardinality({t \in TasksOf(r) : answers[t] > 0})
                        = got[r] + Cardinality({m \in results : m.task \in TasksOf(r)})
    BY DEF AnswersKept
  <2> DEFINE A == {t \in TasksOf(r) : answers[t] > 0}
             P == {t \in TasksOf(r) : \E m \in results : m.task = t}
             M == {m \in results : m.task \in TasksOf(r)}
             f == [t \in P |-> CHOOSE m \in results : m.task = t]
  <2>1. \A t \in TasksOf(r) : answers[t] > 0 <=> answers[t] = 1
    <3>1. ASSUME NEW t \in TasksOf(r) PROVE answers[t] \in {0, 1}
      BY OwnerIs, AnswersTyped DEF LoopInv, Placed
    <3> QED
      BY <3>1
  <2>2. \A m \in results : answers[m.task] = 1 /\ \A n \in results : n.task = m.task => n = m
    BY DEF LoopInv, Resulted
  <2>3. P \subseteq A /\ Received(r) = A \ P
    BY <2>1, <2>2 DEF Received
  <2>4. IsFiniteSet(P) /\ IsFiniteSet(Received(r))
    <3>1. P \in SUBSET TasksOf(r) /\ Received(r) \in SUBSET TasksOf(r)
      BY DEF Received
    <3> HIDE DEF P
    <3> QED
      BY <3>1, TasksOfFinite
  <2>5. Cardinality(M) = Cardinality(P)
    <3>1. \A t \in P : f[t] \in results /\ f[t].task = t
      OBVIOUS
    <3>2. \A t \in P : t \in TasksOf(r)
      OBVIOUS
    <3>3. \A m \in M : m \in results /\ m.task \in P
      OBVIOUS
    <3>4. \A m \in results : m.task \in TasksOf(r) => m \in M
      OBVIOUS
    <3>5. DOMAIN f = P
      OBVIOUS
    <3>6. f = [t \in P |-> f[t]]
      OBVIOUS
    <3> HIDE DEF P, M, f
    <3>7. f \in [P -> M]
      BY <3>1, <3>2, <3>4, <3>6
    <3>8. f \in Injection(P, M)
      BY <3>1, <3>7 DEF Injection, IsInjective
    <3>9. f \in Surjection(P, M)
      <4>1. ASSUME NEW m \in M PROVE \E t \in P : f[t] = m
        <5>1. m.task \in P /\ f[m.task] \in results /\ f[m.task].task = m.task
          BY <3>1, <3>3
        <5>2. f[m.task] = m
          BY <2>2, <3>3, <5>1
        <5> QED
          BY <5>1, <5>2
      <4> QED
        BY <3>7, <4>1 DEF Surjection
    <3>10. ExistsBijection(P, M)
      BY <3>8, <3>9 DEF ExistsBijection, Bijection
    <3> QED
      BY <2>4, <3>10, FS_Bijection
  <2>6. Cardinality(A) = Cardinality(Received(r)) + Cardinality(P)
    <3>1. A = Received(r) \cup P /\ Received(r) \cap P = {}
      BY <2>3
    <3> HIDE DEF A, P
    <3>2. Cardinality(Received(r) \cup P)
            = Cardinality(Received(r)) + Cardinality(P) - Cardinality(Received(r) \cap P)
      BY <2>4, FS_Union
    <3>3. Cardinality({}) = 0
      BY FS_EmptySet
    <3>4. Cardinality(Received(r)) \in Nat /\ Cardinality(P) \in Nat
      BY <2>4, FS_CardinalityType
    <3>5. Cardinality(Received(r) \cap P) = 0 /\ Cardinality(A) = Cardinality(Received(r) \cup P)
      BY <3>1, <3>3
    <3> QED
      BY <3>2, <3>4, <3>5
  <2>7. got[r] = Cardinality(Received(r))
    BY DEF LoopInv, Counted
  <2> QED
    BY <2>5, <2>6, <2>7
<1> QED
  BY <1>1, AlwaysInv, PTL
-----------------------------------------------------------------------------
(* The loop implements TaskLife. *)

(* Where a task is in its life.                                            *)
LEMMA LifeIs ==
  ASSUME LoopInv, NEW t \in Tasks
  PROVE  /\ LifeOf(t) = IF client[Owner(t)] \in {"new", "registered"} THEN "new"
                        ELSE IF Running(t) THEN "running"
                        ELSE IF Pending(t) THEN "pending"
                        ELSE IF answers[t] = 1 THEN "answered" ELSE "dropped"
         /\ LifeOf(t) \in Life!Lives
<1>1. Alone(t) /\ answers[t] \in {0, 1}
  BY AnswersTyped DEF LoopInv, Placed
<1>2. Copies(t) = IF Pending(t) \/ Running(t) THEN 1 ELSE 0
  BY <1>1, CopiesAre
<1>3. LifeOf(t) = IF client[Owner(t)] \in {"new", "registered"} THEN "new"
                  ELSE IF Running(t) THEN "running"
                  ELSE IF Pending(t) THEN "pending"
                  ELSE IF answers[t] = 1 THEN "answered" ELSE "dropped"
  BY <1>1, <1>2 DEF LifeOf, Running
<1> QED
  BY <1>3 DEF Life!Lives

(* Before it is posted, a task is nowhere.                                 *)
Unposted(t) == client[Owner(t)] \in {"new", "registered"}

(* What any step does to a task.                                           *)
LEMMA StepMoves ==
  ASSUME LoopInv, [Next]_vars, NEW t \in Tasks
  PROVE  \/ Keeps(t) /\ (Unposted(t)' <=> Unposted(t))
         \/ Enters(t) /\ Unposted(t) /\ ~Unposted(t)'
         \/ (Starts(t) \/ Answers(t) \/ Drops(t)) /\ ~Unposted(t) /\ ~Unposted(t)'
<1>1. TypeOK /\ \A u \in Tasks : Alone(u)
  BY DEF LoopInv, Placed
<1>2. ASSUME UNCHANGED client
      PROVE  Unposted(t)' <=> Unposted(t)
  BY <1>2 DEF Unposted
<1>3. Unposted(t) => ~Pending(t) /\ ~Running(t)
  BY DEF LoopInv, Placed, Unposted
<1>4. CASE Worker
  <2>1. Keeps(t) \/ Starts(t) \/ Answers(t) \/ Drops(t)
    BY <1>1, <1>4, WorkerMoves
  <2>2. Unposted(t)' <=> Unposted(t)
    BY <1>1, <1>2, <1>4, WorkerSends
  <2> QED
    BY <1>3, <2>1, <2>2 DEF Starts, Answers, Drops
<1>5. ASSUME UNCHANGED <<queue, deferred, hand, state, task, answers>> PROVE Keeps(t)
  BY <1>1, <1>5, QuietKeeps
<1>6. ASSUME NEW r \in Requests, NEW c, client' = [client EXCEPT ![r] = c],
             client[r] \in {"new", "registered"} <=> c \in {"new", "registered"}
      PROVE  Unposted(t)' <=> Unposted(t)
  BY <1>1, <1>6, OneClient DEF Unposted
<1>7. ASSUME NEW r \in Requests, NEW k \in Kinds, Register(r, k)
      PROVE  Keeps(t) /\ (Unposted(t)' <=> Unposted(t))
  <2>1. /\ client[r] = "new" /\ client' = [client EXCEPT ![r] = "registered"]
        /\ UNCHANGED <<queue, deferred, hand, state, task, answers>>
    BY <1>7 DEF Register, slotVars
  <2> QED
    BY <1>5, <1>6, <2>1
<1>8. ASSUME NEW r \in Requests, Leave(r) \/ Abandon(r) \/ Receive(r)
      PROVE  Keeps(t) /\ (Unposted(t)' <=> Unposted(t))
  <2>1. UNCHANGED <<queue, deferred, hand, state, task, answers>>
    BY <1>8 DEF Leave, Abandon, Receive, slotVars
  <2>2. /\ client[r] = "waiting"
        /\ \/ client' = [client EXCEPT ![r] = "leaving"]
           \/ client' = [client EXCEPT ![r] = "abandoned"]
           \/ client' = [client EXCEPT ![r] = "served"]
           \/ client' = client
    BY <1>8 DEF Leave, Abandon, Receive
  <2> QED
    BY <1>2, <1>5, <1>6, <2>1, <2>2
<1>9. ASSUME NEW r \in Requests, Post(r)
      PROVE  \/ Keeps(t) /\ (Unposted(t)' <=> Unposted(t))
             \/ Enters(t) /\ Unposted(t) /\ ~Unposted(t)'
  <2>1. client[r] = "registered" /\ client' = [client EXCEPT ![r] = "waiting"]
    BY <1>9 DEF Post
  <2>2. /\ t \in TasksOf(r) <=> Owner(t) = r
        /\ t \in TasksOf(r) => client'[Owner(t)] = "waiting"
        /\ t \notin TasksOf(r) => client'[Owner(t)] = client[Owner(t)]
    BY <1>1, <2>1, OneClient
  <2>3. t \in TasksOf(r) => ~Pending(t) /\ ~Running(t) /\ answers[t] = 0
    BY <2>1, <2>2 DEF LoopInv, Placed
  <2>4. (t \in TasksOf(r) => Enters(t)) /\ (t \notin TasksOf(r) => Keeps(t))
    BY <1>1, <1>9, <2>3, PostMoves
  <2> QED
    BY <2>1, <2>2, <2>4 DEF Unposted
<1>10. ASSUME NEW r \in Requests, PostCancel(r)
       PROVE  \/ Keeps(t) /\ (Unposted(t)' <=> Unposted(t))
              \/ Drops(t) /\ ~Unposted(t) /\ ~Unposted(t)'
  <2>1. client[r] = "leaving" /\ client' = [client EXCEPT ![r] = "cancelled"]
    BY <1>10 DEF PostCancel
  <2>2. Unposted(t)' <=> Unposted(t)
    BY <1>6, <2>1
  <2>3. Keeps(t) \/ Drops(t)
    BY <1>1, <1>10, PostCancelMoves
  <2> QED
    BY <1>3, <2>2, <2>3 DEF Drops
<1>11. CASE UNCHANGED vars
  BY <1>2, <1>5, <1>11 DEF vars, slotVars, clientVars
<1> QED
  BY <1>4, <1>7, <1>8, <1>9, <1>10, <1>11 DEF Next, Client

(* A move of a task is one that TaskLife allows.                           *)
LEMMA LifeMoves ==
  LoopInv /\ LoopInv' /\ [Next]_vars
    => \A t \in Tasks : LifeOf(t)' # LifeOf(t) => <<LifeOf(t), LifeOf(t)'>> \in Life!Moves
<1> DEFINE life(t) == IF Unposted(t) THEN "new"
                      ELSE IF Running(t) THEN "running"
                      ELSE IF Pending(t) THEN "pending"
                      ELSE IF answers[t] = 1 THEN "answered" ELSE "dropped"
<1>1. LoopInv => \A t \in Tasks : LifeOf(t) = life(t)
  BY LifeIs DEF Unposted
<1>2. LoopInv' => (\A t \in Tasks : LifeOf(t) = life(t))'
  BY <1>1, PTL
<1> SUFFICES ASSUME LoopInv, LoopInv', [Next]_vars, NEW t \in Tasks,
                    LifeOf(t)' # LifeOf(t)
             PROVE  <<LifeOf(t), LifeOf(t)'>> \in Life!Moves
  OBVIOUS
<1>3. LifeOf(t) = life(t)
  BY <1>1
<1>4. LifeOf(t)' = IF Unposted(t)' THEN "new"
                   ELSE IF Running(t)' THEN "running"
                   ELSE IF Pending(t)' THEN "pending"
                   ELSE IF answers'[t] = 1 THEN "answered" ELSE "dropped"
  BY <1>2
<1>5. /\ Unposted(t) => ~Pending(t) /\ ~Running(t)
      /\ Running(t) => ~Pending(t)
      /\ Running(t)' => ~Pending(t)'
  BY DEF LoopInv, Placed, Unposted, Alone
<1> HIDE DEF life
<1>6. CASE Keeps(t) /\ (Unposted(t)' <=> Unposted(t))
  BY <1>3, <1>4, <1>6 DEF Keeps, life
<1>7. CASE Enters(t) /\ Unposted(t) /\ ~Unposted(t)'
  <2>1. LifeOf(t) = "new" /\ LifeOf(t)' = "pending"
    BY <1>3, <1>4, <1>7 DEF Enters, life
  <2> QED
    BY <2>1 DEF Life!Moves
<1>8. CASE (Starts(t) \/ Answers(t) \/ Drops(t)) /\ ~Unposted(t) /\ ~Unposted(t)'
  <2>1. LifeOf(t) \in {"pending", "running"}
    BY <1>3, <1>8 DEF Starts, Answers, Drops, life
  <2>2. CASE Starts(t)
    <3>1. LifeOf(t) = "pending" /\ LifeOf(t)' = "running"
      BY <1>3, <1>4, <1>8, <2>2 DEF Starts, life
    <3> QED
      BY <3>1 DEF Life!Moves
  <2>3. CASE Answers(t)
    <3>1. LifeOf(t)' = "answered"
      BY <1>4, <1>8, <2>3 DEF Answers
    <3> QED
      BY <2>1, <3>1 DEF Life!Moves
  <2>4. CASE Drops(t)
    <3>1. LifeOf(t)' = "dropped"
      BY <1>4, <1>8, <2>4 DEF Drops
    <3> QED
      BY <2>1, <3>1 DEF Life!Moves
  <2> QED
    BY <1>8, <2>2, <2>3, <2>4
<1> QED
  BY <1>6, <1>7, <1>8, StepMoves

(* Whatever queues, slots, faults and cancellations do, the life of a task *)
(* only moves forward: the loop implements TaskLife (LivesForward).        *)
THEOREM ImplementsTaskLife == Spec => LivesForward
<1> DEFINE lives == [t \in Tasks |-> LifeOf(t)]
<1>1. Init => Life!Init
  <2> SUFFICES ASSUME Init PROVE [t \in Tasks |-> LifeOf(t)] = [t \in Tasks |-> "new"]
    BY DEF Life!Init
  <2>1. ASSUME NEW t \in Tasks PROVE LifeOf(t) = "new"
    BY OwnerIs DEF Init, LifeOf
  <2> QED
    BY <2>1
<1>2. LoopInv => \A t \in Tasks : LifeOf(t) \in Life!Lives
  BY LifeIs
<1>3. LoopInv' => (\A t \in Tasks : LifeOf(t) \in Life!Lives)'
  BY <1>2, PTL
<1>4. LoopInv /\ LoopInv' /\ [Next]_vars => [Life!Next]_lives
  <2> SUFFICES ASSUME LoopInv, LoopInv', [Next]_vars PROVE Life!Next
    OBVIOUS
  <2>1. \A t \in Tasks : LifeOf(t)' \in Life!Lives
    BY <1>3 DEF Life!Lives
  <2>2. lives' \in [Tasks -> Life!Lives]
    BY <2>1
  <2>3. \A t \in Tasks : lives'[t] # lives[t] => <<lives[t], lives'[t]>> \in Life!Moves
    BY LifeMoves
  <2> QED
    BY <2>2, <2>3 DEF Life!Next
<1> QED
  BY <1>1, <1>4, AlwaysInv, PTL DEF Spec, LivesForward, Life!Spec
-----------------------------------------------------------------------------
(* No task is stranded, as long as every deferred task that is woken takes *)
(* a slot: requests are completions of one task, for any slot or for one   *)
(* that exists, no launch fails and no client leaves a stream.             *)

OneTaskEach     == \A r \in Requests : Len(Batch[r]) = 1
JustCompletions == \A k \in Kinds : k.type = "completion" /\ k.slot # Unknown
NobodyGivesUp   == "launch" \notin Faults /\ "leave" \notin Faults

(* Something that runs or is about to.                                     *)
Stirring ==
  \/ Busy # {}
  \/ \E t \in Tasks : In(queue, RunMsg(t)) \/ hand = RunMsg(t)

(* A client that leaves has the error of its only task.                    *)
LeavesAnswered ==
  \A r \in Requests : client[r] = "leaving" => \A t \in TasksOf(r) : answers[t] = 1

StirInv == (deferred # <<>> => Stirring) /\ LeavesAnswered

(* What the callbacks do to a queue in which something may be to run.      *)
LEMMA PopStirs ==
  ASSUME QueuesOK, NEW n \in Nat, NEW q \in Seq(Messages), PopDeferred(n, q)
  PROVE  /\ \A t \in Tasks : In(q, RunMsg(t)) => In(queue', RunMsg(t))
         /\ deferred = <<>> => deferred' = <<>>
         /\ n > 0 /\ deferred # <<>> => \E t \in Tasks : In(queue', RunMsg(t))
<1> DEFINE k == Popped(n)
           p == [i \in 1 .. k |-> RunMsg(deferred[k + 1 - i])]
<1>1. deferred \in Seq(Tasks) /\ Len(deferred) \in Nat
  BY DEF QueuesOK
<1>2. k \in Nat /\ k <= Len(deferred) /\ (n > 0 /\ deferred # <<>> => k > 0)
  BY <1>1, PoppedIs
<1>3. queue' = p \o q /\ deferred' = SubSeq(deferred, k + 1, Len(deferred))
  BY DEF PopDeferred, Requeued
<1>4. ASSUME NEW i \in 1 .. k PROVE deferred[k + 1 - i] \in Tasks
  <2>1. k + 1 - i \in 1 .. Len(deferred)
    BY <1>1, <1>2
  <2> QED
    BY <1>1, <2>1
<1>5. p \in Seq(Messages) /\ DOMAIN p = 1 .. k
  <2>1. \A i \in 1 .. k : RunMsg(deferred[k + 1 - i]) \in Messages
    BY <1>4, MessagesDiffer
  <2> QED
    BY <1>2, <2>1
<1>6. k > 0 => \E t \in Tasks : p[1] = RunMsg(t)
  BY <1>2, <1>4
<1>7. deferred = <<>> => deferred' = <<>>
  BY <1>1, <1>2, <1>3
<1> HIDE DEF p, k
<1>8. \A t \in Tasks : In(queue', RunMsg(t)) <=> In(p, RunMsg(t)) \/ In(q, RunMsg(t))
  BY <1>3, <1>5, InConcat
<1>9. k > 0 => \E t \in Tasks : In(p, RunMsg(t))
  BY <1>2, <1>5, <1>6 DEF In
<1> QED
  BY <1>2, <1>7, <1>8, <1>9

(* Slots are released: if none is busy after that, a deferred task is on   *)
(* its way.                                                                *)
LEMMA ReleaseStirs ==
  ASSUME TypeOK, deferred # <<>> => Stirring, NEW S \in SUBSET Busy,
         NEW q \in {queue, Append(queue, NextMsg)},
         PopDeferred(Cardinality(S), q), Busy' = Busy \ S,
         hand' = hand \/ (hand' = NoMsg /\ hand.op # "run")
  PROVE  deferred' # <<>> => Stirring'
<1> SUFFICES ASSUME deferred' # <<>>, Busy' = {} PROVE Stirring'
  BY DEF Stirring
<1>1. Cardinality(S) \in Nat /\ (S # {} => Cardinality(S) > 0)
  BY ReleasedCount
<1>2. queue \in Seq(Messages) /\ q \in Seq(Messages)
  BY MessagesDiffer DEF TypeOK, QueuesOK
<1>3. \A t \in Tasks : In(queue, RunMsg(t)) => In(q, RunMsg(t))
  <2>1. NextMsg \in Messages
    BY MessagesDiffer
  <2>2. CASE q = queue
    BY <2>2
  <2>3. CASE q = Append(queue, NextMsg)
    BY <1>2, <2>1, <2>3, InAppend
  <2> QED
    BY <2>2, <2>3
<1>4. /\ \A t \in Tasks : In(q, RunMsg(t)) => In(queue', RunMsg(t))
      /\ deferred = <<>> => deferred' = <<>>
      /\ Cardinality(S) > 0 /\ deferred # <<>> => \E t \in Tasks : In(queue', RunMsg(t))
  BY <1>1, <1>2, PopStirs DEF TypeOK
<1>5. CASE S # {}
  BY <1>1, <1>4, <1>5 DEF Stirring
<1>6. CASE S = {}
  <2>1. PICK t \in Tasks : In(queue, RunMsg(t)) \/ hand = RunMsg(t)
    BY <1>4, <1>6 DEF Stirring
  <2>2. hand = RunMsg(t) => hand' = RunMsg(t)
    BY DEF RunMsg
  <2> QED
    BY <1>3, <1>4, <2>1, <2>2 DEF Stirring
<1> QED
  BY <1>5, <1>6

(* Of completions, only those whose slot is busy are deferred, and all     *)
(* others are launched.                                                    *)
LEMMA CompletionsLaunch ==
  ASSUME JustCompletions, NobodyGivesUp, TypeOK, NEW t \in Tasks
  PROVE  /\ ~Act(t)
         /\ \A s \in Slots : ~LaunchFails(t, s)
         /\ Defer(t) => Busy # {}
<1>1. KindOf(t) \in Kinds \cup {NoKind}
  BY OwnerIs DEF KindOf, TypeOK, ClientsOK
<1>2. KindOf(t) = NoKind => KindOf(t).type = "none"
  BY DEF NoKind
<1>3. KindOf(t) \in Kinds => /\ KindOf(t).type = "completion"
                             /\ KindOf(t).slot \in Slots \cup {AnySlot}
  BY KindsAssumption DEF JustCompletions, AllKinds
<1>4. ~Act(t)
  BY <1>1, <1>2, <1>3 DEF Act, Acts
<1>5. \A s \in Slots : ~LaunchFails(t, s)
  BY <1>1, <1>2, <1>3 DEF LaunchFails, Launches, ParentReady, NobodyGivesUp
<1>6. ASSUME Defer(t) PROVE Busy # {}
  <2>1. Launches(t) /\ Candidates(t) = {}
    BY <1>1, <1>2, <1>3, <1>6 DEF Defer, Acts
  <2>2. KindOf(t) \in Kinds
    BY <1>1, <1>2, <2>1 DEF Launches
  <2>3. CASE KindOf(t).slot = AnySlot
    <3>1. Candidates(t) = Idle
      BY <1>3, <2>2, <2>3 DEF Candidates
    <3> QED
      BY <2>1, <3>1, SlotsFinite DEF Idle
  <2>4. CASE KindOf(t).slot \in Slots
    <3>1. Candidates(t) = Idle \cap {KindOf(t).slot}
      BY <1>3, <2>2, <2>4, SlotsFinite DEF Candidates
    <3> QED
      BY <2>1, <2>4, <3>1 DEF Idle
  <2> QED
    BY <1>3, <2>2, <2>3, <2>4
<1> QED
  BY <1>4, <1>5, <1>6

(* What a step of the worker leaves of the reasons to go on.               *)
LEMMA WorkerStirs ==
  ASSUME JustCompletions, NobodyGivesUp, LoopInv, deferred # <<>> => Stirring, Worker
  PROVE  deferred' # <<>> => Stirring'
<1>1. TypeOK /\ (\A t \in Tasks : OnceRunning(t))
  BY DEF LoopInv, Placed, Alone
<1>2. CASE Pull
  <2>1. queue \in Seq(Messages) /\ queue # <<>> /\ hand = NoMsg
    BY <1>1, <1>2 DEF Pull, TypeOK, QueuesOK, WorkerOK
  <2>2. queue' = Tail(queue) /\ hand' = Head(queue) /\ deferred' = deferred /\ Busy' = Busy
    BY <1>2 DEF Pull, slotVars, Busy
  <2>3. \A t \in Tasks : In(queue, RunMsg(t)) <=> RunMsg(t) = Head(queue) \/ In(Tail(queue), RunMsg(t))
    BY <2>1, InTail
  <2>4. \A t \in Tasks : hand # RunMsg(t)
    BY <2>1, MessagesDiffer
  <2> QED
    BY <2>2, <2>3, <2>4 DEF Stirring
<1>3. CASE Drained \/ HandleNext \/ Wake \/ UpdateIdle \/ UpdateAborts
  <2>1. /\ UNCHANGED <<queue, deferred, state>>
        /\ hand' = hand \/ hand = NextMsg
    BY <1>3 DEF Drained, HandleNext, Wake, UpdateIdle, UpdateAborts, Handled, slotVars
  <2>2. Busy' = Busy
    BY <2>1 DEF Busy
  <2> QED
    BY <2>1, <2>2, MessagesDiffer DEF Stirring
<1>4. ASSUME NEW t \in Tasks, Defer(t) \/ Act(t)
      PROVE  deferred' # <<>> => Stirring'
  <2>1. Defer(t) /\ Busy # {}
    BY <1>1, <1>4, CompletionsLaunch
  <2>2. Busy' = Busy
    BY <2>1 DEF Defer, slotVars, Busy
  <2> QED
    BY <2>1, <2>2 DEF Stirring
<1>5. ASSUME NEW t \in Tasks, NEW s \in Slots, Launch(t, s) \/ LaunchFails(t, s)
      PROVE  deferred' # <<>> => Stirring'
  <2>1. Launch(t, s)
    BY <1>1, <1>5, CompletionsLaunch
  <2>2. state'[s] = "started"
    BY <1>1, <2>1 DEF Launch, TypeOK, SlotsOK
  <2> QED
    BY <2>2 DEF Stirring, Busy
<1>6. CASE HandleCancel
  <2> DEFINE S == {s \in Busy : task[s] = hand.task}
  <2>1. /\ Idled(S) /\ PopDeferred(Cardinality(S), queue) /\ hand' = NoMsg
        /\ hand.op = "cancel" /\ S \in SUBSET Busy
    BY <1>6 DEF HandleCancel, Handled
  <2>2. Busy' = Busy \ S
    <3> HIDE DEF S
    <3> QED
      BY <2>1 DEF Idled, Busy
  <2> QED
    BY <1>1, <2>1, <2>2, ReleaseStirs
<1>7. CASE UpdateOverflows \/ UpdateDecodes \/ UpdateFails
  <2>1. PICK S \in SUBSET Busy : SlotsEnd(S)
    BY <1>1, <1>7, UpdateEnds
  <2>2. PICK q \in {queue, Append(queue, NextMsg)} : PopDeferred(Cardinality(S), q)
    BY <2>1 DEF SlotsEnd
  <2>3. hand' = hand
    BY <2>1 DEF SlotsEnd
  <2>4. Busy' = Busy \ S
    <3>1. Busy \subseteq Slots /\ Busy' \subseteq Slots
      BY DEF Busy
    <3>2. \A s \in Slots : /\ s \in S => s \notin Busy'
                           /\ s \notin S => (s \in Busy' <=> s \in Busy)
      BY <2>1 DEF SlotsEnd
    <3> QED
      BY <3>1, <3>2
  <2> QED
    BY <1>1, <2>2, <2>3, <2>4, ReleaseStirs
<1> QED
  BY <1>2, <1>3, <1>4, <1>5, <1>6, <1>7 DEF Worker

(* The clients post work, and take back only tasks that are answered.      *)
LEMMA ClientsStir ==
  ASSUME LoopInv, StirInv, NEW r \in Requests, Post(r) \/ PostCancel(r)
  PROVE  deferred' # <<>> => Stirring'
<1>1. TypeOK /\ (\A t \in Tasks : Alone(t)) /\ queue \in Seq(Messages)
  BY DEF LoopInv, Placed, TypeOK, QueuesOK
<1>2. Busy' = Busy /\ hand' = hand
  BY DEF Post, PostCancel, slotVars, Busy
<1>3. CASE Post(r)
  <2>1. \A t \in Tasks : In(queue, RunMsg(t)) => In(queue', RunMsg(t))
    <3> DEFINE msgs == [i \in DOMAIN Batch[r] |-> RunMsg(Batch[r][i])]
    <3>1. msgs \in Seq(Messages)
      BY TasksOfBatch, MessagesDiffer
    <3>2. Reverse(msgs) \in Seq(Messages)
      BY <3>1, ReverseIs
    <3>3. queue' = Reverse(msgs) \o queue \/ queue' = queue \o msgs
      BY <1>3 DEF Post
    <3> HIDE DEF msgs
    <3>4. CASE queue' = Reverse(msgs) \o queue
      BY <1>1, <3>2, <3>4, InConcat
    <3>5. CASE queue' = queue \o msgs
      BY <1>1, <3>1, <3>5, InConcat
    <3> QED
      BY <3>3, <3>4, <3>5
  <2>2. deferred' = deferred
    BY <1>3 DEF Post
  <2> QED
    BY <1>2, <2>1, <2>2 DEF StirInv, Stirring
<1>4. CASE PostCancel(r)
  <2>1. \A t \in TasksOf(r) : t \in Tasks /\ answers[t] = 1 /\ ~Pending(t)
    BY <1>1, <1>4, OwnerIs DEF PostCancel, StirInv, LeavesAnswered, Alone
  <2>2. \A t \in Tasks : /\ In(queue', RunMsg(t)) <=> In(queue, RunMsg(t)) /\ t \notin TasksOf(r)
                         /\ In(deferred', t) <=> In(deferred, t) /\ t \notin TasksOf(r)
    BY <1>1, <1>4, PostCancelMoves
  <2>3. \A t \in Tasks : In(queue, RunMsg(t)) => In(queue', RunMsg(t))
    BY <2>1, <2>2 DEF Pending
  <2>4. deferred' # <<>> => deferred # <<>>
    <3> SUFFICES ASSUME deferred' # <<>> PROVE deferred # <<>>
      OBVIOUS
    <3>1. deferred' \in Seq(Tasks) /\ deferred \in Seq(Tasks)
      BY <1>1, <1>4, PostCancelTyped DEF TypeOK, QueuesOK
    <3>2. deferred'[1] \in Tasks /\ 1 \in DOMAIN deferred'
      BY <3>1
    <3>3. In(deferred', deferred'[1])
      BY <3>2 DEF In
    <3>4. In(deferred, deferred'[1])
      BY <2>2, <3>2, <3>3
    <3> QED
      BY <3>1, <3>4 DEF In
  <2> QED
    BY <1>2, <2>3, <2>4 DEF StirInv, Stirring
<1> QED
  BY <1>3, <1>4

(* A client leaves with the error of its only task.                        *)
LEMMA LeavingKept ==
  ASSUME OneTaskEach, NobodyGivesUp, LoopInv, LeavesAnswered, [Next]_vars
  PROVE  LeavesAnswered'
<1> SUFFICES ASSUME NEW r \in Requests, client'[r] = "leaving", NEW t \in TasksOf(r)
             PROVE  answers'[t] = 1
  BY DEF LeavesAnswered
<1>1. t \in Tasks /\ Owner(t) = r
  BY OwnerIs
<1>2. CASE client[r] = "leaving"
  <2>1. answers[t] = 1
    BY <1>2 DEF LeavesAnswered
  <2> QED
    BY <1>1, <2>1, StepMoves DEF Keeps, Enters, Starts, Answers, Drops
<1>3. CASE client[r] # "leaving"
  <2>1. Receive(r)
    <3>1. client'[r] # client[r]
      BY <1>3
    <3>2. TypeOK /\ (\A u \in Tasks : Alone(u))
      BY DEF LoopInv, Placed
    <3>3. ~Worker
      BY <3>1, <3>2, WorkerSends
    <3>4. ASSUME NEW q \in Requests, NEW k \in Kinds PROVE ~Register(q, k)
      BY <1>3, <3>2 DEF Register, TypeOK, ClientsOK
    <3>5. ASSUME NEW q \in Requests
          PROVE  ~Post(q) /\ ~PostCancel(q) /\ ~Leave(q) /\ ~Abandon(q) /\ (Receive(q) => q = r)
      BY <1>3, <3>2 DEF Post, PostCancel, Leave, Abandon, Receive, NobodyGivesUp, TypeOK, ClientsOK
    <3> QED
      BY <3>1, <3>3, <3>4, <3>5 DEF Next, Client, vars, clientVars
  <2>2. PICK m \in results : m.task \in TasksOf(r)
    BY <2>1 DEF Receive
  <2>3. m.task = t
    <3>1. \A i, j \in DOMAIN Batch[r] : i = j
      BY TasksOfBatch DEF OneTaskEach
    <3> QED
      BY <2>2, <3>1, TasksOfBatch
  <2>4. answers[t] = 1
    BY <2>2, <2>3 DEF LoopInv, Resulted
  <2>5. answers' = answers
    BY <2>1 DEF Receive
  <2> QED
    BY <2>4, <2>5
<1> QED
  BY <1>2, <1>3

LEMMA NextStirs ==
  ASSUME OneTaskEach, JustCompletions, NobodyGivesUp, LoopInv, StirInv, [Next]_vars
  PROVE  StirInv'
<1>1. LeavesAnswered'
  BY LeavingKept DEF StirInv
<1>2. CASE Worker
  BY <1>1, <1>2, WorkerStirs DEF StirInv
<1>3. ASSUME NEW r \in Requests, Post(r) \/ PostCancel(r) PROVE StirInv'
  BY <1>1, <1>3, ClientsStir DEF StirInv
<1>4. ASSUME UNCHANGED <<queue, deferred, hand, state>> PROVE StirInv'
  <2>1. Busy' = Busy
    BY <1>4 DEF Busy
  <2> QED
    BY <1>1, <1>4, <2>1 DEF StirInv, Stirring
<1>5. ASSUME NEW r \in Requests, Leave(r) \/ Abandon(r) \/ Receive(r) PROVE StirInv'
  BY <1>4, <1>5 DEF Leave, Abandon, Receive, slotVars
<1>6. ASSUME NEW r \in Requests, NEW k \in Kinds, Register(r, k) PROVE StirInv'
  BY <1>4, <1>6 DEF Register, slotVars
<1>7. CASE UNCHANGED vars
  BY <1>4, <1>7 DEF vars, slotVars
<1> QED
  BY <1>2, <1>3, <1>5, <1>6, <1>7 DEF Next, Client

(* The worker never goes to sleep over a deferred task while every slot is *)
(* idle (NoStrandedTask), however many slots and requests there are and    *)
(* however their batches fail or overflow.                                 *)
THEOREM DeferredIsServed ==
  ASSUME OneTaskEach, JustCompletions, NobodyGivesUp
  PROVE  Spec => []NoStrandedTask
<1>1. Init => StirInv
  BY DEF Init, StirInv, LeavesAnswered
<1>2. LoopInv /\ StirInv /\ [Next]_vars => StirInv'
  BY NextStirs
<1>3. LoopInv /\ StirInv => NoStrandedTask
  <2> SUFFICES ASSUME LoopInv, StirInv, worker = "wait", queue = <<>>, deferred # <<>>
               PROVE  Busy # {}
    BY DEF NoStrandedTask
  <2>1. hand = NoMsg
    BY DEF LoopInv, TypeOK, WorkerOK
  <2>2. \A t \in Tasks : hand # RunMsg(t) /\ ~In(queue, RunMsg(t))
    BY <2>1, MessagesDiffer DEF In
  <2> QED
    BY <2>2 DEF StirInv, Stirring
<1> QED
  BY <1>1, <1>2, <1>3, AlwaysInv, PTL DEF Spec
=============================================================================

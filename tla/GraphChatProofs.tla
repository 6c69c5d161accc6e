--------------------------- MODULE GraphChatProofs ---------------------------
(***************************************************************************)
(* Proofs about GraphChat, for any number of questions, chunks and slots:  *)
(* type correctness, the one stream at a time, the tree of nodes and the   *)
(* text they hold.                                                         *)
(***************************************************************************)
EXTENDS GraphChat, FiniteSetTheorems, SequenceTheorems, TLAPS

(* The constants that bound the model are numbers. *)
LEMMA Bounds == MaxTurns \in Nat /\ MaxChunks \in Nat /\ MaxChunks > 0
  BY BoundsAssumption

(* Messages, nodes and sequences of messages that the handlers make.       *)
LEMMA MessagesTyped ==
  ASSUME NEW k \in Ids, NEW n \in 0..MaxChunks
  PROVE  Question(k) \in Messages /\ Answer(k, n) \in Messages /\ Failure(k) \in Messages
  BY Bounds DEF Question, Answer, Failure, Messages

LEMMA NodeTyped ==
  ASSUME NEW p \in Ids \cup {NoNode}, NEW msgs \in Seq(Messages)
  PROVE  createNode(p, msgs) \in Nodes
  BY DEF createNode, Nodes

LEMMA WithAnswerTyped ==
  ASSUME NEW msgs \in Seq(Messages), NEW a \in Messages
  PROVE  WithAnswer(msgs, a) \in Seq(Messages)
  BY DEF WithAnswer

(* A node whose messages or whose slot change is a node again.             *)
LEMMA NodeUpdated ==
  ASSUME NEW node \in Nodes, NEW msgs \in Seq(Messages),
         NEW slot \in SlotIds \cup {NoSlot}
  PROVE  [node EXCEPT !.msgs = msgs, !.slot = slot] \in Nodes
  BY DEF Nodes

LEMMA BranchedTyped ==
  ASSUME NEW node \in Nodes, NEW k \in Ids
  PROVE  Branched(node, k) \in Nodes
<1>1. node.children \in Seq(Ids)
  BY DEF Nodes
<1>2. Append(node.children, k) \in Seq(Ids)
  BY <1>1
<1> QED
  BY <1>2 DEF Branched, Nodes
-----------------------------------------------------------------------------
(* The initial state is well typed. *)
LEMMA InitTyped == Init => TypeOK
<1> SUFFICES ASSUME Init PROVE TypeOK
  OBVIOUS
<1>1. nodes = [n \in {Root} |-> createNode(NoNode, <<>>)]
  BY DEF Init
<1>2. createNode(NoNode, <<>>) \in Nodes
  <2>1. <<>> \in Seq(Messages)
    OBVIOUS
  <2> QED
    BY <2>1, NodeTyped
<1>3. Root \in Ids
  BY Bounds DEF Root, Ids
<1>4. Still \in Animations
  BY DEF Still, Animations, Focus
<1>5. DOMAIN nodes = {Root} /\ nodes \in [DOMAIN nodes -> Nodes]
  BY <1>1, <1>2
<1>6. screen \in [nodes : [DOMAIN nodes -> Nodes], view : {"graph", "focused"},
                  anim : Animations, streaming : BOOLEAN]
  BY <1>4, <1>5 DEF Init
<1>7. streams \in Seq(Streams) /\ Len(streams) <= MaxTurns
  BY Bounds DEF Init
<1> QED
  BY <1>3, <1>4, <1>5, <1>6, <1>7 DEF Init, TypeOK

(* What a chunk makes of the nodes. *)
LEMMA HeardTyped ==
  ASSUME TypeOK, NEW k \in DOMAIN streams, NEW n \in 0..MaxChunks,
         NEW slot \in SlotIds \cup {NoSlot}, Heard(k, n, slot)
  PROVE  DOMAIN nodes' = DOMAIN nodes /\ nodes' \in [DOMAIN nodes -> Nodes]
<1>1. k \in Ids /\ Answer(k, n) \in Messages
  <2>1. k \in Ids
    BY Bounds DEF TypeOK, Ids
  <2> QED
    BY <2>1, MessagesTyped
<1>2. CASE Target(k) \notin DOMAIN nodes
  BY <1>2 DEF Heard, TypeOK
<1>3. CASE Target(k) \in DOMAIN nodes
  <2> DEFINE t    == Target(k)
             msgs == WithAnswer(nodes[t].msgs, Answer(k, n))
             s    == IF slot = NoSlot THEN nodes[t].slot ELSE slot
  <2>1. nodes[t] \in Nodes /\ nodes[t].msgs \in Seq(Messages) /\ nodes[t].slot \in SlotIds \cup {NoSlot}
    BY <1>3 DEF TypeOK, Nodes
  <2>2. msgs \in Seq(Messages) /\ s \in SlotIds \cup {NoSlot}
    BY <1>1, <2>1, WithAnswerTyped
  <2>3. nodes' = [nodes EXCEPT ![t] = [@ EXCEPT !.msgs = msgs, !.slot = s]]
    BY <1>3 DEF Heard
  <2>4. [nodes[t] EXCEPT !.msgs = msgs, !.slot = s] \in Nodes
    BY <2>1, <2>2, NodeUpdated
  <2> QED
    BY <2>3, <2>4, <1>3 DEF TypeOK
<1> QED
  BY <1>2, <1>3

(* Every step keeps the types.  One step per action; an action of a stream *)
(* leaves the screen alone, one of the user leaves the streams that run.   *)
LEMMA NextTyped == TypeOK /\ [Next]_vars => TypeOK'
<1> SUFFICES ASSUME TypeOK, [Next]_vars PROVE TypeOK'
  OBVIOUS
<1> USE Bounds
<1>1. CASE Render
  <2>1. StageView(anim, view) \in {"graph", "focused"}
    BY DEF StageView, TypeOK
  <2> QED
    BY <1>1, <2>1 DEF Render, TypeOK
<1>2. CASE Timer
  <2>1. AfterStage(anim, screen.anim.stage) \in Animations
    <3>1. anim \in Animations /\ screen.anim.stage \in 0..Focus
      BY DEF TypeOK, Animations
    <3>2. screen.anim.stage # Focus => screen.anim.stage + 1 \in 0..Focus
      BY <3>1 DEF Focus
    <3>3. Still \in Animations
      BY DEF Still, Animations, Focus
    <3> QED
      BY <3>1, <3>2, <3>3 DEF AfterStage, Animations
  <2> QED
    BY <1>2, <2>1 DEF Timer, TypeOK
<1>3. ASSUME Toggles
      PROVE  /\ view' \in {"graph", "focused"}
             /\ screen' \in [nodes : [DOMAIN nodes -> Nodes], view : {"graph", "focused"},
                             anim : Animations, streaming : BOOLEAN]
  BY <1>3 DEF Toggles, Other, TypeOK
<1>4. CASE ToggleView
  BY <1>3, <1>4 DEF ToggleView, TypeOK
<1>5. ASSUME NEW n \in DOMAIN screen.nodes, NodeClick(n) PROVE TypeOK'
  <2>1. n \in DOMAIN nodes
    BY DEF TypeOK
  <2> QED
    BY <1>3, <1>5, <2>1 DEF NodeClick, TypeOK
<1>6. CASE InitiateBranch \/ CancelBranch
  BY <1>6 DEF InitiateBranch, CancelBranch, TypeOK
<1>7. ASSUME MaySubmit
      PROVE  /\ K \in 1..MaxTurns
             /\ active \in DOMAIN nodes /\ screen.nodes[active] \in Nodes
             /\ Question(K) \in Messages
             /\ K \in Ids /\ active \in Ids
  <2>1. K \in 1..MaxTurns
    BY <1>7 DEF MaySubmit, K, TypeOK
  <2>2. K \in Ids
    BY <2>1 DEF Ids
  <2>3. active \in DOMAIN nodes
    BY <1>7 DEF MaySubmit, TypeOK
  <2> QED
    BY <2>1, <2>2, <2>3, MessagesTyped DEF TypeOK
<1>8. ASSUME NEW n \in Ids, NEW sent \in Seq(Messages)
      PROVE  Open(n, sent) \in Streams
  BY DEF Open, Streams
<1>9. CASE RegularSubmit
  <2> DEFINE msgs == Append(screen.nodes[active].msgs, Question(K))
             ns   == [screen.nodes EXCEPT ![active].msgs = msgs]
  <2>1. MaySubmit
    BY <1>9 DEF RegularSubmit
  <2>2. msgs \in Seq(Messages)
    BY <1>7, <2>1 DEF Nodes
  <2>3. ns \in [DOMAIN nodes -> Nodes]
    BY <1>7, <2>1, <2>2 DEF TypeOK, Nodes
  <2>4. Open(active, msgs) \in Streams
    BY <1>7, <1>8, <2>1, <2>2
  <2>5. streams' \in Seq(Streams) /\ Len(streams') <= MaxTurns
    BY <1>9, <2>1, <2>4 DEF RegularSubmit, MaySubmit, TypeOK
  <2>6. nodes' = ns /\ screen' = [screen EXCEPT !.nodes = ns, !.streaming = TRUE]
    BY <1>9 DEF RegularSubmit
  <2>7. nodes' \in [DOMAIN nodes -> Nodes] /\ DOMAIN nodes' = DOMAIN nodes
    BY <2>3, <2>6
  <2>8. screen' \in [nodes : [DOMAIN nodes -> Nodes], view : {"graph", "focused"},
                     anim : Animations, streaming : BOOLEAN]
    BY <2>3, <2>6 DEF TypeOK
  <2> QED
    BY <1>9, <2>5, <2>7, <2>8 DEF RegularSubmit, TypeOK
<1>10. CASE BranchSubmit
  <2> DEFINE child == createNode(active, <<Question(K)>>)
             ns    == WithChild(screen.nodes, active, child)
             begin == [stage |-> Switch, child |-> K]
  <2>1. MaySubmit
    BY <1>10 DEF BranchSubmit
  <2>2. child \in Nodes /\ child.msgs \in Seq(Messages)
    <3>1. <<Question(K)>> \in Seq(Messages)
      BY <1>7, <2>1
    <3> QED
      BY <1>7, <2>1, <3>1, NodeTyped DEF Nodes
  <2>3. Branched(screen.nodes[active], K) \in Nodes
    BY <1>7, <2>1, BranchedTyped
  <2>4. ns \in [DOMAIN nodes \cup {K} -> Nodes]
    BY <2>2, <2>3 DEF WithChild, TypeOK
  <2>5. begin \in Animations
    BY <1>7, <2>1 DEF Animations, Switch, Focus
  <2>6. StageView(begin, view) \in {"graph", "focused"}
    BY DEF StageView, TypeOK
  <2>7. Open(K, child.msgs) \in Streams
    BY <1>7, <1>8, <2>1, <2>2
  <2>8. streams' \in Seq(Streams) /\ Len(streams') <= MaxTurns
    <3>1. streams' = Append(streams, Open(K, child.msgs))
      BY <1>10 DEF BranchSubmit
    <3> QED
      BY <2>1, <2>7, <3>1 DEF MaySubmit, TypeOK
  <2>9. /\ nodes' = ns /\ anim' = begin /\ view' = StageView(begin, view)
        /\ screen' = [screen EXCEPT !.nodes = ns, !.anim = begin, !.streaming = TRUE]
        /\ active' = K /\ armed' = TRUE /\ streaming' = TRUE /\ branchState' = "idle"
    BY <1>10 DEF BranchSubmit
  <2>10. /\ DOMAIN nodes' = DOMAIN nodes \cup {K} /\ nodes' \in [DOMAIN nodes' -> Nodes]
         /\ DOMAIN nodes' \subseteq Ids /\ Root \in DOMAIN nodes'
    BY <1>7, <2>1, <2>4, <2>9 DEF TypeOK
  <2>11. screen' \in [nodes : [DOMAIN nodes' -> Nodes], view : {"graph", "focused"},
                      anim : Animations, streaming : BOOLEAN]
    BY <2>4, <2>5, <2>9, <2>10 DEF TypeOK
  <2> HIDE DEF ns, begin
  <2> QED
    BY <2>5, <2>6, <2>8, <2>9, <2>10, <2>11 DEF TypeOK
<1>11. ASSUME NEW k \in DOMAIN streams, Chunk(k) \/ FinalChunk(k) \/ Done(k) \/ Fail(k)
       PROVE  TypeOK'
  <2>1. streams[k] \in Streams /\ k \in Ids
    BY DEF TypeOK, Ids
  <2>2. ASSUME DOMAIN nodes' = DOMAIN nodes, nodes' \in [DOMAIN nodes -> Nodes],
               streams' \in Seq(Streams), Len(streams') = Len(streams),
               streaming' \in BOOLEAN, Queued
        PROVE  TypeOK'
    BY <2>2 DEF Queued, TypeOK
  <2>3. ASSUME NEW s \in Streams, streams' = [streams EXCEPT ![k] = s]
        PROVE  streams' \in Seq(Streams) /\ Len(streams') = Len(streams)
    BY <2>3 DEF TypeOK
  <2>4. CASE Chunk(k)
    <3>1. streams[k].chunks + 1 \in 0..MaxChunks
      BY <2>1, <2>4 DEF Chunk, Streams
    <3>2. DOMAIN nodes' = DOMAIN nodes /\ nodes' \in [DOMAIN nodes -> Nodes]
      BY <2>4, <3>1, HeardTyped DEF Chunk
    <3>3. [streams[k] EXCEPT !.chunks = @ + 1] \in Streams
      BY <2>1, <3>1 DEF Streams
    <3>4. streams' \in Seq(Streams) /\ Len(streams') = Len(streams)
      BY <2>3, <2>4, <3>3 DEF Chunk
    <3> QED
      BY <2>2, <2>4, <3>2, <3>4 DEF Chunk, TypeOK
  <2>5. CASE FinalChunk(k)
    <3>1. DOMAIN nodes' = DOMAIN nodes /\ nodes' \in [DOMAIN nodes -> Nodes]
      BY <2>5, HeardTyped DEF FinalChunk
    <3>2. [streams[k] EXCEPT !.status = "final"] \in Streams
      BY <2>1 DEF Streams
    <3>3. streams' \in Seq(Streams) /\ Len(streams') = Len(streams)
      BY <2>3, <2>5, <3>2 DEF FinalChunk
    <3> QED
      BY <2>2, <2>5, <3>1, <3>3 DEF FinalChunk, TypeOK
  <2>6. CASE Done(k)
    <3>1. [streams[k] EXCEPT !.status = "done"] \in Streams
      BY <2>1 DEF Streams
    <3>2. streams' \in Seq(Streams) /\ Len(streams') = Len(streams)
      BY <2>3, <2>6, <3>1 DEF Done
    <3> QED
      BY <2>2, <2>6, <3>2 DEF Done, TypeOK
  <2>7. CASE Fail(k)
    <3>1. [streams[k] EXCEPT !.status = "failed"] \in Streams
      BY <2>1 DEF Streams
    <3>2. streams' \in Seq(Streams) /\ Len(streams') = Len(streams)
      BY <2>3, <2>7, <3>1 DEF Fail, onError
    <3>3. DOMAIN nodes' = DOMAIN nodes /\ nodes' \in [DOMAIN nodes -> Nodes]
      <4> DEFINE t == Target(k)
      <4>1. CASE t \notin DOMAIN nodes
        BY <2>7, <4>1 DEF Fail, onError, TypeOK
      <4>2. CASE t \in DOMAIN nodes
        <5>1. nodes' = [nodes EXCEPT ![t].msgs = Append(@, Failure(k))]
          BY <2>7, <4>2 DEF Fail, onError
        <5>2. nodes[t] \in Nodes /\ nodes[t].msgs \in Seq(Messages) /\ Failure(k) \in Messages
          BY <2>1, <4>2, MessagesTyped, SMTT(30) DEF TypeOK, Nodes
        <5>3. Append(nodes[t].msgs, Failure(k)) \in Seq(Messages)
          BY <5>2
        <5>4. [nodes[t] EXCEPT !.msgs = Append(@, Failure(k))] \in Nodes
          BY <5>2, <5>3 DEF Nodes
        <5> QED
          BY <4>2, <5>1, <5>4 DEF TypeOK
      <4> QED
        BY <4>1, <4>2
    <3> QED
      BY <2>2, <2>7, <3>2, <3>3 DEF Fail, onError
  <2> QED
    BY <1>11, <2>4, <2>5, <2>6, <2>7
<1>12. CASE UNCHANGED vars
  BY <1>12 DEF vars, state, TypeOK
<1> QED
  BY <1>1, <1>2, <1>4, <1>5, <1>6, <1>9, <1>10, <1>11, <1>12 DEF Next, User, Network

(* Every reachable state is well typed, whatever the bounds are. *)
THEOREM WellTyped == Spec => []TypeOK
  BY InitTyped, NextTyped, PTL DEF Spec
-----------------------------------------------------------------------------
(* The strengthening of OneStream that is inductive: what is queued is not *)
(* streaming unless the screen, which the handlers look at, shows it.      *)
StreamInv ==
  /\ \A j, k \in DOMAIN streams : Live(j) /\ Live(k) => j = k
  /\ streaming <=> \E k \in DOMAIN streams : Live(k)
  /\ streaming => screen.streaming

LEMMA InitStream == Init => StreamInv
  BY DEF Init, StreamInv

(* A question is only asked when nothing streams, and is the one stream.   *)
LEMMA SubmitStream ==
  ASSUME TypeOK, StreamInv, MaySubmit, NEW s \in Streams, s.status = "open",
         streams' = Append(streams, s), streaming' = TRUE, screen'.streaming = TRUE
  PROVE  StreamInv'
<1>1. \A k \in DOMAIN streams : ~Live(k)
  BY DEF MaySubmit, StreamInv
<1>2. /\ DOMAIN streams' = DOMAIN streams \cup {K} /\ K \notin DOMAIN streams
      /\ streams'[K] = s /\ \A k \in DOMAIN streams : streams'[k] = streams[k]
  BY DEF TypeOK, K
<1>3. \A k \in DOMAIN streams' : Live(k)' <=> k = K
  BY <1>1, <1>2 DEF Live
<1> QED
  BY <1>2, <1>3 DEF StreamInv

(* Every step keeps the one stream: one that went on is still the one, and *)
(* the end of it, by either callback, leaves none.                         *)
LEMMA NextStream == TypeOK /\ StreamInv /\ [Next]_vars => StreamInv'
<1> SUFFICES ASSUME TypeOK, StreamInv, [Next]_vars PROVE StreamInv'
  OBVIOUS
<1>1. CASE Render
  BY <1>1 DEF Render, StreamInv, Live
<1>2. CASE Timer \/ InitiateBranch \/ CancelBranch \/ UNCHANGED vars
  BY <1>2 DEF Timer, InitiateBranch, CancelBranch, vars, state, StreamInv, Live
<1>3. ASSUME Toggles, UNCHANGED <<streaming, streams>> PROVE StreamInv'
  BY <1>3 DEF Toggles, StreamInv, Live, TypeOK
<1>4. CASE ToggleView \/ \E n \in DOMAIN screen.nodes : NodeClick(n)
  BY <1>3, <1>4 DEF ToggleView, NodeClick
<1>5. ASSUME NEW n \in Ids, NEW sent \in Seq(Messages)
      PROVE  Open(n, sent) \in Streams /\ Open(n, sent).status = "open"
  BY Bounds DEF Open, Streams
<1>6. MaySubmit => K \in Ids /\ active \in Ids /\ screen.nodes[active] \in Nodes
  BY Bounds DEF MaySubmit, TypeOK, K, Ids
<1>7. CASE RegularSubmit
  <2> DEFINE msgs == Append(screen.nodes[active].msgs, Question(K))
  <2>1. MaySubmit /\ streams' = Append(streams, Open(active, msgs)) /\ streaming' = TRUE
    BY <1>7 DEF RegularSubmit
  <2>2. screen'.streaming = TRUE
    BY <1>7 DEF RegularSubmit, TypeOK
  <2>3. msgs \in Seq(Messages)
    <3>1. Question(K) \in Messages /\ screen.nodes[active].msgs \in Seq(Messages)
      BY <1>6, <2>1, MessagesTyped, Bounds DEF Nodes
    <3> QED
      BY <3>1
  <2> QED
    BY <1>5, <1>6, <2>1, <2>2, <2>3, SubmitStream
<1>8. CASE BranchSubmit
  <2> DEFINE msgs == createNode(active, <<Question(K)>>).msgs
  <2>1. MaySubmit /\ streams' = Append(streams, Open(K, msgs)) /\ streaming' = TRUE
    BY <1>8 DEF BranchSubmit
  <2>2. screen'.streaming = TRUE
    BY <1>8 DEF BranchSubmit, TypeOK
  <2>3. msgs \in Seq(Messages)
    <3>1. Question(K) \in Messages
      BY <1>6, <2>1, MessagesTyped, Bounds
    <3> QED
      BY <3>1 DEF createNode
  <2> QED
    BY <1>5, <1>6, <2>1, <2>2, <2>3, SubmitStream
<1>9. ASSUME NEW k \in DOMAIN streams, Chunk(k) \/ FinalChunk(k)
      PROVE  StreamInv'
  <2>0. streams \in Seq(Streams) /\ streams[k] \in Streams
    BY DEF TypeOK
  <2>1. CASE Chunk(k)
    <3>1. /\ DOMAIN streams' = DOMAIN streams
          /\ \A j \in DOMAIN streams : streams'[j].status = streams[j].status
      BY <2>0, <2>1 DEF Chunk, Streams
    <3> QED
      BY <3>1, <2>1 DEF Chunk, Queued, StreamInv, Live
  <2>2. CASE FinalChunk(k)
    <3>1. /\ DOMAIN streams' = DOMAIN streams
          /\ \A j \in DOMAIN streams \ {k} : streams'[j] = streams[j]
          /\ streams'[k].status = "final"
      BY <2>0, <2>2 DEF FinalChunk, Streams
    <3>2. Live(k) /\ \A j \in DOMAIN streams : Live(j)' <=> Live(j)
      BY <2>2, <3>1 DEF FinalChunk, Live
    <3> QED
      BY <3>1, <3>2, <2>2 DEF FinalChunk, Queued, StreamInv
  <2> QED
    BY <1>9, <2>1, <2>2
<1>10. ASSUME NEW k \in DOMAIN streams, Done(k) \/ Fail(k)
       PROVE  StreamInv'
  <2>1. Live(k) /\ \A j \in DOMAIN streams : Live(j) => j = k
    BY <1>10 DEF Done, Fail, Live, StreamInv
  <2>2. DOMAIN streams' = DOMAIN streams /\ \A j \in DOMAIN streams : ~Live(j)'
    <3>1. streams \in Seq(Streams) /\ streams[k] \in Streams
      BY DEF TypeOK
    <3>2. PICK x \in {"done", "failed"} : streams' = [streams EXCEPT ![k].status = x]
      BY <1>10 DEF Done, Fail, onError
    <3>3. /\ DOMAIN streams' = DOMAIN streams /\ streams'[k].status = x
          /\ \A j \in DOMAIN streams \ {k} : streams'[j] = streams[j]
      BY <3>1, <3>2 DEF Streams
    <3> QED
      BY <2>1, <3>3 DEF Live
  <2>3. streaming' = FALSE
    BY <1>10 DEF Done, Fail, onError
  <2> QED
    BY <2>2, <2>3 DEF StreamInv
<1> QED
  BY <1>1, <1>2, <1>4, <1>7, <1>8, <1>9, <1>10 DEF Next, User, Network

LEMMA StreamInvSuffices == StreamInv => OneStream
<1> SUFFICES ASSUME StreamInv PROVE OneStream
  OBVIOUS
<1> DEFINE L == {k \in DOMAIN streams : Live(k)}
<1>1. L = {} \/ \E k : L = {k}
  BY DEF StreamInv
<1>2. Cardinality(L) <= 1
  <2> HIDE DEF L
  <2>1. CASE L = {}
    BY <2>1, FS_EmptySet
  <2>2. ASSUME NEW k, L = {k} PROVE Cardinality(L) <= 1
    BY <2>2, FS_Singleton
  <2> QED
    BY <1>1, <2>1, <2>2
<1> QED
  BY <1>2 DEF StreamInv, OneStream

(* At most one answer streams at a time, however late the screen follows   *)
(* and whatever is clicked, and the flag says so: the handlers' guard on   *)
(* the rendered isStreaming is enough.                                     *)
THEOREM StreamsAlone == Spec => []OneStream
<1>1. TypeOK /\ StreamInv /\ [Next]_vars => (TypeOK /\ StreamInv)'
  BY NextTyped, NextStream
<1> QED
  BY <1>1, InitTyped, InitStream, StreamInvSuffices, PTL DEF Spec
-----------------------------------------------------------------------------
(* TreeConsistent of any nodes ns, without cardinalities: the place of a   *)
(* node among its parent's children exists and is the only one.            *)
Listed(ns, n) ==
  \E i \in DOMAIN ns[ns[n].parent].children :
    \A j \in DOMAIN ns[ns[n].parent].children :
      ns[ns[n].parent].children[j] = n <=> j = i

IsTree(ns) ==
  /\ \A n \in DOMAIN ns \ {Root} :
       /\ ns[n].parent \in DOMAIN ns /\ ns[n].parent < n
       /\ ns[ns[n].parent].frozen /\ Listed(ns, n)
  /\ \A p \in DOMAIN ns : \A i \in DOMAIN ns[p].children :
       ns[p].children[i] \in DOMAIN ns /\ ns[ns[p].children[i]].parent = p

(* Nodes that differ only in messages and slots. *)
SameShape(ns, ms) ==
  /\ DOMAIN ns = DOMAIN ms
  /\ \A n \in DOMAIN ms : /\ ns[n].parent = ms[n].parent
                          /\ ns[n].children = ms[n].children
                          /\ ns[n].frozen = ms[n].frozen

(* The strengthening of TreeConsistent that is inductive: the nodes that   *)
(* the screen shows have the tree of the queued ones, so that a handler    *)
(* which writes them back loses no branch; and the name of the next child  *)
(* is new.                                                                 *)
TreeInv ==
  /\ IsTree(nodes)
  /\ SameShape(screen.nodes, nodes)
  /\ DOMAIN nodes \subseteq 0..Len(streams)

LEMMA SameTree ==
  ASSUME NEW ns, NEW ms, SameShape(ns, ms), IsTree(ms)
  PROVE  IsTree(ns)
  BY DEF SameShape, IsTree, Listed

(* ms are the nodes ns with a new child k of p. *)
Grows(ns, ms, p, k) ==
  /\ DOMAIN ns \subseteq Ids /\ \A n \in DOMAIN ns : ns[n] \in Nodes
  /\ p \in DOMAIN ns /\ k \in Ids \ DOMAIN ns /\ k > p /\ k # Root
  /\ DOMAIN ms = DOMAIN ns \cup {k}
  /\ ms[k].parent = p /\ ms[k].children = <<>>
  /\ ms[p] = Branched(ns[p], k)
  /\ \A n \in DOMAIN ns \ {p} : ms[n] = ns[n]

(* The tree with one more child is a tree.                                 *)
LEMMA GrownTree ==
  ASSUME NEW ns, NEW ms, NEW p, NEW k, Grows(ns, ms, p, k), IsTree(ns)
  PROVE  IsTree(ms)
<1> DEFINE D == DOMAIN ns
<1>0. /\ D \subseteq Ids /\ \A n \in D : ns[n] \in Nodes
      /\ p \in D /\ k \in Ids /\ k \notin D /\ k > p /\ k # Root
      /\ DOMAIN ms = D \cup {k}
      /\ ms[k].parent = p /\ ms[k].children = <<>>
      /\ ms[p] = Branched(ns[p], k)
      /\ \A n \in D \ {p} : ms[n] = ns[n]
  BY DEF Grows
<1> USE <1>0
<1> DEFINE old == ns[p].children
<1>1. old \in Seq(Ids) /\ ns[p] \in Nodes
  BY DEF Nodes
<1>2. /\ ms[p].parent = ns[p].parent /\ ms[p].frozen
      /\ ms[p].children = Append(old, k)
  BY <1>1 DEF Branched, Nodes
<1>3. /\ DOMAIN ms[p].children = DOMAIN old \cup {Len(old) + 1}
      /\ Len(old) + 1 \notin DOMAIN old
      /\ ms[p].children[Len(old) + 1] = k
      /\ \A i \in DOMAIN old : ms[p].children[i] = old[i]
  BY <1>1, <1>2
<1>4. \A q \in D : \A i \in DOMAIN ns[q].children : ns[q].children[i] \in D
  BY DEF IsTree
<1>5. \A n \in D : ms[n].parent = ns[n].parent
  BY <1>2
<1>6. \A n \in D : ns[n].frozen => ms[n].frozen
  BY <1>2
<1>7. ASSUME NEW n \in DOMAIN ms \ {Root}
      PROVE  /\ ms[n].parent \in DOMAIN ms /\ ms[n].parent < n
             /\ ms[ms[n].parent].frozen /\ Listed(ms, n)
  <2>1. CASE n = k
    <3>1. Listed(ms, n)
      <4>1. ms[n].parent = p
        BY <2>1
      <4>2. \A j \in DOMAIN ms[p].children : ms[p].children[j] = n <=> j = Len(old) + 1
        BY <1>3, <1>4, <2>1
      <4> QED
        BY <1>3, <4>1, <4>2 DEF Listed
    <3> QED
      BY <1>2, <2>1, <3>1 DEF Ids
  <2>2. CASE n # k
    <3> DEFINE q == ns[n].parent
    <3>1. n \in D \ {Root} /\ q \in D /\ q < n /\ ns[q].frozen /\ Listed(ns, n)
      BY <2>2 DEF IsTree
    <3>2. PICK i \in DOMAIN ns[q].children :
            \A j \in DOMAIN ns[q].children : ns[q].children[j] = n <=> j = i
      BY <3>1 DEF Listed
    <3>3. ms[n].parent = q
      BY <1>5, <3>1
    <3>4. CASE q = p
      <4>1. i \in DOMAIN ms[p].children
        BY <1>3, <3>2, <3>4
      <4>2. \A j \in DOMAIN ms[p].children : ms[p].children[j] = n <=> j = i
        BY <1>3, <2>2, <3>2, <3>4
      <4> QED
        BY <1>6, <3>1, <3>3, <3>4, <4>1, <4>2 DEF Listed
    <3>5. CASE q # p
      BY <1>6, <3>1, <3>2, <3>3, <3>5 DEF Listed
    <3> QED
      BY <3>4, <3>5
  <2> QED
    BY <2>1, <2>2
<1>8. ASSUME NEW q \in DOMAIN ms, NEW i \in DOMAIN ms[q].children
      PROVE  ms[q].children[i] \in DOMAIN ms /\ ms[ms[q].children[i]].parent = q
  <2>1. CASE q = k
    BY <1>8, <2>1
  <2>2. CASE q = p
    <3>1. CASE i \in DOMAIN old
      BY <1>3, <1>4, <1>5, <2>2, <3>1 DEF IsTree
    <3>2. CASE i = Len(old) + 1
      BY <1>3, <2>2, <3>2
    <3> QED
      BY <1>3, <2>2, <3>1, <3>2
  <2>3. CASE q \in D \ {p}
    BY <1>4, <1>5, <2>3 DEF IsTree
  <2> QED
    BY <2>1, <2>2, <2>3
<1> QED
  BY <1>7, <1>8 DEF IsTree

LEMMA InitTree == Init => TreeInv
<1> SUFFICES ASSUME Init PROVE TreeInv
  OBVIOUS
<1>1. /\ nodes = [n \in {Root} |-> createNode(NoNode, <<>>)]
      /\ screen.nodes = nodes /\ streams = <<>>
  BY DEF Init
<1>2. IsTree(nodes)
  BY <1>1 DEF IsTree, createNode
<1> QED
  BY <1>1, <1>2 DEF TreeInv, SameShape, Root

(* A stream writes messages and slots only. *)
LEMMA HeardShape ==
  ASSUME TypeOK, NEW k \in DOMAIN streams, Network(k)
  PROVE  SameShape(nodes', nodes) /\ UNCHANGED screen /\ Len(streams') = Len(streams)
<1>1. UNCHANGED screen /\ Len(streams') = Len(streams)
  BY DEF Network, Chunk, FinalChunk, Done, Fail, onError, Queued, TypeOK
<1>2. \A n \in DOMAIN nodes : nodes[n] \in Nodes
  BY DEF TypeOK
<1>3. ASSUME NEW n, NEW slot, Heard(k, n, slot)
      PROVE  SameShape(nodes', nodes)
  BY <1>2, <1>3 DEF Heard, SameShape, Nodes
<1>4. ASSUME onError(k) PROVE SameShape(nodes', nodes)
  BY <1>2, <1>4 DEF onError, SameShape, Nodes
<1>5. Done(k) => SameShape(nodes', nodes)
  BY DEF Done, SameShape
<1> QED
  BY <1>1, <1>3, <1>4, <1>5 DEF Network, Chunk, FinalChunk, Fail

(* Every step keeps the tree: a stream does not touch it, a question keeps *)
(* the tree of the screen, which is the queued one, and a branch grows it. *)
LEMMA NextTree == TypeOK /\ TreeInv /\ [Next]_vars => TreeInv'
<1> SUFFICES ASSUME TypeOK, TreeInv, [Next]_vars PROVE TreeInv'
  OBVIOUS
<1>1. CASE Render
  BY <1>1 DEF Render, TreeInv, SameShape
<1>2. CASE Timer \/ InitiateBranch \/ CancelBranch \/ UNCHANGED vars
  BY <1>2 DEF Timer, InitiateBranch, CancelBranch, vars, state, TreeInv
<1>3. ASSUME Toggles, UNCHANGED <<nodes, streams>> PROVE TreeInv'
  BY <1>3 DEF Toggles, TreeInv, TypeOK
<1>4. CASE ToggleView \/ \E n \in DOMAIN screen.nodes : NodeClick(n)
  BY <1>3, <1>4 DEF ToggleView, NodeClick
<1>5. IsTree(screen.nodes)
  BY SameTree DEF TreeInv
<1>6. screen.nodes \in [DOMAIN nodes -> Nodes] /\ streams \in Seq(Streams)
  BY DEF TypeOK
<1>7. CASE RegularSubmit
  <2>1. active \in DOMAIN nodes
    BY <1>7 DEF RegularSubmit, MaySubmit, TypeOK
  <2>2. PICK msgs : nodes' = [screen.nodes EXCEPT ![active].msgs = msgs]
    BY <1>7 DEF RegularSubmit
  <2>3. screen'.nodes = nodes'
    BY <1>7 DEF RegularSubmit, TypeOK
  <2>4. SameShape(nodes', screen.nodes)
    BY <1>6, <2>1, <2>2 DEF SameShape, Nodes
  <2>5. IsTree(nodes')
    BY <1>5, <2>4, SameTree
  <2>6. PICK s : streams' = Append(streams, s)
    BY <1>7 DEF RegularSubmit
  <2>7. Len(streams') = Len(streams) + 1 /\ DOMAIN nodes' = DOMAIN nodes
    BY <1>6, <2>2, <2>6
  <2> QED
    BY <1>6, <2>3, <2>5, <2>7 DEF TreeInv, SameShape
<1>8. CASE BranchSubmit
  <2> DEFINE child == createNode(active, <<Question(K)>>)
  <2>1. /\ nodes' = WithChild(screen.nodes, active, child)
        /\ MaySubmit
    BY <1>8 DEF BranchSubmit
  <2>2. screen'.nodes = nodes'
    BY <1>8 DEF BranchSubmit, TypeOK
  <2>3. PICK s : streams' = Append(streams, s)
    BY <1>8 DEF BranchSubmit
  <2>4. /\ K \in Ids /\ K = Len(streams) + 1 /\ K # Root
        /\ active \in DOMAIN nodes /\ DOMAIN nodes \subseteq Ids
    BY <1>6, <2>1, Bounds DEF MaySubmit, TypeOK, K, Ids, Root
  <2>5. K \notin DOMAIN nodes /\ K > active
    BY <1>6, <2>4 DEF TreeInv
  <2>6. child \in Nodes /\ child.parent = active /\ child.children = <<>>
    <3>1. <<Question(K)>> \in Seq(Messages)
      BY <2>4, MessagesTyped, Bounds
    <3> QED
      BY <2>4, <3>1, NodeTyped DEF createNode
  <2>7. /\ DOMAIN nodes' = DOMAIN nodes \cup {K} /\ nodes'[K] = child
        /\ nodes'[active] = Branched(screen.nodes[active], K)
        /\ \A n \in DOMAIN nodes \ {active} : nodes'[n] = screen.nodes[n]
    BY <1>6, <2>1, <2>4, <2>5 DEF WithChild
  <2>8. IsTree(nodes')
    <3>1. Grows(screen.nodes, nodes', active, K)
      BY <1>6, <2>4, <2>5, <2>6, <2>7 DEF Grows
    <3> QED
      BY <1>5, <3>1, GrownTree
  <2>9. Len(streams') = Len(streams) + 1
    BY <1>6, <2>3
  <2>10. DOMAIN nodes' \subseteq 0..Len(streams')
    BY <1>6, <2>4, <2>7, <2>9 DEF TreeInv
  <2> QED
    BY <2>2, <2>8, <2>10 DEF TreeInv, SameShape
<1>9. ASSUME NEW k \in DOMAIN streams, Network(k) PROVE TreeInv'
  <2>1. SameShape(nodes', nodes) /\ UNCHANGED screen /\ Len(streams') = Len(streams)
    BY <1>9, HeardShape
  <2>2. IsTree(nodes')
    BY <2>1, SameTree DEF TreeInv
  <2> QED
    BY <2>1, <2>2 DEF TreeInv, SameShape
<1> QED
  BY <1>1, <1>2, <1>4, <1>7, <1>8, <1>9 DEF Next, User

(* A place that is the only one is one place. *)
LEMMA TreeInvSuffices == TreeInv => TreeConsistent
<1> SUFFICES ASSUME TreeInv PROVE TreeConsistent
  OBVIOUS
<1>1. ASSUME NEW n \in DOMAIN nodes \ {Root}
      PROVE  Cardinality({i \in DOMAIN nodes[nodes[n].parent].children :
                            nodes[nodes[n].parent].children[i] = n}) = 1
  <2> DEFINE at == {i \in DOMAIN nodes[nodes[n].parent].children :
                      nodes[nodes[n].parent].children[i] = n}
  <2>1. Listed(nodes, n)
    BY DEF TreeInv, IsTree
  <2>2. PICK i \in DOMAIN nodes[nodes[n].parent].children :
          \A j \in DOMAIN nodes[nodes[n].parent].children :
            nodes[nodes[n].parent].children[j] = n <=> j = i
    BY <2>1 DEF Listed
  <2>3. at = {i}
    BY <2>2
  <2> HIDE DEF at
  <2>4. Cardinality(at) = 1
    BY <2>3, FS_Singleton
  <2> QED
    BY <2>4 DEF at
<1> QED
  BY <1>1 DEF TreeInv, IsTree, TreeConsistent

(* The conversations stay a tree for any number of questions: a handler    *)
(* that writes back the nodes of an older render loses no branch, as only  *)
(* messages and slots can be newer than the screen.                        *)
THEOREM TreeKept == Spec => []TreeConsistent
<1>1. TypeOK /\ TreeInv /\ [Next]_vars => (TypeOK /\ TreeInv)'
  BY NextTyped, NextTree
<1> QED
  BY <1>1, InitTyped, InitTree, TreeInvSuffices, PTL DEF Spec
-----------------------------------------------------------------------------
(* The last message of a sequence and what is before it. *)
LEMMA Appended ==
  ASSUME NEW s \in Seq(Messages), NEW m \in Messages
  PROVE  /\ Append(s, m) \in Seq(Messages) /\ Append(s, m) # <<>>
         /\ Last(Append(s, m)) = m /\ Front(Append(s, m)) = s
  BY DEF Last, Front

(* More of an answer takes the place of what there was of it, and comes    *)
(* after the question when there was nothing.                              *)
LEMMA MoreOfAnswer ==
  ASSUME NEW sent \in Seq(Messages), sent # <<>>, Last(sent).role = "user",
         NEW a \in Messages, NEW b \in Messages, a.role = "assistant"
  PROVE  /\ WithAnswer(sent, b) = sent \o <<b>>
         /\ WithAnswer(sent \o <<a>>, b) = sent \o <<b>>
<1>1. WithAnswer(sent, b) = sent \o <<b>>
  BY DEF WithAnswer
<1>2. /\ sent \o <<a>> # <<>> /\ Last(sent \o <<a>>) = a
      /\ Len(sent \o <<a>>) = Len(sent) + 1
  BY DEF Last
<1>3. WithAnswer(sent \o <<a>>, b) = [sent \o <<a>> EXCEPT ![Len(sent) + 1] = b]
  BY <1>2 DEF WithAnswer
<1>4. [sent \o <<a>> EXCEPT ![Len(sent) + 1] = b] = sent \o <<b>>
  <2> DEFINE old == sent \o <<a>>
             new == sent \o <<b>>
             n   == Len(sent) + 1
  <2>1. /\ old \in Seq(Messages) /\ Len(old) = n
        /\ \A i \in 1..Len(sent) : old[i] = sent[i]
    OBVIOUS
  <2>2. /\ new \in Seq(Messages) /\ Len(new) = n /\ new[n] = b
        /\ \A i \in 1..Len(sent) : new[i] = sent[i]
    OBVIOUS
  <2>3. n \in 1..n /\ 1..n = 1..Len(sent) \cup {n} /\ n \notin 1..Len(sent)
    OBVIOUS
  <2> HIDE DEF old, new, n
  <2>4. /\ [old EXCEPT ![n] = b] \in Seq(Messages)
        /\ Len([old EXCEPT ![n] = b]) = n
        /\ \A i \in 1..n : [old EXCEPT ![n] = b][i] = new[i]
    <3>1. /\ [old EXCEPT ![n] = b] \in Seq(Messages)
          /\ Len([old EXCEPT ![n] = b]) = n
      BY <2>1, <2>3, ExceptSeq
    <3>2. DOMAIN old = 1..n
      BY <2>1
    <3> QED
      BY <2>1, <2>2, <2>3, <3>1, <3>2
  <2>5. [old EXCEPT ![n] = b] = new
    BY <2>2, <2>4, SeqEqual
  <2> QED
    BY <2>5 DEF old, new, n
<1> QED
  BY <1>1, <1>3, <1>4

(* What the k-th stream leaves when it is the record s. *)
Wrote(s, k) ==
  s.sent \o ((IF s.chunks > 0 THEN <<Answer(k, s.chunks)>> ELSE <<>>)
             \o (IF s.status = "failed" THEN <<Failure(k)>> ELSE <<>>))

LEMMA WrittenIsWrote ==
  ASSUME NEW k
  PROVE  Written(k) = Wrote(streams[k], k) /\ Written(k)' = Wrote(streams'[k], k)
  BY DEF Written, Said, Wrote

LEMMA WroteForms ==
  ASSUME NEW k, NEW s, s.sent \in Seq(Messages), s.chunks \in Nat
  PROVE  /\ s.chunks = 0 /\ s.status # "failed" => Wrote(s, k) = s.sent
         /\ s.chunks > 0 /\ s.status # "failed" =>
              Wrote(s, k) = s.sent \o <<Answer(k, s.chunks)>>
<1> DEFINE a == <<Answer(k, s.chunks)>>
<1>1. s.sent \o (<<>> \o <<>>) = s.sent /\ s.sent \o (a \o <<>>) = s.sent \o a
  OBVIOUS
<1>2. s.chunks = 0 => ~(s.chunks > 0)
  OBVIOUS
<1> QED
  BY <1>1, <1>2 DEF Wrote

(* The error follows all that a stream wrote. *)
LEMMA WroteFailure ==
  ASSUME NEW k \in Ids, NEW s \in Streams, NEW f \in Streams, s.status # "failed",
         f.status = "failed", f.sent = s.sent, f.chunks = s.chunks
  PROVE  Wrote(f, k) = Append(Wrote(s, k), Failure(k))
<1> DEFINE said == IF s.chunks > 0 THEN <<Answer(k, s.chunks)>> ELSE <<>>
<1>1. s.chunks \in 0..MaxChunks /\ s.sent \in Seq(Messages)
  BY DEF Streams
<1>2. said \in Seq(Messages) /\ Failure(k) \in Messages
  BY <1>1, MessagesTyped
<1>3. Wrote(s, k) = s.sent \o (said \o <<>>) /\ Wrote(f, k) = s.sent \o (said \o <<Failure(k)>>)
  BY DEF Wrote
<1> HIDE DEF said
<1>4. s.sent \o (said \o <<Failure(k)>>) = Append(s.sent \o (said \o <<>>), Failure(k))
  <2>1. said \o <<>> = said
    BY <1>2, ConcatEmptySeq
  <2>2. s.sent \o (said \o <<Failure(k)>>) = (s.sent \o said) \o <<Failure(k)>>
    <3> DEFINE sent == s.sent
               fail == <<Failure(k)>>
    <3>1. sent \in Seq(Messages) /\ fail \in Seq(Messages)
      BY <1>1, <1>2
    <3> HIDE DEF sent, fail
    <3>2. (sent \o said) \o fail = sent \o (said \o fail)
      BY <1>2, <3>1
    <3> QED
      BY <3>2 DEF sent, fail
  <2>3. Append(s.sent \o said, Failure(k)) = (s.sent \o said) \o <<Failure(k)>>
    <3>1. s.sent \o said \in Seq(Messages)
      BY <1>1, <1>2
    <3> QED
      BY <1>2, <3>1, AppendIsConcat
  <2> QED
    BY <2>1, <2>2, <2>3
<1> QED
  BY <1>3, <1>4

(* The strengthening of StreamText that is inductive: only the last stream *)
(* can still write, and nothing is queued that the screen does not show    *)
(* when the screen lets the user ask.                                      *)
TextInv ==
  /\ \A k \in DOMAIN streams : Live(k) => k = Len(streams)
  /\ ~screen.streaming => screen.nodes = nodes
  /\ StreamText

LEMMA InitText == Init => TextInv
  BY DEF Init, TextInv, StreamText, LeftBy, Turns, createNode

(* A stream that did not change leaves the same. *)
LEMMA WrittenKept ==
  ASSUME NEW j, streams'[j] = streams[j]
  PROVE  Written(j)' = Written(j)
  BY DEF Written, Said

(* What questions leave does not change when their streams do not.         *)
LEMMA LeftByKept ==
  ASSUME NEW msgs, NEW T, \A j \in T : streams'[j] = streams[j]
  PROVE  LeftBy(msgs, T)' <=> LeftBy(msgs, T)
<1>1. \A j \in T : Written(j)' = Written(j)
  BY WrittenKept
<1> QED
  BY <1>1 DEF LeftBy

(* The text stays when streams and messages do. *)
LEMMA SameText ==
  ASSUME TextInv, UNCHANGED <<nodes, streams>>, screen'.nodes = screen.nodes,
         screen'.streaming = screen.streaming
  PROVE  TextInv'
<1>1. \A j : Written(j)' = Written(j)
  BY WrittenKept
<1>2. StreamText'
  BY <1>1 DEF TextInv, StreamText, LeftBy, Turns
<1> QED
  BY <1>2 DEF TextInv, Live

(* A question to node n, of which the messages `before` are there.         *)
LEMMA SubmitText ==
  ASSUME TypeOK, StreamInv, TextInv, MaySubmit, NEW n, NEW before \in Seq(Messages),
         streams' = Append(streams, Open(n, Append(before, Question(K)))),
         DOMAIN nodes' = DOMAIN nodes \cup {n},
         nodes'[n].msgs = Append(before, Question(K)),
         \A m \in DOMAIN nodes \ {n} : nodes'[m].msgs = nodes[m].msgs,
         LeftBy(before, Turns(n)), screen'.nodes = nodes'
  PROVE  TextInv'
<1> DEFINE sent == Append(before, Question(K))
<1>1. K \in Ids /\ Question(K) \in Messages
  <2>1. K \in Ids
    BY Bounds DEF MaySubmit, TypeOK, K, Ids
  <2> QED
    BY <2>1, MessagesTyped, Bounds
<1>2. sent \in Seq(Messages) /\ sent # <<>> /\ Last(sent) = Question(K) /\ Front(sent) = before
  BY <1>1, Appended
<1>3. /\ K = Len(streams) + 1 /\ Len(streams') = K
      /\ DOMAIN streams = 1..(K - 1) /\ DOMAIN streams' = 1..K /\ K \in Nat
      /\ \A j \in 1..(K - 1) : streams'[j] = streams[j]
      /\ streams'[K] = Open(n, sent)
  BY DEF TypeOK, K
<1> HIDE DEF sent
<1>4. DOMAIN streams' = DOMAIN streams \cup {K} /\ K \notin DOMAIN streams
  BY <1>3
<1>5. /\ \A j \in DOMAIN streams : j \in Nat /\ j < K
      /\ \A j \in DOMAIN streams : streams'[j] = streams[j]
  BY <1>3
<1>6. \A j \in DOMAIN streams : ~Live(j)
  BY DEF MaySubmit, StreamInv
<1>7. \A j \in DOMAIN streams' : Live(j)' => j = Len(streams')
  BY <1>3, <1>4, <1>5, <1>6 DEF Live
<1>8. \A j \in DOMAIN streams : Written(j)' = Written(j)
  BY <1>5, WrittenKept
<1>9. ASSUME NEW x, x = K PROVE Written(x)' = sent
  <2>1. sent \o (<<>> \o <<>>) = sent
    BY <1>2
  <2>2. streams'[x].sent = sent /\ streams'[x].chunks = 0 /\ streams'[x].status = "open"
    BY <1>3, <1>9 DEF Open
  <2>3. Said(x)' = <<>> \o <<>>
    BY <2>2 DEF Said
  <2> QED
    BY <2>1, <2>2, <2>3 DEF Written
<1>10. \A m : Turns(m)' = IF m = n THEN Turns(n) \cup {K} ELSE Turns(m)
  BY <1>3, <1>4, <1>5 DEF Turns, Open
<1>11. ASSUME NEW m \in DOMAIN nodes' PROVE LeftBy(nodes[m].msgs, Turns(m))'
  <2>1. CASE m = n
    <3>1. K \in Turns(n)' /\ \A j \in Turns(n)' : j <= K
      <4>1. Turns(n)' = Turns(n) \cup {K} /\ Turns(n) \subseteq DOMAIN streams
        BY <1>10 DEF Turns
      <4> HIDE DEF K
      <4> QED
        BY <4>1, <1>3, <1>5
    <3>2. ASSUME NEW j \in Turns(n)', \A i \in Turns(n)' : i <= j PROVE j = K
      BY <3>1, <3>2, <1>3, <1>5, <1>10 DEF Turns
    <3> QED
      BY <2>1, <3>1, <3>2, <1>9 DEF LeftBy, sent
  <2>2. CASE m # n
    <3>1. m \in DOMAIN nodes /\ Turns(m)' = Turns(m) /\ nodes'[m].msgs = nodes[m].msgs
      BY <2>2, <1>10
    <3>2. LeftBy(nodes[m].msgs, Turns(m)) /\ Turns(m) \subseteq DOMAIN streams
      BY <3>1 DEF TextInv, StreamText, Turns
    <3> QED
      BY <3>1, <3>2, <1>8 DEF LeftBy
  <2> QED
    BY <2>1, <2>2
<1>12. ASSUME NEW j \in DOMAIN streams'
       PROVE  LET s == streams[j]
              IN  (/\ s.node \in DOMAIN nodes
                   /\ s.sent # <<>> /\ Last(s.sent) = Question(j)
                   /\ LeftBy(Front(s.sent), {i \in Turns(s.node) : i < j}))'
  <2>1. CASE j = K
    <3>1. /\ streams'[j].node = n /\ streams'[j].sent = sent
      BY <1>3, <2>1 DEF Open
    <3>2. {i \in Turns(n)' : i < j} = Turns(n)
      BY <1>3, <1>5, <1>10, <2>1 DEF Turns
    <3> QED
      BY <1>2, <1>8, <2>1, <3>1, <3>2 DEF LeftBy, Turns
  <2>2. CASE j \in DOMAIN streams
    <3> DEFINE t == streams[j].node
               T == {i \in Turns(t) : i < j}
    <3>1. streams'[j] = streams[j]
      BY <1>5, <2>2
    <3>2. /\ t \in DOMAIN nodes /\ streams[j].sent # <<>>
          /\ Last(streams[j].sent) = Question(j) /\ LeftBy(Front(streams[j].sent), T)
      BY <2>2 DEF TextInv, StreamText
    <3>3. {i \in Turns(t)' : i < j} = T
      BY <1>3, <1>5, <1>10, <2>2
    <3>4. T \subseteq DOMAIN streams
      BY DEF Turns
    <3> QED
      BY <1>8, <3>1, <3>2, <3>3, <3>4 DEF LeftBy
  <2> QED
    BY <1>4, <2>1, <2>2
<1> QED
  BY <1>7, <1>11, <1>12 DEF TextInv, StreamText

(* More of the live stream k, which is the last one: its node then holds   *)
(* what k has written, and nothing else holds anything new.                *)
LEMMA StreamedText ==
  ASSUME TypeOK, TextInv, NEW k \in DOMAIN streams, k = Len(streams),
         Len(streams') = Len(streams), DOMAIN streams' = DOMAIN streams,
         \A j \in DOMAIN streams \ {k} : streams'[j] = streams[j],
         streams'[k].node = streams[k].node, streams'[k].sent = streams[k].sent,
         DOMAIN nodes' = DOMAIN nodes,
         \A m \in DOMAIN nodes \ {Target(k)} : nodes'[m].msgs = nodes[m].msgs,
         nodes'[Target(k)].msgs = Written(k)',
         screen.streaming, UNCHANGED screen
  PROVE  TextInv'
<1>1. \A j \in DOMAIN streams : j \in Nat /\ j <= k
  BY DEF TypeOK
<1>2. \A m : Turns(m)' = Turns(m)
  BY DEF Turns
<1>3. \A j \in DOMAIN streams \ {k} : Written(j)' = Written(j)
  BY WrittenKept
<1>4. \A j \in DOMAIN streams \ {k} : Live(j)' <=> Live(j)
  BY DEF Live
<1>5. ASSUME NEW m \in DOMAIN nodes' PROVE LeftBy(nodes[m].msgs, Turns(m))'
  <2>1. CASE m = Target(k)
    <3>1. k \in Turns(m)' /\ \A j \in Turns(m)' : j <= k
      BY <1>1, <1>2, <2>1 DEF Turns, Target
    <3>2. ASSUME NEW j \in Turns(m)', \A i \in Turns(m)' : i <= j PROVE j = k
      BY <1>1, <1>2, <3>1, <3>2 DEF Turns
    <3>3. Turns(m)' # {}
      BY <3>1
    <3> QED
      BY <2>1, <3>2, <3>3 DEF LeftBy
  <2>2. CASE m # Target(k)
    <3>1. LeftBy(nodes[m].msgs, Turns(m)) /\ nodes'[m].msgs = nodes[m].msgs
      BY <2>2 DEF TextInv, StreamText
    <3>2. Turns(m) \subseteq DOMAIN streams \ {k}
      BY <2>2 DEF Turns, Target
    <3> QED
      BY <1>2, <1>3, <3>1, <3>2 DEF LeftBy
  <2> QED
    BY <2>1, <2>2
<1>6. ASSUME NEW j \in DOMAIN streams'
      PROVE  LET s == streams[j]
             IN  (/\ s.node \in DOMAIN nodes
                  /\ s.sent # <<>> /\ Last(s.sent) = Question(j)
                  /\ LeftBy(Front(s.sent), {i \in Turns(s.node) : i < j}))'
  <2> DEFINE t == streams[j].node
             T == {i \in Turns(t) : i < j}
  <2>1. streams'[j].node = t /\ streams'[j].sent = streams[j].sent
    OBVIOUS
  <2>2. /\ t \in DOMAIN nodes /\ streams[j].sent # <<>>
        /\ Last(streams[j].sent) = Question(j) /\ LeftBy(Front(streams[j].sent), T)
    BY DEF TextInv, StreamText
  <2>3. {i \in Turns(t)' : i < j} = T
    BY <1>2
  <2>4. T \subseteq DOMAIN streams \ {k}
    BY <1>1 DEF Turns
  <2> QED
    BY <1>3, <2>1, <2>2, <2>3, <2>4 DEF LeftBy
<1> QED
  BY <1>4, <1>5, <1>6 DEF TextInv, StreamText

(* The node of the live stream holds what the stream has written.          *)
LEMMA LiveText ==
  ASSUME TypeOK, TextInv, NEW k \in DOMAIN streams, Live(k)
  PROVE  /\ k = Len(streams) /\ Target(k) \in DOMAIN nodes
         /\ nodes[Target(k)].msgs = Written(k)
         /\ streams[k] \in Streams /\ nodes[Target(k)] \in Nodes
         /\ streams[k].sent # <<>> /\ Last(streams[k].sent).role = "user"
<1>1. k = Len(streams) /\ \A j \in DOMAIN streams : j <= k
  BY DEF TypeOK, TextInv
<1>2. Target(k) \in DOMAIN nodes /\ streams[k].sent # <<>> /\ Last(streams[k].sent) = Question(k)
  BY DEF TextInv, StreamText, Target
<1>3. k \in Turns(Target(k)) /\ Turns(Target(k)) \subseteq DOMAIN streams
  BY DEF Turns, Target
<1>4. nodes[Target(k)].msgs = Written(k)
  BY <1>1, <1>2, <1>3 DEF TextInv, StreamText, LeftBy
<1> QED
  BY <1>1, <1>2, <1>4 DEF TypeOK, Question

(* Every step keeps the text: a stream writes after its own question, and  *)
(* a question comes after all that is queued.                              *)
LEMMA NextText == TypeOK /\ StreamInv /\ TreeInv /\ TextInv /\ [Next]_vars => TextInv'
<1> SUFFICES ASSUME TypeOK, StreamInv, TreeInv, TextInv, [Next]_vars PROVE TextInv'
  OBVIOUS
<1>1. CASE Render
  <2>1. UNCHANGED <<nodes, streams>> /\ screen'.nodes = nodes
    BY <1>1 DEF Render
  <2>2. \A j : Written(j)' = Written(j)
    BY <2>1, WrittenKept
  <2>3. StreamText'
    BY <2>1, <2>2 DEF TextInv, StreamText, LeftBy, Turns
  <2> QED
    BY <2>1, <2>3 DEF TextInv, Live
<1>2. CASE Timer \/ InitiateBranch \/ CancelBranch \/ UNCHANGED vars
  BY <1>2, SameText DEF Timer, InitiateBranch, CancelBranch, vars, state
<1>3. CASE ToggleView \/ \E n \in DOMAIN screen.nodes : NodeClick(n)
  BY <1>3, SameText DEF ToggleView, NodeClick, Toggles, TypeOK
<1>4. ASSUME MaySubmit
      PROVE  screen.nodes = nodes /\ active \in DOMAIN nodes /\ nodes[active] \in Nodes
  BY <1>4 DEF MaySubmit, TextInv, TypeOK
<1>5. CASE RegularSubmit
  <2> DEFINE before == nodes[active].msgs
  <2>1. MaySubmit
    BY <1>5 DEF RegularSubmit
  <2>2. before \in Seq(Messages) /\ LeftBy(before, Turns(active))
    BY <1>4, <2>1 DEF Nodes, TextInv, StreamText
  <2>3. /\ streams' = Append(streams, Open(active, Append(before, Question(K))))
        /\ nodes' = [nodes EXCEPT ![active].msgs = Append(before, Question(K))]
    BY <1>4, <1>5, <2>1 DEF RegularSubmit
  <2>4. screen'.nodes = nodes'
    BY <1>5 DEF RegularSubmit, TypeOK
  <2>5. /\ DOMAIN nodes' = DOMAIN nodes \cup {active}
        /\ nodes'[active].msgs = Append(before, Question(K))
        /\ \A m \in DOMAIN nodes \ {active} : nodes'[m].msgs = nodes[m].msgs
    BY <1>4, <2>1, <2>3, ZenonT(60) DEF TypeOK, Nodes
  <2> HIDE DEF before
  <2> QED
    BY <2>1, <2>2, <2>3, <2>4, <2>5, SubmitText
<1>6. CASE BranchSubmit
  <2> DEFINE child == createNode(active, <<Question(K)>>)
  <2>1. /\ MaySubmit /\ nodes' = WithChild(nodes, active, child)
        /\ streams' = Append(streams, Open(K, child.msgs))
    BY <1>4, <1>6 DEF BranchSubmit
  <2>2. screen'.nodes = nodes'
    BY <1>6 DEF BranchSubmit, TypeOK
  <2>3. K \notin DOMAIN nodes
    BY DEF TreeInv, K, TypeOK
  <2>4. child.msgs = <<Question(K)>> /\ Append(<<>>, Question(K)) = <<Question(K)>>
    BY DEF createNode
  <2>5. Turns(K) = {}
    BY <2>3 DEF Turns, TextInv, StreamText
  <2>6. LeftBy(<<>>, Turns(K)) /\ <<>> \in Seq(Messages)
    BY <2>5 DEF LeftBy
  <2>7. /\ DOMAIN nodes' = DOMAIN nodes \cup {K}
        /\ nodes'[K].msgs = <<Question(K)>>
        /\ \A m \in DOMAIN nodes \ {K} : nodes'[m].msgs = nodes[m].msgs
    BY <1>4, <2>1, <2>3, <2>4 DEF WithChild, Branched, TypeOK, Nodes
  <2> QED
    BY <2>1, <2>2, <2>4, <2>6, <2>7, SubmitText
<1>7. ASSUME NEW k \in DOMAIN streams, Network(k) PROVE TextInv'
  <2> DEFINE t == Target(k)
             sent == streams[k].sent
  <2>1. Live(k) /\ screen.streaming /\ UNCHANGED screen
    BY <1>7 DEF Network, Chunk, FinalChunk, Done, Fail, Queued, Live, StreamInv
  <2>2. /\ k = Len(streams) /\ t \in DOMAIN nodes /\ nodes[t].msgs = Written(k)
        /\ streams[k] \in Streams /\ nodes[t] \in Nodes
        /\ sent # <<>> /\ Last(sent).role = "user"
    BY <2>1, LiveText
  <2>3. sent \in Seq(Messages) /\ k \in Ids /\ streams \in Seq(Streams)
    BY <2>2, Bounds DEF Streams, TypeOK, Ids
  <2>4. ASSUME NEW s \in Streams, streams' = [streams EXCEPT ![k] = s],
               s.node = streams[k].node, s.sent = sent,
               DOMAIN nodes' = DOMAIN nodes,
               \A m \in DOMAIN nodes \ {t} : nodes'[m].msgs = nodes[m].msgs,
               nodes'[t].msgs = Wrote(s, k)
        PROVE  TextInv'
    <3>1. /\ Len(streams') = Len(streams) /\ DOMAIN streams' = DOMAIN streams
          /\ \A j \in DOMAIN streams \ {k} : streams'[j] = streams[j]
          /\ streams'[k] = s
      BY <2>3, <2>4
    <3>2. nodes'[t].msgs = Written(k)'
      BY <2>4, <3>1, WrittenIsWrote
    <3> QED
      BY <2>1, <2>2, <2>4, <3>1, <3>2, StreamedText
  <2>5. ASSUME NEW n \in 1..MaxChunks, NEW slot, Heard(k, n, slot)
        PROVE  /\ DOMAIN nodes' = DOMAIN nodes
               /\ \A m \in DOMAIN nodes \ {t} : nodes'[m].msgs = nodes[m].msgs
               /\ nodes'[t].msgs = WithAnswer(nodes[t].msgs, Answer(k, n))
    BY <2>2, <2>5 DEF Heard, Nodes, TypeOK
  <2>6. nodes[t].msgs = Wrote(streams[k], k)
    BY <2>2, WrittenIsWrote
  <2>7. ASSUME NEW n \in 1..MaxChunks, streams[k].status # "failed"
        PROVE  WithAnswer(nodes[t].msgs, Answer(k, n)) = sent \o <<Answer(k, n)>>
    <3>1. streams[k].chunks \in 0..MaxChunks
      BY <2>2 DEF Streams
    <3>2. Answer(k, streams[k].chunks) \in Messages /\ Answer(k, n) \in Messages
      BY <2>3, <3>1, MessagesTyped, Bounds
    <3>3. Answer(k, streams[k].chunks).role = "assistant"
      BY DEF Answer
    <3>4. \/ nodes[t].msgs = sent
          \/ nodes[t].msgs = sent \o <<Answer(k, streams[k].chunks)>>
      BY <2>3, <2>6, <2>7, <3>1, WroteForms, Bounds
    <3> QED
      BY <2>2, <2>3, <3>2, <3>3, <3>4, MoreOfAnswer, ZenonT(60)
  <2>8. CASE Chunk(k)
    <3> DEFINE s == [streams[k] EXCEPT !.chunks = streams[k].chunks + 1]
    <3>1. streams[k].status = "open" /\ streams[k].chunks + 1 \in 1..MaxChunks
      BY <2>2, <2>8, Bounds DEF Chunk, Streams
    <3>2. /\ s \in Streams /\ s.node = streams[k].node /\ s.sent = sent
          /\ s.chunks = streams[k].chunks + 1 /\ s.status = "open"
      BY <2>2, <3>1 DEF Streams
    <3>3. streams' = [streams EXCEPT ![k] = s] /\ Heard(k, streams[k].chunks + 1, NoSlot)
      BY <2>8 DEF Chunk
    <3> HIDE DEF s
    <3>4. Wrote(s, k) = sent \o <<Answer(k, streams[k].chunks + 1)>>
      <4>1. s.chunks \in Nat /\ s.chunks > 0 /\ s.sent \in Seq(Messages)
        BY <2>3, <3>1, <3>2, Bounds
      <4>2. Wrote(s, k) = s.sent \o <<Answer(k, s.chunks)>>
        BY <3>2, <4>1, WroteForms
      <4> QED
        BY <3>2, <4>2
    <3> QED
      BY <2>4, <2>5, <2>7, <3>1, <3>2, <3>3, <3>4
  <2>9. CASE FinalChunk(k)
    <3> DEFINE s == [streams[k] EXCEPT !.status = "final"]
    <3>1. streams[k].status = "open" /\ streams[k].chunks = MaxChunks /\ MaxChunks \in 1..MaxChunks
      BY <2>9, Bounds DEF FinalChunk
    <3>2. /\ s \in Streams /\ s.node = streams[k].node /\ s.sent = sent
          /\ s.chunks = MaxChunks /\ s.status = "final"
      BY <2>2, <3>1 DEF Streams
    <3>3. PICK slot \in SlotIds : streams' = [streams EXCEPT ![k] = s] /\ Heard(k, MaxChunks, slot)
      BY <2>9 DEF FinalChunk
    <3> HIDE DEF s
    <3>4. Wrote(s, k) = sent \o <<Answer(k, MaxChunks)>>
      BY <2>3, <3>1, <3>2, WroteForms, Bounds
    <3> QED
      BY <2>4, <2>5, <2>7, <3>1, <3>2, <3>3, <3>4
  <2>10. CASE Done(k)
    <3> DEFINE s == [streams[k] EXCEPT !.status = "done"]
    <3>1. streams[k].status = "final" /\ nodes' = nodes
      BY <2>10 DEF Done
    <3>2. /\ s \in Streams /\ s.node = streams[k].node /\ s.sent = sent
          /\ s.chunks = streams[k].chunks /\ s.status = "done"
      BY <2>2 DEF Streams
    <3>3. streams' = [streams EXCEPT ![k] = s]
      BY <2>10 DEF Done
    <3> HIDE DEF s
    <3>4. Wrote(s, k) = Wrote(streams[k], k)
      BY <3>1, <3>2 DEF Wrote
    <3> QED
      BY <2>4, <2>6, <3>1, <3>2, <3>3, <3>4
  <2>11. CASE Fail(k)
    <3> DEFINE s == [streams[k] EXCEPT !.status = "failed"]
    <3>1. /\ streams[k].status # "failed"
          /\ nodes' = [nodes EXCEPT ![t].msgs = Append(@, Failure(k))]
      BY <2>2, <2>11 DEF Fail, onError
    <3>2. /\ s \in Streams /\ s.node = streams[k].node /\ s.sent = sent
          /\ s.chunks = streams[k].chunks /\ s.status = "failed"
      BY <2>2 DEF Streams
    <3>3. streams' = [streams EXCEPT ![k] = s]
      BY <2>11 DEF Fail, onError
    <3> HIDE DEF s
    <3>4. Wrote(s, k) = Append(nodes[t].msgs, Failure(k))
      BY <2>2, <2>3, <2>6, <3>1, <3>2, WroteFailure
    <3>5. /\ DOMAIN nodes' = DOMAIN nodes
          /\ \A m \in DOMAIN nodes \ {t} : nodes'[m].msgs = nodes[m].msgs
          /\ nodes'[t].msgs = Append(nodes[t].msgs, Failure(k))
      BY <2>2, <3>1 DEF Nodes, TypeOK
    <3> QED
      BY <2>4, <3>2, <3>3, <3>4, <3>5
  <2> QED
    BY <1>7, <2>8, <2>9, <2>10, <2>11 DEF Network
<1> QED
  BY <1>1, <1>2, <1>3, <1>5, <1>6, <1>7 DEF Next, User

(* No text is lost or misplaced, for any number of questions and chunks:   *)
(* however late the screen follows and whatever is clicked, every node     *)
(* reads as its questions and all that arrived of their answers, because a *)
(* handler can only write back stale nodes while the input is disabled.    *)
THEOREM TextKept == Spec => []StreamText
<1> DEFINE Inv == TypeOK /\ StreamInv /\ TreeInv /\ TextInv
<1>1. Init => Inv
  BY InitTyped, InitStream, InitTree, InitText
<1>2. Inv /\ [Next]_vars => Inv'
  BY NextTyped, NextStream, NextTree, NextText
<1>3. Inv => StreamText
  BY DEF TextInv
<1> QED
  BY <1>1, <1>2, <1>3, PTL DEF Spec
=============================================================================

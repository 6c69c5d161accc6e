------------------------------ MODULE GraphChat ------------------------------
(***************************************************************************)
(* The graph chat of the browser (frontend/app): a tree of conversations,  *)
(* of which one is active; a question continues the active node or, after  *)
(* some text was selected, starts a child of it; answers arrive as streams *)
(* of chunks while the user clicks on.                                     *)
(*                                                                         *)
(* React gives two clocks.  A handler of the user's event is a closure of  *)
(* the last render: it reads `screen`, and what it sets is rendered before *)
(* the next event.  What a stream, a timer or an effect sets is first only *)
(* queued (nodes, streaming, view, anim) and reaches the screen with a     *)
(* later Render; an update that was queued before a user's update is still *)
(* applied before it.  An update that is a function of the previous state  *)
(* keeps what is queued, one that is a value overwrites it.                *)
(***************************************************************************)
EXTENDS Integers, Sequences, SequencesExt, FiniteSets

CONSTANTS
  SlotIds,      \* the ids of slots the server may answer with
  MaxTurns,     \* bound: questions asked, and so nodes beside the root
  MaxChunks,    \* bound: chunks with text in one answer
  Faults        \* what may go wrong with a stream, see below

(* "fail": fetch rejects, the response is not ok, the server sends a chunk *)
(* with an error, or the connection is lost before [DONE].                 *)

ASSUME BoundsAssumption == MaxTurns \in Nat /\ MaxChunks \in Nat \ {0}
ASSUME FaultsAssumption == Faults \subseteq {"fail"}

VARIABLES
  nodes,        \* graphState.nodes: the nodes there are, by id
  active,       \* graphState.activeNodeId
  view,         \* viewMode
  anim,         \* branchAnimation
  streaming,    \* isStreaming
  branchState,  \* "idle" or "ready_to_branch"
  screen,       \* what the last render showed, which handlers close over
  armed,        \* a timer of the animation is running
  streams       \* the requests in the order of their submission

state == <<nodes, active, view, anim, streaming, branchState>>
vars  == <<state, screen, armed, streams>>

Root   == 0
NoNode == MaxTurns + 1
NoSlot == -1        \* null
(* The k-th question, the answer to it after n chunks, and its error.  The *)
(* node a branch creates is named for its question, as Date.now() is new.  *)
Question(k)  == [role |-> "user",      of |-> k, text |-> 0]
Answer(k, n) == [role |-> "assistant", of |-> k, text |-> n]
Failure(k)   == [role |-> "assistant", of |-> k, text |-> MaxChunks + 1]

createNode(parent, msgs) ==
  [parent |-> parent, msgs |-> msgs, slot |-> NoSlot, children |-> <<>>, frozen |-> FALSE]

(* The stages of the animation; the three between the first and the last,  *)
(* drawing_branch, flowing_context and expanding_node, only wait, and are  *)
(* one here.                                                               *)
Still  == [stage |-> 0, child |-> NoNode]      \* isAnimating is FALSE
Switch == 1                                    \* switching_to_graph
Focus  == 3                                    \* returning_to_focus

(* The root is made by the first effect; nothing is active. *)
Init ==
  /\ nodes = [n \in {Root} |-> createNode(NoNode, <<>>)]
  /\ active = NoNode
  /\ view = "graph" /\ anim = Still /\ armed = FALSE
  /\ streaming = FALSE /\ branchState = "idle"
  /\ screen = [nodes |-> nodes, view |-> view, anim |-> anim, streaming |-> streaming]
  /\ streams = <<>>
-----------------------------------------------------------------------------
(* The effect that a stage of the animation runs when it is rendered. *)
StageView(a, v) ==
  CASE a.stage = Switch -> "graph"
    [] a.stage = Focus  -> "focused"
    [] OTHER            -> v

(* Mutant of StageChanged: the effect depends on isAnimating only. *)
StageChangedOnOff == (anim = Still) # (screen.anim = Still)

(* The effect depends on the whole state of the animation. *)
StageChanged == anim # screen.anim

(* What was queued is rendered.  A new stage of the animation arms a timer *)
(* and clears the one before; its view is queued in turn.                  *)
Render ==
  /\ screen # [nodes |-> nodes, view |-> view, anim |-> anim, streaming |-> streaming]
  /\ screen' = [nodes |-> nodes, view |-> view, anim |-> anim, streaming |-> streaming]
  /\ IF StageChanged
     THEN /\ view' = StageView(anim, view)
          /\ armed' = (anim # Still)
     ELSE UNCHANGED <<view, armed>>
  /\ UNCHANGED <<nodes, active, anim, streaming, branchState, streams>>

(* Mutant of AfterStage: the last stage has no end of its own. *)
AfterStageOn(a, stage) == [a EXCEPT !.stage = stage + 1]

(* What the timer of a stage makes of the queued animation. *)
AfterStage(a, stage) == IF stage = Focus THEN Still ELSE [a EXCEPT !.stage = stage + 1]

(* The timer of the rendered stage queues the next one, or the end. *)
Timer ==
  /\ armed
  /\ armed' = FALSE
  /\ anim' = AfterStage(anim, screen.anim.stage)
  /\ UNCHANGED <<nodes, active, view, streaming, branchState, screen, streams>>
-----------------------------------------------------------------------------
Other(v) == IF v = "graph" THEN "focused" ELSE "graph"

(* toggleViewMode, from its button or from the click on a node. *)
Toggles ==
  /\ view' = Other(view)
  /\ screen' = [screen EXCEPT !.view = Other(@)]

ToggleView ==
  /\ Toggles
  /\ UNCHANGED <<nodes, active, anim, streaming, branchState, armed, streams>>

NodeClick(n) ==
  /\ screen.view = "graph" /\ n \in DOMAIN screen.nodes
  /\ active' = n
  /\ Toggles
  /\ UNCHANGED <<nodes, anim, streaming, branchState, armed, streams>>

(* A mouseup left some text of a node selected (useTextSelection, which    *)
(* changes nothing else), and the Branch button beside it is clicked.      *)
InitiateBranch ==
  /\ screen.view = "focused" /\ branchState = "idle"
  /\ \E n \in DOMAIN screen.nodes : screen.nodes[n].msgs # <<>>
  /\ branchState' = "ready_to_branch"
  /\ UNCHANGED <<nodes, active, view, anim, streaming, screen, armed, streams>>

(* Escape in the text area, which is disabled while an answer streams. *)
CancelBranch ==
  /\ screen.view = "focused" /\ branchState = "ready_to_branch" /\ ~screen.streaming
  /\ branchState' = "idle"
  /\ UNCHANGED <<nodes, active, view, anim, streaming, screen, armed, streams>>

(* Mutant of MaySubmit: the guard on isStreaming is gone. *)
MaySubmitAnyTime ==
  screen.view = "focused" /\ active # NoNode /\ Len(streams) < MaxTurns

(* handleSubmit's early return. *)
MaySubmit ==
  /\ screen.view = "focused"
  /\ ~screen.streaming
  /\ active # NoNode
  /\ Len(streams) < MaxTurns                                \* bound MaxTurns

K    == Len(streams) + 1
Open(n, sent) == [node |-> n, sent |-> sent, chunks |-> 0, status |-> "open"]

(* handleRegularSubmit: the question is added to the node as it was        *)
(* rendered, and all of these nodes replace the ones that are queued.      *)
RegularSubmit ==
  /\ MaySubmit
  /\ branchState = "idle"
  /\ LET msgs == Append(screen.nodes[active].msgs, Question(K))
         ns   == [screen.nodes EXCEPT ![active].msgs = msgs]
     IN  /\ nodes' = ns
         /\ screen' = [screen EXCEPT !.nodes = ns, !.streaming = TRUE]
         /\ streams' = Append(streams, Open(active, msgs))
  /\ streaming' = TRUE
  /\ UNCHANGED <<active, view, anim, branchState, armed>>

(* Mutant of Branched: the children are not spread into the new list. *)
BranchedOnce(node, child) == [node EXCEPT !.frozen = TRUE, !.children = <<child>>]

(* The parent as the branch leaves it. *)
Branched(node, child) ==
  [node EXCEPT !.frozen = TRUE, !.children = Append(@, child)]

(* The nodes with the child K of node p. *)
WithChild(ns, p, child) ==
  [n \in DOMAIN ns \cup {K} |->
     IF n = K THEN child ELSE IF n = p THEN Branched(ns[p], K) ELSE ns[n]]

(* handleBranchSubmit: the rendered nodes, with the parent frozen and the  *)
(* child added, replace what is queued; the child becomes active and the   *)
(* animation starts.  The effect of the new size lays the tree out on the  *)
(* same rendered nodes and replaces them once more.  Without a slot of the *)
(* parent nothing happens.                                                 *)
BranchSubmit ==
  /\ MaySubmit
  /\ branchState = "ready_to_branch"
  /\ screen.nodes[active].slot # NoSlot
  /\ LET child == createNode(active, <<Question(K)>>)
         ns    == WithChild(screen.nodes, active, child)
         begin == [stage |-> Switch, child |-> K]
     IN  /\ nodes' = ns
         /\ anim' = begin
         /\ screen' = [screen EXCEPT !.nodes = ns, !.anim = begin, !.streaming = TRUE]
         /\ streams' = Append(streams, Open(K, child.msgs))
         /\ view' = StageView(begin, view)
  /\ active' = K
  /\ armed' = TRUE
  /\ streaming' = TRUE /\ branchState' = "idle"
-----------------------------------------------------------------------------
(* The text of an answer replaces what the node has of it, or follows the  *)
(* question.  A node that is gone is left alone.                           *)
WithAnswer(msgs, a) ==
  IF msgs # <<>> /\ Last(msgs).role = "assistant"
  THEN [msgs EXCEPT ![Len(msgs)] = a] ELSE Append(msgs, a)

(* Mutant of Target: the node that is active when the chunk arrives. *)
TargetActive(k) == active

(* The node a stream writes to is the one its handler closed over. *)
Target(k) == streams[k].node

Queued == UNCHANGED <<active, view, anim, branchState, screen, armed>>

Heard(k, n, slot) ==
  nodes' = IF Target(k) \notin DOMAIN nodes THEN nodes
           ELSE [nodes EXCEPT ![Target(k)].msgs = WithAnswer(@, Answer(k, n)),
                              ![Target(k)].slot = IF slot = NoSlot THEN @ ELSE slot]

(* A chunk of text. *)
Chunk(k) ==
  /\ streams[k].status = "open" /\ streams[k].chunks < MaxChunks
  /\ streams' = [streams EXCEPT ![k].chunks = @ + 1]
  /\ Heard(k, streams[k].chunks + 1, NoSlot)
  /\ UNCHANGED streaming
  /\ Queued

(* The final chunk has no text and brings the id of the slot.  An answer   *)
(* has MaxChunks chunks before it (bound).                                 *)
FinalChunk(k) ==
  /\ streams[k].status = "open" /\ streams[k].chunks = MaxChunks
  /\ streams' = [streams EXCEPT ![k].status = "final"]
  /\ \E slot \in SlotIds : Heard(k, MaxChunks, slot)
  /\ UNCHANGED streaming
  /\ Queued

(* [DONE]: onDone. *)
Done(k) ==
  /\ streams[k].status = "final"
  /\ streams' = [streams EXCEPT ![k].status = "done"]
  /\ streaming' = FALSE
  /\ UNCHANGED nodes
  /\ Queued

(* Mutant of onError: the streaming flag is left set. *)
onErrorKeepsFlag(k) ==
  /\ streams' = [streams EXCEPT ![k].status = "failed"]
  /\ nodes' = [nodes EXCEPT ![Target(k)].msgs = Append(@, Failure(k))]
  /\ streaming' = streaming

(* onError, which ends the reading too: the error follows what is there. *)
onError(k) ==
  /\ streams' = [streams EXCEPT ![k].status = "failed"]
  /\ nodes' = IF Target(k) \notin DOMAIN nodes THEN nodes
              ELSE [nodes EXCEPT ![Target(k)].msgs = Append(@, Failure(k))]
  /\ streaming' = FALSE

Fail(k) ==
  /\ "fail" \in Faults /\ streams[k].status \in {"open", "final"}
  /\ onError(k)
  /\ Queued

Network(k) == Chunk(k) \/ FinalChunk(k) \/ Done(k) \/ Fail(k)

User ==
  \/ ToggleView \/ InitiateBranch \/ CancelBranch
  \/ RegularSubmit \/ BranchSubmit
  \/ \E n \in DOMAIN screen.nodes : NodeClick(n)

Next ==
  \/ User
  \/ Render \/ Timer
  \/ \E k \in DOMAIN streams : Network(k)

Spec == Init /\ [][Next]_vars

(* The browser renders and fires its timers, and the server goes on with   *)
(* every answer; the user need not do anything.                            *)
FairSpec ==
  /\ Spec
  /\ WF_vars(Render) /\ WF_vars(Timer)
  /\ \A k \in 1..MaxTurns : WF_vars(k \in DOMAIN streams /\ Network(k))
-----------------------------------------------------------------------------
Ids == 0..MaxTurns
Messages == [role : {"user", "assistant"}, of : Ids, text : 0..(MaxChunks + 1)]

Nodes == [parent : Ids \cup {NoNode}, msgs : Seq(Messages), slot : SlotIds \cup {NoSlot},
          children : Seq(Ids), frozen : BOOLEAN]
Animations == [stage : 0..Focus, child : Ids \cup {NoNode}]
Streams == [node : Ids, sent : Seq(Messages), chunks : 0..MaxChunks,
            status : {"open", "final", "done", "failed"}]

TypeOK ==
  /\ DOMAIN nodes \subseteq Ids /\ Root \in DOMAIN nodes
  /\ nodes \in [DOMAIN nodes -> Nodes]
  /\ active \in DOMAIN nodes \cup {NoNode}
  /\ view \in {"graph", "focused"} /\ anim \in Animations
  /\ streaming \in BOOLEAN /\ armed \in BOOLEAN
  /\ branchState \in {"idle", "ready_to_branch"}
  /\ screen \in [nodes : [DOMAIN nodes -> Nodes], view : {"graph", "focused"},
                 anim : Animations, streaming : BOOLEAN]
  /\ streams \in Seq(Streams) /\ Len(streams) <= MaxTurns

(* What has arrived of the answer to question k, and what its node reads   *)
(* with it when k is the last question there.                              *)
Said(k) ==
  LET s == streams[k]
  IN  (IF s.chunks > 0 THEN <<Answer(k, s.chunks)>> ELSE <<>>)
      \o (IF s.status = "failed" THEN <<Failure(k)>> ELSE <<>>)
Written(k) == streams[k].sent \o Said(k)

Turns(n) == {k \in DOMAIN streams : streams[k].node = n}

(* msgs is what the last one of the questions T left in its node. *)
LeftBy(msgs, T) ==
  /\ T = {} => msgs = <<>>
  /\ \A k \in T : (\A j \in T : j <= k) => msgs = Written(k)

(* Every node holds exactly its own questions, each followed by all that   *)
(* has arrived of its answer, whatever was clicked meanwhile and however   *)
(* stale the handlers' nodes were; and what the server was sent with a     *)
(* question is all that stands before it, and the question.                *)
StreamText ==
  /\ \A n \in DOMAIN nodes : LeftBy(nodes[n].msgs, Turns(n))
  /\ \A k \in DOMAIN streams :
       LET s == streams[k]
       IN  /\ s.node \in DOMAIN nodes
           /\ s.sent # <<>> /\ Last(s.sent) = Question(k)
           /\ LeftBy(Front(s.sent), {j \in Turns(s.node) : j < k})

(* The nodes are a tree: everyone is listed once, by its own parent, which *)
(* is frozen; no branch is lost to a handler that worked on older nodes.   *)
TreeConsistent ==
  /\ \A n \in DOMAIN nodes \ {Root} :
       LET p == nodes[n].parent
       IN  /\ p \in DOMAIN nodes /\ p < n
           /\ Cardinality({i \in DOMAIN nodes[p].children :
                             nodes[p].children[i] = n}) = 1
           /\ nodes[p].frozen
  /\ \A p \in DOMAIN nodes : \A i \in DOMAIN nodes[p].children :
       /\ nodes[p].children[i] \in DOMAIN nodes
       /\ nodes[nodes[p].children[i]].parent = p

Live(k) == streams[k].status \in {"open", "final"}

(* At most one answer streams at a time; while it does the flag is set, so *)
(* that the input stays disabled, and once it ended with either callback   *)
(* the flag is free again.                                                 *)
OneStream ==
  /\ Cardinality({k \in DOMAIN streams : Live(k)}) <= 1
  /\ (\E k \in DOMAIN streams : Live(k)) => streaming
  /\ streaming => \E k \in DOMAIN streams : Live(k)

(* The input does not stay disabled: every answer ends, by [DONE] or by an *)
(* error, and is shown to have ended.                                      *)
StreamEnds == screen.streaming ~> ~screen.streaming

(* The animation of a branch comes to its end, through all of its stages,  *)
(* though each stage's timer is cleared and armed anew by each render of a *)
(* changed state and another branch may start over meanwhile.              *)
AnimationEnds == anim # Still ~> anim = Still /\ screen.anim = Still
=============================================================================

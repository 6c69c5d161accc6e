------------------------------- MODULE SlotCache -------------------------------
(***************************************************************************)
(* What llama-server's slots believe to be in the KV cache, and what is in *)
(* it (backend/tools/server/server.cpp).  A slot remembers the tokens of   *)
(* its sequence (server_slot::prompt.tokens) and skips the prefix of a new *)
(* prompt that they share; update_slots, launch_branch, the prompt cache,  *)
(* the context shift, the purge of idle slots and every error path must    *)
(* keep that memory true, or tokens are computed in a context that is not  *)
(* the one of the request.                                                 *)
(*                                                                         *)
(* One thread does all of this, so update_slots is cut into steps here     *)
(* only for readability: tasks are handled when pc = "tasks", and between  *)
(* two such states one call of update_slots runs.  The KV cache is reduced *)
(* to which token at which position each cell holds and for whom; where a  *)
(* token goes and what a failed ubatch leaves are KVCache's matter.  The   *)
(* model is one without sliding window, media, adapters or a draft model.  *)
(***************************************************************************)
EXTENDS Integers, FiniteSets, Sequences, SequencesExt, FiniteSetsExt

CONSTANTS
  NSlots,     \* n_parallel
  Unified,    \* kv_unified: all slots share the cells
  NCells,     \* cells of the cache, or of each slot's stream
  NCtx,       \* slot.n_ctx
  NBatch,     \* n_batch
  CtxShift,   \* params_base.ctx_shift
  NKeep,      \* n_keep of every request
  MaxSaved,   \* bound: prompts that fit into the prompt cache, 0 for none
  MaxMap,     \* bound: entries of a token map that are remembered
  MaxTokens,  \* bound: tokens that a reusing branch may begin with
  Prompts,    \* the prompts of requests
  Bos,        \* the token that starts a text
  Blank,      \* the token of a blank line
  Gen,        \* the tokens that are sampled
  Kinds,      \* the kinds of requests
  Faults      \* what may happen, among AllFaults

(* cancel: a CANCEL arrives; erase: a SLOT_ERASE; compute: a batch fails.  *)
AllFaults == {"cancel", "erase", "compute"}
AllKinds  == {"completion", "reuse", "fresh"}

ASSUME SizesAssumption ==
  /\ NSlots \in Nat \ {0} /\ NCells \in Nat \ {0} /\ NBatch \in Nat \ {0}
  /\ NCtx \in 4 .. NCells /\ NKeep \in Nat /\ MaxSaved \in Nat /\ MaxMap \in Nat
  /\ MaxTokens \in Nat /\ Unified \in BOOLEAN /\ CtxShift \in BOOLEAN
ASSUME KindsAssumption == Kinds \subseteq AllKinds /\ Faults \subseteq AllFaults
ASSUME PromptsAssumption == \A p \in Prompts : p \in Seq(ToSet(p)) /\ Len(p) \in 1 .. NCtx - 1

VARIABLES
  cells,      \* cells[i]: position, token and sequences of cell i
  tokens,     \* tokens[s]: server_slot::prompt.tokens
  state,      \* state[s]: slot_state
  task,       \* task[s]: kind and prompt of the slot's task
  sampled,    \* sampled[s]: the token to be decoded next
  map,        \* map[s]: server_slot::token_map.tokens
  used,       \* slots whose token counters are not zero any more
  saved,      \* server_prompt_cache::states
  suspect,    \* ghost: slots whose memory a branch or a failure made untrue
  pc, turn,   \* where update_slots is, and the slot it looks at
  batched,    \* slot_batched: the kind of task this batch is for
  batch,      \* batch: tokens to decode
  at,         \* i: tokens of the batch already decoded
  nbatch      \* n_batch, halved while there is no room

updateVars == <<pc, turn, batched, batch, at, nbatch>>
vars == <<cells, tokens, state, task, sampled, map, used, saved, suspect, updateVars>>

Slots == 0 .. NSlots - 1
Cells == 0 .. NCells * (IF Unified THEN 1 ELSE NSlots) - 1
Tok   == {Bos, Blank} \cup Gen \cup UNION {ToSet(p) : p \in Prompts}

NoTok  == "no token"
Empty  == [pos |-> -1, tok |-> NoTok, seqs |-> {}]
NoTask == [kind |-> "none", prompt |-> <<>>]

Busy == {s \in Slots : state[s] # "idle"}
Idle == Slots \ Busy

TypeOK ==
  /\ cells \in [Cells -> {Empty} \cup [pos : 0 .. NCtx, tok : Tok, seqs : (SUBSET Slots) \ {{}}]]
  /\ tokens \in [Slots -> Seq(Tok)]
  /\ state \in [Slots -> {"idle", "started", "prompt", "done", "generating"}]
  /\ \A s \in Slots : state[s] = "idle" <=> task[s] = NoTask
  /\ \A s \in Busy : task[s].kind \in Kinds /\ task[s].prompt \in Prompts
  /\ \A s \in Slots : state[s] = "generating" => sampled[s] \in Gen
  /\ map \in [Slots -> Seq(Gen)] /\ used \subseteq Slots
  /\ Len(saved) <= MaxSaved /\ suspect \subseteq Slots
  /\ pc \in {"tasks", "shift", "sampled", "prompts", "decode", "aborted"}
  /\ turn \in Slots /\ at \in 0 .. Len(batch) /\ nbatch \in 1 .. NBatch

Init ==
  /\ cells = [i \in Cells |-> Empty]
  /\ tokens = [s \in Slots |-> <<>>]
  /\ state = [s \in Slots |-> "idle"]
  /\ task = [s \in Slots |-> NoTask]
  /\ sampled = [s \in Slots |-> NoTok]
  /\ map = [s \in Slots |-> <<>>]
  /\ used = {} /\ saved = <<>> /\ suspect = {}
  /\ pc = "tasks" /\ turn = 0 /\ batched = "none"
  /\ batch = <<>> /\ at = 0 /\ nbatch = NBatch
-----------------------------------------------------------------------------
(* The memory interface.                                                   *)

CellsOf(s) == IF Unified THEN Cells ELSE NCells * s .. NCells * (s + 1) - 1
Has(c, i, s) == i \in CellsOf(s) /\ s \in c[i].seqs
Mine(c, s) == {i \in Cells : Has(c, i, s)}
Free(c, s) == {i \in CellsOf(s) : c[i].seqs = {}}

PosMin(s) == IF Mine(cells, s) = {} THEN -1 ELSE Min({cells[i].pos : i \in Mine(cells, s)})
PosMax(s) == IF Mine(cells, s) = {} THEN -1 ELSE Max({cells[i].pos : i \in Mine(cells, s)})

SeqRmForAll(c, s, p0, p1) ==     \* mutant
  [i \in Cells |-> IF Has(c, i, s) /\ c[i].pos \in p0 .. p1 - 1 THEN Empty ELSE c[i]]

(* seq_rm(s, p0, p1) *)
SeqRm(c, s, p0, p1) ==
  [i \in Cells |->
     IF Has(c, i, s) /\ c[i].pos \in p0 .. p1 - 1
     THEN IF c[i].seqs = {s} THEN Empty ELSE [c[i] EXCEPT !.seqs = @ \ {s}]
     ELSE c[i]]

SeqClear(c, s) == SeqRm(c, s, 0, NCtx + 1)

(* seq_add(s, p0, p1, by): a cell that is shared moves for all of its      *)
(* sequences.                                                              *)
SeqShift(c, s, p0, p1, by) ==
  [i \in Cells |->
     IF Has(c, i, s) /\ c[i].pos \in p0 .. p1 - 1
     THEN [c[i] EXCEPT !.pos = @ + by] ELSE c[i]]

(* seq_cp(s, d, p0, p1) within the unified cache *)
SeqCp(c, s, d, p0, p1) ==
  [i \in Cells |->
     IF Has(c, i, s) /\ c[i].pos \in p0 .. p1 - 1
     THEN [c[i] EXCEPT !.seqs = @ \cup {d}] ELSE c[i]]

(* seq_cp(s, d, ...) from one stream to another: a full copy *)
CopyStream(c, s, d) ==
  [i \in Cells |->
     IF i \notin CellsOf(d) THEN c[i]
     ELSE LET j == i + NCells * (s - d)
          IN  IF j \in Mine(c, s) THEN [c[j] EXCEPT !.seqs = {d}] ELSE Empty]

(* The tokens of a batch go to free cells. *)
PutOne(c, e) ==
  [c EXCEPT ![Min(Free(c, e.slot))] = [pos |-> e.pos, tok |-> e.tok, seqs |-> {e.slot}]]
Put(c, entries) ==
  LET after[n \in 0 .. Len(entries)] == IF n = 0 THEN c ELSE PutOne(after[n - 1], entries[n])
  IN  after[Len(entries)]

HasRoom(entries) ==
  \A s \in Slots :
    Cardinality({j \in DOMAIN entries : entries[j].slot \in (IF Unified THEN Slots ELSE {s})})
      <= Cardinality(Free(cells, s))
-----------------------------------------------------------------------------
(* Tasks.                                                                  *)

(* get_common_prefix() *)
Common(a, b) == Cardinality({n \in DOMAIN a \cap DOMAIN b : SubSeq(a, 1, n) = SubSeq(b, 1, n)})

(* get_available_slot(): the idle slot with the longest common prefix, the *)
(* first of these; or, if there is none, the least recently used one,      *)
(* which may be any.  The similarity threshold of 0.1 is any common token  *)
(* for prompts shorter than ten.                                           *)
Similar(S, p) == {s \in S : Common(tokens[s], p) > 0}
Picked(S, p) ==
  IF Similar(S, p) = {} THEN S
  ELSE LET best == Max({Common(tokens[s], p) : s \in S})
       IN  {Min({s \in S : Common(tokens[s], p) = best})}

(* The slot's prompt is worth saving: it is not empty, and the slot was    *)
(* chosen as the oldest or would lose more than half of it.                *)
Saves(s, p, lru) ==
  /\ MaxSaved > 0 /\ tokens[s] # <<>>
  /\ lru \/ 2 * Common(tokens[s], p) < Len(tokens[s])

(* The n-th of a set of numbers, and what a sequence has at these places.  *)
Nth(S, n) == CHOOSE i \in S : Cardinality({k \in S : k < i}) = n - 1
Chosen(q, S) == [n \in 1 .. Cardinality(S) |-> q[Nth(S, n)]]

Content(s) ==
  Chosen([i \in Cells |-> [pos |-> cells[i].pos, tok |-> cells[i].tok]], Mine(cells, s))

(* prompt_save().  `sure` is a ghost: the tokens were those of the cells. *)
Alloc(s) ==
  IF \E j \in DOMAIN saved : IsPrefix(tokens[s], saved[j].tokens) THEN saved
  ELSE Append(Chosen(saved, {j \in DOMAIN saved : ~IsPrefix(saved[j].tokens, tokens[s])}),
              [tokens |-> tokens[s], data |-> Content(s), sure |-> s \notin suspect])

(* server_prompt_cache::load: the saved prompts that beat both the slot's  *)
(* own and every earlier one, in what is kept of them and in what they     *)
(* share with p; 0 if there is none.                                       *)
Better(a, b, p) ==
  /\ Common(b, p) * Len(a) > Common(a, p) * Len(b)
  /\ Common(b, p) > Common(a, p)

Best(s, p, list) ==
  LET among[n \in 0 .. Len(list)] ==
        LET old == among[n - 1]
        IN  IF n = 0 THEN 0
            ELSE IF /\ 4 * Common(list[n].tokens, p) >= Len(list[n].tokens)
                    /\ Better(IF old = 0 THEN tokens[s] ELSE list[old].tokens, list[n].tokens, p)
            THEN n ELSE old
  IN  among[Len(list)]

(* update(): the oldest go while there are too many. *)
Evict(list) == SubSeq(list, Max({1, Len(list) - MaxSaved + 1}), Len(list))

(* state_read_meta(): the saved cells need one contiguous free block. *)
Blocks(c, s, n) == {b \in CellsOf(s) : b .. b + n - 1 \subseteq Free(c, s)}

Restored(s, data) ==
  LET c == SeqClear(cells, s)
  IN  IF data = <<>> THEN cells
      ELSE IF Blocks(c, s, Len(data)) = {} THEN c
      ELSE LET low == Min(Blocks(c, s, Len(data)))
           IN  [i \in Cells |->
                  IF i \in low .. low + Len(data) - 1
                  THEN [pos |-> data[i - low + 1].pos, tok |-> data[i - low + 1].tok, seqs |-> {s}]
                  ELSE c[i]]

SwapKeepsTokens(s, p) ==     \* mutant
  LET list == Alloc(s)
      best == Best(s, p, list)
  IN  /\ cells' = IF best = 0 THEN cells ELSE Restored(s, list[best].data)
      /\ saved' = Evict(IF best = 0 THEN list ELSE RemoveAt(list, best))
      /\ UNCHANGED <<tokens, suspect>>

(* prompt_save() and prompt_load().  When the state cannot be read back    *)
(* the sequence is gone, and the slot's tokens stay as they were.          *)
Swap(s, p) ==
  LET list == Alloc(s)
      best == Best(s, p, list)
      fits == list[best].data = <<>>
                \/ Blocks(SeqClear(cells, s), s, Len(list[best].data)) # {}
  IN  IF best = 0 THEN saved' = Evict(list) /\ UNCHANGED <<cells, tokens, suspect>>
      ELSE /\ cells' = Restored(s, list[best].data)
           /\ IF fits THEN /\ tokens' = [tokens EXCEPT ![s] = list[best].tokens]
                           /\ saved' = Evict(RemoveAt(list, best))
                           /\ suspect' = IF list[best].sure THEN suspect \ {s}
                                         ELSE suspect \cup {s}
              ELSE saved' = Evict(list) /\ suspect' = suspect \cup {s} /\ UNCHANGED tokens

Starts(s, k, p) ==
  /\ pc = "tasks" /\ k \in Kinds
  /\ state' = [state EXCEPT ![s] = "started"]
  /\ task' = [task EXCEPT ![s] = [kind |-> k, prompt |-> p]]
  /\ UNCHANGED <<sampled, updateVars>>

Complete(s, p) ==
  /\ Starts(s, "completion", p)
  /\ s \in Picked(Idle, p)
  /\ IF Saves(s, p, Similar(Idle, p) = {}) THEN Swap(s, p)
     ELSE UNCHANGED <<cells, tokens, saved, suspect>>
  /\ UNCHANGED <<map, used>>

(* A request that names its slot takes it as it is. *)
CompleteOn(s, p) ==
  /\ Starts(s, "completion", p)
  /\ s \in Idle
  /\ UNCHANGED <<cells, tokens, saved, suspect, map, used>>

ParentReady(s, q, p) == q \in Idle \cap used /\ s \in Picked(Idle \ {q}, p)

(* launch_branch, REUSE_KV: the cells of positions [from, to) are shared,  *)
(* and the entries [from, to) of the parent's token map, if it has any,    *)
(* become the slot's tokens, before those of the prompt; what the slot's   *)
(* sequence held is not removed.  From stream to stream only a full copy   *)
(* is possible: seq_cp asserts it.                                         *)
FullCopy(from, to) == (from = 0 \/ from + 1 >= NCells) /\ to + 1 >= NCells
Copies(from, to)   == from < to /\ (Unified \/ FullCopy(from, to))
Inverted(q, from)  == map[q] # <<>> /\ from > Len(map[q])

BranchReuse(s, q, p, from, to) ==
  /\ Starts(s, "reuse", p)
  /\ Copies(from, to) /\ ~Inverted(q, from)
  /\ cells' = IF Unified THEN SeqCp(cells, q, s, from, to) ELSE CopyStream(cells, q, s)
  /\ tokens' = [tokens EXCEPT ![s] =
       (IF map[q] = <<>> THEN @ ELSE SubSeq(map[q], from + 1, Min({to, Len(map[q])}))) \o p]
  /\ Len(tokens'[s]) <= MaxTokens
  /\ used' = used \cup {s} /\ suspect' = suspect \cup {s}
  /\ UNCHANGED <<saved, map>>

Abort ==
  /\ pc' = "aborted"
  /\ UNCHANGED <<cells, tokens, state, task, sampled, map, used, saved, suspect,
                 turn, batched, batch, at, nbatch>>

(* The copy is refused, or the range begins after the token map and the    *)
(* copy of its entries throws, which nothing catches.                      *)
BranchAborts(s, q, p, from, to) ==
  /\ pc = "tasks" /\ "reuse" \in Kinds
  /\ from < to /\ (Copies(from, to) => Inverted(q, from))
  /\ Abort

(* launch_branch, FRESH_CONTEXT: the sequence is cleared, but the context  *)
(* taken from the parent's token map, tokenized again with a blank line    *)
(* and the prompt behind it, and then the prompt once more become the      *)
(* slot's tokens.                                                          *)
BranchFresh(s, q, p, from, to) ==
  /\ Starts(s, "fresh", p)
  /\ from <= to /\ to <= Len(map[q])
  /\ cells' = SeqClear(cells, s)
  /\ tokens' = [tokens EXCEPT ![s] = <<Bos>> \o SubSeq(map[q], from + 1, to) \o <<Blank>> \o p \o p]
  /\ map' = [map EXCEPT ![s] = <<>>]
  /\ used' = used \ {s} /\ suspect' = suspect \cup {s}
  /\ UNCHANGED saved

ReleaseKeepsTask(S) ==     \* mutant
  /\ state' = [s \in Slots |-> IF s \in S THEN "idle" ELSE state[s]]
  /\ UNCHANGED task

Release(S) ==
  /\ state' = [s \in Slots |-> IF s \in S THEN "idle" ELSE state[s]]
  /\ task' = [s \in Slots |-> IF s \in S THEN NoTask ELSE task[s]]

Cancel(s) ==
  /\ "cancel" \in Faults /\ pc = "tasks" /\ s \in Busy
  /\ Release({s})
  /\ UNCHANGED <<cells, tokens, sampled, map, used, saved, suspect, updateVars>>

Erase(s) ==
  /\ "erase" \in Faults /\ pc = "tasks" /\ s \in Idle
  /\ cells' = SeqClear(cells, s)
  /\ tokens' = [tokens EXCEPT ![s] = <<>>]
  /\ suspect' = suspect \ {s}
  /\ UNCHANGED <<state, task, sampled, map, used, saved, updateVars>>
-----------------------------------------------------------------------------
(* update_slots.                                                           *)

GoTo(here, there) ==     \* the next slot, or the next part of update_slots
  IF turn < NSlots - 1 THEN pc' = here /\ turn' = turn + 1
  ELSE pc' = there /\ turn' = 0

StartUpdate ==
  /\ pc = "tasks" /\ Busy # {}
  /\ pc' = "shift" /\ turn' = 0 /\ batched' = "none"
  /\ batch' = <<>> /\ at' = 0 /\ nbatch' = NBatch
  /\ UNCHANGED <<cells, tokens, state, task, sampled, map, used, saved, suspect>>

(* A slot whose tokens fill its context loses the first half of those      *)
(* after n_keep, if the context may be shifted; otherwise it is refused.   *)
Full(s) == state[s] # "idle" /\ Len(tokens[s]) + 1 >= NCtx
Keep(s) == Min({NCtx - 4, NKeep})
Discard(s) == (Len(tokens[s]) - Keep(s)) \div 2

ShiftSlot ==
  /\ pc = "shift"
  /\ LET s == turn  k == Keep(s)  d == Discard(s)  n == Len(tokens[s])
     IN  CASE Full(s) /\ CtxShift ->
                /\ cells' = SeqShift(SeqRm(cells, s, k, k + d), s, k + d, n, -d)
                /\ tokens' = [tokens EXCEPT ![s] = SubSeq(@, 1, k) \o SubSeq(@, k + d + 1, n)]
                /\ UNCHANGED <<state, task>>
           [] Full(s) /\ ~CtxShift -> Release({s}) /\ UNCHANGED <<cells, tokens>>
           [] OTHER -> UNCHANGED <<cells, tokens, state, task>>
  /\ GoTo("shift", "sampled")
  /\ UNCHANGED <<sampled, map, used, saved, suspect, batched, batch, at, nbatch>>

(* The first slot in the batch decides which kind may join it. *)
Type(k)  == IF k = "completion" THEN k ELSE "branch"
Joins(s) == batched \in {"none", Type(task[s].kind)}

Entry(s, p, t, out) == [slot |-> s, pos |-> p, tok |-> t, out |-> out]

AddSampled ==
  /\ pc = "sampled"
  /\ IF state[turn] = "generating" /\ Joins(turn)
     THEN /\ batched' = Type(task[turn].kind)
          /\ batch' = Append(batch, Entry(turn, Len(tokens[turn]), sampled[turn], TRUE))
          /\ tokens' = [tokens EXCEPT ![turn] = Append(@, sampled[turn])]
     ELSE UNCHANGED <<batched, batch, tokens>>
  /\ GoTo("sampled", "prompts")
  /\ UNCHANGED <<cells, state, task, sampled, map, used, saved, suspect, at, nbatch>>

(* n_past: the common prefix, unless the cache no longer begins early      *)
(* enough for it; and one token of the prompt is always computed.          *)
Lost(s, n) == n \in 1 .. Len(tokens[s]) - 1 /\ PosMin(s) > Max({0, n - 1})
Past(s) ==
  LET n == Common(tokens[s], task[s].prompt)
      m == IF Lost(s, n) THEN 0 ELSE n
  IN  IF m = Len(task[s].prompt) THEN m - 1 ELSE m

(* pos_min = -1 for a prefix that is only partly reused: GGML_ABORT. *)
PromptAborts(s) ==
  /\ state[s] = "started"
  /\ Common(tokens[s], task[s].prompt) \in 1 .. Len(tokens[s]) - 1
  /\ Mine(cells, s) = {}

Waits(s) == state[s] \in {"started", "prompt"} /\ Joins(s)

(* What is beyond n_past is removed from the sequence, and as much of the  *)
(* prompt as the batch has room for follows.                               *)
AddPrompt ==
  /\ pc = "prompts" /\ Waits(turn) /\ ~PromptAborts(turn)
  /\ LET s == turn
         prompt == task[s].prompt
         past == IF state[s] = "started" THEN Past(s) ELSE Len(tokens[s])
         end == Min({Len(prompt), past + Max({0, NBatch - Len(batch)})})
         full == Len(batch) + end - past >= NBatch
     IN  /\ cells' = SeqRm(cells, s, past, NCtx + 1)
         /\ tokens' = [tokens EXCEPT ![s] = SubSeq(@, 1, past) \o SubSeq(prompt, past + 1, end)]
         /\ batch' = batch \o [j \in 1 .. end - past |->
              Entry(s, past + j - 1, prompt[past + j], past + j = Len(prompt))]
         /\ state' = [state EXCEPT ![s] = IF end = Len(prompt) THEN "done" ELSE "prompt"]
         /\ used' = IF end > past THEN used \cup {s} ELSE used
         /\ suspect' = IF past = 0 THEN suspect \ {s} ELSE suspect
         /\ IF full THEN pc' = "decode" /\ turn' = 0 ELSE GoTo("prompts", "decode")
  /\ batched' = Type(task[turn].kind)
  /\ UNCHANGED <<task, sampled, map, saved, at, nbatch>>

SkipPrompt ==
  /\ pc = "prompts" /\ ~Waits(turn)
  /\ IF Len(batch) >= NBatch /\ (turn \in Idle \/ Joins(turn))
     THEN pc' = "decode" /\ turn' = 0 ELSE GoTo("prompts", "decode")
  /\ UNCHANGED <<cells, tokens, state, task, sampled, map, used, saved, suspect,
                 batched, batch, at, nbatch>>

AbortPrompt == pc = "prompts" /\ Waits(turn) /\ PromptAborts(turn) /\ Abort

(* The batch is decoded in views of n_batch tokens. *)
View == SubSeq(batch, at + 1, Min({at + nbatch, Len(batch)}))

(* llama_batch_allocr::init: a sequence must go on where the cache ends. *)
Consecutive ==
  \A s \in Slots :
    LET P == {View[j].pos : j \in {i \in DOMAIN View : View[i].slot = s}}
    IN  P # {} /\ PosMax(s) >= 0 => Min(P) = PosMax(s) + 1

Decoding == pc = "decode" /\ at < Len(batch)

FinishUpdate ==
  /\ pc = "decode" /\ at = Len(batch)
  /\ pc' = "tasks" /\ turn' = 0 /\ batched' = "none" /\ batch' = <<>> /\ at' = 0
  /\ UNCHANGED <<cells, tokens, state, task, sampled, map, used, saved, suspect, nbatch>>

(* process_token: without context shift a slot stops before it is full. *)
MustStop(s) == ~CtxShift /\ Len(tokens[s]) + 1 >= NCtx

Remembered(s, t) == IF Len(map[s]) < MaxMap THEN Append(map[s], t) ELSE map[s]

(* The view is computed; slots whose last token is in it sample a token t  *)
(* and go on, or stop.                                                     *)
Decode ==
  /\ Decoding /\ Consecutive /\ HasRoom(View)
  /\ cells' = Put(cells, View)
  /\ LET S == {View[j].slot : j \in {i \in DOMAIN View : View[i].out}}
     IN  \E t \in [S -> Gen], stop \in SUBSET S :
           /\ \A s \in S : MustStop(s) => s \in stop
           /\ sampled' = [s \in Slots |-> IF s \in S \ stop THEN t[s] ELSE
                                           IF s \in S THEN NoTok ELSE sampled[s]]
           /\ map' = [s \in Slots |-> IF s \in S THEN Remembered(s, t[s]) ELSE map[s]]
           /\ state' = [s \in Slots |-> IF s \in stop THEN "idle" ELSE
                                         IF s \in S THEN "generating" ELSE state[s]]
           /\ task' = [s \in Slots |-> IF s \in stop THEN NoTask ELSE task[s]]
  /\ at' = at + Len(View) /\ nbatch' = NBatch
  /\ UNCHANGED <<tokens, used, saved, suspect, pc, turn, batched, batch>>

(* Every processing slot gets an error; the rest of the batch is dropped. *)
GiveUp ==
  /\ Release(Busy)
  /\ pc' = "tasks" /\ turn' = 0 /\ batched' = "none" /\ batch' = <<>>
  /\ at' = 0 /\ nbatch' = NBatch
  /\ suspect' = suspect \cup Busy
  /\ UNCHANGED <<tokens, sampled, map, used, saved>>

Invalid == Decoding /\ ~Consecutive /\ GiveUp /\ UNCHANGED cells

ComputeFails ==
  /\ "compute" \in Faults
  /\ Decoding /\ Consecutive /\ HasRoom(View)
  /\ \E n \in 0 .. Len(View) - 1 : cells' = Put(cells, SubSeq(View, 1, n))
  /\ GiveUp

(* No room: the first idle slot that remembers tokens is purged, or the    *)
(* view is halved, until one token finds no cell.                          *)
NoRoom == Decoding /\ Consecutive /\ ~HasRoom(View)
Purgeable == {s \in Idle : Unified /\ tokens[s] # <<>>}

PurgeKeepsTokens ==     \* mutant
  /\ NoRoom /\ nbatch > 1 /\ Purgeable # {}
  /\ cells' = SeqClear(cells, Min(Purgeable))
  /\ UNCHANGED <<tokens, state, task, sampled, map, used, saved, suspect, updateVars>>

PurgeKeepsFirst ==     \* mutant
  /\ NoRoom /\ nbatch > 1 /\ Purgeable # {}
  /\ cells' = SeqRm(cells, Min(Purgeable), 1, NCtx + 1)
  /\ tokens' = [tokens EXCEPT ![Min(Purgeable)] = <<>>]
  /\ suspect' = suspect \ {Min(Purgeable)}
  /\ UNCHANGED <<state, task, sampled, map, used, saved, updateVars>>

Purge ==
  /\ NoRoom /\ nbatch > 1 /\ Purgeable # {}
  /\ cells' = SeqClear(cells, Min(Purgeable))
  /\ tokens' = [tokens EXCEPT ![Min(Purgeable)] = <<>>]
  /\ suspect' = suspect \ {Min(Purgeable)}
  /\ UNCHANGED <<state, task, sampled, map, used, saved, updateVars>>

Halve ==
  /\ NoRoom /\ nbatch > 1 /\ Purgeable = {}
  /\ nbatch' = nbatch \div 2
  /\ UNCHANGED <<cells, tokens, state, task, sampled, map, used, saved, suspect, pc, turn,
                 batched, batch, at>>

OutOfRoom == NoRoom /\ nbatch = 1 /\ GiveUp /\ UNCHANGED cells

Tasks ==
  /\ pc = "tasks"
  /\ \/ \E s \in Slots, p \in Prompts : Complete(s, p) \/ CompleteOn(s, p)
     \/ \E s, q \in Slots, p \in Prompts :
          /\ ParentReady(s, q, p)
          /\ \E from, to \in 0 .. NCtx :
               \/ BranchReuse(s, q, p, from, to)
               \/ BranchAborts(s, q, p, from, to)
               \/ BranchFresh(s, q, p, from, to)
     \/ \E s \in Slots : Cancel(s) \/ Erase(s)

Next ==
  \/ Tasks
  \/ StartUpdate \/ ShiftSlot \/ AddSampled \/ AddPrompt \/ SkipPrompt \/ AbortPrompt
  \/ Decode \/ Invalid \/ ComputeFails \/ Purge \/ Halve \/ OutOfRoom \/ FinishUpdate

Spec == Init /\ [][Next]_vars
-----------------------------------------------------------------------------
Held(s)    == {<<cells[i].pos, cells[i].tok>> : i \in Mine(cells, s)}
Pending(s) == {j \in at + 1 .. Len(batch) : batch[j].slot = s}

(* What a slot remembers is what its sequence holds, token by token, with  *)
(* what is about to be decoded: every token is computed after exactly the  *)
(* tokens that precede it in its request, whatever is shifted, purged,     *)
(* saved, restored, cancelled, erased or retried, and whatever goes wrong  *)
(* for other slots.  Excepted, until their prompt is computed from its     *)
(* start again, are the slots in `suspect`: branches, which are launched   *)
(* with tokens that are not computed, and slots whose own batch or         *)
(* restored prompt failed, or was saved by a slot like that.               *)
Matches(s) ==
  /\ Cardinality(Mine(cells, s)) + Cardinality(Pending(s)) = Len(tokens[s])
  /\ Held(s) \cup {<<batch[j].pos, batch[j].tok>> : j \in Pending(s)}
       = {<<j - 1, tokens[s][j]>> : j \in DOMAIN tokens[s]}

KVMatchesTokens ==
  pc # "aborted" => \A s \in Slots \ suspect : Matches(s)

(* A step that concerns other slots leaves an idle slot's sequence alone,  *)
(* shared cells or not: only what also updates its tokens may change it.   *)
IdleUntouched ==
  [][\A s \in Slots : state[s] = "idle" /\ state'[s] = "idle" /\ tokens'[s] = tokens[s]
       => Held(s)' = Held(s)]_vars

(* An idle slot that remembers no token holds no cell: purging the slots   *)
(* that remember some gives back every cell, whatever failed before.       *)
NoLeak == \A s \in Idle : tokens[s] = <<>> => Mine(cells, s) = {}

(* Neither GGML_ABORT of the prompt's start nor the assertion of seq_cp    *)
(* is reached.                                                             *)
NeverAborts == pc # "aborted"

(* A slot with a task is not refused for a full context at the head of     *)
(* update_slots, since generation stops before that.                       *)
NeverRefused == [][pc = "shift" => state' = state]_vars
=============================================================================

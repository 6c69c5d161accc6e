------------------------------- MODULE KVCache -------------------------------
(***************************************************************************)
(* The KV cache of a context: class llama_kv_cache                         *)
(* (backend/src/llama-kv-cache.cpp) and the part of llama_context::decode  *)
(* that drives it (backend/src/llama-context.cpp).                         *)
(*                                                                         *)
(* A stream is an array of cells with a search head.  With a unified cache *)
(* all sequences share stream 0, and a cell may belong to several of them; *)
(* otherwise every sequence has a stream of its own.  The counts behind    *)
(* seq_pos_min / seq_pos_max are not repeated here: KVCells proves that    *)
(* they are the positions the cells hold, so they are read off the cells.  *)
(*                                                                         *)
(* Beside the metadata the module tracks what the buffers hold: `tok` in a *)
(* cell is the token the metadata stands for, `data` is the content of the *)
(* K and V rows.  seq_cp between streams moves the metadata at once and    *)
(* the rows at the next update, and a failed ubatch leaves garbage rows.   *)
(***************************************************************************)
EXTENDS Integers, FiniteSets, FiniteSetsExt, Sequences, SequencesExt

CONSTANTS
  NSeq,       \* n_seq_max
  Unified,    \* kv_unified
  Size,       \* cells per stream
  NSwa,       \* n_swa; 0: no sliding window, nothing is ever masked
  MaxPos,     \* bound: positions stay in 0 .. MaxPos
  MaxBatch,   \* bound: tokens in a batch
  Coupled,    \* whether a batch may assign a token to several sequences
  Toks,       \* token contents, as far as they need telling apart
  Calls       \* the calls the environment makes, among AllCalls

ASSUME SizesAssumption ==
  /\ NSeq \in Nat \ {0} /\ Size \in Nat \ {0}
  /\ NSwa \in Nat /\ MaxPos \in Nat /\ MaxBatch \in Nat \ {0}
ASSUME FlagsAssumption == Unified \in BOOLEAN /\ Coupled \in BOOLEAN

AllCalls == {"clear", "rm", "rm_any", "cp", "keep", "add", "div", "decode"}
ASSUME CallsAssumption == Calls \subseteq AllCalls

VARIABLES
  cell,       \* cell[st][i]: the metadata of cell i of stream st (v_cells)
  head,       \* head[st]: where the search for free cells starts (v_heads)
  copies,     \* pending stream copies, oldest first (sc_info)
  data,       \* data[st][i]: content of the K and V rows of the cell
  phase,      \* where decode is: "idle", "place", "restore" or "compute"
  batch,      \* the ubatches of the running decode
  slots,      \* the slots found for them so far, one per ubatch
  undo,       \* what prepare has to put back, last ubatch first (states)
  ret,        \* how the last call ended if it was decode, else None
  before      \* ghost: cells, heads and batch when that decode started preparing

store  == <<cell, head, copies, data>>
decode == <<phase, batch, slots, undo, ret, before>>
vars   == <<cell, head, copies, data, phase, batch, slots, undo, ret, before>>

Seqs    == 0 .. NSeq - 1
Streams == IF Unified THEN {0} ELSE Seqs
Idx     == 0 .. Size - 1
None    == "none"
Garbage == "garbage"
NoTok   == "no token"

StreamOf(s) == IF Unified THEN 0 ELSE s

NoBefore == [cell |-> <<>>, head |-> <<>>, batch |-> <<>>]

EmptyCell == [pos |-> -1, seq |-> {}, shift |-> 0, tok |-> NoTok]

TypeOK ==
  /\ cell \in [Streams -> [Idx ->
       [pos : -1 .. MaxPos, seq : SUBSET Seqs,
        shift : -MaxPos .. MaxPos, tok : Toks \cup {NoTok}]]]
  /\ \A st \in Streams, i \in Idx :
       /\ cell[st][i].seq = {} <=> cell[st][i].pos = -1
       /\ cell[st][i].pos = -1 => cell[st][i] = EmptyCell
  /\ head \in [Streams -> 0 .. Size]
  /\ copies \in Seq([src : Streams, dst : Streams])
  /\ data \in [Streams -> [Idx -> Toks \cup {NoTok, Garbage}]]
  /\ phase \in {"idle", "place", "restore", "compute"}
  /\ ret \in {None, "ok", "no slot", "failed"}
  /\ phase = "idle" => batch = <<>> /\ slots = <<>> /\ undo = <<>>
  /\ Len(slots) <= Len(batch) /\ Len(undo) <= Len(slots)

Init ==
  /\ cell = [st \in Streams |-> [i \in Idx |-> EmptyCell]]
  /\ head = [st \in Streams |-> 0]
  /\ copies = <<>>
  /\ data = [st \in Streams |-> [i \in Idx |-> NoTok]]
  /\ phase = "idle" /\ batch = <<>> /\ slots = <<>> /\ undo = <<>>
  /\ ret = None /\ before = NoBefore
-----------------------------------------------------------------------------
(* The cells of one stream, c \in [Idx -> cell].                           *)
Held(c, s)   == {c[i].pos : i \in {j \in Idx : s \in c[j].seq}}
PosMax(c, s) == Max(Held(c, s) \cup {-1})
Used(c)      == {i \in Idx : c[i].pos # -1}

(* A range [p0, p1) as the arguments give it: negative means unbounded. *)
Lo(p0) == IF p0 < 0 THEN 0 ELSE p0
Hi(p1) == IF p1 < 0 THEN MaxPos + 1 ELSE p1
Range0(p0, p1) == Lo(p0) .. Hi(p1) - 1

(* Mutant: the position of an emptied cell stays. *)
WithoutKeepsPos(x, S) == [x EXCEPT !.seq = @ \ S]

(* The cell without the sequences S; the last one to go empties it. *)
Without(x, S) ==
  IF x.seq \subseteq S THEN EmptyCell ELSE [x EXCEPT !.seq = @ \ S]

(* If cells were freed before the head, the next search starts there. *)
HeadAt(freed, h) == IF freed # {} /\ Min(freed) < h THEN Min(freed) ELSE h

(* The cells of sequence s in a range, and what `seq_rm` makes of c. *)
Hits(c, s, R)     == {i \in Idx : s \in c[i].seq /\ c[i].pos \in R}
RmSeq(c, s, R)    == [i \in Idx |-> IF i \in Hits(c, s, R)
                                    THEN Without(c[i], {s}) ELSE c[i]]
Freed(c, d)       == Used(c) \ Used(d)

(* The calls of the memory interface come between decodes, never inside    *)
(* one: a context is used by one thread.                                   *)
Call ==
  /\ phase = "idle"
  /\ ret' = None /\ before' = NoBefore
  /\ UNCHANGED <<phase, batch, slots, undo>>

(* clear(data): metadata of every stream; pending copies stay queued. *)
Clear(wipe) ==
  /\ cell' = [st \in Streams |-> [i \in Idx |-> EmptyCell]]
  /\ head' = [st \in Streams |-> 0]
  /\ data' = IF wipe THEN [st \in Streams |-> [i \in Idx |-> NoTok]] ELSE data
  /\ Call
  /\ UNCHANGED copies

(* seq_rm(s, p0, p1) for one sequence. *)
SeqRm(s, p0, p1) ==
  LET st == StreamOf(s)
      c  == RmSeq(cell[st], s, Range0(p0, p1))
  IN  /\ cell' = [cell EXCEPT ![st] = c]
      /\ head' = [head EXCEPT ![st] = HeadAt(Freed(cell[st], c), @)]
      /\ Call
      /\ UNCHANGED <<copies, data>>

(* seq_rm(-1, p0, p1): whatever sequences the cells belong to. *)
SeqRmAny(p0, p1) ==
  LET R == Range0(p0, p1)
      c(st) == [i \in Idx |-> IF cell[st][i].pos \in R
                              THEN EmptyCell ELSE cell[st][i]]
  IN  /\ cell' = [st \in Streams |-> c(st)]
      /\ head' = [st \in Streams |-> HeadAt(Freed(cell[st], c(st)), head[st])]
      /\ Call
      /\ UNCHANGED <<copies, data>>

(* seq_cp within a stream: the cells of src in the range get dst too.      *)
(* The caller has made sure that none of them holds dst already.           *)
SeqCpShare(src, dst, p0, p1) ==
  LET st == StreamOf(src)
      H  == Hits(cell[st], src, Range0(p0, p1))
  IN  /\ st = StreamOf(dst) /\ src # dst
      /\ \A i \in H : dst \notin cell[st][i].seq
      /\ cell' = [cell EXCEPT ![st] = [i \in Idx |->
                    IF i \in H THEN [cell[st][i] EXCEPT !.seq = @ \cup {dst}]
                    ELSE cell[st][i]]]
      /\ Call
      /\ UNCHANGED <<head, copies, data>>

(* seq_cp between streams: only for a full range, else the process aborts. *)
(* The destination is reset and takes over the cells of src, at the same   *)
(* indices; the rows follow with the next update.                          *)
FullRange(p0, p1) ==
  /\ ~(p0 > 0 /\ p0 + 1 < Size)
  /\ ~(p1 > 0 /\ p1 + 1 < Size)

SeqCpStream(src, dst, p0, p1) ==
  LET s0 == StreamOf(src)
      s1 == StreamOf(dst)
  IN  /\ s0 # s1
      /\ FullRange(p0, p1)
      /\ Len(copies) < 2                                  \* bound
      /\ copies' = Append(copies, [src |-> s0, dst |-> s1])
      /\ cell' = [cell EXCEPT ![s1] = [i \in Idx |->
                    IF src \in cell[s0][i].seq
                    THEN [cell[s0][i] EXCEPT !.seq = {dst}] ELSE EmptyCell]]
      /\ head' = [head EXCEPT ![s1] = head[s0]]
      /\ Call
      /\ UNCHANGED data

(* seq_keep(s): every other sequence leaves the stream of s. *)
SeqKeep(s) ==
  LET st == StreamOf(s)
      c  == [i \in Idx |-> Without(cell[st][i], Seqs \ {s})]
  IN  /\ cell' = [cell EXCEPT ![st] = c]
      /\ head' = [head EXCEPT ![st] = HeadAt(Freed(cell[st], c), @)]
      /\ Call
      /\ UNCHANGED <<copies, data>>

(* seq_add(s, p0, p1, d): the cells move, for every sequence they hold; a  *)
(* cell moved below zero is emptied.                                       *)
SeqAdd(s, p0, p1, d) ==
  LET st == StreamOf(s)
      H  == Hits(cell[st], s, Range0(p0, p1))
      moved(x) == IF x.pos + d < 0 THEN EmptyCell
                  ELSE [x EXCEPT !.pos = @ + d, !.shift = @ + d]
      c  == [i \in Idx |-> IF i \in H THEN moved(cell[st][i]) ELSE cell[st][i]]
  IN  /\ d # 0
      /\ \A i \in H : /\ cell[st][i].pos + d <= MaxPos    \* bound
                      /\ cell[st][i].shift + d \in -MaxPos .. MaxPos
      /\ cell' = [cell EXCEPT ![st] = c]
      /\ head' = IF Lo(p0) = Hi(p1) THEN head
                 ELSE [head EXCEPT ![st] = IF Freed(cell[st], c) = {} THEN 0
                                           ELSE Min(Freed(cell[st], c))]
      /\ Call
      /\ UNCHANGED <<copies, data>>

(* seq_div(s, p0, p1, d): positions divided; the shift accumulates the old *)
(* position minus the new one.                                             *)
SeqDiv(s, p0, p1, d) ==
  LET st == StreamOf(s)
      H  == Hits(cell[st], s, Range0(p0, p1))
      divided(x) == [x EXCEPT !.pos = @ \div d,
                              !.shift = @ + (x.pos - (x.pos \div d))]
  IN  /\ d > 1
      /\ \A i \in H : divided(cell[st][i]).shift <= MaxPos    \* bound
      /\ cell' = [cell EXCEPT ![st] = [i \in Idx |->
                    IF i \in H THEN divided(@[i]) ELSE @[i]]]
      /\ Call
      /\ UNCHANGED <<head, copies, data>>
-----------------------------------------------------------------------------
(* A token of a batch: its position, the sequences it is assigned to (one, *)
(* unless coupled) and its content.  A ubatch is a sequence of tokens.     *)

(* is_masked_swa(p0, p1) for a standard window. *)
Masked(p0, p1) == NSwa > 0 /\ p1 - p0 >= NSwa

(* Mutant: a shared cell is taken as soon as one sharer no longer sees it. *)
UsableIfOneMasked(c, i) ==
  \/ c[i].pos = -1
  \/ \E s \in c[i].seq : Masked(c[i].pos, PosMax(c, s) + 1)

(* find_slot may use an empty cell, or one that a single sequence owns and *)
(* that this sequence's next token no longer sees.                         *)
Usable(c, i) ==
  \/ c[i].pos = -1
  \/ \E s \in Seqs : c[i].seq = {s} /\ Masked(c[i].pos, PosMax(c, s) + 1)

(* find_slot for the tokens K of a ubatch, in one stream: they take the    *)
(* first usable cells, in order, of a search that starts at the head (at   *)
(* cell 0 when enough cells before the head are unused) and wraps once.    *)
(* There is one such slot, or none if there are not enough usable cells.   *)
FindSlot(c, h, K) ==
  LET free     == {i \in Idx : Usable(c, i)}
      h0       == IF h > Cardinality(Used(c)) + 2 * Cardinality(K) THEN 0 ELSE h
      tried(i) == (i - h0) % Size
  IN  {slot \in [K -> free] :
         /\ \A k, l \in K : k < l => tried(slot[k]) < tried(slot[l])
         /\ \A k \in K, i \in free \ Range(slot) : tried(slot[k]) < tried(i)}

(* The tokens of u in the stream st, by their index in u. *)
TokensOn(st, u) == {k \in DOMAIN u : \E s \in u[k].seqs : StreamOf(s) = st}
StreamsOf(u)    == {st \in Streams : TokensOn(st, u) # {}}

(* The token that took cell i in a slot, and the cells after all have. *)
TokenAt(slot, i) == CHOOSE k \in DOMAIN slot : slot[k] = i
Placed(c, slot, u) ==
  [i \in Idx |-> IF i \in Range(slot)
     THEN [pos   |-> u[TokenAt(slot, i)].pos, seq |-> u[TokenAt(slot, i)].seqs,
           shift |-> 0,                       tok |-> u[TokenAt(slot, i)].tok]
     ELSE c[i]]

(* The largest position of sequence s that a slot overwrites. *)
MaxRm(c, slot, s) ==
  Max({c[i].pos : i \in {j \in Range(slot) : c[j].seq = {s}}} \cup {-1})

(* Mutant: the overwritten sequences are not purged. *)
ApplyWithoutPurge(c, slot, u) == Placed(c, slot, u)

(* apply_ubatch on one stream: the tokens take the cells of the slot; then *)
(* every position at or below the largest one overwritten is purged from   *)
(* the sequence that owned it.                                             *)
Apply(c, slot, u) ==
  LET purged(x) == {s \in x.seq : x.pos <= MaxRm(c, slot, s)}
  IN  [i \in Idx |-> Without(Placed(c, slot, u)[i], purged(Placed(c, slot, u)[i]))]

(* A run of n tokens appended to the sequences G: what the batch check     *)
(* requires, positions that follow the last one in the memory.  Sequences  *)
(* may share tokens only if they have not diverged.                        *)
SeqSets == IF Coupled THEN (SUBSET Seqs) \ {{}} ELSE {{s} : s \in Seqs}

LastPos(s) == PosMax(cell[StreamOf(s)], s)

Run(G, n, x) ==
  [k \in 1 .. n |-> [pos |-> LastPos(Min(G)) + k, seqs |-> G, tok |-> x]]

Appendable(G, n) ==
  /\ \A s, t \in G : Held(cell[StreamOf(s)], s) = Held(cell[StreamOf(t)], t)
  /\ LastPos(Min(G)) + n <= MaxPos                       \* bound

(* The ubatches a batch of two runs is split into (the second may be       *)
(* empty), n_ubatch being left open.  Unified: any cut of the token list   *)
(* in two.  Otherwise as many tokens of each sequence while both have some,*)
(* if the ids are consecutive, then the rest.                              *)
Cuts(b) == {<<b>>} \cup {<<SubSeq(b, 1, k), SubSeq(b, k + 1, Len(b))>> :
                           k \in 1 .. Len(b) - 1}
Equal(b1, b2) ==
  LET m    == Min({Len(b1), Len(b2)})
      both == SubSeq(b1, 1, m) \o SubSeq(b2, 1, m)
      rest == SubSeq(b1, m + 1, Len(b1)) \o SubSeq(b2, m + 1, Len(b2))
  IN  IF rest = <<>> THEN <<both>> ELSE <<both, rest>>
Splits(b1, b2) ==
  IF Unified \/ b2 = <<>> THEN Cuts(b1 \o b2)
  ELSE IF Min(b2[1].seqs) = Min(b1[1].seqs) + 1 THEN {Equal(b1, b2)}
  ELSE {<<b1, b2>>}

(* Mutant: source and destination of a pending copy are swapped. *)
CopyRowsSwapped(o, cp) == [o EXCEPT ![cp.src] = o[cp.dst]]

(* One pending stream copy, carried out: o[st] is the stream whose rows    *)
(* the stream st has got.                                                  *)
CopyRows(o, cp) == [o EXCEPT ![cp.dst] = o[cp.src]]

(* Where the rows of every stream are from after the first k copies. *)
Origins(cs) ==
  {o \in [0 .. Len(cs) -> [Streams -> Streams]] :
     /\ o[0] = [st \in Streams |-> st]
     /\ \A k \in 1 .. Len(cs) : o[k] = CopyRows(o[k - 1], cs[k])}

(* The rows when all pending copies are carried out. *)
Copied(o) == [st \in Streams |-> data[o[Len(copies)][st]]]

(* The K-shift, which always succeeds here, leaves no pending shift. *)
Unshifted(c) == [st \in Streams |-> [i \in Idx |-> [c[st][i] EXCEPT !.shift = 0]]]

(* llama_context::decode, first part: the pending updates are carried out  *)
(* and prepare starts on the ubatches.                                     *)
DecodeStart(ubatches) ==
  /\ phase = "idle"
  /\ cell' = Unshifted(cell)
  /\ \E o \in Origins(copies) : data' = Copied(o)
  /\ copies' = <<>>
  /\ phase' = "place" /\ batch' = ubatches
  /\ slots' = <<>> /\ undo' = <<>> /\ ret' = None
  /\ before' = [cell |-> cell', head |-> head, batch |-> ubatches]
  /\ UNCHANGED head

(* Cells and heads after the ubatch u took the slot. *)
Applied(u, slot) ==
  [st \in Streams |-> IF st \in StreamsOf(u)
                      THEN Apply(cell[st], slot[st], u) ELSE cell[st]]
HeadsAfter(u, slot) ==
  [st \in Streams |-> IF st \in StreamsOf(u)
                      THEN slot[st][Max(TokensOn(st, u))] + 1 ELSE head[st]]

Emplace(u, slot) == cell' = Applied(u, slot) /\ head' = HeadsAfter(u, slot)

(* The slot of a ubatch: one for each of its streams. *)
SlotsFor(u) ==
  LET found(st) == FindSlot(cell[st], head[st], TokensOn(st, u))
  IN  {slot \in [StreamsOf(u) -> UNION {found(st) : st \in StreamsOf(u)}] :
         \A st \in StreamsOf(u) : slot[st] \in found(st)}

(* prepare, forward: find a slot for the next ubatch, remember what its    *)
(* cells and the heads are, and emplace it so that the next one sees it.   *)
PlaceUbatch ==
  LET u == batch[Len(slots) + 1]
  IN  /\ phase = "place"
      /\ \E slot \in SlotsFor(u) :
           /\ Emplace(u, slot)
           /\ slots' = Append(slots, slot)
           /\ undo' = <<[slot |-> slot, cell |-> cell, head |-> head]>> \o undo
      /\ phase' = IF Len(slots') = Len(batch) THEN "restore" ELSE "place"
      /\ UNCHANGED <<copies, data, batch, ret, before>>

(* prepare gives up; what was emplaced is put back before it returns.      *)
(* Mutant: it returns at once.                                             *)
PlaceFailsAtOnce ==
  /\ phase = "place"
  /\ SlotsFor(batch[Len(slots) + 1]) = {}
  /\ phase' = "idle" /\ ret' = "no slot"
  /\ batch' = <<>> /\ slots' = <<>> /\ undo' = <<>>
  /\ UNCHANGED <<store, before>>

PlaceFails ==
  /\ phase = "place"
  /\ SlotsFor(batch[Len(slots) + 1]) = {}
  /\ phase' = IF undo = <<>> THEN "idle" ELSE "restore"
  /\ ret' = "no slot"
  /\ batch' = IF undo = <<>> THEN <<>> ELSE batch
  /\ slots' = IF undo = <<>> THEN <<>> ELSE slots
  /\ UNCHANGED <<store, undo, before>>

(* The heads after a restore step: v_heads_old holds the heads of all      *)
(* streams, but is read at the place that a stream has in the slot.        *)
HeadsRestored(r) ==
  [st \in Streams |->
     IF st \in DOMAIN r.slot THEN r.head[Cardinality({x \in DOMAIN r.slot : x < st})]
     ELSE head[st]]

(* prepare, backward: only the cells of the ubatch's slot are put back     *)
(* (without their shifts, which cp does not copy), and all its heads.      *)
RestoreUbatch ==
  LET r     == Head(undo)
      done  == Len(undo) = 1
      found == ret # "no slot"
  IN  /\ phase = "restore"
      /\ cell' = [st \in Streams |-> [i \in Idx |->
                    IF st \in DOMAIN r.slot /\ i \in Range(r.slot[st])
                    THEN [r.cell[st][i] EXCEPT !.shift = 0] ELSE cell[st][i]]]
      /\ head' = HeadsRestored(r)
      /\ undo' = Tail(undo)
      /\ phase' = IF ~done THEN "restore" ELSE IF found THEN "compute" ELSE "idle"
      /\ batch' = IF done /\ ~found THEN <<>> ELSE batch
      /\ slots' = IF done /\ ~found THEN <<>> ELSE slots
      /\ UNCHANGED <<copies, data, ret, before>>

(* The rows the ubatch u writes in its slot. *)
RowsWritten(u, slot, row(_)) ==
  [st \in Streams |-> [i \in Idx |->
     IF st \in StreamsOf(u) /\ i \in Range(slot[st])
     THEN row(u[TokenAt(slot[st], i)])
     ELSE data[st][i]]]

(* The next ubatch is applied for good, and its graph computed. *)
ComputeUbatch ==
  /\ phase = "compute"
  /\ Emplace(Head(batch), Head(slots))
  /\ data' = RowsWritten(Head(batch), Head(slots), LAMBDA t : t.tok)
  /\ batch' = Tail(batch) /\ slots' = Tail(slots)
  /\ phase' = IF Len(batch) = 1 THEN "idle" ELSE "compute"
  /\ ret' = IF Len(batch) = 1 THEN "ok" ELSE ret
  /\ UNCHANGED <<copies, undo, before>>

(* The smallest position of the ubatch whose first sequence is s.          *)
(* Mutant: the largest.                                                    *)
FailedFromLast(u, s) == Max({u[k].pos : k \in {j \in DOMAIN u : Min(u[j].seqs) = s}})
FailedFrom(u, s) == Min({u[k].pos : k \in {j \in DOMAIN u : Min(u[j].seqs) = s}})

(* The graph of a ubatch fails: its rows are garbage, and for the first    *)
(* sequence of each of its tokens everything from the first position of    *)
(* that sequence in the ubatch is removed.                                 *)
FailUbatch ==
  LET u       == Head(batch)
      slot    == Head(slots)
      firsts  == {Min(u[k].seqs) : k \in DOMAIN u}
      placed  == Applied(u, slot)
      gone(x) == {s \in firsts \cap x.seq : x.pos >= FailedFrom(u, s)}
      kept(x) == IF gone(x) = {} THEN x ELSE Without(x, gone(x))
  IN  /\ phase = "compute"
      /\ cell' = [st \in Streams |-> [i \in Idx |-> kept(placed[st][i])]]
      /\ head' = [st \in Streams |->
                    HeadAt({i \in Idx : placed[st][i].pos # -1 /\ cell'[st][i].pos = -1},
                           HeadsAfter(u, slot)[st])]
      /\ data' = RowsWritten(u, slot, LAMBDA t : Garbage)
      /\ phase' = "idle" /\ batch' = <<>> /\ slots' = <<>>
      /\ ret' = "failed"
      /\ UNCHANGED <<copies, undo, before>>

(* The ranges the calls are given; a negative bound is open. *)
Ranges == {r \in ({-1} \cup 1 .. MaxPos) \X ({-1} \cup 1 .. MaxPos) :
             r[2] = -1 \/ r[1] < r[2]}

DecodeBatch ==
  \E G1, G2 \in SeqSets, n1 \in 1 .. MaxBatch, n2 \in 0 .. MaxBatch, x \in Toks :
    /\ IF n2 = 0 THEN G2 = G1 ELSE G1 \cap G2 = {}
    /\ n1 + n2 <= MaxBatch                                \* bound
    /\ Appendable(G1, n1) /\ Appendable(G2, n2)
    /\ \E us \in Splits(Run(G1, n1, x), Run(G2, n2, x)) : DecodeStart(us)

(* Whatever the caller does next; its calls wait for a running decode. *)
Calling ==
  /\ phase = "idle"
  /\ \/ "clear" \in Calls /\ \E wipe \in BOOLEAN : Clear(wipe)
     \/ "rm" \in Calls /\ \E s \in Seqs, r \in Ranges : SeqRm(s, r[1], r[2])
     \/ "rm_any" \in Calls /\ \E r \in Ranges : SeqRmAny(r[1], r[2])
     \/ "cp" \in Calls /\ \E s, d \in Seqs, r \in Ranges :
          SeqCpShare(s, d, r[1], r[2]) \/ SeqCpStream(s, d, r[1], r[2])
     \/ "keep" \in Calls /\ \E s \in Seqs : SeqKeep(s)
     \/ "add" \in Calls /\ \E s \in Seqs, r \in Ranges, d \in {-1, 1} :
          SeqAdd(s, r[1], r[2], d)
     \/ "div" \in Calls /\ \E s \in Seqs, r \in Ranges : SeqDiv(s, r[1], r[2], 2)
     \/ "decode" \in Calls /\ DecodeBatch

Next ==
  \/ Calling
  \/ PlaceUbatch
  \/ PlaceFails
  \/ RestoreUbatch
  \/ ComputeUbatch
  \/ FailUbatch

Spec == Init /\ [][Next]_vars
-----------------------------------------------------------------------------
(* What the rows will hold once the pending copies are carried out is, for *)
(* every occupied cell, the content of the token the cell stands for:      *)
(* between two calls the metadata is never ahead of the data in a way that *)
(* the next update does not make good, and a failed ubatch leaves no cell  *)
(* on its garbage rows.                                                    *)
RowsMatchCells ==
  phase = "idle" =>
    \E o \in Origins(copies) : \A st \in Streams, i \in Idx :
      cell[st][i].pos # -1 => Copied(o)[st][i] = cell[st][i].tok

Contiguous(c) ==
  \A s \in Seqs : Held(c, s) # {} => Held(c, s) = Min(Held(c, s)) .. PosMax(c, s)

Decoded == phase = "idle" /\ ret # None

(* What prepare purges for one ubatch is gone even if a later one finds no *)
(* room, or an earlier one fails: the two properties below leave decodes   *)
(* of several ubatches that end badly out.                                 *)
Clean == ret = "ok" \/ Len(before.batch) = 1

(* A decode leaves no hole: if the positions of every sequence of a stream *)
(* had no gap they have none afterwards, though the sliding window let it  *)
(* reuse cells in any order and the ubatch may have failed.                *)
DecodeKeepsContiguous ==
  Decoded /\ Clean => \A st \in Streams :
    Contiguous(before.cell[st]) => Contiguous(cell[st])

(* No position the attention window of a sequence still covers is lost to  *)
(* a decode, whoever's tokens the freed cells went to.                     *)
WindowKept ==
  Decoded /\ Clean => \A s \in Seqs :
    LET c == cell[StreamOf(s)]
    IN  \A p \in Held(before.cell[StreamOf(s)], s) :
          p \in Held(c, s) \/ Masked(p, PosMax(c, s) + 1)

(* prepare restores the cells to their original state, whether it found    *)
(* room for every ubatch or not: a decode that finds no room has changed   *)
(* no cell.                                                                *)
PrepareRestores ==
  (\/ phase = "idle" /\ ret = "no slot"
   \/ phase = "compute" /\ batch = before.batch)
  => cell = before.cell
=============================================================================

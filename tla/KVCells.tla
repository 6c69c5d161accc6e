------------------------------- MODULE KVCells -------------------------------
(***************************************************************************)
(* The bookkeeping of one stream of the KV cache: class llama_kv_cells     *)
(* (backend/src/llama-kv-cells.h).  A cell holds one position and the set  *)
(* of sequences that share it; beside the cells the class keeps redundant  *)
(* indexes (the set of used cells, a count per sequence and position, the  *)
(* flag has_shift) that every method has to update in step.  The cache     *)
(* trusts those indexes: seq_pos_min / seq_pos_max are read from the       *)
(* counts, and the K-shift graph is only built when has_shift is set.      *)
(*                                                                         *)
(* One action per method.  Its guard is what the method's comment and      *)
(* assertions ask of the caller; the assertions are compiled out of the    *)
(* shipped Release build, so the callers are checked in module KVCache.    *)
(***************************************************************************)
EXTENDS Integers, FiniteSets

CONSTANTS
  Cells,      \* the cells of the stream; the methods never compare indices
  Seqs,       \* the sequence ids, 0 .. LLAMA_MAX_SEQ - 1 in the code
  MaxPos,     \* bound: positions stay in 0 .. MaxPos
  Divisors    \* the divisors pos_div is called with

ASSUME CellsAssumption    == IsFiniteSet(Cells)
ASSUME MaxPosAssumption   == MaxPos \in Nat
ASSUME DivisorsAssumption == Divisors \subseteq Nat \ {0}

VARIABLES
  pos,        \* pos[i]: position held by cell i, Empty when it holds none
  seq,        \* seq[i]: the sequences that occupy cell i
  shift,      \* shift[i]: position changes not yet applied to the K data
  seqPos,     \* seqPos[s][p]: how many cells hold position p for s (0: absent)
  used,       \* the indices of the cells in use
  hasShift,   \* some shift is waiting to be applied
  saved,      \* what cp() returned last and set() has not restored yet
  base        \* ghost: the position the K data of cell i is rotated for

cells == <<pos, seq, shift, seqPos, used, hasShift>>
vars  == <<pos, seq, shift, seqPos, used, hasShift, saved, base>>

Empty     == -1
NoSave    == [idxs |-> {}, pos |-> [i \in {} |-> Empty], seq |-> [i \in {} |-> {}]]
Positions == 0 .. MaxPos
Shifts    == -MaxPos .. MaxPos        \* bound on an accumulated shift
Offsets   == Shifts \ {0}

Occupied  == {i \in Cells : pos[i] # Empty}

(* The cells of D that hold position p for sequence s, under ps and sq. *)
HoldersIn(D, ps, sq, s, p) == {i \in D : ps[i] = p /\ s \in sq[i]}
Holders(s, p) == HoldersIn(Cells, pos, seq, s, p)

(* seq_pos_rm / seq_pos_add: cell content (p, S) leaves or enters the counts. *)
Uncount(c, p, S) ==
  [s \in Seqs |-> IF s \in S THEN [c[s] EXCEPT ![p] = @ - 1] ELSE c[s]]
Count(c, p, S) ==
  [s \in Seqs |-> IF s \in S THEN [c[s] EXCEPT ![p] = @ + 1] ELSE c[s]]

(* A snapshot holds cells as they may be: no sequence without a position. *)
SavedOK ==
  /\ saved.idxs \subseteq Cells
  /\ saved.pos \in [saved.idxs -> Positions \cup {Empty}]
  /\ saved.seq \in [saved.idxs -> SUBSET Seqs]
  /\ \A i \in saved.idxs : saved.pos[i] = Empty => saved.seq[i] = {}

TypeOK ==
  /\ pos \in [Cells -> Positions \cup {Empty}]
  /\ seq \in [Cells -> SUBSET Seqs]
  /\ shift \in [Cells -> Shifts]
  /\ seqPos \in [Seqs -> [Positions -> Nat]]
  /\ used \subseteq Cells
  /\ hasShift \in BOOLEAN
  /\ SavedOK
  /\ base \in [Cells -> Positions \cup {Empty}]

Init ==
  /\ pos = [i \in Cells |-> Empty]
  /\ seq = [i \in Cells |-> {}]
  /\ shift = [i \in Cells |-> 0]
  /\ seqPos = [s \in Seqs |-> [p \in Positions |-> 0]]
  /\ used = {}
  /\ hasShift = FALSE
  /\ saved = NoSave
  /\ base = [i \in Cells |-> Empty]
-----------------------------------------------------------------------------
(* reset(): every cell and every index back to the initial state. *)
Reset ==
  /\ pos' = [i \in Cells |-> Empty]
  /\ seq' = [i \in Cells |-> {}]
  /\ shift' = [i \in Cells |-> 0]
  /\ seqPos' = [s \in Seqs |-> [p \in Positions |-> 0]]
  /\ used' = {}
  /\ hasShift' = FALSE
  /\ base' = [i \in Cells |-> Empty]
  /\ UNCHANGED saved

(* reset_shift(): the K data has been rotated to the current positions. *)
ResetShift ==
  /\ shift' = [i \in Cells |-> 0]
  /\ hasShift' = FALSE
  /\ base' = pos
  /\ UNCHANGED <<pos, seq, seqPos, used, saved>>

(* Mutants: the sequences, or the pending shift, survive the removal. *)
VacateKeepsSeq(i) ==
  /\ pos' = [pos EXCEPT ![i] = Empty]
  /\ shift' = [shift EXCEPT ![i] = 0]
  /\ used' = used \ {i}
  /\ base' = [base EXCEPT ![i] = Empty]
  /\ UNCHANGED seq
VacateKeepsShift(i) ==
  /\ seq' = [seq EXCEPT ![i] = {}]
  /\ pos' = [pos EXCEPT ![i] = Empty]
  /\ used' = used \ {i}
  /\ base' = [base EXCEPT ![i] = Empty]
  /\ UNCHANGED shift

(* The cell is emptied: the four assignments rm, seq_rm, seq_keep share. *)
Vacate(i) ==
  /\ seq' = [seq EXCEPT ![i] = {}]
  /\ pos' = [pos EXCEPT ![i] = Empty]
  /\ shift' = [shift EXCEPT ![i] = 0]
  /\ used' = used \ {i}
  /\ base' = [base EXCEPT ![i] = Empty]

(* rm(i): clear a non-empty cell, whatever sequences it holds. *)
Rm(i) ==
  /\ pos[i] # Empty
  /\ seqPos' = Uncount(seqPos, pos[i], seq[i])
  /\ Vacate(i)
  /\ UNCHANGED <<hasShift, saved>>

(* seq_rm(i, s): the cell loses one sequence, and is emptied with the last. *)
SeqRm(i, s) ==
  /\ s \in seq[i]
  /\ seqPos' = Uncount(seqPos, pos[i], {s})
  /\ IF seq[i] = {s}
     THEN Vacate(i)
     ELSE /\ seq' = [seq EXCEPT ![i] = @ \ {s}]
          /\ UNCHANGED <<pos, shift, used, base>>
  /\ UNCHANGED <<hasShift, saved>>

(* Mutant: the counts of the sequences that leave are forgotten. *)
SeqKeepUncounted(i, s) ==
  /\ s \in seq[i]
  /\ seq' = [seq EXCEPT ![i] = {s}]
  /\ UNCHANGED <<pos, shift, seqPos, used, hasShift, saved, base>>

(* seq_keep(i, s) on a cell with s: every other sequence leaves it. *)
SeqKeepOwner(i, s) ==
  /\ s \in seq[i]
  /\ seqPos' = Count(Uncount(seqPos, pos[i], seq[i]), pos[i], {s})
  /\ seq' = [seq EXCEPT ![i] = {s}]
  /\ UNCHANGED <<pos, shift, used, hasShift, saved, base>>

(* seq_keep(i, s) on a cell of other sequences: the cell is emptied. *)
SeqKeepOther(i, s) ==
  /\ s \notin seq[i] /\ seq[i] # {}
  /\ seqPos' = Uncount(seqPos, pos[i], seq[i])
  /\ Vacate(i)
  /\ UNCHANGED <<hasShift, saved>>

(* Mutant: the new sharer is not counted. *)
SeqAddUncounted(i, s) ==
  /\ pos[i] # Empty
  /\ s \notin seq[i]
  /\ seq' = [seq EXCEPT ![i] = @ \cup {s}]
  /\ UNCHANGED <<pos, shift, seqPos, used, hasShift, saved, base>>

(* seq_add(i, s): sequence s starts to share a cell it is not in. *)
SeqAdd(i, s) ==
  /\ pos[i] # Empty
  /\ s \notin seq[i]
  /\ seq' = [seq EXCEPT ![i] = @ \cup {s}]
  /\ seqPos' = Count(seqPos, pos[i], {s})
  /\ UNCHANGED <<pos, shift, used, hasShift, saved, base>>

(* pos_set(i, p): an empty cell gets a position, and no sequence yet. *)
PosSet(i, p) ==
  /\ pos[i] = Empty
  /\ pos' = [pos EXCEPT ![i] = p]
  /\ used' = used \cup {i}
  /\ base' = [base EXCEPT ![i] = p]
  /\ UNCHANGED <<seq, shift, seqPos, hasShift, saved>>

(* pos_add(i, d): the position moves; a cell moved below 0 is emptied. *)
PosAdd(i, d) ==
  /\ pos[i] # Empty
  /\ hasShift' = TRUE
  /\ IF pos[i] + d < 0
     THEN /\ seqPos' = Uncount(seqPos, pos[i], seq[i])
          /\ Vacate(i)
     ELSE /\ pos[i] + d \in Positions                     \* bound MaxPos
          /\ shift[i] + d \in Shifts                      \* bound MaxPos
          /\ pos' = [pos EXCEPT ![i] = @ + d]
          /\ shift' = [shift EXCEPT ![i] = @ + d]
          /\ seqPos' = Count(Uncount(seqPos, pos[i], seq[i]),
                             pos[i] + d, seq[i])
          /\ UNCHANGED <<seq, used, base>>
  /\ UNCHANGED saved

(* Mutant: the flag is not raised. *)
PosDivUnflagged(i, d) ==
  LET p == pos[i] \div d
  IN  /\ pos[i] # Empty
      /\ shift[i] + (pos[i] - p) \in Shifts
      /\ pos' = [pos EXCEPT ![i] = p]
      /\ shift' = [shift EXCEPT ![i] = @ + (pos[i] - p)]
      /\ seqPos' = Count(Uncount(seqPos, pos[i], seq[i]), p, seq[i])
      /\ UNCHANGED <<seq, used, hasShift, saved, base>>

(* pos_div(i, d): the position is divided; the code accumulates the old    *)
(* position minus the new one.                                             *)
PosDiv(i, d) ==
  LET p == pos[i] \div d
  IN  /\ pos[i] # Empty
      /\ shift[i] + (pos[i] - p) \in Shifts               \* bound MaxPos
      /\ pos' = [pos EXCEPT ![i] = p]
      /\ shift' = [shift EXCEPT ![i] = @ + (pos[i] - p)]
      /\ seqPos' = Count(Uncount(seqPos, pos[i], seq[i]), p, seq[i])
      /\ hasShift' = TRUE
      /\ UNCHANGED <<seq, used, saved, base>>

(* cp(idxs): copy of the position and the sequences of some cells.  The    *)
(* shifts are not copied: the caller has applied them.                     *)
Cp(idxs) ==
  /\ idxs # {}
  /\ \A i \in idxs : shift[i] = 0
  /\ saved' = [idxs |-> idxs, pos |-> [i \in idxs |-> pos[i]],
               seq  |-> [i \in idxs |-> seq[i]]]
  /\ UNCHANGED <<cells, base>>

(* set(idxs, other): put the copy back over whatever the cells hold now.   *)
Set ==
  LET D == saved.idxs
  IN  /\ D # {}
      /\ \A i \in D : shift[i] = 0
      /\ pos' = [i \in Cells |-> IF i \in D THEN saved.pos[i] ELSE pos[i]]
      /\ seq' = [i \in Cells |-> IF i \in D THEN saved.seq[i] ELSE seq[i]]
      /\ seqPos' = [s \in Seqs |-> [p \in Positions |->
                      seqPos[s][p]
                        - Cardinality(HoldersIn(D, pos, seq, s, p))
                        + Cardinality(HoldersIn(D, saved.pos, saved.seq, s, p))]]
      /\ used' = (used \ {i \in D : saved.pos[i] = Empty})
                   \cup {i \in D : saved.pos[i] # Empty}
      /\ base' = [i \in Cells |-> IF i \in D THEN saved.pos[i] ELSE base[i]]
      /\ saved' = NoSave
      /\ UNCHANGED <<shift, hasShift>>

Next ==
  \/ Reset
  \/ ResetShift
  \/ \E i \in Cells :
       \/ Rm(i)
       \/ \E s \in Seqs : SeqRm(i, s)
       \/ \E s \in Seqs : SeqKeepOwner(i, s)
       \/ \E s \in Seqs : SeqKeepOther(i, s)
       \/ \E s \in Seqs : SeqAdd(i, s)
       \/ \E p \in Positions : PosSet(i, p)
       \/ \E d \in Offsets : PosAdd(i, d)
       \/ \E d \in Divisors : PosDiv(i, d)
  \/ \E idxs \in SUBSET Cells : Cp(idxs)
  \/ Set

Spec == Init /\ [][Next]_vars
-----------------------------------------------------------------------------
(* seq_pos_min(s), seq_pos_max(s): first and last key of the count map. *)
Present(s) == {p \in Positions : seqPos[s][p] > 0}

(* The set `used` names exactly the cells that hold a position, and an     *)
(* empty cell has no leftover: no sequence and no pending shift that the   *)
(* next pos_set on it would inherit (pos_set clears neither).              *)
Occupancy ==
  /\ used = Occupied
  /\ \A i \in Cells : pos[i] = Empty => seq[i] = {} /\ shift[i] = 0

(* The count map agrees with the cells: seq_pos[s][p] is the number of     *)
(* cells that hold position p for sequence s, after any interleaving of    *)
(* removals, shares, shifts and snapshot restores.  On it rest             *)
(* seq_pos_min / seq_pos_max, which the cache and the server read.         *)
SeqPosCounts ==
  \A s \in Seqs, p \in Positions : seqPos[s][p] = Cardinality(Holders(s, p))

(* The keys of the count map, whose first and last are seq_pos_min and     *)
(* seq_pos_max, are exactly the positions some cell holds for s: no stale  *)
(* key survives, and none is missing.  KVCache relies on it.               *)
PresentIsHeld ==
  \A s \in Seqs : Present(s) = {pos[i] : i \in {j \in Cells : s \in seq[j]}}

(* A pending shift is never forgotten: while has_shift is false, which     *)
(* makes the cache skip the K-shift, every cell's shift is zero.           *)
HasShiftCoversShifts ==
  ~hasShift => \A i \in Cells : shift[i] = 0

(* shift[i] accumulates the shifts applied to pos[i] since the last        *)
(* reset_shift(): it is exactly what separates the position of the cell    *)
(* from the position its K data was last rotated for.                      *)
ShiftAccumulates ==
  \A i \in Occupied : pos[i] = base[i] + shift[i]
=============================================================================

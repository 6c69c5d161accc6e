---------------------------- MODULE KVCellsProofs ----------------------------
(***************************************************************************)
(* Proofs about KVCells, for every set of cells and sequences and every    *)
(* bound: type correctness, the agreement of the redundant indexes with    *)
(* the cells, and the meaning of a pending shift.                          *)
(***************************************************************************)
EXTENDS KVCells, FiniteSetTheorems, TLAPS

(* The strengthening of SeqPosCounts that is inductive: every index at once. *)
IInv ==
  /\ TypeOK
  /\ Occupancy
  /\ SeqPosCounts
  /\ HasShiftCoversShifts

(* Two functions on the cells that differ at most at cell i. *)
SameElsewhere(i, f, g) == \A j \in Cells \ {i} : g[j] = f[j]
-----------------------------------------------------------------------------
(* Uncount and Count, one sequence and one position at a time. *)
LEMMA UncountValue ==
  ASSUME NEW c \in [Seqs -> [Positions -> Int]], NEW p \in Positions,
         NEW S \in SUBSET Seqs
  PROVE  /\ Uncount(c, p, S) \in [Seqs -> [Positions -> Int]]
         /\ \A s \in Seqs, q \in Positions :
              Uncount(c, p, S)[s][q] =
                IF s \in S /\ q = p THEN c[s][q] - 1 ELSE c[s][q]
  BY DEF Uncount

(* Count adds one for each sequence of S at position p, and nothing else. *)
LEMMA CountValue ==
  ASSUME NEW c \in [Seqs -> [Positions -> Int]], NEW p \in Positions,
         NEW S \in SUBSET Seqs
  PROVE  /\ Count(c, p, S) \in [Seqs -> [Positions -> Int]]
         /\ \A s \in Seqs, q \in Positions :
              Count(c, p, S)[s][q] =
                IF s \in S /\ q = p THEN c[s][q] + 1 ELSE c[s][q]
  BY DEF Count

(* A set of cells is finite, and so is the set of holders of a position. *)
LEMMA HoldersFinite ==
  ASSUME NEW D \in SUBSET Cells, NEW ps, NEW sq, NEW s, NEW p
  PROVE  /\ IsFiniteSet(HoldersIn(D, ps, sq, s, p))
         /\ Cardinality(HoldersIn(D, ps, sq, s, p)) \in Nat
<1>1. HoldersIn(D, ps, sq, s, p) \in SUBSET Cells
  BY DEF HoldersIn
<1> QED
  BY <1>1, CellsAssumption, FS_Subset, FS_CardinalityType

(* When one cell changes from content (ps[i], sq[i]) to (pt[i], sr[i]), a  *)
(* count moves by one if the cell stops or starts to be a holder.          *)
LEMMA HoldersOneCell ==
  ASSUME NEW ps, NEW sq, NEW pt, NEW sr, NEW s, NEW p, NEW i \in Cells,
         SameElsewhere(i, ps, pt), SameElsewhere(i, sq, sr)
  PROVE  Cardinality(HoldersIn(Cells, pt, sr, s, p)) =
           Cardinality(HoldersIn(Cells, ps, sq, s, p))
             - (IF ps[i] = p /\ s \in sq[i] THEN 1 ELSE 0)
             + (IF pt[i] = p /\ s \in sr[i] THEN 1 ELSE 0)
<1> DEFINE H == HoldersIn(Cells, ps, sq, s, p)
           G == HoldersIn(Cells, pt, sr, s, p)
           R == H \ {i}
<1>1. IsFiniteSet(H) /\ Cardinality(H) \in Nat
  BY HoldersFinite
<1>2. /\ IsFiniteSet(R)
      /\ Cardinality(R) = IF i \in H THEN Cardinality(H) - 1 ELSE Cardinality(H)
  BY <1>1, FS_RemoveElement
<1>3. Cardinality(R) \in Nat
  BY <1>2, FS_CardinalityType
<1>4. Cardinality(R \cup {i}) = Cardinality(R) + 1
  BY <1>2, FS_AddElement
<1>5. G = IF pt[i] = p /\ s \in sr[i] THEN R \cup {i} ELSE R
  BY DEF HoldersIn, SameElsewhere
<1>6. i \in H <=> ps[i] = p /\ s \in sq[i]
  BY DEF HoldersIn
<1> HIDE DEF H, G, R
<1>7. Cardinality(G) = Cardinality(H)
             - (IF ps[i] = p /\ s \in sq[i] THEN 1 ELSE 0)
             + (IF pt[i] = p /\ s \in sr[i] THEN 1 ELSE 0)
  BY <1>1, <1>2, <1>3, <1>4, <1>5, <1>6
<1> QED
  BY <1>7 DEF H, G
-----------------------------------------------------------------------------
(* A step that changes one cell, and moves the counts by what that cell    *)
(* stops and starts to hold, keeps counts and cells in agreement.          *)
LEMMA OneCellStep ==
  ASSUME SeqPosCounts, NEW i \in Cells,
         SameElsewhere(i, pos, pos'), SameElsewhere(i, seq, seq'),
         seqPos' \in [Seqs -> [Positions -> Int]],
         \A s \in Seqs, p \in Positions :
           seqPos'[s][p] = seqPos[s][p]
             - (IF pos[i] = p /\ s \in seq[i] THEN 1 ELSE 0)
             + (IF pos'[i] = p /\ s \in seq'[i] THEN 1 ELSE 0)
  PROVE  /\ SeqPosCounts'
         /\ seqPos' \in [Seqs -> [Positions -> Nat]]
<1>1. ASSUME NEW s \in Seqs, NEW p \in Positions
      PROVE  seqPos'[s][p] = Cardinality(HoldersIn(Cells, pos', seq', s, p))
  <2>1. seqPos[s][p] = Cardinality(HoldersIn(Cells, pos, seq, s, p))
    BY DEF SeqPosCounts, Holders
  <2>2. Cardinality(HoldersIn(Cells, pos', seq', s, p)) =
          Cardinality(HoldersIn(Cells, pos, seq, s, p))
            - (IF pos[i] = p /\ s \in seq[i] THEN 1 ELSE 0)
            + (IF pos'[i] = p /\ s \in seq'[i] THEN 1 ELSE 0)
    BY HoldersOneCell
  <2> QED
    BY <2>1, <2>2
<1>2. SeqPosCounts'
  BY <1>1 DEF SeqPosCounts, Holders
<1>3. \A s \in Seqs, p \in Positions :
        Cardinality(HoldersIn(Cells, pos', seq', s, p)) \in Nat
  BY HoldersFinite
<1> QED
  BY <1>1, <1>2, <1>3

(* A step that leaves every cell and the counts alone keeps them in        *)
(* agreement.                                                              *)
LEMMA SameCells ==
  ASSUME SeqPosCounts, pos' = pos, seq' = seq, seqPos' = seqPos
  PROVE  SeqPosCounts'
  BY DEF SeqPosCounts, Holders

(* With no position in any cell there are no holders. *)
LEMMA NoHolders ==
  ASSUME \A s \in Seqs, p \in Positions : seqPos[s][p] = 0,
         \A i \in Cells : pos[i] = Empty
  PROVE  SeqPosCounts
<1> SUFFICES ASSUME NEW s \in Seqs, NEW p \in Positions
             PROVE  seqPos[s][p] = Cardinality(Holders(s, p))
  BY DEF SeqPosCounts
<1>1. Holders(s, p) = {}
  BY MaxPosAssumption DEF Holders, HoldersIn, Positions, Empty
<1> QED
  BY <1>1, FS_EmptySet

(* The empty cache of reset(): no holders, nothing counted. *)
LEMMA InitInv == Init => IInv
<1> SUFFICES ASSUME Init PROVE IInv
  OBVIOUS
<1>0. SavedOK
  BY DEF Init, SavedOK, NoSave
<1>a. shift \in [Cells -> Shifts]
  BY MaxPosAssumption DEF Init, Shifts
<1>b. seqPos \in [Seqs -> [Positions -> Nat]]
  BY DEF Init
<1>1. TypeOK
  BY <1>0, <1>a, <1>b DEF Init, TypeOK
<1>2. SeqPosCounts
  BY NoHolders DEF Init
<1> QED
  BY <1>1, <1>2 DEF IInv, Init, Occupancy, Occupied, HasShiftCoversShifts
-----------------------------------------------------------------------------
(* Every action that touches one cell, and the conjuncts it can disturb.   *)
LEMMA VacateInv ==
  ASSUME IInv, NEW i \in Cells, pos[i] # Empty, Vacate(i),
         seqPos' = Uncount(seqPos, pos[i], seq[i]),
         hasShift' \in BOOLEAN, hasShift => hasShift', saved' = saved
  PROVE  IInv'
<1> USE DEF IInv, TypeOK, Vacate
<1>1. /\ SameElsewhere(i, pos, pos') /\ pos'[i] = Empty
      /\ SameElsewhere(i, seq, seq') /\ seq'[i] = {}
  BY DEF SameElsewhere
<1>2. pos[i] \in Positions /\ Empty \notin Positions
  BY MaxPosAssumption DEF Positions, Empty
<1>3. /\ seqPos' \in [Seqs -> [Positions -> Int]]
      /\ \A s \in Seqs, p \in Positions :
           seqPos'[s][p] = seqPos[s][p]
             - (IF pos[i] = p /\ s \in seq[i] THEN 1 ELSE 0)
             + (IF pos'[i] = p /\ s \in seq'[i] THEN 1 ELSE 0)
  <2>1. seqPos \in [Seqs -> [Positions -> Int]]
    OBVIOUS
  <2> QED
    BY <1>1, <1>2, <2>1, UncountValue
<1>4. SeqPosCounts' /\ seqPos' \in [Seqs -> [Positions -> Nat]]
  BY <1>1, <1>3, OneCellStep
<1>5. TypeOK'
  BY <1>4, MaxPosAssumption DEF SavedOK, Shifts
<1>6. Occupancy'
  BY DEF Occupancy, Occupied
<1>7. HasShiftCoversShifts'
  BY DEF HasShiftCoversShifts
<1> QED
  BY <1>4, <1>5, <1>6, <1>7

(* A step on cell i that leaves it in use, and leaves the other cells and  *)
(* the snapshot alone: what remains to be said of the counts and types.    *)
LEMMA InUseStep ==
  ASSUME IInv, NEW i \in Cells,
         SameElsewhere(i, pos, pos'), SameElsewhere(i, seq, seq'),
         SameElsewhere(i, shift, shift'),
         pos' \in [Cells -> Positions \cup {Empty}], pos'[i] # Empty,
         seq' \in [Cells -> SUBSET Seqs], shift' \in [Cells -> Shifts],
         seqPos' \in [Seqs -> [Positions -> Int]],
         \A s \in Seqs, p \in Positions :
           seqPos'[s][p] = seqPos[s][p]
             - (IF pos[i] = p /\ s \in seq[i] THEN 1 ELSE 0)
             + (IF pos'[i] = p /\ s \in seq'[i] THEN 1 ELSE 0),
         used' = used \cup {i}, saved' = saved,
         base' \in [Cells -> Positions \cup {Empty}],
         hasShift' \in BOOLEAN,
         hasShift' \/ (~hasShift /\ shift' = shift)
  PROVE  IInv'
<1>1. SeqPosCounts' /\ seqPos' \in [Seqs -> [Positions -> Nat]]
  BY OneCellStep DEF IInv
<1>2. TypeOK'
  BY <1>1 DEF IInv, TypeOK, SavedOK
<1>3. Occupancy'
  BY DEF IInv, TypeOK, Occupancy, Occupied, SameElsewhere
<1>4. HasShiftCoversShifts'
  BY DEF IInv, HasShiftCoversShifts
<1> QED
  BY <1>1, <1>2, <1>3, <1>4 DEF IInv

(* seq_rm() takes one owner away, and empties the cell of its last one. *)
LEMMA SeqRmInv == ASSUME IInv, NEW i \in Cells, NEW s \in Seqs, SeqRm(i, s)
                  PROVE  IInv'
<1>0. pos[i] # Empty /\ pos[i] \in Positions
  BY MaxPosAssumption DEF IInv, TypeOK, Occupancy, SeqRm
<1>1. CASE seq[i] = {s}
  BY <1>0, <1>1, VacateInv DEF SeqRm, IInv, TypeOK
<1>2. CASE seq[i] # {s}
  <2>1. seqPos \in [Seqs -> [Positions -> Int]]
    BY DEF IInv, TypeOK
  <2>2. /\ seqPos' \in [Seqs -> [Positions -> Int]]
        /\ \A t \in Seqs, p \in Positions :
             seqPos'[t][p] = IF t \in {s} /\ p = pos[i]
                             THEN seqPos[t][p] - 1 ELSE seqPos[t][p]
    <3>1. {s} \in SUBSET Seqs /\ seqPos' = Uncount(seqPos, pos[i], {s})
      BY DEF SeqRm
    <3> DEFINE S == {s}
    <3> HIDE DEF S
    <3>2. /\ Uncount(seqPos, pos[i], S) \in [Seqs -> [Positions -> Int]]
          /\ \A t \in Seqs, p \in Positions :
               Uncount(seqPos, pos[i], S)[t][p] =
                 IF t \in S /\ p = pos[i]
                 THEN seqPos[t][p] - 1 ELSE seqPos[t][p]
      <4>1. S \in SUBSET Seqs
        BY <3>1 DEF S
      <4> QED
        BY <4>1, <1>0, <2>1, UncountValue
    <3> QED
      BY <3>1, <3>2 DEF S
  <2>a. pos' = pos /\ seq'[i] = seq[i] \ {s} /\ s \in seq[i]
    BY <1>2 DEF SeqRm, IInv, TypeOK
  <2>3. \A t \in Seqs, p \in Positions :
             seqPos'[t][p] = seqPos[t][p]
               - (IF pos[i] = p /\ t \in seq[i] THEN 1 ELSE 0)
               + (IF pos'[i] = p /\ t \in seq'[i] THEN 1 ELSE 0)
    BY <2>1, <2>2, <2>a
  <2>4. used' = used \cup {i}
    BY <1>0, <1>2 DEF SeqRm, IInv, Occupancy, Occupied
  <2>5. /\ SameElsewhere(i, pos, pos') /\ SameElsewhere(i, seq, seq')
        /\ SameElsewhere(i, shift, shift')
    BY <1>2 DEF SeqRm, IInv, TypeOK, SameElsewhere
  <2>6. /\ pos' = pos /\ seq' \in [Cells -> SUBSET Seqs] /\ shift' = shift
        /\ base' = base /\ hasShift' = hasShift /\ saved' = saved
    BY <1>2 DEF SeqRm, IInv, TypeOK
  <2> QED
    BY <1>0, <2>2, <2>3, <2>4, <2>5, <2>6, InUseStep DEF IInv, TypeOK
<1> QED
  BY <1>1, <1>2

(* seq_keep() on a cell that s owns: every other owner is uncounted. *)
LEMMA SeqKeepOwnerInv ==
  ASSUME IInv, NEW i \in Cells, NEW s \in Seqs, SeqKeepOwner(i, s)
  PROVE  IInv'
<1>0. pos[i] # Empty /\ pos[i] \in Positions
  BY MaxPosAssumption DEF IInv, TypeOK, Occupancy, SeqKeepOwner
<1>1. seqPos \in [Seqs -> [Positions -> Int]] /\ seq[i] \in SUBSET Seqs
  BY DEF IInv, TypeOK
<1> DEFINE mid == Uncount(seqPos, pos[i], seq[i])
<1>2. /\ mid \in [Seqs -> [Positions -> Int]]
      /\ \A t \in Seqs, p \in Positions :
           mid[t][p] = IF t \in seq[i] /\ p = pos[i]
                       THEN seqPos[t][p] - 1 ELSE seqPos[t][p]
  BY <1>0, <1>1, UncountValue
<1>3. seqPos' = Count(mid, pos[i], {s}) /\ {s} \in SUBSET Seqs
  BY DEF SeqKeepOwner
<1> HIDE DEF mid
<1>4. /\ seqPos' \in [Seqs -> [Positions -> Int]]
      /\ \A t \in Seqs, p \in Positions :
           seqPos'[t][p] = IF t \in {s} /\ p = pos[i]
                           THEN mid[t][p] + 1 ELSE mid[t][p]
  <2> DEFINE S == {s}
  <2> HIDE DEF S
  <2>1. S \in SUBSET Seqs
    BY <1>3 DEF S
  <2>2. /\ Count(mid, pos[i], S) \in [Seqs -> [Positions -> Int]]
        /\ \A t \in Seqs, p \in Positions :
             Count(mid, pos[i], S)[t][p] =
               IF t \in S /\ p = pos[i] THEN mid[t][p] + 1 ELSE mid[t][p]
    BY <1>0, <1>2, <2>1, CountValue
  <2> QED
    BY <1>3, <2>2 DEF S
<1>5. \A t \in Seqs, p \in Positions :
           seqPos'[t][p] = seqPos[t][p]
             - (IF pos[i] = p /\ t \in seq[i] THEN 1 ELSE 0)
             + (IF pos'[i] = p /\ t \in seq'[i] THEN 1 ELSE 0)
  <2>1. pos' = pos /\ seq'[i] = {s} /\ s \in seq[i]
    BY DEF SeqKeepOwner, IInv, TypeOK
  <2> QED
    BY <1>1, <1>2, <1>4, <2>1
<1>6. used' = used \cup {i}
  BY <1>0 DEF SeqKeepOwner, IInv, Occupancy, Occupied
<1>7. /\ SameElsewhere(i, pos, pos') /\ SameElsewhere(i, seq, seq')
      /\ SameElsewhere(i, shift, shift')
  BY DEF SeqKeepOwner, IInv, TypeOK, SameElsewhere
<1>8. /\ pos' = pos /\ seq' \in [Cells -> SUBSET Seqs] /\ shift' = shift
      /\ base' = base /\ hasShift' = hasShift /\ saved' = saved
  BY DEF SeqKeepOwner, IInv, TypeOK
<1> QED
  BY <1>0, <1>4, <1>5, <1>6, <1>7, <1>8, InUseStep DEF IInv, TypeOK

(* seq_keep() on a cell that s does not own empties the cell. *)
LEMMA SeqKeepOtherInv ==
  ASSUME IInv, NEW i \in Cells, NEW s \in Seqs, SeqKeepOther(i, s)
  PROVE  IInv'
<1>1. pos[i] # Empty
  BY DEF IInv, Occupancy, SeqKeepOther
<1> QED
  BY <1>1, VacateInv DEF SeqKeepOther, IInv, TypeOK

(* rm() uncounts every owner of the cell at its position. *)
LEMMA RmInv == ASSUME IInv, NEW i \in Cells, Rm(i)
               PROVE  IInv'
  BY VacateInv DEF Rm, IInv, TypeOK

(* A cell that moves from (p, S) to (q, S): the counts after rm and add. *)
LEMMA MoveValue ==
  ASSUME NEW c \in [Seqs -> [Positions -> Int]], NEW p \in Positions,
         NEW q \in Positions, NEW S \in SUBSET Seqs
  PROVE  /\ Count(Uncount(c, p, S), q, S) \in [Seqs -> [Positions -> Int]]
         /\ \A s \in Seqs, r \in Positions :
              Count(Uncount(c, p, S), q, S)[s][r] = c[s][r]
                - (IF p = r /\ s \in S THEN 1 ELSE 0)
                + (IF q = r /\ s \in S THEN 1 ELSE 0)
<1> DEFINE mid == Uncount(c, p, S)
<1>1. /\ mid \in [Seqs -> [Positions -> Int]]
      /\ \A s \in Seqs, r \in Positions :
           mid[s][r] = IF s \in S /\ r = p THEN c[s][r] - 1 ELSE c[s][r]
  BY UncountValue
<1> HIDE DEF mid
<1>2. /\ Count(mid, q, S) \in [Seqs -> [Positions -> Int]]
      /\ \A s \in Seqs, r \in Positions :
           Count(mid, q, S)[s][r] =
             IF s \in S /\ r = q THEN mid[s][r] + 1 ELSE mid[s][r]
  BY <1>1, CountValue
<1>3. \A s \in Seqs, r \in Positions :
        Count(mid, q, S)[s][r] = c[s][r]
          - (IF p = r /\ s \in S THEN 1 ELSE 0)
          + (IF q = r /\ s \in S THEN 1 ELSE 0)
  BY <1>1, <1>2
<1> QED
  BY <1>2, <1>3 DEF mid

(* seq_add() counts a new owner at the position the cell already has. *)
LEMMA SeqAddInv == ASSUME IInv, NEW i \in Cells, NEW s \in Seqs, SeqAdd(i, s)
                   PROVE  IInv'
<1>0. pos[i] # Empty /\ pos[i] \in Positions
  BY DEF IInv, TypeOK, SeqAdd
<1>1. seqPos \in [Seqs -> [Positions -> Int]]
  BY DEF IInv, TypeOK
<1> DEFINE S == {s}
<1>2. S \in SUBSET Seqs /\ seqPos' = Count(seqPos, pos[i], S)
  BY DEF SeqAdd
<1>3. /\ pos' = pos /\ seq'[i] = seq[i] \cup S /\ (\A t \in S : t \notin seq[i])
  BY DEF SeqAdd, IInv, TypeOK
<1> HIDE DEF S
<1>4. /\ Count(seqPos, pos[i], S) \in [Seqs -> [Positions -> Int]]
      /\ \A t \in Seqs, p \in Positions :
           Count(seqPos, pos[i], S)[t][p] =
             IF t \in S /\ p = pos[i] THEN seqPos[t][p] + 1 ELSE seqPos[t][p]
  BY <1>0, <1>1, <1>2, CountValue
<1>5. \A t \in Seqs, p \in Positions :
           seqPos'[t][p] = seqPos[t][p]
             - (IF pos[i] = p /\ t \in seq[i] THEN 1 ELSE 0)
             + (IF pos'[i] = p /\ t \in seq'[i] THEN 1 ELSE 0)
  BY <1>1, <1>2, <1>3, <1>4
<1>6. used' = used \cup {i}
  BY <1>0 DEF SeqAdd, IInv, Occupancy, Occupied
<1>7. /\ SameElsewhere(i, pos, pos') /\ SameElsewhere(i, seq, seq')
      /\ SameElsewhere(i, shift, shift')
  BY DEF SeqAdd, IInv, TypeOK, SameElsewhere
<1>8. /\ pos' = pos /\ seq' \in [Cells -> SUBSET Seqs] /\ shift' = shift
      /\ base' = base /\ hasShift' = hasShift /\ saved' = saved
  BY DEF SeqAdd, IInv, TypeOK
<1> QED
  BY <1>0, <1>2, <1>4, <1>5, <1>6, <1>7, <1>8, InUseStep DEF IInv, TypeOK

(* pos_set() occupies an empty cell, which nobody owns yet. *)
LEMMA PosSetInv == ASSUME IInv, NEW i \in Cells, NEW p \in Positions, PosSet(i, p)
                   PROVE  IInv'
<1>1. /\ pos[i] = Empty /\ seq[i] = {} /\ seq' = seq /\ seqPos' = seqPos
      /\ pos' \in [Cells -> Positions \cup {Empty}] /\ pos'[i] = p
      /\ used' = used \cup {i} /\ saved' = saved /\ shift' = shift
      /\ hasShift' = hasShift
      /\ base' \in [Cells -> Positions \cup {Empty}]
  BY DEF PosSet, IInv, TypeOK, Occupancy
<1>2. /\ SameElsewhere(i, pos, pos') /\ SameElsewhere(i, seq, seq')
      /\ SameElsewhere(i, shift, shift')
  BY DEF PosSet, IInv, TypeOK, SameElsewhere
<1>3. Empty \notin Positions
  BY MaxPosAssumption DEF Positions, Empty
<1>4. seqPos' \in [Seqs -> [Positions -> Int]] /\ seqPos' = seqPos
  BY <1>1 DEF IInv, TypeOK
<1>5. \A t \in Seqs, q \in Positions :
           seqPos'[t][q] = seqPos[t][q]
             - (IF pos[i] = q /\ t \in seq[i] THEN 1 ELSE 0)
             + (IF pos'[i] = q /\ t \in seq'[i] THEN 1 ELSE 0)
  BY <1>1, <1>4
<1> QED
  BY <1>1, <1>2, <1>3, <1>4, <1>5, InUseStep DEF IInv, TypeOK

(* pos_add() moves a cell with all its owners, or empties it below zero. *)
LEMMA PosAddInv == ASSUME IInv, NEW i \in Cells, NEW d \in Offsets, PosAdd(i, d)
                   PROVE  IInv'
<1>0. /\ pos[i] # Empty /\ pos[i] \in Positions /\ d \in Int
      /\ seqPos \in [Seqs -> [Positions -> Int]] /\ seq[i] \in SUBSET Seqs
  BY MaxPosAssumption DEF PosAdd, IInv, TypeOK, Offsets, Shifts
<1>1. CASE pos[i] + d < 0
  BY <1>0, <1>1, VacateInv DEF PosAdd
<1>2. CASE ~(pos[i] + d < 0)
  <2> DEFINE q == pos[i] + d
  <2>1. /\ q \in Positions
        /\ pos' \in [Cells -> Positions \cup {Empty}] /\ pos'[i] = q
        /\ seq' = seq
        /\ shift' \in [Cells -> Shifts]
        /\ used' = used /\ saved' = saved /\ base' = base /\ hasShift' = TRUE
        /\ seqPos' = Count(Uncount(seqPos, pos[i], seq[i]), q, seq[i])
    BY <1>2 DEF PosAdd, IInv, TypeOK
  <2>2. /\ SameElsewhere(i, pos, pos') /\ SameElsewhere(i, seq, seq')
        /\ SameElsewhere(i, shift, shift')
    BY <1>2 DEF PosAdd, IInv, TypeOK, SameElsewhere
  <2> HIDE DEF q
  <2>3. /\ Count(Uncount(seqPos, pos[i], seq[i]), q, seq[i])
              \in [Seqs -> [Positions -> Int]]
        /\ \A s \in Seqs, r \in Positions :
             Count(Uncount(seqPos, pos[i], seq[i]), q, seq[i])[s][r] = seqPos[s][r]
               - (IF pos[i] = r /\ s \in seq[i] THEN 1 ELSE 0)
               + (IF q = r /\ s \in seq[i] THEN 1 ELSE 0)
    BY <1>0, <2>1, MoveValue
  <2>4. used' = used \cup {i} /\ q # Empty
    BY <1>0, <2>1, MaxPosAssumption
    DEF IInv, Occupancy, Occupied, Positions, Empty
  <2> QED
    BY <2>1, <2>2, <2>3, <2>4, InUseStep DEF IInv, TypeOK
<1> QED
  BY <1>1, <1>2

(* pos_div() moves a cell with all its owners towards zero. *)
LEMMA PosDivInv == ASSUME IInv, NEW i \in Cells, NEW d \in Divisors, PosDiv(i, d)
                   PROVE  IInv'
<1> DEFINE q == pos[i] \div d
<1>0. /\ pos[i] # Empty /\ pos[i] \in Positions /\ d \in Nat \ {0}
      /\ seqPos \in [Seqs -> [Positions -> Int]] /\ seq[i] \in SUBSET Seqs
  BY DivisorsAssumption DEF PosDiv, IInv, TypeOK
<1>q. q \in Positions
  <2>1. ASSUME NEW x \in 0 .. MaxPos, NEW y \in Nat \ {0}
        PROVE  x \div y \in 0 .. MaxPos
    BY <2>1, MaxPosAssumption
  <2> QED
    BY <2>1, <1>0 DEF Positions
<1>1. /\ pos' \in [Cells -> Positions \cup {Empty}] /\ pos'[i] = q
      /\ seq' = seq
      /\ shift' \in [Cells -> Shifts]
      /\ used' = used /\ saved' = saved /\ base' = base /\ hasShift' = TRUE
      /\ seqPos' = Count(Uncount(seqPos, pos[i], seq[i]), q, seq[i])
  BY <1>q DEF PosDiv, IInv, TypeOK
<1>2. /\ SameElsewhere(i, pos, pos') /\ SameElsewhere(i, seq, seq')
      /\ SameElsewhere(i, shift, shift')
  BY DEF PosDiv, IInv, TypeOK, SameElsewhere
<1> HIDE DEF q
<1>3. /\ Count(Uncount(seqPos, pos[i], seq[i]), q, seq[i])
            \in [Seqs -> [Positions -> Int]]
      /\ \A s \in Seqs, r \in Positions :
           Count(Uncount(seqPos, pos[i], seq[i]), q, seq[i])[s][r] = seqPos[s][r]
             - (IF pos[i] = r /\ s \in seq[i] THEN 1 ELSE 0)
             + (IF q = r /\ s \in seq[i] THEN 1 ELSE 0)
  BY <1>0, <1>q, MoveValue
<1>4. used' = used \cup {i} /\ q # Empty
  BY <1>0, <1>1, <1>q, MaxPosAssumption
  DEF IInv, Occupancy, Occupied, Positions, Empty
<1> QED
  BY <1>0, <1>1, <1>2, <1>3, <1>4, InUseStep DEF IInv, TypeOK

(* cp() copies cells into the snapshot and leaves the cells alone. *)
LEMMA CpInv == ASSUME IInv, NEW idxs \in SUBSET Cells, Cp(idxs)
               PROVE  IInv'
<1>1. /\ pos' = pos /\ seq' = seq /\ shift' = shift /\ seqPos' = seqPos
      /\ used' = used /\ hasShift' = hasShift /\ base' = base
  BY DEF Cp, cells
<1>2. SavedOK'
  BY DEF Cp, SavedOK, IInv, TypeOK, Occupancy
<1>3. SeqPosCounts'
  BY <1>1, SameCells DEF IInv
<1> QED
  BY <1>1, <1>2, <1>3
  DEF IInv, TypeOK, Occupancy, Occupied, HasShiftCoversShifts

(* Replacing the part B of a finite set A by C, disjoint from what stays.   *)
LEMMA ReplacePart ==
  ASSUME NEW A, NEW B, NEW C, IsFiniteSet(A), IsFiniteSet(C),
         B \subseteq A, (A \ B) \cap C = {}
  PROVE  Cardinality((A \ B) \cup C) =
           Cardinality(A) - Cardinality(B) + Cardinality(C)
<1>1. /\ IsFiniteSet(A \ B)
      /\ Cardinality(A \ B) = Cardinality(A) - Cardinality(A \cap B)
  BY FS_Difference
<1>2. Cardinality(A \cap B) = Cardinality(B)
  <2>1. A \cap B = B
    OBVIOUS
  <2> QED
    BY <2>1
<1>3. Cardinality((A \ B) \cup C) =
        Cardinality(A \ B) + Cardinality(C) - Cardinality((A \ B) \cap C)
  BY <1>1, FS_Union
<1> DEFINE cu == Cardinality((A \ B) \cup C)
           cd == Cardinality(A \ B)
           ci == Cardinality((A \ B) \cap C)
<1>4. ci = 0
  BY FS_EmptySet
<1>5. /\ Cardinality(A) \in Nat /\ Cardinality(C) \in Nat
      /\ Cardinality(B) \in Nat /\ Cardinality(A \ B) \in Nat
  BY <1>1, FS_CardinalityType, FS_Subset
<1> HIDE DEF cu, cd, ci
<1>6. cu = Cardinality(A) - Cardinality(B) + Cardinality(C)
  <2>1. cd = Cardinality(A) - Cardinality(B)
    BY <1>1, <1>2 DEF cd
  <2>2. cu = cd + Cardinality(C) - ci
    BY <1>3 DEF cu, cd, ci
  <2> QED
    BY <2>1, <2>2, <1>4, <1>5
<1> QED
  BY <1>6 DEF cu

(* set() writes a snapshot back: many cells change, and the counts with
   them: the old holders leave and the snapshot's arrive.                   *)
LEMMA SetInv == ASSUME IInv, Set PROVE IInv'
<1> DEFINE D == saved.idxs
<1>0. D \in SUBSET Cells
  BY DEF IInv, TypeOK, SavedOK
<1>1. /\ pos' = [i \in Cells |-> IF i \in D THEN saved.pos[i] ELSE pos[i]]
      /\ seq' = [i \in Cells |-> IF i \in D THEN saved.seq[i] ELSE seq[i]]
      /\ shift' = shift /\ hasShift' = hasShift /\ saved' = NoSave
  BY DEF Set
<1>2. ASSUME NEW s \in Seqs, NEW p \in Positions
      PROVE  seqPos'[s][p] = Cardinality(HoldersIn(Cells, pos', seq', s, p))
  <2> DEFINE A == HoldersIn(Cells, pos, seq, s, p)
             B == HoldersIn(D, pos, seq, s, p)
             C == HoldersIn(D, saved.pos, saved.seq, s, p)
  <2>1. IsFiniteSet(A) /\ IsFiniteSet(C)
    BY <1>0, HoldersFinite
  <2>2. B \subseteq A /\ (A \ B) \cap C = {}
    BY <1>0 DEF HoldersIn
  <2>3. HoldersIn(Cells, pos', seq', s, p) = (A \ B) \cup C
    BY <1>0, <1>1 DEF HoldersIn
  <2>4. seqPos[s][p] = Cardinality(A)
    BY DEF IInv, SeqPosCounts, Holders
  <2>5. seqPos'[s][p] = seqPos[s][p] - Cardinality(B) + Cardinality(C)
    BY DEF Set
  <2> HIDE DEF A, B, C, D
  <2>6. Cardinality((A \ B) \cup C) =
           Cardinality(A) - Cardinality(B) + Cardinality(C)
    BY <2>1, <2>2, ReplacePart
  <2> QED
    BY <2>3, <2>4, <2>5, <2>6
<1>3. SeqPosCounts'
  BY <1>2 DEF SeqPosCounts, Holders
<1>4. seqPos' \in [Seqs -> [Positions -> Nat]]
  <2>1. \A s \in Seqs, p \in Positions : seqPos'[s][p] \in Nat
    BY <1>2, HoldersFinite
  <2>2. seqPos' = [s \in Seqs |-> [p \in Positions |-> seqPos'[s][p]]]
    BY DEF Set
  <2> QED
    BY <2>1, <2>2
<1>5. TypeOK'
  <2>1. SavedOK'
    BY <1>1 DEF SavedOK, NoSave
  <2>2. /\ pos' \in [Cells -> Positions \cup {Empty}]
        /\ seq' \in [Cells -> SUBSET Seqs]
        /\ base' \in [Cells -> Positions \cup {Empty}]
        /\ used' \subseteq Cells
    BY DEF Set, IInv, TypeOK, SavedOK
  <2> QED
    BY <1>1, <1>4, <2>1, <2>2 DEF IInv, TypeOK
<1>6. Occupancy'
  <2>1. used' = {i \in Cells : pos'[i] # Empty}
    BY <1>0 DEF Set, IInv, Occupancy, Occupied
  <2>2. ASSUME NEW i \in Cells, pos'[i] = Empty
        PROVE  seq'[i] = {} /\ shift'[i] = 0
    <3>1. CASE i \in D
      BY <1>1, <2>2, <3>1 DEF Set, IInv, TypeOK, SavedOK
    <3>2. CASE i \notin D
      BY <1>1, <2>2, <3>2 DEF IInv, Occupancy
    <3> QED
      BY <3>1, <3>2
  <2> QED
    BY <2>1, <2>2 DEF Occupancy, Occupied
<1>7. HasShiftCoversShifts'
  BY <1>1 DEF IInv, HasShiftCoversShifts
<1> QED
  BY <1>3, <1>5, <1>6, <1>7 DEF IInv

(* reset() empties every cell and clears every count. *)
LEMMA ResetInv == ASSUME IInv, Reset PROVE IInv'
<1>1. /\ seqPos' \in [Seqs -> [Positions -> Nat]]
      /\ \A s \in Seqs, p \in Positions : seqPos'[s][p] = 0
      /\ \A i \in Cells : pos'[i] = Empty
  BY DEF Reset
<1>2. SeqPosCounts'
  <2>1. ASSUME NEW s \in Seqs, NEW p \in Positions
        PROVE  HoldersIn(Cells, pos', seq', s, p) = {}
    BY <1>1, MaxPosAssumption DEF HoldersIn, Positions, Empty
  <2> QED
    BY <1>1, <2>1, FS_EmptySet DEF SeqPosCounts, Holders
<1>3. TypeOK'
  <2>1. shift' \in [Cells -> Shifts]
    BY MaxPosAssumption DEF Reset, Shifts
  <2> QED
    BY <1>1, <2>1 DEF Reset, IInv, TypeOK, SavedOK
<1> QED
  BY <1>2, <1>3
  DEF Reset, IInv, Occupancy, Occupied, HasShiftCoversShifts

(* reset_shift() forgets the shifts, and touches no position and no owner. *)
LEMMA ResetShiftInv == ASSUME IInv, ResetShift PROVE IInv'
<1>1. SeqPosCounts'
  BY SameCells DEF IInv, ResetShift
<1>2. TypeOK'
  <2>1. shift' \in [Cells -> Shifts]
    BY MaxPosAssumption DEF ResetShift, Shifts
  <2> QED
    BY <2>1 DEF ResetShift, IInv, TypeOK, SavedOK
<1> QED
  BY <1>1, <1>2
  DEF ResetShift, IInv, Occupancy, Occupied, HasShiftCoversShifts

(* IInv is inductive: one step of the proof for each cell method. *)
LEMMA NextInv == IInv /\ [Next]_vars => IInv'
<1> SUFFICES ASSUME IInv, [Next]_vars PROVE IInv'
  OBVIOUS
<1>1. CASE Reset
  BY <1>1, ResetInv
<1>2. CASE ResetShift
  BY <1>2, ResetShiftInv
<1>3. ASSUME NEW i \in Cells, Rm(i) PROVE IInv'
  BY <1>3, RmInv
<1>4. ASSUME NEW i \in Cells, NEW s \in Seqs, SeqRm(i, s) PROVE IInv'
  BY <1>4, SeqRmInv
<1>5. ASSUME NEW i \in Cells, NEW s \in Seqs, SeqKeepOwner(i, s) PROVE IInv'
  BY <1>5, SeqKeepOwnerInv
<1>6. ASSUME NEW i \in Cells, NEW s \in Seqs, SeqKeepOther(i, s) PROVE IInv'
  BY <1>6, SeqKeepOtherInv
<1>7. ASSUME NEW i \in Cells, NEW s \in Seqs, SeqAdd(i, s) PROVE IInv'
  BY <1>7, SeqAddInv
<1>8. ASSUME NEW i \in Cells, NEW p \in Positions, PosSet(i, p) PROVE IInv'
  BY <1>8, PosSetInv
<1>9. ASSUME NEW i \in Cells, NEW d \in Offsets, PosAdd(i, d) PROVE IInv'
  BY <1>9, PosAddInv
<1>10. ASSUME NEW i \in Cells, NEW d \in Divisors, PosDiv(i, d) PROVE IInv'
  BY <1>10, PosDivInv
<1>11. ASSUME NEW idxs \in SUBSET Cells, Cp(idxs) PROVE IInv'
  BY <1>11, CpInv
<1>12. CASE Set
  BY <1>12, SetInv
<1>13. CASE UNCHANGED vars
  BY <1>13, SameCells DEF vars, IInv, TypeOK, SavedOK, Occupancy, Occupied,
                          HasShiftCoversShifts
<1> QED
  BY <1>1, <1>2, <1>3, <1>4, <1>5, <1>6, <1>7, <1>8, <1>9, <1>10, <1>11,
     <1>12, <1>13 DEF Next

(* Every index the class keeps beside its cells stays in step with them:   *)
(* types, the used set, the counts behind seq_pos_min / seq_pos_max, and   *)
(* the flag that makes the cache apply pending shifts.                     *)
THEOREM IndexesConsistent ==
  Spec => [](TypeOK /\ Occupancy /\ SeqPosCounts /\ HasShiftCoversShifts)
<1>1. Init => IInv
  BY InitInv
<1>2. IInv /\ [Next]_vars => IInv'
  BY NextInv
<1>3. IInv => TypeOK /\ Occupancy /\ SeqPosCounts /\ HasShiftCoversShifts
  BY DEF IInv
<1> QED
  BY <1>1, <1>2, <1>3, PTL DEF Spec

(* Every method keeps the types: each index stays within the cells, the    *)
(* positions and the sequences there are.                                  *)
THEOREM WellTyped == Spec => []TypeOK
  BY IndexesConsistent, PTL

(* A cell that was emptied by any of the methods, or by a restored copy,   *)
(* has left neither a sequence nor a shift to the token that takes it.     *)
THEOREM NoLeftovers == Spec => []Occupancy
  BY IndexesConsistent, PTL

(* No pending shift is skipped: has_shift covers them all.                 *)
THEOREM ShiftsFlagged == Spec => []HasShiftCoversShifts
  BY IndexesConsistent, PTL

(* What the cache may read from the count map: the positions present.      *)
LEMMA HeldFromCounts == IInv => PresentIsHeld
<1> SUFFICES ASSUME IInv, NEW s \in Seqs
             PROVE  Present(s) = {pos[i] : i \in {j \in Cells : s \in seq[j]}}
  BY DEF PresentIsHeld
<1>1. ASSUME NEW p \in Positions
      PROVE  seqPos[s][p] > 0 <=> \E i \in Cells : pos[i] = p /\ s \in seq[i]
  <2>1. seqPos[s][p] = Cardinality(Holders(s, p))
    BY DEF IInv, SeqPosCounts
  <2>2. IsFiniteSet(Holders(s, p)) /\ Cardinality(Holders(s, p)) \in Nat
    BY HoldersFinite DEF Holders
  <2>3. Cardinality(Holders(s, p)) = 0 <=> Holders(s, p) = {}
    BY <2>2, FS_EmptySet
  <2>4. Holders(s, p) # {} <=> \E i \in Cells : pos[i] = p /\ s \in seq[i]
    BY DEF Holders, HoldersIn
  <2> QED
    BY <2>1, <2>2, <2>3, <2>4
<1>2. \A i \in Cells : s \in seq[i] => pos[i] \in Positions
  BY DEF IInv, TypeOK, Occupancy
<1> QED
  BY <1>1, <1>2 DEF Present

(* In every reachable state seq_pos_min() and seq_pos_max() are computed
   from exactly the positions that some cell of the sequence has.           *)
THEOREM PresentPositions == Spec => []PresentIsHeld
<1>1. Init => IInv
  BY InitInv
<1>2. IInv /\ [Next]_vars => IInv'
  BY NextInv
<1> QED
  BY <1>1, <1>2, HeldFromCounts, PTL DEF Spec
-----------------------------------------------------------------------------
(* Emptying a cell forgets its shift: nothing is pending for it. *)
LEMMA VacateShift ==
  ASSUME ShiftAccumulates, TypeOK, NEW i \in Cells, Vacate(i)
  PROVE  ShiftAccumulates'
  BY DEF Vacate, ShiftAccumulates, Occupied, TypeOK

(* Without pos_div, every method keeps shift equal to the distance from the
   position the last rotation was done for.                                 *)
LEMMA NextShift ==
  ASSUME Divisors = {}, IInv, ShiftAccumulates, [Next]_vars
  PROVE  ShiftAccumulates'
<1> USE DEF ShiftAccumulates, Occupied
<1>t. TypeOK /\ Occupancy
  BY DEF IInv
<1>1. CASE Reset
  BY <1>1 DEF Reset
<1>2. CASE ResetShift
  <2>1. \A i \in Cells : pos[i] \in Int
    BY <1>t, MaxPosAssumption DEF TypeOK, Positions, Empty
  <2> QED
    BY <1>2, <2>1 DEF ResetShift
<1>3. ASSUME NEW i \in Cells, Rm(i) PROVE ShiftAccumulates'
  BY <1>3, <1>t, VacateShift DEF Rm
<1>4. ASSUME NEW i \in Cells, NEW s \in Seqs, SeqRm(i, s)
      PROVE  ShiftAccumulates'
  <2>1. CASE seq[i] = {s}
    BY <1>4, <2>1, <1>t, VacateShift DEF SeqRm
  <2>2. CASE seq[i] # {s}
    BY <1>4, <2>2 DEF SeqRm
  <2> QED
    BY <2>1, <2>2
<1>5. ASSUME NEW i \in Cells, NEW s \in Seqs, SeqKeepOwner(i, s)
      PROVE  ShiftAccumulates'
  BY <1>5 DEF SeqKeepOwner
<1>6. ASSUME NEW i \in Cells, NEW s \in Seqs, SeqKeepOther(i, s)
      PROVE  ShiftAccumulates'
  BY <1>6, <1>t, VacateShift DEF SeqKeepOther
<1>7. ASSUME NEW i \in Cells, NEW s \in Seqs, SeqAdd(i, s)
      PROVE  ShiftAccumulates'
  BY <1>7 DEF SeqAdd
<1>8. ASSUME NEW i \in Cells, NEW p \in Positions, PosSet(i, p)
      PROVE  ShiftAccumulates'
  BY <1>8, <1>t, MaxPosAssumption DEF PosSet, TypeOK, Occupancy, Positions
<1>9. ASSUME NEW i \in Cells, NEW d \in Offsets, PosAdd(i, d)
      PROVE  ShiftAccumulates'
  <2>1. CASE pos[i] + d < 0
    BY <1>9, <2>1, <1>t, VacateShift DEF PosAdd
  <2>2. CASE ~(pos[i] + d < 0)
    <3>1. /\ pos' = [pos EXCEPT ![i] = @ + d]
          /\ shift' = [shift EXCEPT ![i] = @ + d]
          /\ base' = base /\ pos[i] # Empty
      BY <1>9, <2>2 DEF PosAdd
    <3>2. d \in Int /\ shift[i] \in Int /\ base[i] \in Int
      BY <1>t, MaxPosAssumption
      DEF TypeOK, Offsets, Shifts, Positions, Empty
    <3> QED
      BY <3>1, <3>2, <1>t DEF TypeOK
  <2> QED
    BY <2>1, <2>2
<1>10. ASSUME NEW idxs \in SUBSET Cells, Cp(idxs) PROVE ShiftAccumulates'
  BY <1>10 DEF Cp, cells
<1>11. CASE Set
  <2>1. \A i \in Cells : i \in saved.idxs =>
          pos'[i] = saved.pos[i] /\ base'[i] = saved.pos[i] /\ shift'[i] = 0
    BY <1>11 DEF Set
  <2>2. \A i \in Cells : i \notin saved.idxs =>
          pos'[i] = pos[i] /\ base'[i] = base[i] /\ shift'[i] = shift[i]
    BY <1>11 DEF Set
  <2>3. \A i \in saved.idxs : saved.pos[i] \in Int
    BY <1>t, MaxPosAssumption DEF TypeOK, SavedOK, Positions, Empty
  <2> QED
    BY <2>1, <2>2, <2>3
<1>12. CASE UNCHANGED vars
  BY <1>12 DEF vars
<1> QED
  BY <1>1, <1>2, <1>3, <1>4, <1>5, <1>6, <1>7, <1>8, <1>9, <1>10, <1>11,
     <1>12 DEF Next

(* Without pos_div a pending shift is exactly the rotation the K data      *)
(* still lacks.  With it the sign of the shift is the wrong way round.     *)
THEOREM PendingShift ==
  ASSUME Divisors = {}
  PROVE  Spec => []ShiftAccumulates
<1>1. Init => IInv /\ ShiftAccumulates
  BY InitInv DEF Init, ShiftAccumulates, Occupied
<1>2. IInv /\ ShiftAccumulates /\ [Next]_vars => IInv' /\ ShiftAccumulates'
  BY NextInv, NextShift
<1> QED
  BY <1>1, <1>2, PTL DEF Spec
=============================================================================

---------------------------- MODULE KVWindowProofs ----------------------------
(***************************************************************************)
(* Proofs that a decode keeps what the attention window of a sequence      *)
(* still covers, and leaves no hole in a sequence that had none.           *)
(*                                                                         *)
(* prepare purges positions while it looks for slots and does not put them *)
(* back, so that between it and the last ubatch a sequence may well have a *)
(* hole: a position purged for the slot of a later ubatch is gone, while   *)
(* the cell of that slot has been put back.  The invariant says that the   *)
(* holes are harmless: every missing position is behind the window, and    *)
(* whatever the sequence still holds at or below it sits in a cell that is *)
(* reserved for a ubatch to come.                                          *)
(***************************************************************************)
EXTENDS KVCacheProofs

(* The positions of the sequence s among the tokens of the ubatch u that   *)
(* go to the stream st, those of the first n ubatches of the batch, and    *)
(* what the sequence holds once these are written if nothing is purged.    *)
PosIn(st, u, s)    == {u[k].pos : k \in {j \in TokensOn(st, u) : s \in u[j].seqs}}
Written(st, s, n)  == UNION {PosIn(st, before.batch[j], s) : j \in 1 .. n}
Grown(st, s, n)    == Held(before.cell[st], s) \cup Written(st, s, n)

(* A position is behind the window of s as a later token sees it, at the   *)
(* latest the first one of the last ubatch.                                *)
Behind(st, p, s) == \E q \in Grown(st, s, Len(before.batch) - 1) : Masked(p, q + 1)

(* The cells of the slots that are still to be written for good.           *)
Reserved(st, i) == \E m \in 1 .. Len(slots) : InSlot(slots[m], st, i)

(* A position that is gone: it is behind the window, and outside the       *)
(* reserved cells s holds only what is above it.                           *)
Above(st, p, s) ==
  \A i \in Idx : ~Reserved(st, i) /\ s \in cell[st][i].seq => cell[st][i].pos > p
Lost(st, p, s) == Behind(st, p, s) /\ Above(st, p, s)

(* The content of a cell that may be overwritten: empty, or of a single    *)
(* sequence that no longer sees it.                                        *)
Spent(st, x) == x.pos = -1 \/ \E s \in Seqs : x.seq = {s} /\ Behind(st, x.pos, s)

(* The token that takes the cell i in the m-th slot, and that no sequence  *)
(* sees when the decode ends.                                              *)
Taker(m, st, i) == batch[m][TokenAt(slots[m][st], i)]
Passed(st, t)   == \E s \in Seqs : t.seqs = {s} /\ Behind(st, t.pos, s)

(* The batch appends to each sequence, ubatch after ubatch, without a gap. *)
Begun == before.cell \in [Streams -> Cells] /\ before.batch \in Seq(Seq(Token))
Ordered ==
  \A st \in Streams, s \in Seqs, j \in 1 .. Len(before.batch) :
    \A p \in PosIn(st, before.batch[j], s), q \in Grown(st, s, j - 1) : q < p
Dense ==
  \A st \in Streams, s \in Seqs :
    \A p \in Written(st, s, Len(before.batch)), r \in 0 .. MaxPos :
      PosMax(before.cell[st], s) < r /\ r < p => r \in Written(st, s, Len(before.batch))

(* The cells after n ubatches.                                             *)
Settled(n) ==
  \A st \in Streams, s \in Seqs :
    /\ Held(cell[st], s) \subseteq Grown(st, s, n)
    /\ \A p \in Grown(st, s, n) : p \in Held(cell[st], s) \/ Lost(st, p, s)

Done == Len(before.batch) - Len(batch)

(* What holds from the start of a decode to its end: a cell is given to    *)
(* two ubatches only if nobody sees the token of the first one any more.   *)
Reused ==
  \A m, l \in 1 .. Len(slots) : \A st \in Streams, i \in Idx :
    m < l /\ InSlot(slots[m], st, i) /\ InSlot(slots[l], st, i) => Passed(st, Taker(m, st, i))
Underway ==
  /\ Begun /\ Ordered /\ Dense /\ Reused
  /\ Len(batch) <= Len(before.batch)
  /\ \A j \in 1 .. Len(batch) : batch[j] = before.batch[Done + j]

(* While prepare places: the tokens placed are where they were put, unless *)
(* nobody sees them any more.                                              *)
Placing ==
  /\ slots = <<>> => cell = before.cell
  /\ \A st \in Streams, s \in Seqs : Held(cell[st], s) \subseteq Grown(st, s, Len(slots))
  /\ \A m \in 1 .. Len(slots), st \in Streams, i \in Idx : InSlot(slots[m], st, i) =>
       \/ cell[st][i].pos = Taker(m, st, i).pos /\ cell[st][i].seq = Taker(m, st, i).seqs
       \/ Passed(st, Taker(m, st, i))

(* While it places and puts back: the states it remembers are, outside the *)
(* cells that it will put back on the way there, those at the start but    *)
(* for what is lost.                                                       *)
Faithful(st, x, y) ==
  /\ x.seq \subseteq y.seq /\ (x.seq # {} => x.pos = y.pos)
  /\ \A s \in y.seq : s \in x.seq \/ Lost(st, y.pos, s)
Retracing ==
  /\ Len(batch) = Len(before.batch)
  /\ \A m \in 1 .. Len(undo) : undo[m].slot = slots[Len(undo) + 1 - m]
  /\ \A k \in 0 .. Len(undo), st \in Streams, i \in Idx :
       PutBack(k, st, i) \/ Faithful(st, Past(k)[st][i], before.cell[st][i])
  /\ \A k \in 1 .. Len(undo), st \in Streams, i \in Idx :
       InSlot(undo[k].slot, st, i) => Spent(st, undo[k].cell[st][i])
  /\ \A st \in Streams, i \in Idx :
       Reserved(st, i) => PutBack(0, st, i) \/ Spent(st, cell[st][i])
  /\ phase = "restore" /\ ret = "no slot" => Len(batch) > 1

Computed ==
  /\ Settled(Done)
  /\ \A st \in Streams, i \in Idx : Reserved(st, i) => Spent(st, cell[st][i])

Ended == Begun /\ Ordered /\ Dense /\ Settled(IF ret = "ok" THEN Len(before.batch) ELSE 0)

WindowInv ==
  /\ phase # "idle" => Underway
  /\ phase = "place" => Placing
  /\ phase \in {"place", "restore"} => Retracing
  /\ phase = "compute" => Computed
  /\ Decoded /\ Clean => Ended

-----------------------------------------------------------------------------
(* The operators of the invariant.                                         *)

LEMMA HeldIs ==
  ASSUME NEW c, NEW s, NEW p
  PROVE  p \in Held(c, s) <=> \E i \in Idx : s \in c[i].seq /\ c[i].pos = p
BY DEF Held

LEMMA PosInIs ==
  ASSUME NEW st, NEW u, NEW s, NEW p
  PROVE  p \in PosIn(st, u, s) <=> \E k \in TokensOn(st, u) : s \in u[k].seqs /\ u[k].pos = p
BY DEF PosIn

LEMMA GrownIs ==
  ASSUME NEW st, NEW s, NEW n, NEW p
  PROVE  /\ p \in Written(st, s, n) <=> \E j \in 1 .. n : p \in PosIn(st, before.batch[j], s)
         /\ p \in Grown(st, s, n) <=> p \in Held(before.cell[st], s) \/ p \in Written(st, s, n)
BY DEF Grown, Written

LEMMA HeldTyped ==
  ASSUME NEW c \in Cells, NEW s
  PROVE  Held(c, s) \subseteq 0 .. MaxPos
<1> SUFFICES ASSUME NEW i \in Idx, s \in c[i].seq PROVE c[i].pos \in 0 .. MaxPos
  BY HeldIs
<1>1. c[i] \in SoundCell
  BY DEF Cells
<1>2. c[i].pos \in -1 .. MaxPos /\ c[i].pos # -1
  BY <1>1 DEF SoundCell
<1> QED
  BY <1>2, SizesAssumption

LEMMA PosInTyped ==
  ASSUME NEW u \in Seq(Token), NEW st \in Streams, NEW s
  PROVE  PosIn(st, u, s) \subseteq 0 .. MaxPos
<1> SUFFICES ASSUME NEW k \in TokensOn(st, u) PROVE u[k].pos \in 0 .. MaxPos
  BY PosInIs
<1>1. u[k] \in Token
  BY TokensOnIs
<1> QED
  BY <1>1 DEF Token

LEMMA GrownTyped ==
  ASSUME Begun, NEW st \in Streams, NEW s, NEW n \in Int, n <= Len(before.batch)
  PROVE  Grown(st, s, n) \subseteq 0 .. MaxPos
<1>1. before.cell[st] \in Cells /\ before.batch \in Seq(Seq(Token)) /\ Len(before.batch) \in Nat
  BY DEF Begun
<1>2. \A j \in 1 .. n : before.batch[j] \in Seq(Token)
  BY <1>1
<1>3. \A j \in 1 .. n : PosIn(st, before.batch[j], s) \subseteq 0 .. MaxPos
  BY <1>2, PosInTyped
<1>4. Held(before.cell[st], s) \subseteq 0 .. MaxPos
  BY <1>1, HeldTyped
<1> QED
  BY <1>3, <1>4, GrownIs

LEMMA GrownMore ==
  ASSUME NEW st, NEW s, NEW n \in Int, NEW m \in Int, n <= m
  PROVE  Grown(st, s, n) \subseteq Grown(st, s, m)
<1>1. 1 .. n \subseteq 1 .. m
  OBVIOUS
<1> QED
  BY <1>1, GrownIs

(* What is below a position behind the window is behind it too.            *)
LEMMA BehindDown ==
  ASSUME Begun, NEW st \in Streams, NEW s, NEW p \in Int, NEW r \in Int,
         Behind(st, p, s), r <= p
  PROVE  Behind(st, r, s)
<1>1. PICK q \in Grown(st, s, Len(before.batch) - 1) : Masked(p, q + 1)
  BY DEF Behind
<1>2. q \in Int
  <2>1. Len(before.batch) \in Nat
    BY DEF Begun
  <2>2. Len(before.batch) - 1 \in Int /\ Len(before.batch) - 1 <= Len(before.batch)
    BY <2>1
  <2> QED
    BY <2>2, GrownTyped
<1>3. Masked(r, q + 1)
  BY <1>1, <1>2, SizesAssumption DEF Masked
<1> QED
  BY <1>3 DEF Behind

(* All of it speaks of the decode, which does not change on the way.       *)
LEMMA BeforeKept ==
  ASSUME before' = before
  PROVE  /\ \A st, s, n : Grown(st, s, n)' = Grown(st, s, n) /\ Written(st, s, n)' = Written(st, s, n)
         /\ \A st, p, s : Behind(st, p, s)' <=> Behind(st, p, s)
         /\ \A st, x : Spent(st, x)' <=> Spent(st, x)
         /\ \A st, t : Passed(st, t)' <=> Passed(st, t)
         /\ (Begun' <=> Begun) /\ (Ordered' <=> Ordered) /\ (Dense' <=> Dense)
<1>1. \A st, s, n : Grown(st, s, n)' = Grown(st, s, n) /\ Written(st, s, n)' = Written(st, s, n)
  BY DEF Grown, Written
<1>2. \A st, p, s : Behind(st, p, s)' <=> Behind(st, p, s)
  BY <1>1 DEF Behind
<1>3. \A st, x : Spent(st, x)' <=> Spent(st, x)
  BY <1>2 DEF Spent
<1>4. \A st, t : Passed(st, t)' <=> Passed(st, t)
  BY <1>2 DEF Passed
<1>5. (Begun' <=> Begun) /\ (Ordered' <=> Ordered) /\ (Dense' <=> Dense)
  BY <1>1 DEF Begun, Ordered, Dense
<1> QED
  BY <1>1, <1>2, <1>3, <1>4, <1>5
-----------------------------------------------------------------------------
(* What a ubatch does to the sequences of a stream.                        *)

LEMMA WithoutSeq ==
  ASSUME NEW x \in SoundCell, NEW S
  PROVE  /\ Without(x, S).seq = x.seq \ S
         /\ x.seq \ S # {} => Without(x, S).pos = x.pos
<1>1. CASE x.seq \subseteq S
  BY <1>1, EmptySound DEF Without
<1>2. CASE ~(x.seq \subseteq S)
  BY <1>2 DEF Without, SoundCell
<1> QED
  BY <1>1, <1>2

LEMMA MaxRmIs ==
  ASSUME NEW c \in Cells, NEW slot, Range(slot) \subseteq Idx, NEW s
  PROVE  /\ MaxRm(c, slot, s) \in -1 .. MaxPos
         /\ MaxRm(c, slot, s) = -1
            \/ \E j \in Range(slot) : c[j].seq = {s} /\ c[j].pos = MaxRm(c, slot, s)
         /\ \A j \in Range(slot) : c[j].seq = {s} => c[j].pos <= MaxRm(c, slot, s)
<1> DEFINE T == {c[i].pos : i \in {j \in Range(slot) : c[j].seq = {s}}} \cup {-1}
<1>1. \A i \in Idx : c[i].pos \in -1 .. MaxPos
  BY DEF Cells, SoundCell
<1>2. T \subseteq -1 .. MaxPos /\ T # {} /\ -1 \in Int /\ MaxPos \in Int
  BY <1>1, SizesAssumption
<1>3. \A t \in T : t = -1 \/ \E j \in Range(slot) : c[j].seq = {s} /\ c[j].pos = t
  OBVIOUS
<1>4. \A j \in Range(slot) : c[j].seq = {s} => c[j].pos \in T
  OBVIOUS
<1>9. \A t \in T : t \in Int
  BY <1>2
<1> HIDE DEF T
<1>5. Max(T) \in T /\ \A y \in T : Max(T) >= y
  BY <1>2, MaxIs
<1>6. MaxRm(c, slot, s) = Max(T)
  BY DEF MaxRm, T
<1>7. Max(T) \in -1 .. MaxPos
  BY <1>2, <1>5
<1>8. \A j \in Range(slot) : c[j].seq = {s} => c[j].pos <= Max(T)
  <2> SUFFICES ASSUME NEW j \in Range(slot), c[j].seq = {s} PROVE c[j].pos <= Max(T)
    OBVIOUS
  <2>1. c[j].pos \in T
    BY <1>4
  <2>2. c[j].pos \in Int /\ Max(T) \in Int
    BY <1>5, <1>9, <2>1
  <2> QED
    BY <1>5, <2>1, <2>2
<1> QED
  BY <1>3, <1>5, <1>6, <1>7, <1>8

(* The tokens take the cells of the slot whole.  Elsewhere a sequence      *)
(* leaves a cell only because one of its own cells was overwritten at or   *)
(* above it, and then it leaves all of them.                               *)
Below(c, R, s, p)  == \E j \in R : c[j].seq = {s} /\ p <= c[j].pos
Effects(c, d, R, s, i) ==
  /\ i \notin R => d[i].seq \subseteq c[i].seq /\ (d[i].seq # {} => d[i].pos = c[i].pos)
  /\ i \notin R /\ s \in c[i].seq /\ s \notin d[i].seq => Below(c, R, s, c[i].pos)
  /\ s \in d[i].seq => ~Below(c, R, s, d[i].pos)

LEMMA ApplyEffects ==
  ASSUME NEW c \in Cells, NEW u \in Seq(Token), NEW K \in SUBSET DOMAIN u,
         NEW slot \in [K -> Idx],
         \A k \in K : \A s \in u[k].seqs : \A q \in Held(c, s) : q < u[k].pos,
         NEW i \in Idx
  PROVE  /\ i \in Range(slot) =>
              /\ Apply(c, slot, u)[i].pos = u[TokenAt(slot, i)].pos
              /\ Apply(c, slot, u)[i].seq = u[TokenAt(slot, i)].seqs
         /\ \A s : Effects(c, Apply(c, slot, u), Range(slot), s, i)
<1> DEFINE x == Placed(c, slot, u)[i]
           S == {s \in x.seq : x.pos <= MaxRm(c, slot, s)}
           y == Apply(c, slot, u)[i]
           R == Range(slot)
           k == TokenAt(slot, i)
<1>1. x \in SoundCell
  <2>1. Placed(c, slot, u) \in Cells
    BY PlacedIs
  <2> QED
    BY <2>1 DEF Cells
<1>2. y = Without(x, S)
  BY DEF Apply
<1>3. R \subseteq Idx
  BY DEF Range
<1>4. \A s : /\ MaxRm(c, slot, s) \in -1 .. MaxPos
             /\ MaxRm(c, slot, s) = -1
                \/ \E j \in R : c[j].seq = {s} /\ c[j].pos = MaxRm(c, slot, s)
             /\ \A j \in R : c[j].seq = {s} => c[j].pos <= MaxRm(c, slot, s)
  BY <1>3, MaxRmIs
<1>5. i \notin R => x = c[i]
  BY DEF Placed
<1>6. i \in R =>
        /\ k \in K /\ u[k] \in Token
        /\ x = [pos |-> u[k].pos, seq |-> u[k].seqs, shift |-> 0, tok |-> u[k].tok]
  BY PlacedIs
<1>7. i \in R => k \in K /\ u[k] \in Token /\ x.pos = u[k].pos /\ x.seq = u[k].seqs
  BY <1>6
<1>8. /\ x.pos \in -1 .. MaxPos /\ (x.seq = {} <=> x.pos = -1)
      /\ \A j \in Idx : c[j].pos \in -1 .. MaxPos /\ (c[j].seq = {} <=> c[j].pos = -1)
  BY <1>1 DEF Cells, SoundCell
<1> HIDE DEF x, y, k, S, R
<1>9. y.seq = x.seq \ S /\ (y.seq # {} => y.pos = x.pos)
  BY <1>1, <1>2, WithoutSeq
<1>10. ASSUME i \in R
       PROVE  y.pos = u[k].pos /\ y.seq = u[k].seqs
              /\ \A s \in y.seq, j \in R : c[j].seq = {s} => c[j].pos < y.pos
  <2>1. ASSUME NEW s \in x.seq PROVE s \notin S /\ \A j \in R : c[j].seq = {s} => c[j].pos < x.pos
    <3>1. \A j \in R : c[j].seq = {s} => c[j].pos < x.pos
      <4>1. \A j \in R : c[j].seq = {s} => c[j].pos \in Held(c, s)
        BY <1>3, HeldIs
      <4> QED
        BY <1>7, <1>10, <4>1
    <3>2. x.pos # -1
      BY <1>8
    <3> DEFINE M == MaxRm(c, slot, s)
    <3>7. M \in Int
      BY <1>4, SizesAssumption
    <3>3. M \in Int /\ (M = -1 \/ \E j \in R : c[j].seq = {s} /\ c[j].pos = M)
      BY <1>4, <3>7, Zenon
    <3>5. x.pos \in Int /\ x.pos >= 0
      BY <1>8, <3>2, SizesAssumption
    <3> HIDE DEF M
    <3>6. M < x.pos
      BY <3>1, <3>3, <3>5
    <3>4. ~(x.pos <= MaxRm(c, slot, s))
      BY <3>3, <3>5, <3>6 DEF M
    <3> QED
      BY <3>1, <3>4 DEF S
  <2>2. y.seq = x.seq
    BY <1>9, <2>1 DEF S
  <2>3. x.seq # {}
    <3>1. u[k].seqs # {}
      BY <1>7, <1>10, Sizes DEF Token
    <3> QED
      BY <1>7, <1>10, <3>1
  <2> QED
    BY <1>7, <1>9, <1>10, <2>1, <2>2, <2>3
<1>11. ASSUME i \notin R, NEW s
       PROVE  /\ y.seq \subseteq c[i].seq /\ (y.seq # {} => y.pos = c[i].pos)
              /\ s \in c[i].seq /\ s \notin y.seq => Below(c, R, s, c[i].pos)
              /\ s \in y.seq => ~Below(c, R, s, y.pos)
  <2>1. x = c[i] /\ y.seq \subseteq c[i].seq /\ (y.seq # {} => y.pos = c[i].pos)
    BY <1>5, <1>9, <1>11
  <2>2. ASSUME s \in c[i].seq, s \notin y.seq PROVE Below(c, R, s, c[i].pos)
    <3>1. x.pos <= MaxRm(c, slot, s)
      BY <1>9, <2>1, <2>2 DEF S
    <3>2. x.pos # -1 /\ x.pos >= 0
      BY <1>8, <2>1, <2>2, SizesAssumption
    <3>3. MaxRm(c, slot, s) # -1
      <4> DEFINE M == MaxRm(c, slot, s)
      <4>1. M \in Int /\ x.pos <= M /\ x.pos \in Int
        BY <1>4, <1>8, <3>1, SizesAssumption
      <4> HIDE DEF M
      <4>2. M # -1
        BY <3>2, <4>1
      <4> QED
        BY <4>2 DEF M
    <3> QED
      BY <1>4, <2>1, <3>1, <3>3 DEF Below
  <2>3. ASSUME s \in y.seq PROVE ~Below(c, R, s, y.pos)
    <3>1. s \in x.seq /\ s \notin S
      BY <1>9, <2>3
    <3>2. ~(x.pos <= MaxRm(c, slot, s)) /\ y.pos = x.pos
      BY <2>1, <2>3, <3>1 DEF S
    <3>3. \A j \in R : c[j].seq = {s} => ~(x.pos <= c[j].pos)
      BY <1>3, <1>4, <1>8, <3>2, SizesAssumption
    <3> QED
      BY <3>2, <3>3 DEF Below
  <2> QED
    BY <2>1, <2>2, <2>3
<1>12. ASSUME i \in R, NEW s, s \in y.seq PROVE ~Below(c, R, s, y.pos)
  <2>1. y.pos \in Int
    BY <1>7, <1>8, <1>10, <1>12
  <2> QED
    BY <1>3, <1>8, <1>10, <1>12, <2>1, SizesAssumption DEF Below
<1>13. \A s : Effects(c, Apply(c, slot, u), R, s, i)
  BY <1>11, <1>12 DEF Effects, y
<1> QED
  BY <1>10, <1>13 DEF y, k, R
Taken(slot, st) == {i \in Idx : InSlot(slot, st, i)}

LEMMA TakerIs ==
  ASSUME NEW u \in Seq(Token), NEW slot, IsSlot(u, slot), NEW st \in Streams
  PROVE  /\ \A i \in Idx : InSlot(slot, st, i) =>
              /\ TokenAt(slot[st], i) \in TokensOn(st, u)
              /\ u[TokenAt(slot[st], i)] \in Token
         /\ \A k \in TokensOn(st, u) :
              \E i \in Idx : InSlot(slot, st, i) /\ TokenAt(slot[st], i) = k
<1>1. ASSUME NEW i \in Idx, InSlot(slot, st, i)
      PROVE  TokenAt(slot[st], i) \in TokensOn(st, u) /\ u[TokenAt(slot[st], i)] \in Token
  <2>1. st \in StreamsOf(u) /\ i \in Range(slot[st]) /\ slot[st] \in [TokensOn(st, u) -> Idx]
    BY <1>1 DEF InSlot, IsSlot
  <2>2. \E k \in DOMAIN slot[st] : slot[st][k] = i
    BY <2>1 DEF Range
  <2>3. TokenAt(slot[st], i) \in DOMAIN slot[st]
    BY <2>2 DEF TokenAt
  <2>4. TokenAt(slot[st], i) \in TokensOn(st, u)
    BY <2>1, <2>3
  <2> QED
    BY <2>4, TokensOnIs
<1>2. ASSUME NEW k \in TokensOn(st, u)
      PROVE  \E i \in Idx : InSlot(slot, st, i) /\ TokenAt(slot[st], i) = k
  <2>1. st \in StreamsOf(u)
    BY DEF StreamsOf
  <2>2. /\ slot[st] \in [TokensOn(st, u) -> Idx] /\ st \in DOMAIN slot
        /\ \A j, l \in TokensOn(st, u) : slot[st][j] = slot[st][l] => j = l
    BY <2>1 DEF IsSlot
  <2> DEFINE i == slot[st][k]
  <2>3. i \in Idx /\ InSlot(slot, st, i)
    BY <2>2 DEF InSlot, Range
  <2>4. \E j \in DOMAIN slot[st] : slot[st][j] = i
    BY <2>2
  <2>5. TokenAt(slot[st], i) \in DOMAIN slot[st] /\ slot[st][TokenAt(slot[st], i)] = i
    BY <2>4 DEF TokenAt
  <2>6. TokenAt(slot[st], i) = k
    BY <2>2, <2>5
  <2> QED
    BY <2>3, <2>6
<1> QED
  BY <1>1, <1>2

(* The tokens of a ubatch come after all that the stream holds.            *)
Ahead(st, u) == \A s \in Seqs : \A p \in PosIn(st, u, s), q \in Held(cell[st], s) : q < p

LEMMA AppliedEffects ==
  ASSUME Stored, NEW u \in Seq(Token), NEW slot, IsSlot(u, slot), NEW st \in Streams,
         Ahead(st, u), NEW i \in Idx
  PROVE  /\ InSlot(slot, st, i) =>
              /\ Applied(u, slot)[st][i].pos = u[TokenAt(slot[st], i)].pos
              /\ Applied(u, slot)[st][i].seq = u[TokenAt(slot[st], i)].seqs
         /\ \A s : Effects(cell[st], Applied(u, slot)[st], Taken(slot, st), s, i)
<1>1. CASE st \notin StreamsOf(u)
  <2>1. Applied(u, slot)[st] = cell[st] /\ Taken(slot, st) = {} /\ ~InSlot(slot, st, i)
    BY <1>1 DEF Applied, Taken, InSlot, IsSlot
  <2> QED
    BY <2>1 DEF Effects, Below
<1>2. CASE st \in StreamsOf(u)
  <2> DEFINE c == cell[st]
             K == TokensOn(st, u)
             t == slot[st]
  <2>1. c \in Cells /\ K \in SUBSET DOMAIN u /\ t \in [K -> Idx]
    BY <1>2, TokensOnIs DEF IsSlot, Stored
  <2>2. Applied(u, slot)[st] = Apply(c, t, u) /\ (InSlot(slot, st, i) <=> i \in Range(t))
    BY <1>2 DEF Applied, InSlot, IsSlot
  <2>3. Taken(slot, st) = Range(t)
    BY <1>2, <2>1 DEF Taken, InSlot, IsSlot, Range
  <2>4. \A k \in K : \A s \in u[k].seqs : \A q \in Held(c, s) : q < u[k].pos
    <3> SUFFICES ASSUME NEW k \in K, NEW s \in u[k].seqs, NEW q \in Held(c, s) PROVE q < u[k].pos
      OBVIOUS
    <3>1. u[k] \in Token
      BY <2>1
    <3>2. s \in Seqs
      BY <3>1, Sizes DEF Token
    <3>3. u[k].pos \in PosIn(st, u, s)
      BY PosInIs
    <3> QED
      BY <3>2, <3>3 DEF Ahead
  <2> HIDE DEF c, K, t
  <2>5. /\ i \in Range(t) =>
             /\ Apply(c, t, u)[i].pos = u[TokenAt(t, i)].pos
             /\ Apply(c, t, u)[i].seq = u[TokenAt(t, i)].seqs
        /\ \A s : Effects(c, Apply(c, t, u), Range(t), s, i)
    BY <2>1, <2>4, ApplyEffects
  <2> QED
    BY <2>2, <2>3, <2>5 DEF c, t
<1> QED
  BY <1>1, <1>2

(* What is purged with an overwritten cell is lost.                        *)
LEMMA PurgedIsLost ==
  ASSUME Begun, Stored, NEW st \in Streams, NEW d, NEW R \in SUBSET Idx, NEW s,
         \A j \in R : Spent(st, cell[st][j]),
         \A i \in Idx : Effects(cell[st], d, R, s, i),
         \A i \in Idx : d[i].pos \in Int,
         NEW p \in Int, Below(cell[st], R, s, p)
  PROVE  Behind(st, p, s) /\ \A i \in Idx : s \in d[i].seq => d[i].pos > p
<1>1. PICK j \in R : cell[st][j].seq = {s} /\ p <= cell[st][j].pos
  BY DEF Below
<1>2. cell[st][j] \in SoundCell
  BY DEF Stored, Cells
<1>3. cell[st][j].pos \in Int /\ cell[st][j].pos # -1
  BY <1>1, <1>2, SizesAssumption DEF SoundCell
<1>4. Behind(st, cell[st][j].pos, s)
  BY <1>1, <1>3 DEF Spent
<1>5. Behind(st, p, s)
  BY <1>1, <1>3, <1>4, BehindDown
<1>6. ASSUME NEW i \in Idx, s \in d[i].seq PROVE d[i].pos > p
  <2>1. ~Below(cell[st], R, s, d[i].pos)
    BY <1>6 DEF Effects
  <2>2. ~(d[i].pos <= cell[st][j].pos)
    BY <1>1, <2>1 DEF Below
  <2> QED
    BY <1>1, <1>3, <2>2
<1> QED
  BY <1>5, <1>6

(* find_slot takes cells that may be overwritten.                          *)
LEMMA UsableSpent ==
  ASSUME Begun, Stored, NEW st \in Streams, NEW i \in Idx, Usable(cell[st], i),
         NEW n \in Nat, n < Len(before.batch),
         \A s \in Seqs : Held(cell[st], s) \subseteq Grown(st, s, n)
  PROVE  Spent(st, cell[st][i])
<1>1. CASE cell[st][i].pos = -1
  BY <1>1 DEF Spent
<1>2. CASE cell[st][i].pos # -1
  <2> DEFINE c == cell[st]
  <2>1. PICK s \in Seqs : c[i].seq = {s} /\ Masked(c[i].pos, PosMax(c, s) + 1)
    BY <1>2 DEF Usable
  <2>2. c \in Cells
    BY DEF Stored
  <2> HIDE DEF c
  <2>3. c[i].pos \in Held(c, s)
    BY <2>1, HeldIs
  <2>4. c[i].pos \in 0 .. MaxPos
    BY <2>2, <2>3, HeldTyped
  <2>5. PosMax(c, s) \in Held(c, s)
    <3>1. PosMax(c, s) >= c[i].pos /\ PosMax(c, s) \in -1 .. MaxPos
      BY <2>2, <2>3, PosMaxIs
    <3>2. PosMax(c, s) # -1
      BY <2>4, <3>1, SizesAssumption
    <3> QED
      BY <2>2, <3>2, PosMaxIs
  <2>6. PosMax(c, s) \in Grown(st, s, Len(before.batch) - 1)
    <3>1. PosMax(c, s) \in Grown(st, s, n)
      BY <2>1, <2>5 DEF c
    <3>2. Len(before.batch) - 1 \in Int /\ n <= Len(before.batch) - 1 /\ n \in Int
      BY DEF Begun
    <3> QED
      BY <3>1, <3>2, GrownMore
  <2>7. Behind(st, c[i].pos, s)
    BY <2>1, <2>6 DEF Behind
  <2> QED
    BY <2>1, <2>7 DEF Spent, c
<1> QED
  BY <1>1, <1>2
-----------------------------------------------------------------------------
(* prepare places a ubatch.                                                *)

PlaceStep(u, slot, n) ==
  /\ Stored /\ Sequences /\ phase = "place" /\ n = Len(slots) /\ n \in Nat
  /\ n < Len(batch) /\ Len(batch) \in Nat /\ Len(undo) = n
  /\ u = batch[n + 1] /\ u \in Seq(Token) /\ IsSlot(u, slot)
  /\ \A st \in Streams, i \in Idx : InSlot(slot, st, i) => Usable(cell[st], i)
  /\ cell' = Applied(u, slot) /\ cell' \in [Streams -> Cells]
  /\ Len(slots') = n + 1 /\ slots'[n + 1] = slot
  /\ \A m \in 1 .. n : slots'[m] = slots[m]
  /\ Len(undo') = n + 1 /\ undo'[1].slot = slot /\ undo'[1].cell = cell
  /\ \A m \in 1 .. n : undo'[m + 1] = undo[m]
  /\ batch' = batch /\ before' = before /\ ret' = None
  /\ phase' \in {"place", "restore"}

LEMMA PlaceIs ==
  ASSUME CacheOK, PlaceUbatch
  PROVE  \E u, slot, n : PlaceStep(u, slot, n)
<1> DEFINE n == Len(slots)
           u == batch[n + 1]
<1>1. /\ Stored /\ Sequences /\ phase = "place" /\ n < Len(batch)
      /\ Len(undo) = n /\ ret = None
  BY DEF CacheOK, Phased, PlaceUbatch
<1>2. n \in Nat /\ Len(batch) \in Nat /\ u \in Seq(Token)
  <2>1. Len(batch) \in Nat /\ n \in Nat
    BY <1>1, Lengths
  <2>2. n + 1 \in 1 .. Len(batch)
    BY <1>1, <2>1
  <2> QED
    BY <1>1, <2>1, <2>2 DEF Sequences
<1>3. PICK slot \in SlotsFor(u) :
        /\ cell' = Applied(u, slot)
        /\ slots' = Append(slots, slot)
        /\ undo' = <<[slot |-> slot, cell |-> cell, head |-> head]>> \o undo
  BY DEF PlaceUbatch, Emplace
<1>4. /\ IsSlot(u, slot) /\ slot \in Slot
      /\ \A st \in StreamsOf(u) : \A i \in Range(slot[st]) : Usable(cell[st], i)
  BY <1>1, <1>2, SlotsForIs DEF Stored
<1>5. \A st \in Streams, i \in Idx : InSlot(slot, st, i) => Usable(cell[st], i)
  BY <1>4 DEF InSlot, IsSlot
<1>6. Len(slots') = n + 1 /\ slots'[n + 1] = slot /\ \A m \in 1 .. n : slots'[m] = slots[m]
  BY <1>1, <1>3, <1>4 DEF Sequences
<1>7. /\ Len(undo') = n + 1
      /\ undo'[1].slot = slot /\ undo'[1].cell = cell
      /\ \A m \in 1 .. n : undo'[m + 1] = undo[m]
  <2> DEFINE r == [slot |-> slot, cell |-> cell, head |-> head]
  <2>1. r.slot = slot /\ r.cell = cell
    OBVIOUS
  <2> HIDE DEF r
  <2>2. undo \in Seq(Undo) /\ undo' = <<r>> \o undo
    BY <1>1, <1>3 DEF Sequences, r
  <2>3. <<r>> \in Seq({r}) /\ Len(<<r>>) = 1 /\ <<r>>[1] = r
    OBVIOUS
  <2>4. /\ Len(undo') = 1 + n /\ undo'[1] = r
        /\ \A m \in 1 .. n : undo'[m + 1] = undo[m]
    BY <1>1, <1>2, <2>2, <2>3
  <2> QED
    BY <1>2, <2>1, <2>4
<1>8. cell' \in [Streams -> Cells]
  BY PlaceOK DEF CacheOK, Stored
<1>9. batch' = batch /\ before' = before /\ ret' = None /\ phase' \in {"place", "restore"}
  BY <1>1 DEF PlaceUbatch
<1> HIDE DEF u, n
<1>10. PlaceStep(u, slot, n)
  BY <1>1, <1>2, <1>3, <1>4, <1>5, <1>6, <1>7, <1>8, <1>9 DEF PlaceStep, u, n
<1> QED
  BY <1>10

(* What the step starts from.                                              *)
Placeable(u, slot, n) ==
  /\ PlaceStep(u, slot, n) /\ Underway /\ Placing /\ Retracing

LEMMA PlaceBatch ==
  ASSUME NEW u, NEW slot, NEW n, Placeable(u, slot, n)
  PROVE  /\ n < Len(before.batch) /\ Len(before.batch) \in Nat /\ Len(batch) = Len(before.batch)
         /\ u = before.batch[n + 1]
<1>1. Begun /\ n \in Nat /\ n < Len(batch) /\ Len(batch) = Len(before.batch) /\ u = batch[n + 1]
  BY DEF Placeable, PlaceStep, Underway, Retracing
<1>2. Len(before.batch) \in Nat
  BY <1>1 DEF Begun
<1>3. Done = 0 /\ n + 1 \in 1 .. Len(batch)
  BY <1>1, <1>2 DEF Done
<1>4. batch[n + 1] = before.batch[Done + (n + 1)]
  BY <1>3 DEF Placeable, Underway
<1>5. Done + (n + 1) = n + 1
  BY <1>1, <1>3
<1> QED
  BY <1>1, <1>2, <1>4, <1>5

(* The slot is spent, and its ubatch is ahead of what the streams hold.    *)
LEMMA PlaceEffects ==
  ASSUME NEW u, NEW slot, NEW n, Placeable(u, slot, n), NEW st \in Streams
  PROVE  /\ \A i \in Idx : InSlot(slot, st, i) =>
              /\ cell'[st][i].pos = u[TokenAt(slot[st], i)].pos
              /\ cell'[st][i].seq = u[TokenAt(slot[st], i)].seqs
         /\ \A s : \A i \in Idx : Effects(cell[st], cell'[st], Taken(slot, st), s, i)
         /\ \A i \in Idx : InSlot(slot, st, i) => Spent(st, cell[st][i])
<1>1. /\ Stored /\ n \in Nat /\ u \in Seq(Token) /\ IsSlot(u, slot)
      /\ cell' = Applied(u, slot) /\ Begun
      /\ \A i \in Idx : InSlot(slot, st, i) => Usable(cell[st], i)
  BY DEF Placeable, PlaceStep, Underway
<1>2. /\ n < Len(before.batch) /\ Len(before.batch) \in Nat
      /\ u = before.batch[n + 1]
  BY PlaceBatch
<1>3. \A s \in Seqs : Held(cell[st], s) \subseteq Grown(st, s, n)
  BY DEF Placeable, PlaceStep, Placing
<1>4. Ahead(st, u)
  <2> SUFFICES ASSUME NEW s \in Seqs, NEW p \in PosIn(st, u, s), NEW q \in Held(cell[st], s)
               PROVE  q < p
    BY DEF Ahead
  <2>1. n + 1 \in 1 .. Len(before.batch) /\ (n + 1) - 1 = n
    BY <1>1, <1>2
  <2>2. \A a \in PosIn(st, before.batch[n + 1], s), b \in Grown(st, s, (n + 1) - 1) : b < a
    BY <2>1 DEF Placeable, Underway, Ordered
  <2>3. q \in Grown(st, s, n)
    BY <1>3
  <2> QED
    BY <1>2, <2>1, <2>2, <2>3
<1>5. \A i \in Idx : InSlot(slot, st, i) => Spent(st, cell[st][i])
  BY <1>1, <1>2, <1>3, UsableSpent
<1>6. \A i \in Idx :
        /\ InSlot(slot, st, i) =>
              /\ cell'[st][i].pos = u[TokenAt(slot[st], i)].pos
              /\ cell'[st][i].seq = u[TokenAt(slot[st], i)].seqs
        /\ \A s : Effects(cell[st], cell'[st], Taken(slot, st), s, i)
  BY <1>1, <1>4, AppliedEffects
<1> QED
  BY <1>5, <1>6
LEMMA PlaceHeld ==
  ASSUME NEW u, NEW slot, NEW n, Placeable(u, slot, n), NEW st \in Streams, NEW s \in Seqs
  PROVE  Held(cell'[st], s) \subseteq Grown(st, s, n + 1)
<1>1. n \in Nat /\ u \in Seq(Token) /\ IsSlot(u, slot)
  BY DEF Placeable, PlaceStep
<1>2. u = before.batch[n + 1]
  BY PlaceBatch
<1> SUFFICES ASSUME NEW i \in Idx, s \in cell'[st][i].seq
             PROVE  cell'[st][i].pos \in Grown(st, s, n + 1)
  BY HeldIs
<1>3. CASE InSlot(slot, st, i)
  <2> DEFINE k == TokenAt(slot[st], i)
  <2>1. k \in TokensOn(st, u) /\ cell'[st][i].pos = u[k].pos /\ cell'[st][i].seq = u[k].seqs
    BY <1>1, <1>3, TakerIs, PlaceEffects
  <2>2. cell'[st][i].pos \in PosIn(st, before.batch[n + 1], s)
    BY <1>2, <2>1, PosInIs
  <2>3. n + 1 \in 1 .. n + 1
    BY <1>1
  <2> QED
    BY <2>2, <2>3, GrownIs
<1>4. CASE ~InSlot(slot, st, i)
  <2>1. Effects(cell[st], cell'[st], Taken(slot, st), s, i) /\ i \notin Taken(slot, st)
    BY <1>4, PlaceEffects DEF Taken
  <2>2. s \in cell[st][i].seq /\ cell'[st][i].pos = cell[st][i].pos
    BY <2>1 DEF Effects
  <2>3. Held(cell[st], s) \subseteq Grown(st, s, n)
    BY DEF Placeable, PlaceStep, Placing
  <2>4. cell[st][i].pos \in Grown(st, s, n)
    BY <2>2, <2>3, HeldIs
  <2>5. n \in Int /\ n + 1 \in Int /\ n <= n + 1
    BY <1>1
  <2> QED
    BY <2>2, <2>4, <2>5, GrownMore
<1> QED
  BY <1>3, <1>4

LEMMA SlotToken ==
  ASSUME Sequences, NEW m \in 1 .. Len(slots), NEW st \in Streams, NEW i \in Idx,
         InSlot(slots[m], st, i)
  PROVE  /\ batch[m] \in Seq(Token) /\ IsSlot(batch[m], slots[m])
         /\ TokenAt(slots[m][st], i) \in TokensOn(st, batch[m])
         /\ Taker(m, st, i) \in Token
         /\ Taker(m, st, i).pos \in 0 .. MaxPos /\ Taker(m, st, i).pos # -1
         /\ Taker(m, st, i).seqs # {}
<1>1. batch[m] \in Seq(Token) /\ IsSlot(batch[m], slots[m])
  <2>1. Len(slots) \in Nat /\ Len(batch) \in Nat /\ Len(slots) <= Len(batch)
    BY Lengths
  <2>2. m \in 1 .. Len(batch)
    BY <2>1
  <2> QED
    BY <2>2 DEF Sequences
<1>2. TokenAt(slots[m][st], i) \in TokensOn(st, batch[m]) /\ Taker(m, st, i) \in Token
  BY <1>1, TakerIs DEF Taker
<1>3. /\ Taker(m, st, i).pos \in 0 .. MaxPos /\ Taker(m, st, i).pos # -1
      /\ Taker(m, st, i).seqs # {}
  BY <1>2, Sizes, SizesAssumption DEF Token
<1> QED
  BY <1>1, <1>2, <1>3

(* A token whose cell is taken again is one that nobody sees any more.     *)
LEMMA PlaceTaker ==
  ASSUME NEW u, NEW slot, NEW n, Placeable(u, slot, n), NEW st \in Streams, NEW i \in Idx,
         NEW m \in 1 .. n, InSlot(slots[m], st, i), InSlot(slot, st, i)
  PROVE  Passed(st, Taker(m, st, i))
<1>1. Sequences /\ n = Len(slots)
  BY DEF Placeable, PlaceStep
<1>2. Spent(st, cell[st][i])
  BY PlaceEffects
<1>3. \/ cell[st][i].pos = Taker(m, st, i).pos /\ cell[st][i].seq = Taker(m, st, i).seqs
      \/ Passed(st, Taker(m, st, i))
  BY <1>1 DEF Placeable, Placing
<1>4. Taker(m, st, i).pos # -1
  BY <1>1, SlotToken
<1> QED
  BY <1>2, <1>3, <1>4 DEF Spent, Passed

(* A token that stays where it was put, or that nobody sees any more.      *)
LEMMA PlaceStanding ==
  ASSUME ~Coupled, NEW u, NEW slot, NEW n, Placeable(u, slot, n),
         NEW st \in Streams, NEW i \in Idx,
         NEW m \in 1 .. n, InSlot(slots[m], st, i)
  PROVE  \/ cell'[st][i].pos = Taker(m, st, i).pos /\ cell'[st][i].seq = Taker(m, st, i).seqs
         \/ Passed(st, Taker(m, st, i))
<1> DEFINE t == Taker(m, st, i)
<1>1. Sequences /\ n = Len(slots) /\ Stored /\ Begun /\ cell' \in [Streams -> Cells]
  BY DEF Placeable, PlaceStep, Underway
<1>2. t \in Token /\ t.pos \in 0 .. MaxPos
  BY <1>1, SlotToken
<1>3. PICK s \in Seqs : t.seqs = {s}
  BY <1>2 DEF Token, SeqSets
<1> HIDE DEF t
<1>4. (cell[st][i].pos = t.pos /\ cell[st][i].seq = {s}) \/ Passed(st, t)
  BY <1>1, <1>3 DEF Placeable, Placing, t
<1>5. CASE InSlot(slot, st, i)
  BY <1>5, PlaceTaker
<1>6. CASE ~InSlot(slot, st, i) /\ cell[st][i].pos = t.pos /\ cell[st][i].seq = {s}
  <2>1. /\ \A j \in Idx : Effects(cell[st], cell'[st], Taken(slot, st), s, j)
        /\ i \notin Taken(slot, st)
    BY <1>6, PlaceEffects DEF Taken
  <2>2. Effects(cell[st], cell'[st], Taken(slot, st), s, i)
    BY <2>1
  <2>3. CASE s \in cell'[st][i].seq
    <3>1. cell'[st][i].seq \subseteq {s} /\ cell'[st][i].pos = t.pos
      BY <1>6, <2>1, <2>2, <2>3 DEF Effects
    <3>2. cell'[st][i].seq = {s}
      BY <2>3, <3>1
    <3> QED
      BY <1>3, <3>1, <3>2 DEF t
  <2>4. CASE s \notin cell'[st][i].seq
    <3>1. Below(cell[st], Taken(slot, st), s, t.pos)
      BY <1>6, <2>1, <2>2, <2>4 DEF Effects
    <3>2. \A j \in Taken(slot, st) : Spent(st, cell[st][j])
      BY PlaceEffects DEF Taken
    <3>3. \A j \in Idx : cell'[st][j].pos \in Int
      BY <1>1, SizesAssumption DEF Cells, SoundCell
    <3>4. t.pos \in Int /\ Taken(slot, st) \in SUBSET Idx
      BY <1>2 DEF Taken
    <3>5. Behind(st, t.pos, s)
      BY ONLY <1>1, <2>1, <3>1, <3>2, <3>3, <3>4, st \in Streams, PurgedIsLost
    <3> QED
      BY <1>3, <3>5 DEF Passed, t
  <2> QED
    BY <2>3, <2>4
<1> QED
  BY <1>4, <1>5, <1>6 DEF t
LEMMA PlaceReserved ==
  ASSUME NEW u, NEW slot, NEW n, Placeable(u, slot, n), NEW st, NEW i
  PROVE  Reserved(st, i)' <=> Reserved(st, i) \/ InSlot(slot, st, i)
<1>1. /\ n \in Nat /\ n = Len(slots) /\ Len(slots') = n + 1 /\ slots'[n + 1] = slot
      /\ \A m \in 1 .. n : slots'[m] = slots[m]
  BY DEF Placeable, PlaceStep
<1>2. Reserved(st, i)' <=> \E m \in 1 .. n + 1 : InSlot(slots'[m], st, i)
  BY <1>1 DEF Reserved, InSlot
<1>3. Reserved(st, i) <=> \E m \in 1 .. n : InSlot(slots[m], st, i)
  BY <1>1 DEF Reserved
<1>4. ASSUME NEW m \in 1 .. n + 1 PROVE m \in 1 .. n \/ m = n + 1
  BY <1>1
<1>5. n + 1 \in 1 .. n + 1 /\ \A m \in 1 .. n : m \in 1 .. n + 1
  BY <1>1
<1> QED
  BY <1>1, <1>2, <1>3, <1>4, <1>5, Zenon

LEMMA PlaceLost ==
  ASSUME NEW u, NEW slot, NEW n, Placeable(u, slot, n), NEW st \in Streams, NEW s, NEW p,
         Lost(st, p, s)
  PROVE  Lost(st, p, s)'
<1>1. before' = before
  BY DEF Placeable, PlaceStep
<1>2. Behind(st, p, s)'
  BY <1>1, BeforeKept DEF Lost
<1>3. ASSUME NEW i \in Idx, ~Reserved(st, i)', s \in cell'[st][i].seq
      PROVE  cell'[st][i].pos > p
  <2>1. ~Reserved(st, i) /\ ~InSlot(slot, st, i)
    BY <1>3, PlaceReserved
  <2>2. Effects(cell[st], cell'[st], Taken(slot, st), s, i) /\ i \notin Taken(slot, st)
    BY <2>1, PlaceEffects DEF Taken
  <2>3. s \in cell[st][i].seq /\ cell'[st][i].pos = cell[st][i].pos
    BY <1>3, <2>2 DEF Effects
  <2> QED
    BY <2>1, <2>3 DEF Lost, Above
<1>4. Above(st, p, s)'
  BY <1>3 DEF Above
<1> QED
  BY <1>2, <1>4 DEF Lost

LEMMA PlaceFaithful ==
  ASSUME NEW u, NEW slot, NEW n, Placeable(u, slot, n), NEW st \in Streams, NEW x, NEW y,
         Faithful(st, x, y)
  PROVE  Faithful(st, x, y)'
<1>1. \A s : Lost(st, y.pos, s) => Lost(st, y.pos, s)'
  BY PlaceLost
<1> QED
  BY <1>1 DEF Faithful

(* Outside the slot the new cells are what the old ones were, but for what *)
(* is lost.                                                                *)
LEMMA PlaceOutside ==
  ASSUME NEW u, NEW slot, NEW n, Placeable(u, slot, n), NEW st \in Streams, NEW i \in Idx,
         ~InSlot(slot, st, i), NEW x, NEW y, NEW z,
         x = cell[st][i], y = before.cell[st][i], z = cell'[st][i], Faithful(st, x, y)
  PROVE  Faithful(st, z, y)'
<1>1. Stored /\ Begun /\ before' = before /\ cell' \in [Streams -> Cells]
  BY DEF Placeable, PlaceStep, Underway
<1>2. \A s : \A j \in Idx : Effects(cell[st], cell'[st], Taken(slot, st), s, j)
  BY PlaceEffects
<1>3. i \notin Taken(slot, st)
  BY DEF Taken
<1>4. x \in SoundCell /\ y \in SoundCell /\ z \in SoundCell
  BY <1>1 DEF Stored, Begun, Cells
<1>5. z.seq \subseteq x.seq /\ (z.seq # {} => z.pos = x.pos)
  BY <1>2, <1>3 DEF Effects
<1>6. Faithful(st, x, y)
  OBVIOUS
<1>7. z.seq \subseteq y.seq /\ (z.seq # {} => z.pos = y.pos)
  BY <1>5, <1>6 DEF Faithful
<1>8. ASSUME NEW s \in y.seq, s \notin z.seq PROVE Lost(st, y.pos, s)'
  <2>1. CASE s \notin x.seq
    <3>1. Lost(st, y.pos, s)
      BY <1>6, <2>1 DEF Faithful
    <3> QED
      BY <3>1, PlaceLost
  <2>2. CASE s \in x.seq
    <3>1. x.pos = y.pos /\ Below(cell[st], Taken(slot, st), s, x.pos)
      BY <1>2, <1>3, <1>6, <1>8, <2>2 DEF Faithful, Effects
    <3>2. \A j \in Taken(slot, st) : Spent(st, cell[st][j])
      BY PlaceEffects DEF Taken
    <3>3. \A j \in Idx : cell'[st][j].pos \in Int
      BY <1>1, SizesAssumption DEF Cells, SoundCell
    <3>4. x.pos \in Int /\ Taken(slot, st) \in SUBSET Idx
      BY <1>4, SizesAssumption DEF Taken, SoundCell
    <3>5. Behind(st, x.pos, s) /\ \A j \in Idx : s \in cell'[st][j].seq => cell'[st][j].pos > x.pos
      BY ONLY <1>1, <1>2, <3>1, <3>2, <3>3, <3>4, st \in Streams, PurgedIsLost
    <3>6. Behind(st, y.pos, s)'
      <4>1. Behind(st, y.pos, s)
        BY <3>1, <3>5
      <4> QED
        BY <1>1, <4>1, BeforeKept
    <3>7. \A j \in Idx : s \in cell'[st][j].seq => cell'[st][j].pos > y.pos
      BY <3>1, <3>5
    <3> QED
      BY <3>6, <3>7 DEF Lost, Above
  <2> QED
    BY <2>1, <2>2
<1> QED
  BY <1>7, <1>8 DEF Faithful
LEMMA PlaceTakers ==
  ASSUME NEW u, NEW slot, NEW n, Placeable(u, slot, n)
  PROVE  /\ \A m \in 1 .. n : \A st, i : Taker(m, st, i)' = Taker(m, st, i)
         /\ \A st, i : Taker(n + 1, st, i)' = u[TokenAt(slot[st], i)]
BY DEF Placeable, PlaceStep, Taker

LEMMA PlaceReused ==
  ASSUME NEW u, NEW slot, NEW n, Placeable(u, slot, n)
  PROVE  Reused'
<1>1. /\ n \in Nat /\ n = Len(slots) /\ Len(slots') = n + 1 /\ slots'[n + 1] = slot
      /\ \A m \in 1 .. n : slots'[m] = slots[m]
      /\ before' = before /\ Reused
  BY DEF Placeable, PlaceStep, Underway
<1>2. ASSUME NEW m \in 1 .. n + 1, NEW l \in 1 .. n + 1, NEW st \in Streams, NEW i \in Idx,
             m < l, InSlot(slots'[m], st, i), InSlot(slots'[l], st, i)
      PROVE  Passed(st, Taker(m, st, i))'
  <2>1. m \in 1 .. n /\ InSlot(slots[m], st, i) /\ (l \in 1 .. n \/ l = n + 1)
    BY <1>1, <1>2
  <2>2. Taker(m, st, i)' = Taker(m, st, i)
    BY <2>1, PlaceTakers
  <2>3. Passed(st, Taker(m, st, i))
    <3>1. CASE l \in 1 .. n
      BY <1>1, <1>2, <2>1, <3>1 DEF Reused
    <3>2. CASE l = n + 1
      BY <1>1, <1>2, <2>1, <3>2, PlaceTaker
    <3> QED
      BY <2>1, <3>1, <3>2
  <2> DEFINE t == Taker(m, st, i)
  <2>4. Passed(st, t) => Passed(st, Taker(m, st, i))'
    BY <1>1, <2>2 DEF Passed, Behind, Grown, Written
  <2> QED
    BY <2>3, <2>4
<1>3. \A m \in 1 .. n + 1, l \in 1 .. n + 1 : \A st \in Streams, i \in Idx :
        m < l /\ InSlot(slots'[m], st, i) /\ InSlot(slots'[l], st, i)
        => Passed(st, Taker(m, st, i))'
  BY <1>2
<1> QED
  BY <1>1, <1>3 DEF Reused, InSlot

LEMMA PlacePlacing ==
  ASSUME ~Coupled, NEW u, NEW slot, NEW n, Placeable(u, slot, n)
  PROVE  Placing'
<1>1. /\ n \in Nat /\ n = Len(slots) /\ Len(slots') = n + 1 /\ slots'[n + 1] = slot
      /\ \A m \in 1 .. n : slots'[m] = slots[m]
      /\ before' = before
  BY DEF Placeable, PlaceStep
<1>2. slots' # <<>>
  <2>1. Len(slots') # 0
    BY <1>1
  <2>2. Len(<<>>) = 0
    BY EmptySeq
  <2> QED
    BY <2>1, <2>2
<1>3. \A st \in Streams, s \in Seqs : Held(cell[st], s)' \subseteq Grown(st, s, Len(slots))'
  <2> SUFFICES ASSUME NEW st \in Streams, NEW s \in Seqs
               PROVE  Held(cell[st], s)' \subseteq Grown(st, s, Len(slots))'
    OBVIOUS
  <2>1. Held(cell[st], s)' = Held(cell'[st], s)
    BY DEF Held
  <2>2. Grown(st, s, Len(slots))' = Grown(st, s, n + 1)
    BY <1>1 DEF Grown, Written
  <2> QED
    BY <2>1, <2>2, PlaceHeld
<1>4. ASSUME NEW m \in 1 .. n + 1, NEW st \in Streams, NEW i \in Idx, InSlot(slots'[m], st, i)
      PROVE  \/ cell'[st][i].pos = Taker(m, st, i)'.pos /\ cell'[st][i].seq = Taker(m, st, i)'.seqs
             \/ Passed(st, Taker(m, st, i))'
  <2>1. CASE m = n + 1
    <3>1. Taker(m, st, i)' = u[TokenAt(slot[st], i)] /\ InSlot(slot, st, i)
      BY <1>1, <1>4, <2>1, PlaceTakers
    <3> QED
      BY <3>1, PlaceEffects
  <2>2. CASE m # n + 1
    <3>1. m \in 1 .. n /\ InSlot(slots[m], st, i)
      BY <1>1, <1>4, <2>2
    <3>2. Taker(m, st, i)' = Taker(m, st, i)
      BY <3>1, PlaceTakers
    <3>3. Passed(st, Taker(m, st, i)) => Passed(st, Taker(m, st, i))'
      BY <1>1, <3>2 DEF Passed, Behind, Grown, Written
    <3>4. \/ cell'[st][i].pos = Taker(m, st, i).pos /\ cell'[st][i].seq = Taker(m, st, i).seqs
          \/ Passed(st, Taker(m, st, i))
      BY <3>1, PlaceStanding
    <3> QED
      BY <3>2, <3>3, <3>4
  <2> QED
    BY <2>1, <2>2
<1>5. \A m \in 1 .. n + 1, st \in Streams, i \in Idx : InSlot(slots'[m], st, i) =>
        \/ cell'[st][i].pos = Taker(m, st, i)'.pos /\ cell'[st][i].seq = Taker(m, st, i)'.seqs
        \/ Passed(st, Taker(m, st, i))'
  BY <1>4
<1> QED
  BY <1>1, <1>2, <1>3, <1>5 DEF Placing, InSlot
LEMMA PlacePast ==
  ASSUME NEW u, NEW slot, NEW n, Placeable(u, slot, n), NEW k \in 0 .. n + 1
  PROVE  /\ k = 0 => Past(k)' = cell'
         /\ k # 0 => k - 1 \in 0 .. n /\ Past(k)' = Past(k - 1)
         /\ \A st, i : k # 0 => (PutBack(k - 1, st, i) => PutBack(k, st, i)')
         /\ \A st, i : k = 0 => (PutBack(0, st, i) \/ InSlot(slot, st, i) => PutBack(k, st, i)')
<1>1. /\ n \in Nat /\ Len(undo) = n /\ Len(undo') = n + 1
      /\ undo'[1].slot = slot /\ undo'[1].cell = cell
      /\ \A m \in 1 .. n : undo'[m + 1] = undo[m]
  BY DEF Placeable, PlaceStep
<1>2. \A st, i : PutBack(k, st, i)' <=> \E m \in k + 1 .. n + 1 : InSlot(undo'[m].slot, st, i)
  BY <1>1 DEF PutBack, InSlot
<1>3. k = 0 => Past(k)' = cell'
  BY DEF Past
<1>4. ASSUME k # 0 PROVE k - 1 \in 0 .. n /\ Past(k)' = Past(k - 1)
  <2>1. k - 1 \in 0 .. n
    BY <1>1, <1>4
  <2>2. CASE k = 1
    BY <1>1, <2>2 DEF Past
  <2>3. CASE k # 1
    <3> DEFINE j == k - 1
    <3>1. j \in 1 .. n /\ j + 1 = k /\ j # 0
      BY <1>1, <1>4, <2>3
    <3> HIDE DEF j
    <3>2. undo'[k] = undo[j]
      BY <1>1, <3>1
    <3>3. Past(k)' = Past(j)
      BY <1>4, <3>1, <3>2 DEF Past
    <3> QED
      BY <2>1, <3>3 DEF j
  <2> QED
    BY <2>1, <2>2, <2>3
<1>5. ASSUME NEW j \in 0 .. n, k <= j + 1, NEW st, NEW i, PutBack(j, st, i)
      PROVE  PutBack(k, st, i)'
  <2>1. PICK m \in j + 1 .. n : InSlot(undo[m].slot, st, i)
    BY <1>1, <1>5 DEF PutBack
  <2>2. m \in 1 .. n /\ m + 1 \in k + 1 .. n + 1
    BY <1>1, <1>5, <2>1
  <2>3. InSlot(undo'[m + 1].slot, st, i)
    BY <1>1, <2>1, <2>2
  <2> QED
    BY <1>2, <2>2, <2>3
<1>6. ASSUME k # 0, NEW st, NEW i, PutBack(k - 1, st, i) PROVE PutBack(k, st, i)'
  <2> DEFINE j == k - 1
  <2>1. j \in 0 .. n /\ k <= j + 1 /\ PutBack(j, st, i)
    BY <1>1, <1>6
  <2> HIDE DEF j
  <2> QED
    BY <1>5, <2>1
<1>7. ASSUME k = 0, NEW st, NEW i, PutBack(0, st, i) \/ InSlot(slot, st, i)
      PROVE  PutBack(k, st, i)'
  <2>1. 0 \in 0 .. n /\ k <= 0 + 1 /\ 1 \in k + 1 .. n + 1
    BY <1>1, <1>7
  <2>2. CASE PutBack(0, st, i)
    BY <1>5, <2>1, <2>2
  <2>3. CASE InSlot(slot, st, i)
    BY <1>1, <1>2, <2>1, <2>3
  <2> QED
    BY <1>7, <2>2, <2>3
<1> QED
  BY <1>3, <1>4, <1>6, <1>7

LEMMA PlaceRetracing ==
  ASSUME NEW u, NEW slot, NEW n, Placeable(u, slot, n)
  PROVE  Retracing'
<1>1. /\ n \in Nat /\ n = Len(slots) /\ Len(slots') = n + 1 /\ slots'[n + 1] = slot
      /\ \A m \in 1 .. n : slots'[m] = slots[m]
      /\ Len(undo) = n /\ Len(undo') = n + 1
      /\ undo'[1].slot = slot /\ undo'[1].cell = cell
      /\ \A m \in 1 .. n : undo'[m + 1] = undo[m]
      /\ before' = before /\ batch' = batch /\ ret' = None
  BY DEF Placeable, PlaceStep
<1>2. Retracing
  BY DEF Placeable
<1>3. Len(batch') = Len(before'.batch)
  BY <1>1, <1>2 DEF Retracing
<1>4. ASSUME NEW m \in 1 .. n + 1
      PROVE  undo'[m].slot = slots'[n + 1 + 1 - m]
  <2>1. CASE m = 1
    BY <1>1, <2>1
  <2>2. CASE m # 1
    <3> DEFINE j == m - 1
    <3>1. j \in 1 .. n /\ j + 1 = m /\ n + 1 + 1 - m = n + 1 - j /\ n + 1 - j \in 1 .. n
      BY <1>1, <2>2
    <3> HIDE DEF j
    <3>2. undo[j].slot = slots[n + 1 - j]
      BY <1>1, <1>2, <3>1 DEF Retracing
    <3> QED
      BY <1>1, <3>1, <3>2
  <2> QED
    BY <2>1, <2>2
<1>5. ASSUME NEW k \in 0 .. n + 1, NEW st \in Streams, NEW i \in Idx
      PROVE  PutBack(k, st, i)' \/ Faithful(st, Past(k)[st][i], before.cell[st][i])'
  <2>1. \A j \in 0 .. n :
          PutBack(j, st, i) \/ Faithful(st, Past(j)[st][i], before.cell[st][i])
    BY <1>1, <1>2 DEF Retracing
  <2>2. CASE k = 0
    <3>1. CASE InSlot(slot, st, i)
      BY <2>2, <3>1, PlacePast
    <3>2. CASE ~InSlot(slot, st, i)
      <4>1. 0 \in 0 .. n /\ Past(0) = cell
        BY <1>1 DEF Past
      <4>2. CASE PutBack(0, st, i)
        BY <2>2, <4>2, PlacePast
      <4>3. CASE ~PutBack(0, st, i)
        <5> DEFINE x == cell[st][i]
                   y == before.cell[st][i]
                   z == cell'[st][i]
        <5>1. Faithful(st, x, y)
          BY <2>1, <4>1, <4>3
        <5>2. Faithful(st, cell[st][i], before.cell[st][i])'
          <6>1. \A a, b, c : a = x /\ b = y /\ c = z /\ Faithful(st, a, b) => Faithful(st, c, b)'
            BY <3>2, PlaceOutside
          <6>2. \E b, c : b = before'.cell[st][i] /\ c = cell'[st][i] /\ Faithful(st, c, b)'
            BY <1>1, <5>1, <6>1
          <6> QED
            BY <6>2 DEF Faithful
        <5> QED
          BY <2>2, <5>2, PlacePast DEF Faithful
      <4> QED
        BY <4>2, <4>3
    <3> QED
      BY <3>1, <3>2
  <2>3. CASE k # 0
    <3>1. k - 1 \in 0 .. n /\ Past(k)' = Past(k - 1)
          /\ (PutBack(k - 1, st, i) => PutBack(k, st, i)')
      BY <2>3, PlacePast
    <3>2. PutBack(k - 1, st, i) \/ Faithful(st, Past(k - 1)[st][i], before.cell[st][i])
      BY <2>1, <3>1
    <3>3. ASSUME Faithful(st, Past(k - 1)[st][i], before.cell[st][i])
          PROVE  Faithful(st, Past(k)[st][i], before.cell[st][i])'
      <4>1. \A a, b : Faithful(st, a, b) => Faithful(st, a, b)'
        BY PlaceFaithful
      <4>2. \E a, b : a = Past(k)'[st][i] /\ b = before'.cell[st][i] /\ Faithful(st, a, b)'
        BY <1>1, <3>1, <3>3, <4>1
      <4> QED
        BY <4>2 DEF Faithful
    <3> QED
      BY <3>1, <3>2, <3>3
  <2> QED
    BY <2>2, <2>3
<1>6. ASSUME NEW k \in 1 .. n + 1, NEW st \in Streams, NEW i \in Idx,
             InSlot(undo'[k].slot, st, i)
      PROVE  Spent(st, undo[k].cell[st][i])'
  <2>1. \A x : Spent(st, x) => Spent(st, x)'
    BY <1>1, BeforeKept
  <2>2. \E x : x = undo'[k].cell[st][i] /\ Spent(st, x)
    <3>1. CASE k = 1
      BY <1>1, <1>6, <3>1, PlaceEffects
    <3>2. CASE k # 1
      <4> DEFINE j == k - 1
      <4>1. j \in 1 .. n /\ j + 1 = k
        BY <1>1, <3>2
      <4> HIDE DEF j
      <4>2. undo'[k] = undo[j]
        BY <1>1, <4>1
      <4>3. Spent(st, undo[j].cell[st][i])
        BY <1>1, <1>2, <1>6, <4>1, <4>2 DEF Retracing
      <4> QED
        BY <4>2, <4>3
    <3> QED
      BY <3>1, <3>2
  <2> QED
    BY <2>1, <2>2 DEF Spent
<1>7. ASSUME NEW st \in Streams, NEW i \in Idx, Reserved(st, i)' PROVE PutBack(0, st, i)'
  <2>1. PICK m \in 1 .. n + 1 : InSlot(slots'[m], st, i)
    BY <1>1, <1>7 DEF Reserved, InSlot
  <2> DEFINE j == n + 1 + 1 - m
  <2>2. j \in 1 .. n + 1 /\ n + 1 + 1 - j = m /\ j \in 0 + 1 .. n + 1
    BY <1>1, <2>1
  <2> HIDE DEF j
  <2>3. InSlot(undo'[j].slot, st, i)
    BY <1>4, <2>1, <2>2
  <2> QED
    BY <1>1, <2>2, <2>3 DEF PutBack, InSlot
<1>8. ret' # "no slot"
  BY <1>1 DEF None
<1>9. \A m \in 1 .. Len(undo') : undo'[m].slot = slots'[Len(undo') + 1 - m]
  BY <1>1, <1>4
<1>10. \A k \in 0 .. Len(undo'), st \in Streams, i \in Idx :
         PutBack(k, st, i)' \/ Faithful(st, Past(k)[st][i], before.cell[st][i])'
  BY <1>1, <1>5
<1>11. \A k \in 1 .. Len(undo'), st \in Streams, i \in Idx :
         InSlot(undo'[k].slot, st, i) => Spent(st, undo[k].cell[st][i])'
  BY <1>1, <1>6
<1> QED
  BY <1>3, <1>7, <1>8, <1>9, <1>10, <1>11 DEF Retracing, InSlot

LEMMA PlaceWindow ==
  ASSUME ~Coupled, CacheOK, PlaceUbatch, WindowInv
  PROVE  WindowInv'
<1>1. PICK u, slot, n : PlaceStep(u, slot, n)
  BY PlaceIs
<1>2. Placeable(u, slot, n)
  <2>1. phase = "place"
    BY <1>1 DEF PlaceStep
  <2> QED
    BY <1>1, <2>1 DEF Placeable, WindowInv
<1>3. before' = before /\ batch' = batch /\ phase' \in {"place", "restore"}
  BY <1>1 DEF PlaceStep
<1>4. Underway'
  <2>1. Begun' /\ Ordered' /\ Dense'
    BY <1>2, <1>3, BeforeKept DEF Placeable, Underway
  <2>2. Reused'
    BY <1>2, PlaceReused
  <2>3. Len(batch') <= Len(before'.batch) /\ Done' = Done
        /\ \A j \in 1 .. Len(batch') : batch'[j] = before'.batch[Done' + j]
    BY <1>2, <1>3 DEF Placeable, Underway, Done
  <2> QED
    BY <2>1, <2>2, <2>3 DEF Underway
<1>5. Placing' /\ Retracing'
  BY <1>2, PlacePlacing, PlaceRetracing
<1> QED
  BY <1>3, <1>4, <1>5 DEF WindowInv, Decoded
-----------------------------------------------------------------------------
(* prepare goes back.                                                      *)

(* Cells that are those of the start, but for what is lost.                *)
LEMMA FaithfulSettled ==
  ASSUME \A st \in Streams, i \in Idx : Faithful(st, cell[st][i], before.cell[st][i])'
  PROVE  Settled(0)'
<1> SUFFICES ASSUME NEW st \in Streams, NEW s \in Seqs
             PROVE  /\ Held(cell'[st], s) \subseteq Grown(st, s, 0)'
                    /\ \A p \in Grown(st, s, 0)' : p \in Held(cell'[st], s) \/ Lost(st, p, s)'
  BY DEF Settled, Held
<1>1. \A p : p \in Grown(st, s, 0)' <=> p \in Held(before'.cell[st], s)
  <2>1. 1 .. 0 = {}
    OBVIOUS
  <2>2. Written(st, s, 0)' = {}
    BY <2>1 DEF Written
  <2> QED
    BY <2>2 DEF Grown, Held
<1>2. ASSUME NEW i \in Idx
      PROVE  /\ s \in cell'[st][i].seq =>
                  s \in before'.cell[st][i].seq /\ cell'[st][i].pos = before'.cell[st][i].pos
             /\ s \in before'.cell[st][i].seq =>
                  s \in cell'[st][i].seq \/ Lost(st, before.cell[st][i].pos, s)'
  BY DEF Faithful
<1>3. Held(cell'[st], s) \subseteq Grown(st, s, 0)'
  BY <1>1, <1>2, HeldIs
<1>4. ASSUME NEW p \in Grown(st, s, 0)' PROVE p \in Held(cell'[st], s) \/ Lost(st, p, s)'
  <2>1. PICK i \in Idx : s \in before'.cell[st][i].seq /\ before'.cell[st][i].pos = p
    BY <1>1, HeldIs
  <2>2. CASE s \in cell'[st][i].seq
    BY <1>2, <2>1, <2>2, HeldIs
  <2>3. CASE Lost(st, before.cell[st][i].pos, s)'
    BY <2>1, <2>3 DEF Lost, Behind, Above
  <2> QED
    BY <1>2, <2>1, <2>2, <2>3
<1> QED
  BY <1>3, <1>4

LEMMA SameKept ==
  ASSUME cell' = cell, slots' = slots, before' = before
  PROVE  /\ \A st, p, s : Lost(st, p, s)' <=> Lost(st, p, s)
         /\ \A st, x, y : Faithful(st, x, y)' <=> Faithful(st, x, y)
         /\ \A st, i : Reserved(st, i)' <=> Reserved(st, i)
<1>1. \A st, i : Reserved(st, i)' <=> Reserved(st, i)
  BY DEF Reserved, InSlot
<1>2. \A st, p, s : Lost(st, p, s)' <=> Lost(st, p, s)
  BY <1>1, BeforeKept DEF Lost, Above
<1>3. \A st, x, y : Faithful(st, x, y)' <=> Faithful(st, x, y)
  BY <1>2 DEF Faithful
<1> QED
  BY <1>1, <1>2, <1>3

LEMMA UnderwayKept ==
  ASSUME slots' = slots, before' = before, batch' = batch, Underway
  PROVE  Underway'
<1>1. Begun' /\ Ordered' /\ Dense'
  BY BeforeKept DEF Underway
<1>2. \A m, st, i : Taker(m, st, i)' = Taker(m, st, i)
  BY DEF Taker
<1>3. \A m, st, i : Passed(st, Taker(m, st, i))' <=> Passed(st, Taker(m, st, i))
  BY <1>2 DEF Passed, Behind, Grown, Written
<1>4. Reused'
  BY <1>3 DEF Underway, Reused, InSlot
<1>5. Len(batch') <= Len(before'.batch) /\ Done' = Done
      /\ \A j \in 1 .. Len(batch') : batch'[j] = before'.batch[Done' + j]
  BY DEF Underway, Done
<1> QED
  BY <1>1, <1>4, <1>5 DEF Underway

LEMMA PlaceFailsWindow ==
  ASSUME CacheOK, PlaceFails, WindowInv
  PROVE  WindowInv'
<1>1. /\ phase = "place" /\ Len(undo) = Len(slots) /\ Sequences /\ Stored
      /\ Len(slots) < Len(batch)
  BY DEF CacheOK, Phased, PlaceFails
<1>2. /\ cell' = cell /\ before' = before /\ undo' = undo /\ ret' = "no slot"
  BY DEF PlaceFails, store
<1>3. Underway /\ Placing /\ Retracing
  BY <1>1 DEF WindowInv
<1>4. CASE undo = <<>>
  <2>1. slots = <<>>
    <3>1. Len(slots) = 0 /\ slots \in Seq(Slot)
      BY <1>1, <1>4, EmptySeq DEF Sequences
    <3> QED
      BY <3>1, EmptySeq
  <2>2. cell' = before'.cell
    BY <1>2, <1>3, <2>1 DEF Placing
  <2>3. \A st \in Streams, i \in Idx : Faithful(st, cell[st][i], before.cell[st][i])'
    BY <2>2 DEF Faithful
  <2>4. Settled(0)'
    BY <2>3, FaithfulSettled
  <2>5. Begun' /\ Ordered' /\ Dense'
    BY <1>2, <1>3, BeforeKept DEF Underway
  <2>6. phase' = "idle"
    BY <1>4 DEF PlaceFails
  <2>7. Ended'
    BY <1>2, <2>4, <2>5 DEF Ended
  <2> QED
    BY <2>6, <2>7 DEF WindowInv
<1>5. CASE undo # <<>>
  <2>1. phase' = "restore" /\ batch' = batch /\ slots' = slots
    BY <1>5 DEF PlaceFails
  <2>2. Underway'
    BY <1>2, <1>3, <2>1, UnderwayKept
  <2>3. Len(batch) > 1
    <3>1. undo \in Seq(Undo) /\ Len(undo) \in Nat /\ Len(batch) \in Nat /\ Len(slots) \in Nat
      BY <1>1, Lengths DEF Sequences
    <3>2. Len(undo) # 0
      BY <1>5, <3>1, EmptySeq
    <3> QED
      BY <1>1, <3>1, <3>2
  <2>4. /\ \A k, st, i : PutBack(k, st, i)' <=> PutBack(k, st, i)
        /\ \A k : Past(k)' = Past(k)
    BY <1>2 DEF PutBack, Past, InSlot
  <2>5. Retracing'
    <3>1. Len(batch') = Len(before'.batch)
          /\ \A m \in 1 .. Len(undo') : undo'[m].slot = slots'[Len(undo') + 1 - m]
      BY <1>2, <1>3, <2>1 DEF Retracing
    <3>2. \A k \in 0 .. Len(undo'), st \in Streams, i \in Idx :
            PutBack(k, st, i)' \/ Faithful(st, Past(k)[st][i], before.cell[st][i])'
      <4> SUFFICES ASSUME NEW k \in 0 .. Len(undo), NEW st \in Streams, NEW i \in Idx
                   PROVE  PutBack(k, st, i)' \/ Faithful(st, Past(k)[st][i], before.cell[st][i])'
        BY <1>2
      <4>1. PutBack(k, st, i) \/ Faithful(st, Past(k)[st][i], before.cell[st][i])
        BY <1>3 DEF Retracing
      <4>2. Faithful(st, Past(k)[st][i], before.cell[st][i])
            => Faithful(st, Past(k)[st][i], before.cell[st][i])'
        BY <1>2, <2>1, <2>4, SameKept DEF Faithful
      <4> QED
        BY <2>4, <4>1, <4>2
    <3>3. ASSUME NEW k \in 1 .. Len(undo'), NEW st \in Streams, NEW i \in Idx,
                 InSlot(undo'[k].slot, st, i)
          PROVE  Spent(st, undo[k].cell[st][i])'
      <4>1. \E x : x = undo'[k].cell[st][i] /\ Spent(st, x)
        BY <1>2, <1>3, <3>3 DEF Retracing
      <4>2. \A x : Spent(st, x) => Spent(st, x)'
        BY <1>2, BeforeKept
      <4> QED
        BY <4>1, <4>2 DEF Spent
    <3>4. ASSUME NEW st \in Streams, NEW i \in Idx, Reserved(st, i)'
          PROVE  PutBack(0, st, i)' \/ Spent(st, cell[st][i])'
      <4>1. Reserved(st, i)
        BY <1>2, <2>1, <3>4, SameKept
      <4>2. PutBack(0, st, i) \/ \E x : x = cell'[st][i] /\ Spent(st, x)
        BY <1>2, <1>3, <4>1 DEF Retracing
      <4>3. \A x : Spent(st, x) => Spent(st, x)'
        BY <1>2, BeforeKept
      <4> QED
        BY <2>4, <4>2, <4>3 DEF Spent
    <3> QED
      BY <2>1, <2>3, <3>1, <3>2, <3>3, <3>4 DEF Retracing, InSlot
  <2> QED
    BY <2>1, <2>2, <2>5 DEF WindowInv, Decoded
<1> QED
  BY <1>4, <1>5

(* What a step back makes of the cells, while the slots stay reserved.     *)
Alike(x, y) == x.pos = y.pos /\ x.seq = y.seq

Restoring(n) ==
  /\ Stored /\ n \in Nat /\ Len(undo) = n + 1 /\ Len(undo') = n /\ n + 1 <= Len(slots)
  /\ Len(slots) \in Nat
  /\ \A m \in 1 .. n : undo'[m] = undo[m + 1]
  /\ \A st \in Streams, i \in Idx :
       IF InSlot(undo[1].slot, st, i)
       THEN Alike(cell'[st][i], undo[1].cell[st][i]) ELSE cell'[st][i] = cell[st][i]
  /\ before' = before /\ batch' = batch /\ slots' = slots /\ ret' = ret
  /\ Retracing

LEMMA RestoredAlike ==
  ASSUME CacheOK, RestoreUbatch, NEW st \in Streams, NEW i \in Idx
  PROVE  IF InSlot(undo[1].slot, st, i)
         THEN Alike(cell'[st][i], undo[1].cell[st][i]) ELSE cell'[st][i] = cell[st][i]
<1>1. /\ undo[1] \in Undo
      /\ IF InSlot(undo[1].slot, st, i)
         THEN cell'[st][i].pos = undo[1].cell[st][i].pos ELSE cell'[st][i] = cell[st][i]
  BY RestoredIs
<1>2. undo \in Seq(Undo) /\ Len(undo) > 0
  BY DEF CacheOK, Sequences, Phased, RestoreUbatch
<1>3. Head(undo) = undo[1]
  BY <1>2, Popped
<1> DEFINE x == undo[1].cell[st][i]
<1>4. InSlot(undo[1].slot, st, i) => cell'[st][i] = [x EXCEPT !.shift = 0]
  BY <1>3 DEF RestoreUbatch, InSlot
<1>5. x \in SoundCell
  BY <1>1 DEF Undo, Cells
<1> HIDE DEF x
<1>6. [x EXCEPT !.shift = 0].seq = x.seq /\ [x EXCEPT !.shift = 0].pos = x.pos
  BY <1>5 DEF SoundCell
<1> QED
  BY <1>1, <1>4, <1>6 DEF Alike, x

LEMMA AlikeSame ==
  ASSUME NEW x, NEW y, Alike(x, y), NEW st
  PROVE  /\ Spent(st, y) => Spent(st, x)
         /\ \A z : Faithful(st, y, z) => Faithful(st, x, z)
BY DEF Alike, Spent, Faithful

LEMMA RestoreBack ==
  ASSUME NEW n, Restoring(n), NEW k \in 0 .. n
  PROVE  /\ k # 0 => Past(k)' = Past(k + 1)
         /\ k + 1 \in 1 .. n + 1
         /\ \A st, i : PutBack(k + 1, st, i) => PutBack(k, st, i)'
         /\ \A st, i : k = 0 /\ ~InSlot(undo[1].slot, st, i) /\ PutBack(0, st, i)
                       => PutBack(k, st, i)'
<1>1. /\ n \in Nat /\ Len(undo) = n + 1 /\ Len(undo') = n
      /\ \A m \in 1 .. n : undo'[m] = undo[m + 1]
  BY DEF Restoring
<1>2. k # 0 => Past(k)' = Past(k + 1)
  <2>1. k # 0 => k \in 1 .. n /\ k + 1 # 0
    BY <1>1
  <2> QED
    BY <1>1, <2>1 DEF Past
<1>3. ASSUME NEW m \in 1 .. n + 1, m # 1, NEW st, NEW i, InSlot(undo[m].slot, st, i),
             k <= m - 2
      PROVE  PutBack(k, st, i)'
  <2> DEFINE j == m - 1
  <2>1. j \in 1 .. n /\ j + 1 = m /\ j \in k + 1 .. n
    BY <1>1, <1>3
  <2> HIDE DEF j
  <2>2. InSlot(undo'[j].slot, st, i)
    BY <1>1, <1>3, <2>1
  <2> QED
    BY <1>1, <2>1, <2>2 DEF PutBack, InSlot
<1>4. ASSUME NEW st, NEW i, PutBack(k + 1, st, i) PROVE PutBack(k, st, i)'
  <2>1. PICK m \in k + 1 + 1 .. n + 1 : InSlot(undo[m].slot, st, i)
    BY <1>1, <1>4 DEF PutBack
  <2>2. m \in 1 .. n + 1 /\ m # 1 /\ k <= m - 2
    BY <1>1
  <2> QED
    BY <1>3, <2>1, <2>2
<1>5. ASSUME k = 0, NEW st, NEW i, ~InSlot(undo[1].slot, st, i), PutBack(0, st, i)
      PROVE  PutBack(k, st, i)'
  <2>1. PICK m \in 0 + 1 .. n + 1 : InSlot(undo[m].slot, st, i)
    BY <1>1, <1>5 DEF PutBack
  <2>2. m \in 1 .. n + 1 /\ m # 1
    BY <1>1, <1>5, <2>1
  <2>3. k <= m - 2
    BY <1>1, <1>5, <2>2
  <2> QED
    BY <1>3, <2>1, <2>2, <2>3
<1>6. k + 1 \in 1 .. n + 1
  BY <1>1
<1> QED
  BY <1>2, <1>4, <1>5, <1>6

(* The cells put back are reserved: nothing is lost or found elsewhere.    *)
LEMMA RestoreReserved ==
  ASSUME NEW n, Restoring(n), NEW st, NEW i
  PROVE  /\ Reserved(st, i)' <=> Reserved(st, i)
         /\ InSlot(undo[1].slot, st, i) => Reserved(st, i)
<1>1. /\ n \in Nat /\ Len(undo) = n + 1 /\ n + 1 <= Len(slots) /\ Len(slots) \in Nat
      /\ slots' = slots /\ Retracing
  BY DEF Restoring
<1>2. undo[1].slot = slots[n + 1]
  <2>1. 1 \in 1 .. Len(undo) /\ Len(undo) + 1 - 1 = n + 1
    BY <1>1
  <2> QED
    BY <1>1, <2>1 DEF Retracing
<1>3. n + 1 \in 1 .. Len(slots)
  BY <1>1
<1> QED
  BY <1>1, <1>2, <1>3 DEF Reserved, InSlot

LEMMA RestoreLost ==
  ASSUME NEW n, Restoring(n), NEW st \in Streams, NEW x, NEW y, Faithful(st, x, y)
  PROVE  Faithful(st, x, y)'
<1>1. before' = before
  BY DEF Restoring
<1>2. ASSUME NEW s, NEW p, Lost(st, p, s) PROVE Lost(st, p, s)'
  <2>1. Behind(st, p, s)'
    BY <1>1, <1>2, BeforeKept DEF Lost
  <2>2. ASSUME NEW i \in Idx, ~Reserved(st, i)', s \in cell'[st][i].seq
        PROVE  cell'[st][i].pos > p
    <3>1. ~Reserved(st, i) /\ cell'[st][i] = cell[st][i]
      BY <2>2, RestoreReserved DEF Restoring
    <3> QED
      BY <1>2, <2>2, <3>1 DEF Lost, Above
  <2> QED
    BY <2>1, <2>2 DEF Lost, Above
<1> QED
  BY <1>2 DEF Faithful

LEMMA RestoreFaithful ==
  ASSUME NEW n, Restoring(n), NEW k \in 0 .. n, NEW st \in Streams, NEW i \in Idx
  PROVE  PutBack(k, st, i)' \/ Faithful(st, Past(k)[st][i], before.cell[st][i])'
<1>1. /\ n \in Nat /\ Len(undo) = n + 1 /\ before' = before /\ Retracing
      /\ IF InSlot(undo[1].slot, st, i)
         THEN Alike(cell'[st][i], undo[1].cell[st][i]) ELSE cell'[st][i] = cell[st][i]
  BY DEF Restoring
<1>2. \A j \in 0 .. n + 1 :
        PutBack(j, st, i) \/ Faithful(st, Past(j)[st][i], before.cell[st][i])
  BY <1>1 DEF Retracing
<1>3. \A a, b : Faithful(st, a, b) => Faithful(st, a, b)'
  BY RestoreLost
<1>4. SUFFICES ASSUME ~PutBack(k, st, i)'
               PROVE  Faithful(st, Past(k)[st][i], before.cell[st][i])'
  OBVIOUS
<1>5. \E a, b : a = Past(k)'[st][i] /\ b = before'.cell[st][i] /\ Faithful(st, a, b)
  <2>1. k + 1 \in 0 .. n + 1 /\ k + 1 # 0 /\ 0 \in 0 .. n + 1
    BY <1>1
  <2>2. ~PutBack(k + 1, st, i)
    BY <1>4, RestoreBack
  <2>3. Faithful(st, Past(k + 1)[st][i], before.cell[st][i])
    BY <1>2, <2>1, <2>2
  <2>4. CASE k # 0
    BY <1>1, <2>3, <2>4, RestoreBack
  <2>5. CASE k = 0 /\ InSlot(undo[1].slot, st, i)
    <3>1. Past(k + 1) = undo[1].cell /\ Past(k)' = cell'
      BY <2>5 DEF Past
    <3>2. Faithful(st, cell'[st][i], before.cell[st][i])
      BY <1>1, <2>3, <2>5, <3>1, AlikeSame
    <3> QED
      BY <1>1, <3>1, <3>2
  <2>6. CASE k = 0 /\ ~InSlot(undo[1].slot, st, i)
    <3>1. ~PutBack(0, st, i)
      BY <1>4, <2>6, RestoreBack
    <3>2. Past(0) = cell /\ Past(k)' = cell' /\ cell'[st][i] = cell[st][i]
      BY <1>1, <2>6 DEF Past
    <3> QED
      BY <1>1, <1>2, <2>1, <3>1, <3>2
  <2> QED
    BY <2>4, <2>5, <2>6
<1> QED
  BY <1>3, <1>5 DEF Faithful

LEMMA RestoreSpent ==
  ASSUME NEW n, Restoring(n), NEW st \in Streams, NEW i \in Idx
  PROVE  /\ \A k \in 1 .. n :
              InSlot(undo'[k].slot, st, i) => Spent(st, undo[k].cell[st][i])'
         /\ Reserved(st, i)' => PutBack(0, st, i)' \/ Spent(st, cell[st][i])'
<1>1. /\ n \in Nat /\ Len(undo) = n + 1 /\ before' = before /\ Retracing
      /\ \A m \in 1 .. n : undo'[m] = undo[m + 1]
      /\ IF InSlot(undo[1].slot, st, i)
         THEN Alike(cell'[st][i], undo[1].cell[st][i]) ELSE cell'[st][i] = cell[st][i]
  BY DEF Restoring
<1>2. \A k \in 1 .. n + 1 : InSlot(undo[k].slot, st, i) => Spent(st, undo[k].cell[st][i])
  BY <1>1 DEF Retracing
<1>3. \A x : Spent(st, x) => Spent(st, x)'
  BY <1>1, BeforeKept
<1>4. ASSUME NEW k \in 1 .. n, InSlot(undo'[k].slot, st, i)
      PROVE  Spent(st, undo[k].cell[st][i])'
  <2>1. k + 1 \in 1 .. n + 1
    BY <1>1
  <2>2. \E x : x = undo'[k].cell[st][i] /\ Spent(st, x)
    BY <1>1, <1>2, <1>4, <2>1
  <2> QED
    BY <1>3, <2>2 DEF Spent
<1>5. ASSUME Reserved(st, i)', ~PutBack(0, st, i)' PROVE Spent(st, cell[st][i])'
  <2>1. \E x : x = cell'[st][i] /\ Spent(st, x)
    <3>1. CASE InSlot(undo[1].slot, st, i)
      <4>1. Spent(st, undo[1].cell[st][i])
        <5>1. 1 \in 1 .. n + 1
          BY <1>1
        <5> QED
          BY <1>2, <3>1, <5>1
      <4> QED
        BY <1>1, <3>1, <4>1, AlikeSame
    <3>2. CASE ~InSlot(undo[1].slot, st, i)
      <4>1. 0 \in 0 .. n
        BY <1>1
      <4>2. ~PutBack(0, st, i)
        BY <1>5, <3>2, <4>1, RestoreBack
      <4>3. Reserved(st, i)
        BY <1>5, RestoreReserved
      <4>4. Spent(st, cell[st][i])
        BY <1>1, <4>2, <4>3 DEF Retracing
      <4> QED
        BY <1>1, <3>2, <4>4
    <3> QED
      BY <3>1, <3>2
  <2> QED
    BY <1>3, <2>1 DEF Spent
<1> QED
  BY <1>4, <1>5

LEMMA RestoreWindow ==
  ASSUME CacheOK, RestoreUbatch, WindowInv
  PROVE  WindowInv'
<1> DEFINE n == Len(undo) - 1
<1>1. /\ Stored /\ Sequences /\ phase = "restore" /\ ret \in {None, "no slot"}
  BY DEF CacheOK, Phased, RestoreUbatch
<1>2. /\ n \in Nat /\ Len(undo) = n + 1 /\ Len(undo') = n
      /\ \A m \in 1 .. n : undo'[m] = undo[m + 1]
  BY RestoredIs
<1>3. n + 1 <= Len(slots) /\ Len(slots) \in Nat
  BY <1>1, <1>2, Lengths
<1>4. Underway /\ Retracing
  BY <1>1 DEF WindowInv
<1>5. /\ before' = before /\ ret' = ret
      /\ phase' = IF Len(undo) # 1 THEN "restore" ELSE IF ret # "no slot" THEN "compute" ELSE "idle"
      /\ Len(undo) # 1 \/ ret # "no slot" => batch' = batch /\ slots' = slots
  BY DEF RestoreUbatch
<1> HIDE DEF n
<1>8. Len(before.batch) \in Nat
  <2>1. before.batch \in Seq(Seq(Token))
    BY <1>4 DEF Underway, Begun
  <2> QED
    BY <2>1, LenProperties
<1>6. CASE Len(undo) = 1 /\ ret = "no slot"
  <2>1. phase' = "idle" /\ ret' = "no slot" /\ Len(before'.batch) > 1
    BY <1>1, <1>4, <1>5, <1>6 DEF Retracing
  <2>2. ~Clean'
    <3>1. Len(before'.batch) # 1
      <4>1. \A x \in Nat : x > 1 => x # 1
        OBVIOUS
      <4> QED
        BY <1>5, <1>8, <2>1, <4>1, Zenon
    <3> QED
      BY <2>1, <3>1 DEF Clean
  <2> QED
    BY <2>1, <2>2 DEF WindowInv
<1>7. CASE Len(undo) # 1 \/ ret # "no slot"
  <2>1. batch' = batch /\ slots' = slots
    BY <1>5, <1>7
  <2>2. Underway'
    BY <1>4, <1>5, <2>1, UnderwayKept
  <2>3. Restoring(n)
    BY <1>1, <1>2, <1>3, <1>4, <1>5, <2>1, RestoredAlike DEF Restoring
  <2>4. CASE Len(undo) = 1
    <3>1. n = 0 /\ phase' = "compute"
      <4>1. n = 0
        <5>1. \A x \in Nat : x + 1 = 1 => x = 0
          OBVIOUS
        <5>2. n + 1 = 1 /\ n \in Nat
          BY <1>2, <2>4, Zenon
        <5> QED
          BY <5>1, <5>2
      <4>2. ret # "no slot"
        BY <1>7, <2>4
      <4> QED
        BY <1>5, <2>4, <4>1, <4>2, Zenon
    <3>2. \A st \in Streams, i \in Idx : ~PutBack(0, st, i)' /\ Past(0)' = cell'
      BY <1>2, <3>1 DEF PutBack, Past
    <3>3. 0 \in 0 .. n
      BY <1>2
    <3>4. \A st \in Streams, i \in Idx : Faithful(st, cell[st][i], before.cell[st][i])'
      <4> SUFFICES ASSUME NEW st \in Streams, NEW i \in Idx
                   PROVE  Faithful(st, cell[st][i], before.cell[st][i])'
        OBVIOUS
      <4>1. Faithful(st, Past(0)[st][i], before.cell[st][i])'
        BY <2>3, <3>2, <3>3, RestoreFaithful
      <4> QED
        BY <3>2, <4>1 DEF Faithful
    <3>5. Settled(0)'
      BY <3>4, FaithfulSettled
    <3>6. Done' = 0
      <4>1. Len(batch) = Len(before.batch)
        BY <1>4 DEF Retracing
      <4>2. Len(before.batch) - Len(batch) = 0
        BY <1>8, <4>1
      <4> QED
        BY <1>5, <2>1, <4>2 DEF Done
    <3>7. \A st \in Streams, i \in Idx : Reserved(st, i)' => Spent(st, cell[st][i])'
      BY <2>3, <3>2, RestoreSpent
    <3>8. Settled(Done)'
      BY <3>5, <3>6 DEF Settled
    <3>9. Computed'
      BY <3>7, <3>8 DEF Computed, Reserved, InSlot
    <3> QED
      BY <2>2, <3>1, <3>9 DEF WindowInv, Decoded
  <2>5. CASE Len(undo) # 1
    <3>1. phase' = "restore"
      BY <1>5, <2>5
    <3>2. Len(batch') = Len(before'.batch)
      BY <1>4, <1>5, <2>1 DEF Retracing
    <3>3. ASSUME NEW m \in 1 .. Len(undo') PROVE undo'[m].slot = slots'[Len(undo') + 1 - m]
      <4>1. m + 1 \in 1 .. n + 1 /\ m \in 1 .. n /\ n + 1 + 1 - (m + 1) = n + 1 - m
        BY <1>2
      <4>2. undo[m + 1].slot = slots[n + 1 + 1 - (m + 1)]
        BY <1>2, <1>4, <4>1 DEF Retracing
      <4> QED
        BY <1>2, <2>1, <4>1, <4>2
    <3>4. \A k \in 0 .. Len(undo'), st \in Streams, i \in Idx :
            PutBack(k, st, i)' \/ Faithful(st, Past(k)[st][i], before.cell[st][i])'
      BY <1>2, <2>3, RestoreFaithful
    <3>5. \A k \in 1 .. Len(undo'), st \in Streams, i \in Idx :
            InSlot(undo'[k].slot, st, i) => Spent(st, undo[k].cell[st][i])'
      BY <1>2, <2>3, RestoreSpent
    <3>6. \A st \in Streams, i \in Idx :
            Reserved(st, i)' => PutBack(0, st, i)' \/ Spent(st, cell[st][i])'
      BY <2>3, RestoreSpent
    <3>7. phase' = "restore" /\ ret' = "no slot" => Len(batch') > 1
      BY <1>1, <1>4, <1>5, <2>1 DEF Retracing
    <3>8. Retracing'
      BY <3>2, <3>3, <3>4, <3>5, <3>6, <3>7 DEF Retracing, InSlot
    <3> QED
      BY <2>2, <3>1, <3>8 DEF WindowInv, Decoded
  <2> QED
    BY <2>4, <2>5
<1> QED
  BY <1>6, <1>7
-----------------------------------------------------------------------------
(* A ubatch is applied for good.                                           *)

Computable(u, slot, d) ==
  /\ Stored /\ Sequences /\ d \in Nat /\ d = Done
  /\ Len(batch) \in Nat \ {0} /\ Len(slots) = Len(batch)
  /\ Len(before.batch) = d + Len(batch)
  /\ u = batch[1] /\ u = before.batch[d + 1] /\ u \in Seq(Token)
  /\ slot = slots[1] /\ IsSlot(u, slot)
  /\ Underway /\ Computed

LEMMA ComputableIs ==
  ASSUME CacheOK, WindowInv, phase = "compute"
  PROVE  Computable(Head(batch), Head(slots), Done)
<1>1. /\ Stored /\ Sequences
      /\ Head(batch) = batch[1] /\ Head(slots) = slots[1]
      /\ Head(batch) \in Seq(Token) /\ IsSlot(Head(batch), Head(slots))
      /\ Len(slots) = Len(batch) /\ Len(batch) \in Nat \ {0}
  BY Computing
<1>2. Underway /\ Computed
  BY DEF WindowInv
<1>3. Len(before.batch) \in Nat /\ Len(batch) <= Len(before.batch)
      /\ \A j \in 1 .. Len(batch) : batch[j] = before.batch[Done + j]
  <2>1. before.batch \in Seq(Seq(Token))
    BY <1>2 DEF Underway, Begun
  <2> QED
    BY <1>2, <2>1, LenProperties DEF Underway
<1>4. \A a \in Nat, b \in Nat : a <= b => b - a \in Nat /\ b = (b - a) + a
  OBVIOUS
<1>5. Done \in Nat /\ Len(before.batch) = Done + Len(batch)
  BY <1>1, <1>3, <1>4 DEF Done
<1>6. batch[1] = before.batch[Done + 1]
  <2>1. 1 \in 1 .. Len(batch)
    BY <1>1
  <2> QED
    BY <1>3, <2>1
<1> QED
  BY <1>1, <1>2, <1>5, <1>6 DEF Computable

LEMMA ComputeEffects ==
  ASSUME NEW u, NEW slot, NEW d, Computable(u, slot, d), NEW st \in Streams
  PROVE  /\ \A i \in Idx : InSlot(slot, st, i) =>
              /\ Applied(u, slot)[st][i].pos = u[TokenAt(slot[st], i)].pos
              /\ Applied(u, slot)[st][i].seq = u[TokenAt(slot[st], i)].seqs
              /\ Spent(st, cell[st][i])
         /\ \A s : \A i \in Idx : Effects(cell[st], Applied(u, slot)[st], Taken(slot, st), s, i)
         /\ \A s \in Seqs : \A p \in PosIn(st, u, s), q \in Grown(st, s, d) : q < p
<1>1. /\ Stored /\ d \in Nat /\ u \in Seq(Token) /\ IsSlot(u, slot) /\ Begun
      /\ u = before.batch[d + 1] /\ d + 1 \in 1 .. Len(before.batch) /\ (d + 1) - 1 = d
  BY DEF Computable, Underway
<1>2. \A s \in Seqs : \A p \in PosIn(st, u, s), q \in Grown(st, s, d) : q < p
  <2> SUFFICES ASSUME NEW s \in Seqs, NEW p \in PosIn(st, u, s), NEW q \in Grown(st, s, d)
               PROVE  q < p
    OBVIOUS
  <2>1. \A a \in PosIn(st, before.batch[d + 1], s), b \in Grown(st, s, (d + 1) - 1) : b < a
    BY <1>1 DEF Computable, Underway, Ordered
  <2> QED
    BY <1>1, <2>1
<1>3. Ahead(st, u)
  <2>1. \A s \in Seqs : Held(cell[st], s) \subseteq Grown(st, s, d)
    BY DEF Computable, Computed, Settled
  <2> QED
    BY <1>2, <2>1 DEF Ahead
<1>4. \A i \in Idx : InSlot(slot, st, i) => Spent(st, cell[st][i])
  <2>1. 1 \in 1 .. Len(slots) /\ slot = slots[1]
    BY DEF Computable
  <2> QED
    BY <2>1 DEF Computable, Computed, Reserved
<1>5. \A i \in Idx :
        /\ InSlot(slot, st, i) =>
              /\ Applied(u, slot)[st][i].pos = u[TokenAt(slot[st], i)].pos
              /\ Applied(u, slot)[st][i].seq = u[TokenAt(slot[st], i)].seqs
        /\ \A s : Effects(cell[st], Applied(u, slot)[st], Taken(slot, st), s, i)
  BY <1>1, <1>3, AppliedEffects, ZenonT(60)
<1> QED
  BY <1>2, <1>4, <1>5

(* The sequences afterwards: what they held and what the ubatch gives them *)
(* is there, or was purged behind the window.                              *)
LEMMA ComputeHeld ==
  ASSUME NEW u, NEW slot, NEW d, Computable(u, slot, d), NEW st \in Streams, NEW s \in Seqs
  PROVE  /\ Held(Applied(u, slot)[st], s) \subseteq Grown(st, s, d) \cup PosIn(st, u, s)
         /\ PosIn(st, u, s) \subseteq Held(Applied(u, slot)[st], s)
<1> DEFINE c == Applied(u, slot)[st]
<1>1. u \in Seq(Token) /\ IsSlot(u, slot)
  BY DEF Computable
<1>2. \A i \in Idx : InSlot(slot, st, i) =>
        /\ TokenAt(slot[st], i) \in TokensOn(st, u)
        /\ c[i].pos = u[TokenAt(slot[st], i)].pos
        /\ c[i].seq = u[TokenAt(slot[st], i)].seqs
  BY <1>1, TakerIs, ComputeEffects
<1>3. ASSUME NEW i \in Idx, s \in c[i].seq
      PROVE  c[i].pos \in Grown(st, s, d) \cup PosIn(st, u, s)
  <2>1. CASE InSlot(slot, st, i)
    BY <1>2, <1>3, <2>1, PosInIs
  <2>2. CASE ~InSlot(slot, st, i)
    <3>1. Effects(cell[st], c, Taken(slot, st), s, i) /\ i \notin Taken(slot, st)
      BY <2>2, ComputeEffects DEF Taken
    <3>2. s \in cell[st][i].seq /\ c[i].pos = cell[st][i].pos
      BY <1>3, <3>1 DEF Effects
    <3>3. Held(cell[st], s) \subseteq Grown(st, s, d)
      BY DEF Computable, Computed, Settled
    <3> QED
      BY <3>2, <3>3, HeldIs
  <2> QED
    BY <2>1, <2>2
<1>4. ASSUME NEW p \in PosIn(st, u, s) PROVE p \in Held(c, s)
  <2>1. PICK k \in TokensOn(st, u) : s \in u[k].seqs /\ u[k].pos = p
    BY PosInIs
  <2>2. PICK i \in Idx : InSlot(slot, st, i) /\ TokenAt(slot[st], i) = k
    BY <1>1, TakerIs
  <2>3. s \in c[i].seq /\ c[i].pos = p
    BY <1>2, <2>1, <2>2
  <2> QED
    BY <2>3, HeldIs
<1> HIDE DEF c
<1>5. Held(c, s) \subseteq Grown(st, s, d) \cup PosIn(st, u, s)
  BY <1>3, HeldIs
<1> QED
  BY <1>4, <1>5 DEF c

LEMMA ComputeOld ==
  ASSUME NEW u, NEW slot, NEW d, Computable(u, slot, d), NEW st \in Streams, NEW s \in Seqs,
         NEW p \in Grown(st, s, d), p \notin Held(Applied(u, slot)[st], s)
  PROVE  /\ Behind(st, p, s)
         /\ \A i \in Idx : ~Reserved(st, i) \/ InSlot(slot, st, i) =>
              (s \in Applied(u, slot)[st][i].seq => Applied(u, slot)[st][i].pos > p)
<1> DEFINE c == cell[st]
           e == Applied(u, slot)[st]
           R == Taken(slot, st)
<1>1. /\ Stored /\ Begun /\ u \in Seq(Token) /\ IsSlot(u, slot)
      /\ d \in Nat /\ d <= Len(before.batch)
  BY DEF Computable, Underway
<1>2. /\ \A i \in Idx : InSlot(slot, st, i) =>
           TokenAt(slot[st], i) \in TokensOn(st, u) /\ e[i].pos = u[TokenAt(slot[st], i)].pos
           /\ e[i].seq = u[TokenAt(slot[st], i)].seqs /\ Spent(st, c[i])
      /\ \A i \in Idx : Effects(c, e, R, s, i)
      /\ \A a \in PosIn(st, u, s), b \in Grown(st, s, d) : b < a
  BY <1>1, TakerIs, ComputeEffects, SMTT(30)
<1>3. \A i \in Idx : InSlot(slot, st, i) <=> i \in R
  BY DEF Taken
<1>4. p \in Int
  BY <1>1, GrownTyped
<1>5. \A i \in Idx : e[i].pos \in Int
  <2>1. e \in Cells
    BY <1>1, AppliedIs DEF Stored
  <2> QED
    BY <2>1, SizesAssumption DEF Cells, SoundCell
<1>6. CASE Below(c, R, s, p)
  <2>1. R \in SUBSET Idx /\ \A j \in R : Spent(st, cell[st][j])
    BY <1>2, <1>3 DEF Taken
  <2> HIDE DEF R, e
  <2>2. Behind(st, p, s) /\ \A i \in Idx : s \in e[i].seq => e[i].pos > p
    BY ONLY <1>1, <1>2, <1>4, <1>5, <1>6, <2>1, st \in Streams, PurgedIsLost DEF c
  <2> QED
    BY <2>2 DEF e
<1>7. CASE ~Below(c, R, s, p)
  <2>1. p \notin Held(c, s)
    <3> SUFFICES ASSUME NEW i \in Idx, s \in c[i].seq, c[i].pos = p PROVE FALSE
      BY HeldIs
    <3>1. CASE i \in R
      <4>1. Spent(st, c[i]) /\ c[i].pos # -1
        <5>1. c[i] \in SoundCell
          BY <1>1 DEF Stored, Cells
        <5> QED
          BY <1>2, <1>3, <3>1, <5>1 DEF SoundCell
      <4>2. c[i].seq = {s}
        BY <4>1 DEF Spent
      <4>3. p <= c[i].pos
        BY <1>4
      <4> QED
        BY <1>7, <3>1, <4>2, <4>3 DEF Below
    <3>2. CASE i \notin R
      <4>1. s \in e[i].seq /\ e[i].pos = p
        BY <1>2, <1>7, <3>2 DEF Effects
      <4> QED
        BY <4>1, HeldIs
    <3> QED
      BY <3>1, <3>2
  <2>2. Lost(st, p, s)
    BY <2>1 DEF Computable, Computed, Settled
  <2>3. ASSUME NEW i \in Idx, ~Reserved(st, i) \/ InSlot(slot, st, i), s \in e[i].seq
        PROVE  e[i].pos > p
    <3>1. CASE InSlot(slot, st, i)
      <4>1. e[i].pos \in PosIn(st, u, s)
        BY <1>2, <2>3, <3>1, PosInIs
      <4> QED
        BY <1>2, <1>4, <1>5, <4>1
    <3>2. CASE ~InSlot(slot, st, i)
      <4>1. s \in c[i].seq /\ e[i].pos = c[i].pos
        BY <1>2, <1>3, <2>3, <3>2 DEF Effects
      <4> QED
        BY <2>2, <2>3, <3>2, <4>1 DEF Lost, Above
    <3> QED
      BY <3>1, <3>2
  <2> QED
    BY <2>2, <2>3 DEF Lost, e
<1> QED
  BY <1>6, <1>7

LEMMA ComputedIs ==
  ASSUME CacheOK, ComputeUbatch
  PROVE  /\ cell' = Applied(Head(batch), Head(slots)) /\ before' = before
         /\ Len(batch) \in Nat /\ Len(slots) = Len(batch)
         /\ Len(batch') = Len(batch) - 1 /\ Len(slots') = Len(batch) - 1
         /\ \A m \in 1 .. Len(batch) - 1 : batch'[m] = batch[m + 1] /\ slots'[m] = slots[m + 1]
         /\ phase' = IF Len(batch) = 1 THEN "idle" ELSE "compute"
         /\ Len(batch) = 1 => ret' = "ok"
<1>1. /\ phase = "compute" /\ cell' = Applied(Head(batch), Head(slots)) /\ before' = before
      /\ batch' = Tail(batch) /\ slots' = Tail(slots)
      /\ phase' = IF Len(batch) = 1 THEN "idle" ELSE "compute"
      /\ Len(batch) = 1 => ret' = "ok"
  BY DEF ComputeUbatch, Emplace
<1>2. /\ Len(slots) = Len(batch) /\ Len(batch) \in Nat /\ Len(batch) > 0
      /\ batch \in Seq(Seq(Token)) /\ slots \in Seq(Slot)
  BY <1>1, Computing DEF Sequences
<1>3. /\ Len(Tail(batch)) = Len(batch) - 1
      /\ \A m \in 1 .. Len(batch) - 1 : Tail(batch)[m] = batch[m + 1]
  BY <1>2, Popped
<1>4. /\ Len(Tail(slots)) = Len(slots) - 1
      /\ \A m \in 1 .. Len(slots) - 1 : Tail(slots)[m] = slots[m + 1]
  BY <1>2, Popped
<1> QED
  BY <1>1, <1>2, <1>3, <1>4

(* The step, with the number of ubatches before it.                        *)
ComputeStep(u, slot, d, n) ==
  /\ Computable(u, slot, d) /\ n \in Nat /\ Len(batch) = n + 1 /\ Len(slots) = n + 1
  /\ cell' = Applied(u, slot) /\ cell' \in [Streams -> Cells] /\ before' = before
  /\ Len(batch') = n /\ Len(slots') = n
  /\ \A m \in 1 .. n : batch'[m] = batch[m + 1] /\ slots'[m] = slots[m + 1]

LEMMA ComputeReserved ==
  ASSUME NEW u, NEW slot, NEW d, NEW n, ComputeStep(u, slot, d, n), NEW st, NEW i
  PROVE  /\ Reserved(st, i)' <=> \E m \in 2 .. n + 1 : InSlot(slots[m], st, i)
         /\ Reserved(st, i) <=> Reserved(st, i)' \/ InSlot(slot, st, i)
<1>1. /\ n \in Nat /\ Len(slots) = n + 1 /\ Len(slots') = n /\ slot = slots[1]
      /\ \A m \in 1 .. n : slots'[m] = slots[m + 1]
  BY DEF ComputeStep, Computable
<1>2. Reserved(st, i)' <=> \E m \in 1 .. n : InSlot(slots'[m], st, i)
  BY <1>1 DEF Reserved, InSlot
<1>3. ASSUME NEW m \in 1 .. n, InSlot(slots'[m], st, i)
      PROVE  \E l \in 2 .. n + 1 : InSlot(slots[l], st, i)
  <2>1. m + 1 \in 2 .. n + 1
    BY <1>1
  <2> QED
    BY <1>1, <1>3, <2>1
<1>4. ASSUME NEW l \in 2 .. n + 1, InSlot(slots[l], st, i)
      PROVE  \E m \in 1 .. n : InSlot(slots'[m], st, i)
  <2> DEFINE m == l - 1
  <2>1. m \in 1 .. n /\ m + 1 = l
    BY <1>1
  <2> HIDE DEF m
  <2> QED
    BY <1>1, <1>4, <2>1
<1>5. Reserved(st, i) <=> \E m \in 1 .. n + 1 : InSlot(slots[m], st, i)
  BY <1>1 DEF Reserved
<1>6. /\ \A m \in 2 .. n + 1 : m \in 1 .. n + 1
      /\ \A m \in 1 .. n + 1 : m = 1 \/ m \in 2 .. n + 1
      /\ 1 \in 1 .. n + 1
  BY <1>1
<1> QED
  BY <1>1, <1>2, <1>3, <1>4, <1>5, <1>6, Zenon

LEMMA ComputeSettled ==
  ASSUME NEW u, NEW slot, NEW d, NEW n, ComputeStep(u, slot, d, n)
  PROVE  Settled(d + 1)'
<1>1. cell' = Applied(u, slot) /\ before' = before /\ d \in Nat /\ u = before.batch[d + 1]
      /\ Computable(u, slot, d)
  BY DEF ComputeStep, Computable
<1> SUFFICES ASSUME NEW st \in Streams, NEW s \in Seqs
             PROVE  /\ Held(cell'[st], s) \subseteq Grown(st, s, d + 1)'
                    /\ \A p \in Grown(st, s, d + 1)' : p \in Held(cell'[st], s) \/ Lost(st, p, s)'
  BY DEF Settled, Held
<1>2. Grown(st, s, d + 1)' = Grown(st, s, d + 1)
  BY <1>1, BeforeKept
<1>3. \A p : p \in Grown(st, s, d + 1) <=> p \in Grown(st, s, d) \/ p \in PosIn(st, u, s)
  <2>1. /\ \A j \in 1 .. d + 1 : j \in 1 .. d \/ j = d + 1
        /\ \A j \in 1 .. d : j \in 1 .. d + 1
        /\ d + 1 \in 1 .. d + 1
    BY <1>1
  <2> QED
    BY <1>1, <2>1, GrownIs, Zenon
<1>4. Held(cell'[st], s) \subseteq Grown(st, s, d + 1)
  BY <1>1, <1>3, ComputeHeld
<1>5. ASSUME NEW p \in Grown(st, s, d + 1), p \notin Held(cell'[st], s)
      PROVE  Lost(st, p, s)'
  <2>1. p \in Grown(st, s, d)
    BY <1>1, <1>3, <1>5, ComputeHeld
  <2>2. /\ Behind(st, p, s)
        /\ \A i \in Idx : ~Reserved(st, i) \/ InSlot(slot, st, i) =>
             (s \in cell'[st][i].seq => cell'[st][i].pos > p)
    BY <1>1, <1>5, <2>1, ComputeOld
  <2>3. \A i \in Idx : ~Reserved(st, i)' => ~Reserved(st, i) \/ InSlot(slot, st, i)
    BY ComputeReserved
  <2>4. Above(st, p, s)'
    BY <2>2, <2>3 DEF Above
  <2>5. Behind(st, p, s)'
    BY <1>1, <2>2, BeforeKept
  <2> QED
    BY <2>4, <2>5 DEF Lost
<1> QED
  BY <1>2, <1>4, <1>5

(* What is still reserved stays spent: a cell that is taken twice holds a  *)
(* token now that nobody will see.                                         *)
LEMMA ComputeSpent ==
  ASSUME NEW u, NEW slot, NEW d, NEW n, ComputeStep(u, slot, d, n),
         NEW st \in Streams, NEW i \in Idx, Reserved(st, i)'
  PROVE  Spent(st, cell[st][i])'
<1>1. /\ cell' = Applied(u, slot) /\ cell' \in [Streams -> Cells] /\ before' = before
      /\ Stored /\ n \in Nat /\ Len(slots) = n + 1 /\ slot = slots[1] /\ u = batch[1]
      /\ Reused /\ Computed /\ Computable(u, slot, d)
  BY DEF ComputeStep, Computable, Underway
<1>2. PICK m \in 2 .. n + 1 : InSlot(slots[m], st, i)
  BY ComputeReserved
<1>3. Reserved(st, i)
  BY ComputeReserved
<1>4. \E x : x = cell'[st][i] /\ Spent(st, x)
  <2>1. CASE InSlot(slot, st, i)
    <3>1. Passed(st, Taker(1, st, i))
      <4>1. 1 \in 1 .. Len(slots) /\ m \in 1 .. Len(slots) /\ 1 < m
        BY <1>1
      <4> QED
        BY <1>1, <1>2, <2>1, <4>1 DEF Reused
    <3>2. Taker(1, st, i) = u[TokenAt(slot[st], i)]
      BY <1>1 DEF Taker
    <3>3. /\ cell'[st][i].pos = Taker(1, st, i).pos
          /\ cell'[st][i].seq = Taker(1, st, i).seqs
      BY <1>1, <2>1, <3>2, ComputeEffects
    <3> QED
      BY <3>1, <3>3 DEF Passed, Spent
  <2>2. CASE ~InSlot(slot, st, i)
    <3> DEFINE x == cell[st][i]
               y == cell'[st][i]
    <3>1. Spent(st, x)
      BY <1>1, <1>3 DEF Computed
    <3>2. y.seq \subseteq x.seq /\ (y.seq # {} => y.pos = x.pos)
      <4>1. \A s : Effects(cell[st], cell'[st], Taken(slot, st), s, i)
        BY <1>1, ComputeEffects
      <4>2. i \notin Taken(slot, st)
        BY <2>2 DEF Taken
      <4> QED
        BY <4>1, <4>2 DEF Effects
    <3>3. x \in SoundCell /\ y \in SoundCell
      BY <1>1 DEF Stored, Cells
    <3>4. (x.seq = {} <=> x.pos = -1) /\ (y.seq = {} <=> y.pos = -1)
      BY <3>3 DEF SoundCell
    <3> HIDE DEF x, y
    <3>5. Spent(st, y)
      <4>1. CASE y.seq = {}
        BY <3>4, <4>1 DEF Spent
      <4>2. CASE y.seq # {}
        <5>1. x.pos # -1
          BY <3>2, <3>4, <4>2
        <5>2. PICK s \in Seqs : x.seq = {s} /\ Behind(st, x.pos, s)
          BY <3>1, <5>1 DEF Spent
        <5>3. y.seq = {s} /\ Behind(st, y.pos, s)
          BY <3>2, <4>2, <5>2
        <5> QED
          BY <5>3 DEF Spent
      <4> QED
        BY <4>1, <4>2
    <3> QED
      BY <3>5 DEF y
  <2> QED
    BY <2>1, <2>2
<1>5. \A x : Spent(st, x) => Spent(st, x)'
  BY <1>1, BeforeKept
<1> QED
  BY <1>4, <1>5 DEF Spent

LEMMA ComputeUnderway ==
  ASSUME NEW u, NEW slot, NEW d, NEW n, ComputeStep(u, slot, d, n)
  PROVE  Underway' /\ Done' = d + 1
<1>1. /\ d \in Nat /\ d = Done /\ n \in Nat /\ Len(batch) = n + 1 /\ Len(slots) = n + 1
      /\ Len(before.batch) = d + (n + 1) /\ before' = before
      /\ Len(batch') = n /\ Len(slots') = n
      /\ \A m \in 1 .. n : batch'[m] = batch[m + 1] /\ slots'[m] = slots[m + 1]
      /\ Underway
  BY DEF ComputeStep, Computable
<1>2. Begun' /\ Ordered' /\ Dense'
  BY <1>1, BeforeKept DEF Underway
<1>3. Done' = d + 1 /\ Len(batch') <= Len(before'.batch)
  <2>1. \A k \in Nat : k = d + (n + 1) => k - n = d + 1 /\ n <= k
    BY <1>1
  <2>2. d + (n + 1) \in Nat
    BY <1>1
  <2>3. Len(before'.batch) - Len(batch') = d + 1 /\ Len(batch') <= Len(before'.batch)
    BY <1>1, <2>1, <2>2, Zenon
  <2> QED
    BY <2>3 DEF Done
<1>4. ASSUME NEW j \in 1 .. n PROVE batch'[j] = before'.batch[d + 1 + j]
  <2>1. j + 1 \in 1 .. n + 1 /\ d + (j + 1) = d + 1 + j
    BY <1>1
  <2>2. batch[j + 1] = before.batch[d + (j + 1)]
    BY <1>1, <2>1 DEF Underway
  <2> QED
    BY <1>1, <2>1, <2>2
<1>5. ASSUME NEW m \in 1 .. n, NEW l \in 1 .. n, NEW st \in Streams, NEW i \in Idx,
             m < l, InSlot(slots'[m], st, i), InSlot(slots'[l], st, i)
      PROVE  Passed(st, Taker(m, st, i))'
  <2>1. /\ m + 1 \in 1 .. n + 1 /\ l + 1 \in 1 .. n + 1 /\ m + 1 < l + 1
        /\ InSlot(slots[m + 1], st, i) /\ InSlot(slots[l + 1], st, i)
    BY <1>1, <1>5, SMTT(30)
  <2>2. Passed(st, Taker(m + 1, st, i))
    BY <1>1, <2>1 DEF Underway, Reused
  <2>3. Taker(m, st, i)' = Taker(m + 1, st, i)
    BY <1>1 DEF Taker
  <2>4. \E t : t = Taker(m, st, i)' /\ Passed(st, t)
    BY <2>2, <2>3
  <2>5. \A t : Passed(st, t) => Passed(st, t)'
    BY <1>1, BeforeKept
  <2> QED
    BY <2>4, <2>5 DEF Passed
<1>6. Reused'
  <2>1. \A m \in 1 .. n, l \in 1 .. n : \A st \in Streams, i \in Idx :
          m < l /\ InSlot(slots'[m], st, i) /\ InSlot(slots'[l], st, i)
          => Passed(st, Taker(m, st, i))'
    BY <1>5
  <2> QED
    BY <1>1, <2>1 DEF Reused, InSlot
<1> QED
  BY <1>1, <1>2, <1>3, <1>4, <1>6 DEF Underway

LEMMA ComputeWindow ==
  ASSUME CacheOK, CacheOK', ComputeUbatch, WindowInv
  PROVE  WindowInv'
<1>1. \E u, slot, d, n : ComputeStep(u, slot, d, n)
  <2> DEFINE u == Head(batch)
             slot == Head(slots)
             d == Done
             n == Len(batch) - 1
  <2>1. phase = "compute" /\ Computable(u, slot, d)
    BY ComputableIs DEF ComputeUbatch
  <2>2. n \in Nat /\ Len(batch) = n + 1
    BY <2>1 DEF Computable
  <2> HIDE DEF u, slot, d
  <2>3. cell' \in [Streams -> Cells]
    BY ZenonT(60) DEF CacheOK, Stored
  <2>4. ComputeStep(u, slot, d, n)
    BY <2>1, <2>2, <2>3, ComputedIs DEF ComputeStep, u, slot
  <2> QED
    BY <2>4
<1>2. PICK u, slot, d, n : ComputeStep(u, slot, d, n)
  BY <1>1
<1>3. Computable(u, slot, d)
  BY <1>2 DEF ComputeStep
<1>4. /\ before' = before /\ phase' = (IF Len(batch) = 1 THEN "idle" ELSE "compute")
      /\ Len(batch) = 1 => ret' = "ok"
  BY ComputedIs
<1>5. Underway' /\ Done' = d + 1 /\ Settled(d + 1)'
  BY <1>2, ComputeUnderway, ComputeSettled
<1>6. CASE Len(batch) = 1
  <2>1. Len(before'.batch) = d + 1
    BY <1>3, <1>4, <1>6 DEF Computable
  <2>2. Settled(IF ret = "ok" THEN Len(before.batch) ELSE 0)'
    BY <1>4, <1>5, <1>6, <2>1 DEF Settled
  <2>3. Ended'
    BY <1>5, <2>2 DEF Ended, Underway
  <2>4. phase' = "idle"
    BY <1>4, <1>6
  <2> QED
    BY <2>3, <2>4 DEF WindowInv
<1>7. CASE Len(batch) # 1
  <2>1. phase' = "compute"
    BY <1>4, <1>7
  <2>2. \A st \in Streams, i \in Idx : Reserved(st, i)' => Spent(st, cell[st][i])'
    BY <1>2, ComputeSpent
  <2>3. Settled(Done)'
    BY <1>5 DEF Settled
  <2>4. Computed'
    BY <2>2, <2>3 DEF Computed, Reserved, InSlot
  <2> QED
    BY <1>5, <2>1, <2>4 DEF WindowInv, Decoded
<1> QED
  BY <1>6, <1>7
-----------------------------------------------------------------------------
(* A stream holds only sequences of its own.                               *)

HomedIn(st, c) == \A i \in Idx : \A s \in c[i].seq : StreamOf(s) = st
Homed          == \A st \in Streams : HomedIn(st, cell[st])
HomeInv        == Homed /\ \A m \in 1 .. Len(undo), st \in Streams : HomedIn(st, undo[m].cell[st])

LEMMA HomedSwap ==
  ASSUME Stored, Homed, NEW st \in Streams, NEW d, HomedIn(st, d),
         cell' = [cell EXCEPT ![st] = d]
  PROVE  Homed'
<1> SUFFICES ASSUME NEW t \in Streams PROVE HomedIn(t, cell'[t])
  BY DEF Homed, HomedIn
<1>1. cell'[t] = IF t = st THEN d ELSE cell[t]
  BY DEF Stored
<1> QED
  BY <1>1 DEF Homed

(* A cell of which sequences are taken, or that is emptied.                *)
LEMMA HomedNarrow ==
  ASSUME NEW st, NEW c, NEW d, HomedIn(st, c), \A i \in Idx : d[i].seq \subseteq c[i].seq
  PROVE  HomedIn(st, d)
BY DEF HomedIn

LEMMA HomedTaken ==
  ASSUME Stored, Homed, NEW st \in Streams, NEW d,
         \A i \in Idx : d[i].seq \subseteq cell[st][i].seq, cell' = [cell EXCEPT ![st] = d]
  PROVE  Homed'
<1>1. HomedIn(st, d)
  BY HomedNarrow DEF Homed
<1> QED
  BY <1>1, HomedSwap

LEMMA MovingHomed ==
  ASSUME Stored, Homed, Moving
  PROVE  Homed'
<1>1. \A st \in Streams, i \in Idx : cell[st][i] \in SoundCell
  BY DEF Stored, Cells
<1>2. \A s \in Seqs : StreamOf(s) \in Streams
  BY Sizes
<1>3. ASSUME NEW s \in Seqs, NEW p0, NEW p1, SeqRm(s, p0, p1) PROVE Homed'
  <2> DEFINE st == StreamOf(s)
             d == RmSeq(cell[st], s, Range0(p0, p1))
  <2>1. cell' = [cell EXCEPT ![st] = d]
    BY <1>3 DEF SeqRm
  <2>2. \A i \in Idx : d[i] = cell[st][i] \/ d[i] = Without(cell[st][i], {s})
    BY DEF RmSeq
  <2>3. st \in Streams
    BY <1>2
  <2> HIDE DEF st, d
  <2>4. \A i \in Idx : Without(cell[st][i], {s}).seq \subseteq cell[st][i].seq
    BY <1>1, <2>3, WithoutIs
  <2>5. \A i \in Idx : d[i].seq \subseteq cell[st][i].seq
    BY <2>2, <2>4
  <2> QED
    BY <2>1, <2>3, <2>5, HomedTaken
<1>4. ASSUME NEW p0, NEW p1, SeqRmAny(p0, p1) PROVE Homed'
  <2> SUFFICES ASSUME NEW st \in Streams PROVE HomedIn(st, cell'[st])
    BY DEF Homed, HomedIn
  <2>1. \A i \in Idx : cell'[st][i] = cell[st][i] \/ cell'[st][i] = EmptyCell
    BY <1>4 DEF SeqRmAny
  <2>2. \A i \in Idx : cell'[st][i].seq \subseteq cell[st][i].seq
    BY <2>1, EmptySound
  <2> QED
    BY <2>2, HomedNarrow DEF Homed
<1>5. ASSUME NEW src \in Seqs, NEW dst \in Seqs, NEW p0, NEW p1, SeqCpShare(src, dst, p0, p1)
      PROVE  Homed'
  <2> DEFINE st == StreamOf(src)
             H == Hits(cell[st], src, Range0(p0, p1))
             d == [i \in Idx |-> IF i \in H
                    THEN [cell[st][i] EXCEPT !.seq = @ \cup {dst}] ELSE cell[st][i]]
  <2>1. cell' = [cell EXCEPT ![st] = d] /\ StreamOf(dst) = st
    BY <1>5 DEF SeqCpShare
  <2>2. st \in Streams
    BY <1>2
  <2> HIDE DEF st, H
  <2>3. \A i \in Idx : d[i].seq \subseteq cell[st][i].seq \cup {dst}
    BY <1>1, <2>2 DEF SoundCell
  <2> HIDE DEF d
  <2>4. HomedIn(st, d)
    BY <2>1, <2>2, <2>3 DEF Homed, HomedIn
  <2> QED
    BY <2>1, <2>2, <2>4, HomedSwap
<1>6. ASSUME NEW s \in Seqs, SeqKeep(s) PROVE Homed'
  <2> DEFINE st == StreamOf(s)
             d == [i \in Idx |-> Without(cell[st][i], Seqs \ {s})]
  <2>1. cell' = [cell EXCEPT ![st] = d] /\ st \in Streams
    BY <1>2, <1>6 DEF SeqKeep
  <2>2. \A i \in Idx : d[i] = Without(cell[st][i], Seqs \ {s})
    OBVIOUS
  <2> HIDE DEF st, d
  <2>3. \A i \in Idx : Without(cell[st][i], Seqs \ {s}).seq \subseteq cell[st][i].seq
    BY <1>1, <2>1, WithoutIs
  <2>4. \A i \in Idx : d[i].seq \subseteq cell[st][i].seq
    BY <2>2, <2>3
  <2> QED
    BY <2>1, <2>4, HomedTaken
<1>7. ASSUME NEW s \in Seqs, NEW p0, NEW p1, NEW n \in {-1, 1}, SeqAdd(s, p0, p1, n)
      PROVE  Homed'
  <2> DEFINE st == StreamOf(s)
             H  == Hits(cell[st], s, Range0(p0, p1))
             moved(x) == IF x.pos + n < 0 THEN EmptyCell
                         ELSE [x EXCEPT !.pos = @ + n, !.shift = @ + n]
             d  == [i \in Idx |-> IF i \in H THEN moved(cell[st][i]) ELSE cell[st][i]]
  <2>1. cell' = [cell EXCEPT ![st] = d] /\ st \in Streams
    BY <1>2, <1>7 DEF SeqAdd
  <2>2. \A x \in SoundCell : moved(x).seq \subseteq x.seq
    BY EmptySound DEF SoundCell
  <2>3. \A i \in Idx : d[i] = moved(cell[st][i]) \/ d[i] = cell[st][i]
    OBVIOUS
  <2> HIDE DEF st, H, moved, d
  <2>4. \A i \in Idx : d[i].seq \subseteq cell[st][i].seq
    BY <1>1, <2>1, <2>2, <2>3
  <2> QED
    BY <2>1, <2>4, HomedTaken
<1>8. ASSUME NEW s \in Seqs, NEW p0, NEW p1, SeqDiv(s, p0, p1, 2) PROVE Homed'
  <2> DEFINE st == StreamOf(s)
             H  == Hits(cell[st], s, Range0(p0, p1))
             divided(x) == [x EXCEPT !.pos = @ \div 2,
                                     !.shift = @ + (x.pos - (x.pos \div 2))]
             d  == [i \in Idx |-> IF i \in H THEN divided(cell[st][i]) ELSE cell[st][i]]
  <2>1. st \in Streams
    BY <1>2
  <2>2. cell' = [cell EXCEPT ![st] = d]
    BY <1>8, <2>1 DEF SeqDiv, Stored
  <2>3. \A x \in SoundCell : divided(x).seq \subseteq x.seq
    BY DEF SoundCell
  <2>4. \A i \in Idx : d[i] = divided(cell[st][i]) \/ d[i] = cell[st][i]
    OBVIOUS
  <2> HIDE DEF st, H, divided, d
  <2>5. \A i \in Idx : d[i].seq \subseteq cell[st][i].seq
    BY <1>1, <2>1, <2>3, <2>4
  <2> QED
    BY <2>1, <2>2, <2>5, HomedTaken
<1> QED
  BY <1>3, <1>4, <1>5, <1>6, <1>7, <1>8 DEF Moving

LEMMA AppliedHomed ==
  ASSUME ~Coupled, Stored, Homed, NEW u \in Seq(Token), NEW slot, IsSlot(u, slot),
         NEW st \in Streams
  PROVE  HomedIn(st, Applied(u, slot)[st])
<1> SUFFICES ASSUME NEW i \in Idx, NEW s \in Applied(u, slot)[st][i].seq
             PROVE  StreamOf(s) = st
  BY DEF HomedIn
<1> DEFINE x == Applied(u, slot)[st][i]
<1>1. x.pos # -1
  <2>1. x \in SoundCell
    BY AppliedIs DEF Stored, Cells
  <2> QED
    BY <2>1 DEF SoundCell
<1>2. CASE InSlot(slot, st, i)
  <2> DEFINE k == TokenAt(slot[st], i)
  <2>1. k \in TokensOn(st, u) /\ x.seq \subseteq u[k].seqs
    BY <1>1, <1>2, AppliedIs DEF Stored
  <2>2. u[k] \in Token
    BY <2>1, TokensOnIs
  <2>3. PICK t \in Seqs : u[k].seqs = {t}
    BY <2>2 DEF Token, SeqSets
  <2>4. StreamOf(t) = st
    BY <2>1, <2>3 DEF TokensOn
  <2> QED
    BY <2>1, <2>3, <2>4
<1>3. CASE ~InSlot(slot, st, i)
  <2>1. x.seq \subseteq cell[st][i].seq
    <3>1. CASE st \notin StreamsOf(u)
      BY <3>1 DEF Applied
    <3>2. CASE st \in StreamsOf(u)
      <4> DEFINE c == cell[st]
                 K == TokensOn(st, u)
                 t == slot[st]
      <4>1. c \in Cells /\ K \in SUBSET DOMAIN u /\ t \in [K -> Idx]
        BY <3>2, TokensOnIs DEF IsSlot, Stored
      <4>2. x = Apply(c, t, u)[i] /\ i \notin Range(t)
        BY <1>3, <3>2 DEF Applied, InSlot, IsSlot
      <4>3. Apply(c, t, u)[i].seq \subseteq Placed(c, t, u)[i].seq
        <5> HIDE DEF c, K, t, x
        <5> QED
          BY <1>1, <4>1, <4>2, ApplyIs
      <4>4. Placed(c, t, u)[i] = c[i]
        BY <4>2 DEF Placed
      <4> QED
        BY <4>2, <4>3, <4>4
    <3> QED
      BY <3>1, <3>2
  <2> QED
    BY <2>1 DEF Homed, HomedIn
<1> QED
  BY <1>2, <1>3

(* What a failed ubatch leaves of the cells after it was placed.           *)
LEMMA FailedIs ==
  ASSUME CacheOK, FailUbatch
  PROVE  LET u       == Head(batch)
             placed  == Applied(u, Head(slots))
             firsts  == {Min(u[k].seqs) : k \in DOMAIN u}
             gone(x) == {s \in firsts \cap x.seq : x.pos >= FailedFrom(u, s)}
         IN  \A st \in Streams, i \in Idx :
               /\ cell'[st][i] \in SoundCell
               /\ cell'[st][i].seq = placed[st][i].seq \ gone(placed[st][i])
               /\ cell'[st][i].seq # {} => cell'[st][i].pos = placed[st][i].pos
<1> DEFINE u       == Head(batch)
           slot    == Head(slots)
           firsts  == {Min(u[k].seqs) : k \in DOMAIN u}
           placed  == Applied(u, slot)
           gone(x) == {s \in firsts \cap x.seq : x.pos >= FailedFrom(u, s)}
           kept(x) == IF gone(x) = {} THEN x ELSE Without(x, gone(x))
<1>1. /\ Stored /\ u \in Seq(Token) /\ IsSlot(u, slot)
  <2>1. phase = "compute"
    BY ZenonT(60) DEF FailUbatch
  <2> HIDE DEF placed, gone, kept
  <2> QED
    BY <2>1, Computing, ZenonT(60)
<1>2. cell' = [st \in Streams |-> [i \in Idx |-> kept(placed[st][i])]]
  BY DEF FailUbatch
<1> HIDE DEF u, slot
<1>3. placed \in [Streams -> Cells]
  BY <1>1, AppliedIs DEF Stored
<1>4. ASSUME NEW x \in SoundCell
      PROVE  /\ kept(x) \in SoundCell /\ kept(x).seq = x.seq \ gone(x)
             /\ kept(x).seq # {} => kept(x).pos = x.pos
  <2> HIDE DEF gone
  <2> QED
    BY WithoutIs, WithoutSeq
<1> HIDE DEF kept, placed, gone
<1>5. ASSUME NEW st \in Streams, NEW i \in Idx
      PROVE  /\ cell'[st][i] \in SoundCell
             /\ cell'[st][i].seq = placed[st][i].seq \ gone(placed[st][i])
             /\ cell'[st][i].seq # {} => cell'[st][i].pos = placed[st][i].pos
  <2>1. placed[st][i] \in SoundCell /\ cell'[st][i] = kept(placed[st][i])
    BY <1>2, <1>3 DEF Cells
  <2> QED
    BY <1>4, <2>1
<1> QED
  BY <1>5 DEF gone, placed, slot, u

LEMMA NextHomed ==
  ASSUME ~Coupled
  PROVE  CacheOK /\ HomeInv /\ [Next]_vars => HomeInv'
<1> SUFFICES ASSUME CacheOK, HomeInv, [Next]_vars PROVE HomeInv'
  OBVIOUS
<1>1. Stored /\ Homed
  BY DEF CacheOK, HomeInv
<1>2. ASSUME undo' = undo, Homed' PROVE HomeInv'
  BY <1>2 DEF HomeInv, HomedIn
<1>3. CASE Calling
  <2>1. ASSUME Call PROVE undo' = undo
    BY <2>1 DEF Call
  <2>2. CASE Moving
    BY <1>1, <1>2, <2>1, <2>2, MovingIs, MovingHomed
  <2>3. CASE \E wipe \in BOOLEAN : Clear(wipe)
    <3>1. PICK wipe \in BOOLEAN : Clear(wipe)
      BY <2>3
    <3>2. \A st \in Streams, i \in Idx : cell'[st][i] = EmptyCell
      BY <3>1 DEF Clear
    <3>3. Homed'
      BY <3>2, EmptySound DEF Homed, HomedIn
    <3>4. Call
      BY <3>1 DEF Clear
    <3> QED
      BY <1>2, <2>1, <3>3, <3>4
  <2>4. CASE \E s, d \in Seqs, r \in Ranges : SeqCpStream(s, d, r[1], r[2])
    <3>1. PICK src \in Seqs, dst \in Seqs, r \in Ranges : SeqCpStream(src, dst, r[1], r[2])
      BY <2>4
    <3> DEFINE s0 == StreamOf(src)
               s1 == StreamOf(dst)
               d  == [i \in Idx |-> IF src \in cell[s0][i].seq
                        THEN [cell[s0][i] EXCEPT !.seq = {dst}] ELSE EmptyCell]
    <3>2. s0 \in Streams /\ s1 \in Streams /\ cell' = [cell EXCEPT ![s1] = d] /\ Call
      BY <3>1, Sizes DEF SeqCpStream
    <3>3. \A i \in Idx : cell[s0][i] \in SoundCell
      BY <1>1, <3>2 DEF Stored, Cells
    <3>4. \A i \in Idx : d[i].seq \subseteq {dst}
      BY <3>3, EmptySound DEF SoundCell
    <3> HIDE DEF d, s0
    <3>5. HomedIn(s1, d)
      BY <3>4 DEF HomedIn
    <3>6. Homed'
      BY <1>1, <3>2, <3>5, HomedSwap
    <3> QED
      BY <1>2, <2>1, <3>2, <3>6
  <2>5. CASE DecodeBatch
    <3>1. PICK us \in Seq(Seq(Token)) : DecodeStart(us)
      BY <1>1, <2>5, DecodeBatchIs
    <3>2. cell' = Unshifted(cell) /\ undo' = <<>>
      BY <3>1 DEF DecodeStart
    <3>3. Homed'
      <4> SUFFICES ASSUME NEW st \in Streams PROVE HomedIn(st, cell'[st])
        BY DEF Homed, HomedIn
      <4>1. cell \in [Streams -> Cells]
        BY <1>1 DEF Stored
      <4>2. \A i \in Idx : cell'[st][i].seq \subseteq cell[st][i].seq
        BY <3>2, <4>1, UnshiftedIs
      <4> QED
        BY <1>1, <4>2, HomedNarrow DEF Homed
    <3>4. 1 .. Len(undo') = {}
      BY <3>2, EmptySeq
    <3> QED
      BY <3>3, <3>4 DEF HomeInv
  <2> QED
    BY <1>3, <2>2, <2>3, <2>4, <2>5, CallingIs
<1>4. CASE PlaceUbatch
  <2>1. PICK u, slot, n : PlaceStep(u, slot, n)
    BY <1>4, PlaceIs
  <2>2. /\ u \in Seq(Token) /\ IsSlot(u, slot) /\ cell' = Applied(u, slot) /\ n \in Nat
        /\ Len(undo) = n /\ Len(undo') = n + 1 /\ undo'[1].cell = cell
        /\ \A m \in 1 .. n : undo'[m + 1] = undo[m]
    BY <2>1 DEF PlaceStep
  <2>3. Homed'
    BY <1>1, <2>2, AppliedHomed DEF Homed, HomedIn
  <2>4. ASSUME NEW m \in 1 .. n + 1, NEW st \in Streams PROVE HomedIn(st, undo'[m].cell[st])
    <3>1. CASE m = 1
      BY <1>1, <2>2, <3>1 DEF Homed
    <3>2. CASE m # 1
      <4> DEFINE j == m - 1
      <4>1. j \in 1 .. n /\ j + 1 = m
        BY <2>2, <3>2
      <4> HIDE DEF j
      <4> QED
        BY <2>2, <4>1 DEF HomeInv
    <3> QED
      BY <3>1, <3>2
  <2> QED
    BY <2>2, <2>3, <2>4 DEF HomeInv, HomedIn
<1>5. CASE PlaceFails
  <2>1. undo' = undo /\ cell' = cell
    BY <1>5 DEF PlaceFails, store
  <2> QED
    BY <1>1, <1>2, <2>1 DEF Homed, HomedIn
<1>6. CASE RestoreUbatch
  <2> DEFINE n == Len(undo) - 1
  <2>1. /\ n \in Nat /\ Len(undo) = n + 1 /\ Len(undo') = n
        /\ \A m \in 1 .. n : undo'[m] = undo[m + 1]
    BY <1>6, RestoredIs
  <2> HIDE DEF n
  <2>2. ASSUME NEW m \in 1 .. n, NEW st \in Streams PROVE HomedIn(st, undo'[m].cell[st])
    <3>1. m + 1 \in 1 .. n + 1
      BY <2>1
    <3> QED
      BY <2>1, <3>1 DEF HomeInv
  <2>3. ASSUME NEW st \in Streams, NEW i \in Idx, NEW s \in cell'[st][i].seq
        PROVE  StreamOf(s) = st
    <3>1. s \in cell[st][i].seq \/ s \in undo[1].cell[st][i].seq
      BY <1>6, RestoredAlike DEF Alike
    <3>2. 1 \in 1 .. Len(undo)
      BY <2>1
    <3> QED
      BY <1>1, <3>1, <3>2 DEF HomeInv, Homed, HomedIn
  <2> QED
    BY <2>1, <2>2, <2>3 DEF HomeInv, Homed, HomedIn
<1>7. CASE ComputeUbatch
  <2>1. cell' = Applied(Head(batch), Head(slots)) /\ undo' = undo /\ phase = "compute"
    BY <1>7 DEF ComputeUbatch, Emplace
  <2>2. Head(batch) \in Seq(Token) /\ IsSlot(Head(batch), Head(slots))
    BY <2>1, Computing
  <2>3. Homed'
    BY <1>1, <2>1, <2>2, AppliedHomed DEF Homed, HomedIn
  <2> QED
    BY <1>2, <2>1, <2>3
<1>8. CASE FailUbatch
  <2>1. undo' = undo /\ phase = "compute"
    BY <1>8 DEF FailUbatch
  <2>2. Head(batch) \in Seq(Token) /\ IsSlot(Head(batch), Head(slots))
    BY <2>1, Computing
  <2>3. ASSUME NEW st \in Streams PROVE HomedIn(st, cell'[st])
    <3>1. HomedIn(st, Applied(Head(batch), Head(slots))[st])
      BY <1>1, <2>2, AppliedHomed
    <3>2. \A i \in Idx : cell'[st][i].seq \subseteq Applied(Head(batch), Head(slots))[st][i].seq
      BY <1>8, FailedIs
    <3> QED
      BY <3>1, <3>2, HomedNarrow
  <2>4. Homed'
    BY <2>3 DEF Homed, HomedIn
  <2> QED
    BY <1>2, <2>1, <2>4
<1>9. CASE UNCHANGED vars
  <2>1. undo' = undo /\ cell' = cell
    BY <1>9 DEF vars
  <2> QED
    BY <1>1, <1>2, <2>1 DEF Homed, HomedIn
<1> QED
  BY <1>3, <1>4, <1>5, <1>6, <1>7, <1>8, <1>9 DEF Next
-----------------------------------------------------------------------------
(* The graph of a ubatch fails.                                            *)

(* Its tokens are removed, and nothing that was there before.              *)
LEMMA FailKeeps ==
  ASSUME ~Coupled, CacheOK, HomeInv, FailUbatch, NEW u, NEW slot, NEW d,
         u = Head(batch), slot = Head(slots), Computable(u, slot, d),
         NEW st \in Streams, NEW i \in Idx
  PROVE  /\ InSlot(slot, st, i) => cell'[st][i].seq = {}
         /\ ~InSlot(slot, st, i) => cell'[st][i].seq = Applied(u, slot)[st][i].seq
         /\ cell'[st][i].seq # {} => cell'[st][i].pos = Applied(u, slot)[st][i].pos
<1> DEFINE x == Applied(u, slot)[st][i]
           firsts == {Min(u[k].seqs) : k \in DOMAIN u}
           gone == {s \in firsts \cap x.seq : x.pos >= FailedFrom(u, s)}
<1>1. /\ cell'[st][i].seq = x.seq \ gone
      /\ cell'[st][i].seq # {} => cell'[st][i].pos = x.pos
  BY FailedIs
<1>2. /\ Stored /\ u \in Seq(Token) /\ IsSlot(u, slot)
      /\ \A s \in Seqs : Held(cell[st], s) \subseteq Grown(st, s, d)
  BY DEF Computable, Computed, Settled
<1>3. \A k \in DOMAIN u : u[k] \in Token /\ u[k].pos \in Nat
  <2>1. \A k \in DOMAIN u : u[k] \in Token
    BY <1>2
  <2>2. \A t \in Token : t.pos \in Nat
    BY SizesAssumption DEF Token
  <2> QED
    BY <2>1, <2>2
<1>4. ASSUME NEW k \in DOMAIN u
      PROVE  \E s \in Seqs : u[k].seqs = {s} /\ Min(u[k].seqs) = s
  <2>1. PICK s \in Seqs : u[k].seqs = {s}
    BY <1>3 DEF Token, SeqSets
  <2>2. {s} \subseteq Nat /\ {s} # {}
    BY Sizes
  <2>3. Min({s}) \in {s}
    BY <2>2, MinIs
  <2> QED
    BY <2>1, <2>3
<1>5. ASSUME NEW s \in firsts
      PROVE  /\ \E l \in DOMAIN u : u[l].seqs = {s} /\ u[l].pos = FailedFrom(u, s)
             /\ \A k \in DOMAIN u : u[k].seqs = {s} => FailedFrom(u, s) <= u[k].pos
  <2> DEFINE T == {u[l].pos : l \in {j \in DOMAIN u : Min(u[j].seqs) = s}}
  <2>1. T \subseteq Nat /\ T # {}
    BY <1>3
  <2>2. Min(T) \in T /\ \A y \in T : Min(T) <= y
    BY <2>1, MinIs
  <2>3. FailedFrom(u, s) = Min(T)
    BY DEF FailedFrom
  <2>4. \A k \in DOMAIN u : u[k].seqs = {s} => u[k].pos \in T
    BY <1>4, SMTT(30)
  <2>5. \A y \in T : \E l \in DOMAIN u : u[l].seqs = {s} /\ u[l].pos = y
    BY <1>4
  <2> HIDE DEF T
  <2> QED
    BY <2>2, <2>3, <2>4, <2>5
<1>6. CASE InSlot(slot, st, i)
  <2> DEFINE k == TokenAt(slot[st], i)
  <2>1. k \in DOMAIN u /\ x.pos = u[k].pos /\ x.seq = u[k].seqs
    BY <1>2, <1>6, TakerIs, TokensOnIs, ComputeEffects
  <2> HIDE DEF k, x
  <2>2. PICK s \in Seqs : u[k].seqs = {s} /\ Min(u[k].seqs) = s
    BY <1>4, <2>1
  <2>3. s \in firsts
    BY <2>1, <2>2
  <2> HIDE DEF firsts
  <2>4. FailedFrom(u, s) <= u[k].pos /\ FailedFrom(u, s) \in Int /\ u[k].pos \in Int
    BY <1>3, <1>5, <2>1, <2>2, <2>3
  <2>5. s \in gone
    BY <2>1, <2>2, <2>3, <2>4
  <2> HIDE DEF gone
  <2> QED
    BY <1>1, <1>6, <2>1, <2>2, <2>5 DEF x
<1>7. CASE ~InSlot(slot, st, i)
  <2>1. \A s : Effects(cell[st], Applied(u, slot)[st], Taken(slot, st), s, i)
        /\ i \notin Taken(slot, st)
    BY <1>7, ComputeEffects DEF Taken
  <2>2. ASSUME NEW s \in x.seq, s \in firsts, x.pos >= FailedFrom(u, s) PROVE FALSE
    <3>1. s \in cell[st][i].seq /\ x.pos = cell[st][i].pos
      BY <2>1, <2>2 DEF Effects
    <3>2. PICK l \in DOMAIN u : u[l].seqs = {s} /\ u[l].pos = FailedFrom(u, s)
      BY <1>5, <2>2
    <3>3. s \in Seqs
      BY <1>3, <3>2 DEF Token, SeqSets
    <3>4. StreamOf(s) = st
      BY <3>1 DEF HomeInv, Homed, HomedIn
    <3>5. l \in TokensOn(st, u)
      BY <3>2, <3>4 DEF TokensOn
    <3>6. FailedFrom(u, s) \in PosIn(st, u, s)
      BY <3>2, <3>5, PosInIs
    <3>7. x.pos \in Grown(st, s, d)
      BY <1>2, <3>1, <3>3, HeldIs
    <3>8. x.pos < FailedFrom(u, s)
      BY <3>3, <3>6, <3>7, ComputeEffects
    <3>9. x.pos \in Int /\ FailedFrom(u, s) \in Int
      <4>1. cell[st][i] \in SoundCell
        BY <1>2 DEF Stored, Cells
      <4> QED
        BY <1>3, <3>1, <3>2, <4>1, SizesAssumption DEF SoundCell
    <3> QED
      BY <2>2, <3>8, <3>9
  <2>3. gone = {}
    BY <2>2
  <2> HIDE DEF gone, x
  <2> QED
    BY <1>1, <1>7, <2>3 DEF x
<1> QED
  BY <1>1, <1>6, <1>7

LEMMA FailWindow ==
  ASSUME ~Coupled, CacheOK, HomeInv, FailUbatch, WindowInv
  PROVE  WindowInv'
<1>1. /\ phase = "compute" /\ phase' = "idle" /\ ret' = "failed" /\ before' = before
      /\ slots' = <<>>
  BY DEF FailUbatch
<1>2. PICK u, slot, d : u = Head(batch) /\ slot = Head(slots) /\ Computable(u, slot, d)
  BY <1>1, ComputableIs
<1>3. SUFFICES ASSUME Clean' PROVE Ended'
  BY <1>1 DEF WindowInv
<1>4. /\ d \in Nat /\ Len(batch) \in Nat \ {0} /\ Len(slots) = Len(batch)
      /\ Len(before.batch) = d + Len(batch) /\ slot = slots[1]
      /\ Begun /\ Ordered /\ Dense /\ IsSlot(u, slot) /\ u \in Seq(Token)
  BY <1>2 DEF Computable, Underway
<1>5. d = 0 /\ Len(slots) = 1
  <2>1. Len(before.batch) = 1
    BY <1>1, <1>3 DEF Clean
  <2>2. \A a \in Nat, b \in Nat \ {0} : a + b = 1 => a = 0 /\ b = 1
    OBVIOUS
  <2> QED
    BY <1>4, <2>1, <2>2
<1>6. \A st, i : Reserved(st, i) <=> InSlot(slot, st, i)
  BY <1>4, <1>5 DEF Reserved
<1>7. \A st \in Streams, i \in Idx :
        /\ InSlot(slot, st, i) => cell'[st][i].seq = {}
        /\ ~InSlot(slot, st, i) => cell'[st][i].seq = Applied(u, slot)[st][i].seq
        /\ cell'[st][i].seq # {} => cell'[st][i].pos = Applied(u, slot)[st][i].pos
  BY <1>2, FailKeeps
<1>8. ASSUME NEW st \in Streams, NEW s \in Seqs
      PROVE  /\ Held(cell'[st], s) \subseteq Grown(st, s, 0)
             /\ \A p \in Grown(st, s, 0) : p \in Held(cell'[st], s) \/ Lost(st, p, s)'
  <2> DEFINE c == Applied(u, slot)[st]
             e == cell'[st]
  <2>1. \A i \in Idx :
          /\ s \in e[i].seq => ~InSlot(slot, st, i) /\ s \in c[i].seq /\ e[i].pos = c[i].pos
          /\ ~InSlot(slot, st, i) /\ s \in c[i].seq => s \in e[i].seq
    BY <1>7
  <2>2. /\ \A i \in Idx : Effects(cell[st], c, Taken(slot, st), s, i)
        /\ \A i \in Idx : InSlot(slot, st, i) =>
             TokenAt(slot[st], i) \in TokensOn(st, u) /\ c[i].pos = u[TokenAt(slot[st], i)].pos
             /\ c[i].seq = u[TokenAt(slot[st], i)].seqs
        /\ \A a \in PosIn(st, u, s), b \in Grown(st, s, d) : b < a
    <3>1. \A i \in Idx : InSlot(slot, st, i) => TokenAt(slot[st], i) \in TokensOn(st, u)
      BY <1>4, TakerIs
    <3>2. /\ \A i \in Idx : Effects(cell[st], c, Taken(slot, st), s, i)
          /\ \A a \in PosIn(st, u, s), b \in Grown(st, s, d) : b < a
      BY <1>2, ComputeEffects
    <3>3. \A i \in Idx : InSlot(slot, st, i) =>
            c[i].pos = u[TokenAt(slot[st], i)].pos /\ c[i].seq = u[TokenAt(slot[st], i)].seqs
      BY <1>2, ComputeEffects
    <3> QED
      BY <3>1, <3>2, <3>3
  <2>3. Held(cell[st], s) \subseteq Grown(st, s, 0)
    BY <1>2, <1>5 DEF Computable, Computed, Settled
  <2>4. \A p \in Grown(st, s, 0) : p \in Int
    <3>1. 0 \in Int /\ 0 <= Len(before.batch)
      BY <1>4
    <3> QED
      BY <1>4, <3>1, GrownTyped
  <2>5. ASSUME NEW p \in Grown(st, s, 0), p \notin Held(c, s)
        PROVE  Behind(st, p, s) /\ \A i \in Idx : s \in c[i].seq => c[i].pos > p
    BY <1>2, <1>5, <1>6, <2>5, ComputeOld
  <2>6. \A i \in Idx : s \in e[i].seq => s \in cell[st][i].seq /\ e[i].pos = cell[st][i].pos
    <3> SUFFICES ASSUME NEW i \in Idx, s \in e[i].seq
                 PROVE  s \in cell[st][i].seq /\ e[i].pos = cell[st][i].pos
      OBVIOUS
    <3>1. i \notin Taken(slot, st) /\ s \in c[i].seq /\ e[i].pos = c[i].pos
      BY <2>1 DEF Taken
    <3> HIDE DEF c, e
    <3> QED
      BY <2>2, <3>1 DEF Effects
  <2> HIDE DEF c, e
  <2>7. Held(e, s) \subseteq Grown(st, s, 0)
    BY <2>3, <2>6, HeldIs
  <2>8. ASSUME NEW p \in Grown(st, s, 0), p \in Held(c, s) PROVE p \in Held(e, s)
    <3>1. PICK i \in Idx : s \in c[i].seq /\ c[i].pos = p
      BY <2>8, HeldIs
    <3>2. ~InSlot(slot, st, i)
      <4> SUFFICES ASSUME InSlot(slot, st, i) PROVE FALSE
        OBVIOUS
      <4>1. p \in PosIn(st, u, s)
        BY <2>2, <3>1, PosInIs
      <4>2. p < p
        BY <1>5, <2>2, <4>1
      <4> QED
        BY <2>4, <4>2
    <3> QED
      BY <2>1, <3>1, <3>2, HeldIs
  <2>9. ASSUME NEW p \in Grown(st, s, 0), p \notin Held(c, s) PROVE Lost(st, p, s)'
    <3>1. Behind(st, p, s)'
      BY <1>1, <2>5, <2>9, BeforeKept
    <3>2. \A i \in Idx : s \in e[i].seq => e[i].pos > p
      BY <2>1, <2>5, <2>9
    <3>3. Above(st, p, s)'
      BY <3>2 DEF Above, e
    <3> QED
      BY <3>1, <3>3 DEF Lost
  <2> QED
    BY <2>7, <2>8, <2>9 DEF e
<1>9. Settled(0)'
  <2> SUFFICES ASSUME NEW st \in Streams, NEW s \in Seqs
               PROVE  /\ Held(cell'[st], s) \subseteq Grown(st, s, 0)'
                      /\ \A p \in Grown(st, s, 0)' : p \in Held(cell'[st], s) \/ Lost(st, p, s)'
    BY DEF Settled, Held
  <2>1. Grown(st, s, 0)' = Grown(st, s, 0)
    BY <1>1, BeforeKept
  <2> QED
    BY <1>8, <2>1
<1>10. Begun' /\ Ordered' /\ Dense'
  BY <1>1, <1>4, BeforeKept
<1> QED
  BY <1>1, <1>9, <1>10, SMTT(30) DEF Ended
-----------------------------------------------------------------------------
(* A decode starts.                                                        *)

(* The tokens of a ubatch; those of a run up to a place and from there on. *)
Has(u, t)      == \E k \in 1 .. Len(u) : u[k] = t
Early(b, c, t) == \E k \in 1 .. Len(b) : k <= c /\ b[k] = t
Late(b, c, t)  == \E k \in 1 .. Len(b) : k > c /\ b[k] = t

LEMMA HasParts ==
  ASSUME NEW S, NEW b \in Seq(S), NEW k \in 0 .. Len(b), NEW t
  PROVE  /\ Has(SubSeq(b, 1, k), t) <=> Early(b, k, t)
         /\ Has(SubSeq(b, k + 1, Len(b)), t) <=> Late(b, k, t)
<1>1. Len(b) \in Nat /\ k \in Nat /\ k <= Len(b)
  OBVIOUS
<1>2. /\ Len(SubSeq(b, 1, k)) = k
      /\ \A i \in 1 .. k : SubSeq(b, 1, k)[i] = b[i]
  <2>1. \A i \in 1 .. k : b[i] \in S
    OBVIOUS
  <2>2. /\ Len(SubSeq(b, 1, k)) = IF 1 <= k THEN k - 1 + 1 ELSE 0
        /\ \A i \in 1 .. k - 1 + 1 : SubSeq(b, 1, k)[i] = b[1 + i - 1]
    BY <1>1, <2>1, SubSeqProperties
  <2>3. k - 1 + 1 = k /\ \A i \in 1 .. k : 1 + i - 1 = i
    BY <1>1
  <2> QED
    BY <1>1, <2>2, <2>3
<1>3. /\ Len(SubSeq(b, k + 1, Len(b))) = Len(b) - k
      /\ \A i \in 1 .. Len(b) - k : SubSeq(b, k + 1, Len(b))[i] = b[k + i]
  <2>1. \A i \in k + 1 .. Len(b) : b[i] \in S
    BY <1>1
  <2>2. k + 1 \in Nat
    BY <1>1
  <2>3. /\ Len(SubSeq(b, k + 1, Len(b))) = IF k + 1 <= Len(b) THEN Len(b) - (k + 1) + 1 ELSE 0
        /\ \A i \in 1 .. Len(b) - (k + 1) + 1 : SubSeq(b, k + 1, Len(b))[i] = b[k + 1 + i - 1]
    BY <1>1, <2>1, <2>2, SubSeqProperties
  <2> DEFINE n == Len(b)
             q == SubSeq(b, k + 1, n)
  <2>4. n \in Nat /\ k <= n
    BY <1>1
  <2>5. /\ Len(q) = IF k + 1 <= n THEN n - (k + 1) + 1 ELSE 0
        /\ \A i \in 1 .. n - (k + 1) + 1 : q[i] = b[k + 1 + i - 1]
    BY <2>3
  <2> HIDE DEF n, q
  <2>6. n - (k + 1) + 1 = n - k /\ \A i \in 1 .. n - k : k + 1 + i - 1 = k + i
    BY <1>1, <2>4
  <2>7. ~(k + 1 <= n) => n - k = 0
    BY <1>1, <2>4
  <2>8. Len(q) = n - k /\ \A i \in 1 .. n - k : q[i] = b[k + i]
    BY <2>5, <2>6, <2>7, Zenon
  <2> QED
    BY <2>8 DEF n, q
<1>4. Has(SubSeq(b, 1, k), t) <=> Early(b, k, t)
  BY <1>1, <1>2 DEF Has, Early
<1>5. Has(SubSeq(b, k + 1, Len(b)), t) => Late(b, k, t)
  <2> SUFFICES ASSUME NEW i \in 1 .. Len(b) - k, b[k + i] = t PROVE Late(b, k, t)
    BY <1>3 DEF Has
  <2>1. k + i \in 1 .. Len(b) /\ k + i > k
    BY <1>1
  <2> QED
    BY <2>1 DEF Late
<1>6. Late(b, k, t) => Has(SubSeq(b, k + 1, Len(b)), t)
  <2> SUFFICES ASSUME NEW j \in 1 .. Len(b), j > k, b[j] = t
               PROVE  \E i \in 1 .. Len(b) - k : b[k + i] = t
    BY <1>3 DEF Has, Late
  <2>1. j - k \in 1 .. Len(b) - k /\ k + (j - k) = j
    BY <1>1
  <2> QED
    BY <2>1
<1> QED
  BY <1>4, <1>5, <1>6

LEMMA HasConcat ==
  ASSUME NEW S, NEW a \in Seq(S), NEW b \in Seq(S), NEW t, NEW c \in Int
  PROVE  /\ Has(a \o b, t) <=> Has(a, t) \/ Has(b, t)
         /\ Early(a \o b, c, t) <=> Early(a, c, t) \/ Early(b, c - Len(a), t)
         /\ Late(a \o b, c, t) <=> Late(a, c, t) \/ Late(b, c - Len(a), t)
<1>1. /\ Len(a \o b) = Len(a) + Len(b) /\ Len(a) \in Nat /\ Len(b) \in Nat
      /\ \A i \in 1 .. Len(a) : (a \o b)[i] = a[i]
      /\ \A i \in 1 .. Len(b) : (a \o b)[Len(a) + i] = b[i]
  OBVIOUS
<1> DEFINE m == Len(a)
           n == Len(b)
           w == a \o b
<1>2. /\ \A i \in 1 .. m : i \in 1 .. m + n
      /\ \A i \in 1 .. n : m + i \in 1 .. m + n /\ (m + i <= c <=> i <= c - m)
      /\ \A i \in 1 .. m + n : i \in 1 .. m \/ \E j \in 1 .. n : i = m + j
  <2>1. ASSUME NEW i \in 1 .. m + n, i \notin 1 .. m PROVE \E j \in 1 .. n : i = m + j
    <3>1. i - m \in 1 .. n /\ i = m + (i - m)
      BY <1>1, <2>1
    <3> QED
      BY <3>1
  <2> QED
    BY <1>1, <2>1
<1>3. /\ Len(w) = m + n
      /\ \A i \in 1 .. m : w[i] = a[i]
      /\ \A i \in 1 .. n : w[m + i] = b[i]
      /\ \A i \in 1 .. n : m + i > c <=> i > c - m
  BY <1>1
<1>4. /\ Has(a, t) <=> \E k \in 1 .. m : a[k] = t
      /\ Early(a, c, t) <=> \E k \in 1 .. m : k <= c /\ a[k] = t
      /\ Late(a, c, t) <=> \E k \in 1 .. m : k > c /\ a[k] = t
  BY DEF Has, Early, Late
<1>5. /\ Has(b, t) <=> \E k \in 1 .. n : b[k] = t
      /\ Early(b, c - m, t) <=> \E k \in 1 .. n : k <= c - m /\ b[k] = t
      /\ Late(b, c - m, t) <=> \E k \in 1 .. n : k > c - m /\ b[k] = t
  BY DEF Has, Early, Late
<1>6. /\ Has(w, t) <=> \E k \in 1 .. m + n : w[k] = t
      /\ Early(w, c, t) <=> \E k \in 1 .. m + n : k <= c /\ w[k] = t
      /\ Late(w, c, t) <=> \E k \in 1 .. m + n : k > c /\ w[k] = t
  BY <1>3 DEF Has, Early, Late
<1> HIDE DEF m, n, w
<1>7. ASSUME NEW k \in 1 .. m + n, w[k] = t
      PROVE  \/ k \in 1 .. m /\ a[k] = t
             \/ \E j \in 1 .. n : b[j] = t /\ (k <= c <=> j <= c - m) /\ (k > c <=> j > c - m)
  <2>1. CASE k \in 1 .. m
    BY <1>3, <1>7, <2>1
  <2>2. CASE k \notin 1 .. m
    <3>1. PICK j \in 1 .. n : k = m + j
      BY <1>2, <2>2
    <3> QED
      BY <1>2, <1>3, <1>7, <3>1
  <2> QED
    BY <2>1, <2>2
<1>8. \A k \in 1 .. m : a[k] = t => k \in 1 .. m + n /\ w[k] = t
  BY <1>2, <1>3
<1>9. ASSUME NEW j \in 1 .. n, b[j] = t
      PROVE  \E k \in 1 .. m + n : w[k] = t /\ (k <= c <=> j <= c - m) /\ (k > c <=> j > c - m)
  BY <1>2, <1>3, <1>9
<1>10. Has(w, t) <=> Has(a, t) \/ Has(b, t)
  BY <1>4, <1>5, <1>6, <1>7, <1>8, <1>9, Zenon
<1>11. Early(w, c, t) <=> Early(a, c, t) \/ Early(b, c - m, t)
  <2>1. ASSUME Early(w, c, t) PROVE Early(a, c, t) \/ Early(b, c - m, t)
    <3>1. PICK k \in 1 .. m + n : k <= c /\ w[k] = t
      BY <1>6, <2>1
    <3>2. CASE k \in 1 .. m /\ a[k] = t
      BY <1>4, <3>1, <3>2
    <3>3. CASE \E j \in 1 .. n : b[j] = t /\ (k <= c <=> j <= c - m) /\ (k > c <=> j > c - m)
      BY <1>5, <3>1, <3>3
    <3> QED
      BY <1>7, <3>1, <3>2, <3>3
  <2>2. ASSUME Early(a, c, t) PROVE Early(w, c, t)
    BY <1>4, <1>6, <1>8, <2>2
  <2>3. ASSUME Early(b, c - m, t) PROVE Early(w, c, t)
    <3>1. PICK j \in 1 .. n : j <= c - m /\ b[j] = t
      BY <1>5, <2>3
    <3>2. PICK k \in 1 .. m + n : w[k] = t /\ (k <= c <=> j <= c - m) /\ (k > c <=> j > c - m)
      BY <1>9, <3>1
    <3> QED
      BY <1>6, <3>1, <3>2
  <2> QED
    BY <2>1, <2>2, <2>3
<1>12. Late(w, c, t) <=> Late(a, c, t) \/ Late(b, c - m, t)
  <2>1. ASSUME Late(w, c, t) PROVE Late(a, c, t) \/ Late(b, c - m, t)
    <3>1. PICK k \in 1 .. m + n : k > c /\ w[k] = t
      BY <1>6, <2>1
    <3>2. CASE k \in 1 .. m /\ a[k] = t
      BY <1>4, <3>1, <3>2
    <3>3. CASE \E j \in 1 .. n : b[j] = t /\ (k <= c <=> j <= c - m) /\ (k > c <=> j > c - m)
      BY <1>5, <3>1, <3>3
    <3> QED
      BY <1>7, <3>1, <3>2, <3>3
  <2>2. ASSUME Late(a, c, t) PROVE Late(w, c, t)
    BY <1>4, <1>6, <1>8, <2>2
  <2>3. ASSUME Late(b, c - m, t) PROVE Late(w, c, t)
    <3>1. PICK j \in 1 .. n : j > c - m /\ b[j] = t
      BY <1>5, <2>3
    <3>2. PICK k \in 1 .. m + n : w[k] = t /\ (k <= c <=> j <= c - m) /\ (k > c <=> j > c - m)
      BY <1>9, <3>1
    <3> QED
      BY <1>6, <3>1, <3>2
  <2> QED
    BY <2>1, <2>2, <2>3
<1> QED
  BY <1>10, <1>11, <1>12 DEF m, w

(* Wherever a batch of two runs is split, the first ubatch has the tokens  *)
(* of each run up to some place, and the second one the others.            *)
Parted(b1, b2, us, c1, c2) ==
  /\ Len(us) = 1 => c1 >= Len(b1) /\ c2 >= Len(b2)
  /\ \A t : Has(us[1], t) <=> Early(b1, c1, t) \/ Early(b2, c2, t)
  /\ Len(us) = 2 => \A t : Has(us[2], t) <=> Late(b1, c1, t) \/ Late(b2, c2, t)

LEMMA AllEarly ==
  ASSUME NEW b, Len(b) \in Nat, NEW t
  PROVE  /\ Has(b, t) <=> Early(b, Len(b), t)
         /\ ~Late(b, Len(b), t) /\ ~Early(b, 0, t) /\ (Has(b, t) <=> Late(b, 0, t))
BY DEF Has, Early, Late

LEMMA CutsParted ==
  ASSUME NEW b1 \in Seq(Token), NEW b2 \in Seq(Token), NEW us \in Cuts(b1 \o b2)
  PROVE  (Len(us) = 1 \/ Len(us) = 2) /\ \E c1, c2 \in Int : Parted(b1, b2, us, c1, c2)
<1> DEFINE b == b1 \o b2
           n1 == Len(b1)
           n2 == Len(b2)
<1>1. /\ b \in Seq(Token) /\ n1 \in Nat /\ n2 \in Nat /\ Len(b) = n1 + n2
  OBVIOUS
<1>2. CASE us = <<b>>
  <2>1. Len(us) = 1 /\ us[1] = b
    BY <1>2
  <2>2. \A t : Has(b, t) <=> Early(b1, n1, t) \/ Early(b2, n2, t)
    <3>1. \A t : Has(b, t) <=> Has(b1, t) \/ Has(b2, t)
      <4>1. 0 \in Int
        OBVIOUS
      <4> QED
        BY <4>1, HasConcat
    <3> QED
      BY <1>1, <3>1, AllEarly
  <2> HIDE DEF b
  <2>3. Parted(b1, b2, us, n1, n2)
    BY <1>1, <2>1, <2>2 DEF Parted
  <2>4. n1 \in Int /\ n2 \in Int
    BY <1>1
  <2> QED
    BY <2>1, <2>3, <2>4
<1>3. CASE \E k \in 1 .. Len(b) - 1 : us = <<SubSeq(b, 1, k), SubSeq(b, k + 1, Len(b))>>
  <2>1. PICK k \in 1 .. Len(b) - 1 : us = <<SubSeq(b, 1, k), SubSeq(b, k + 1, Len(b))>>
    BY <1>3
  <2>2. Len(us) = 2 /\ us[1] = SubSeq(b, 1, k) /\ us[2] = SubSeq(b, k + 1, Len(b))
    BY <2>1
  <2>3. k \in 0 .. Len(b) /\ k \in Int /\ k - n1 \in Int
    BY <1>1
  <2>4. \A t : /\ Has(us[1], t) <=> Early(b, k, t)
               /\ Has(us[2], t) <=> Late(b, k, t)
    BY <1>1, <2>2, <2>3, HasParts
  <2>5. \A t : /\ Early(b, k, t) <=> Early(b1, k, t) \/ Early(b2, k - n1, t)
               /\ Late(b, k, t) <=> Late(b1, k, t) \/ Late(b2, k - n1, t)
    BY <2>3, HasConcat
  <2> HIDE DEF b, n1
  <2>6. Parted(b1, b2, us, k, k - n1)
    BY <2>2, <2>4, <2>5 DEF Parted
  <2> QED
    BY <2>2, <2>3, <2>6
<1> QED
  BY <1>2, <1>3 DEF Cuts

LEMMA EqualParted ==
  ASSUME NEW b1 \in Seq(Token), NEW b2 \in Seq(Token), NEW us, us = Equal(b1, b2)
  PROVE  (Len(us) = 1 \/ Len(us) = 2) /\ \E c1, c2 \in Int : Parted(b1, b2, us, c1, c2)
<1> DEFINE n1 == Len(b1)
           n2 == Len(b2)
           m == Min({n1, n2})
           both == SubSeq(b1, 1, m) \o SubSeq(b2, 1, m)
           rest == SubSeq(b1, m + 1, n1) \o SubSeq(b2, m + 1, n2)
<1>1. n1 \in Nat /\ n2 \in Nat /\ m \in Nat /\ m <= n1 /\ m <= n2
  <2>1. {n1, n2} \subseteq Nat /\ {n1, n2} # {}
    OBVIOUS
  <2>2. m \in {n1, n2} /\ \A y \in {n1, n2} : m <= y
    BY <2>1, MinIs
  <2> QED
    BY <2>1, <2>2
<1>2. us = IF rest = <<>> THEN <<both>> ELSE <<both, rest>>
  BY DEF Equal
<1> HIDE DEF m
<1>3. /\ SubSeq(b1, 1, m) \in Seq(Token) /\ SubSeq(b1, m + 1, n1) \in Seq(Token)
      /\ SubSeq(b2, 1, m) \in Seq(Token) /\ SubSeq(b2, m + 1, n2) \in Seq(Token)
  BY <1>1, SubSeqProperties
<1>4. \A t : /\ Has(SubSeq(b1, 1, m), t) <=> Early(b1, m, t)
             /\ Has(SubSeq(b1, m + 1, n1), t) <=> Late(b1, m, t)
             /\ Has(SubSeq(b2, 1, m), t) <=> Early(b2, m, t)
             /\ Has(SubSeq(b2, m + 1, n2), t) <=> Late(b2, m, t)
  <2>1. m \in 0 .. n1 /\ m \in 0 .. n2
    BY <1>1
  <2> QED
    BY <2>1, HasParts
<1>5. \A t : /\ Has(both, t) <=> Early(b1, m, t) \/ Early(b2, m, t)
             /\ Has(rest, t) <=> Late(b1, m, t) \/ Late(b2, m, t)
  <2>1. 0 \in Int
    OBVIOUS
  <2>3. ASSUME NEW p \in Seq(Token), NEW q \in Seq(Token)
        PROVE  \A t : Has(p \o q, t) <=> Has(p, t) \/ Has(q, t)
    BY <2>1, HasConcat
  <2>4. \A t : Has(both, t) <=> Has(SubSeq(b1, 1, m), t) \/ Has(SubSeq(b2, 1, m), t)
    BY <1>3, <2>3, Zenon
  <2>5. \A t : Has(rest, t) <=> Has(SubSeq(b1, m + 1, n1), t) \/ Has(SubSeq(b2, m + 1, n2), t)
    BY <1>3, <2>3, Zenon
  <2>2. \A t : /\ Has(both, t) <=> Has(SubSeq(b1, 1, m), t) \/ Has(SubSeq(b2, 1, m), t)
               /\ Has(rest, t) <=> Has(SubSeq(b1, m + 1, n1), t) \/ Has(SubSeq(b2, m + 1, n2), t)
    BY <2>4, <2>5
  <2> QED
    BY <1>4, <2>2
<1>6. CASE rest = <<>>
  <2>1. Len(us) = 1 /\ us[1] = both
    <3>1. us = <<both>>
      BY <1>2, <1>6
    <3> HIDE DEF both
    <3> QED
      BY <3>1
  <2>2. \A t : ~Has(rest, t)
    <3>1. Len(rest) = 0
      BY <1>6, EmptySeq
    <3> HIDE DEF rest
    <3> QED
      BY <3>1 DEF Has
  <2>3. m >= n1 /\ m >= n2
    <3>1. ASSUME NEW b, Len(b) \in Nat, m < Len(b), \A t : ~Late(b, m, t) PROVE FALSE
      <4>1. Len(b) \in 1 .. Len(b) /\ Len(b) > m
        BY <1>1, <3>1
      <4> QED
        BY <3>1, <4>1 DEF Late
    <3>2. \A t : ~Late(b1, m, t) /\ ~Late(b2, m, t)
      BY <1>5, <2>2
    <3>3. ~(m < n1) /\ ~(m < n2)
      BY <1>1, <3>1, <3>2
    <3> QED
      BY <1>1, <3>3
  <2> HIDE DEF both, rest
  <2>4. Parted(b1, b2, us, m, m)
    BY <1>5, <2>1, <2>3 DEF Parted
  <2> QED
    BY <1>1, <2>1, <2>4
<1>7. CASE rest # <<>>
  <2> HIDE DEF both, rest
  <2>1. Len(us) = 2 /\ us[1] = both /\ us[2] = rest
    BY <1>2, <1>7
  <2>2. Parted(b1, b2, us, m, m)
    BY <1>5, <2>1 DEF Parted
  <2> QED
    BY <1>1, <2>1, <2>2
<1> QED
  BY <1>6, <1>7

LEMMA SplitsParted ==
  ASSUME NEW b1 \in Seq(Token), NEW b2 \in Seq(Token), NEW us \in Splits(b1, b2)
  PROVE  (Len(us) = 1 \/ Len(us) = 2) /\ \E c1, c2 \in Int : Parted(b1, b2, us, c1, c2)
<1>1. CASE us \in Cuts(b1 \o b2)
  BY <1>1, CutsParted
<1>2. CASE us = Equal(b1, b2)
  BY <1>2, EqualParted
<1>3. CASE us = <<b1, b2>>
  <2> DEFINE n1 == Len(b1)
  <2>1. Len(us) = 2 /\ us[1] = b1 /\ us[2] = b2
    BY <1>3
  <2>2. n1 \in Nat /\ Len(b2) \in Nat
    OBVIOUS
  <2>3. \A t : /\ Has(b1, t) <=> Early(b1, n1, t) \/ Early(b2, 0, t)
               /\ Has(b2, t) <=> Late(b1, n1, t) \/ Late(b2, 0, t)
    BY <2>2, AllEarly
  <2> HIDE DEF n1
  <2>4. Parted(b1, b2, us, n1, 0)
    BY <2>1, <2>3 DEF Parted
  <2>5. n1 \in Int /\ 0 \in Int
    BY <2>2
  <2> QED
    BY <2>1, <2>4, <2>5
<1> QED
  BY <1>1, <1>2, <1>3 DEF Splits

(* What a decode starts with: the n positions after the last one L of a    *)
(* sequence, cut after the c-th.                                           *)
OnStream(st, t, s) == s \in t.seqs /\ \E y \in t.seqs : StreamOf(y) = st
Upto(L, n, c, p)   == \E k \in 1 .. n : k <= c /\ p = L + k
After(L, n, c, p)  == \E k \in 1 .. n : k > c /\ p = L + k
Cut(st, s, us, L, c, n) ==
  /\ \A p : p \in PosIn(st, us[1], s) <=> Upto(L, n, c, p)
  /\ Len(us) = 1 => c >= n
  /\ Len(us) = 2 => \A p : p \in PosIn(st, us[2], s) <=> After(L, n, c, p)

LEMMA PosInHas ==
  ASSUME NEW u \in Seq(Token), NEW st, NEW s, NEW p
  PROVE  p \in PosIn(st, u, s) <=> \E t : Has(u, t) /\ OnStream(st, t, s) /\ t.pos = p
<1>1. DOMAIN u = 1 .. Len(u)
  OBVIOUS
<1>2. \A k : k \in TokensOn(st, u) /\ s \in u[k].seqs <=> k \in 1 .. Len(u) /\ OnStream(st, u[k], s)
  BY <1>1 DEF OnStream, TokensOn
<1>3. ASSUME p \in PosIn(st, u, s) PROVE \E t : Has(u, t) /\ OnStream(st, t, s) /\ t.pos = p
  <2>1. PICK k \in TokensOn(st, u) : s \in u[k].seqs /\ u[k].pos = p
    BY <1>3, PosInIs
  <2>2. Has(u, u[k]) /\ OnStream(st, u[k], s)
    BY <1>2, <2>1 DEF Has
  <2> QED
    BY <2>1, <2>2
<1>4. ASSUME NEW t, Has(u, t), OnStream(st, t, s), t.pos = p PROVE p \in PosIn(st, u, s)
  <2>1. PICK k \in 1 .. Len(u) : u[k] = t
    BY <1>4 DEF Has
  <2>2. k \in TokensOn(st, u) /\ s \in u[k].seqs /\ u[k].pos = p
    BY <1>2, <1>4, <2>1
  <2> QED
    BY <2>2, PosInIs
<1> QED
  BY <1>3, <1>4

LEMMA SameRange ==
  ASSUME NEW n \in Nat, NEW m \in Nat, 1 .. n = 1 .. m
  PROVE  n = m
<1>1. ~(n < m)
  <2> SUFFICES ASSUME n < m PROVE FALSE
    OBVIOUS
  <2>1. m \in 1 .. m /\ m \notin 1 .. n
    OBVIOUS
  <2> QED
    BY <2>1
<1>2. ~(m < n)
  <2> SUFFICES ASSUME m < n PROVE FALSE
    OBVIOUS
  <2>1. n \in 1 .. n /\ n \notin 1 .. m
    OBVIOUS
  <2> QED
    BY <2>1
<1> QED
  BY <1>1, <1>2

EarlyAt(b, c, st, s, p) == \E t : Early(b, c, t) /\ OnStream(st, t, s) /\ t.pos = p
LateAt(b, c, st, s, p)  == \E t : Late(b, c, t) /\ OnStream(st, t, s) /\ t.pos = p

LEMMA RunParts ==
  ASSUME NEW s1 \in Seqs, NEW n \in Nat, NEW x, Run({s1}, n, x) \in Seq(Token)
  PROVE  /\ Len(Run({s1}, n, x)) = n
         /\ \A c, st, s, p :
              /\ EarlyAt(Run({s1}, n, x), c, st, s, p)
                   <=> s = s1 /\ StreamOf(s) = st /\ Upto(LastPos(s1), n, c, p)
              /\ LateAt(Run({s1}, n, x), c, st, s, p)
                   <=> s = s1 /\ StreamOf(s) = st /\ After(LastPos(s1), n, c, p)
<1> DEFINE b == Run({s1}, n, x)
           L == LastPos(s1)
<1>1. Min({s1}) = s1
  <2> DEFINE T == {s1}
  <2>1. T \subseteq Nat /\ T # {} /\ \A y \in T : y = s1
    BY Sizes
  <2> HIDE DEF T
  <2>2. Min(T) = s1
    BY <2>1, MinIs
  <2> QED
    BY <2>2 DEF T
<1>2. b = [k \in 1 .. n |-> [pos |-> L + k, seqs |-> {s1}, tok |-> x]]
  BY <1>1 DEF Run
<1> HIDE DEF b, L
<1>3. DOMAIN b = 1 .. n /\ \A k \in 1 .. n : b[k].pos = L + k /\ b[k].seqs = {s1}
  BY <1>2
<1>4. b \in Seq(Token)
  BY DEF b
<1>5. Len(b) = n
  <2>1. Len(b) \in Nat /\ DOMAIN b = 1 .. Len(b)
    BY <1>4
  <2> QED
    BY <1>3, <2>1, SameRange
<1>6. \A st, s : \A k \in 1 .. n : OnStream(st, b[k], s) <=> s = s1 /\ StreamOf(s) = st
  BY <1>3 DEF OnStream
<1>7. \A c, t : Early(b, c, t) <=> \E k \in 1 .. n : k <= c /\ b[k] = t
  BY <1>5 DEF Early
<1>8. \A c, t : Late(b, c, t) <=> \E k \in 1 .. n : k > c /\ b[k] = t
  BY <1>5 DEF Late
<1>9. ASSUME NEW c, NEW st, NEW s, NEW p
      PROVE  EarlyAt(b, c, st, s, p) <=> s = s1 /\ StreamOf(s) = st /\ Upto(L, n, c, p)
  <2>1. ASSUME NEW t, Early(b, c, t), OnStream(st, t, s), t.pos = p
        PROVE  s = s1 /\ StreamOf(s) = st /\ Upto(L, n, c, p)
    <3>1. PICK k \in 1 .. n : k <= c /\ b[k] = t
      BY <1>7, <2>1
    <3> QED
      BY <1>3, <1>6, <2>1, <3>1 DEF Upto
  <2>2. ASSUME s = s1, StreamOf(s) = st, NEW k \in 1 .. n, k <= c, p = L + k
        PROVE  \E t : Early(b, c, t) /\ OnStream(st, t, s) /\ t.pos = p
    <3>1. Early(b, c, b[k]) /\ OnStream(st, b[k], s) /\ b[k].pos = p
      BY <1>3, <1>6, <1>7, <2>2
    <3> QED
      BY <3>1
  <2> QED
    BY <2>1, <2>2 DEF EarlyAt, Upto
<1>10. ASSUME NEW c, NEW st, NEW s, NEW p
       PROVE  LateAt(b, c, st, s, p) <=> s = s1 /\ StreamOf(s) = st /\ After(L, n, c, p)
  <2>1. ASSUME NEW t, Late(b, c, t), OnStream(st, t, s), t.pos = p
        PROVE  s = s1 /\ StreamOf(s) = st /\ After(L, n, c, p)
    <3>1. PICK k \in 1 .. n : k > c /\ b[k] = t
      BY <1>8, <2>1
    <3> QED
      BY <1>3, <1>6, <2>1, <3>1 DEF After
  <2>2. ASSUME s = s1, StreamOf(s) = st, NEW k \in 1 .. n, k > c, p = L + k
        PROVE  \E t : Late(b, c, t) /\ OnStream(st, t, s) /\ t.pos = p
    <3>1. Late(b, c, b[k]) /\ OnStream(st, b[k], s) /\ b[k].pos = p
      BY <1>3, <1>6, <1>8, <2>2
    <3> QED
      BY <3>1
  <2> QED
    BY <2>1, <2>2 DEF LateAt, After
<1> QED
  BY <1>5, <1>9, <1>10 DEF b, L

LEMMA BatchCut ==
  ASSUME ~Coupled, Stored, DecodeBatch
  PROVE  \E us \in Seq(Seq(Token)) :
           /\ DecodeStart(us) /\ (Len(us) = 1 \/ Len(us) = 2)
           /\ \A st \in Streams, s \in Seqs :
                \E c, n \in Int : Cut(st, s, us, PosMax(cell[st], s), c, n)
<1>1. PICK G1, G2 \in SeqSets, n1 \in 1 .. MaxBatch, n2 \in 0 .. MaxBatch, x \in Toks :
        /\ IF n2 = 0 THEN G2 = G1 ELSE G1 \cap G2 = {}
        /\ Appendable(G1, n1) /\ Appendable(G2, n2)
        /\ \E us \in Splits(Run(G1, n1, x), Run(G2, n2, x)) : DecodeStart(us)
  BY DEF DecodeBatch
<1>2. PICK us \in Splits(Run(G1, n1, x), Run(G2, n2, x)) : DecodeStart(us)
  BY <1>1
<1>3. n1 \in Nat /\ n2 \in Nat
  BY SizesAssumption
<1>4. PICK s1, s2 \in Seqs : G1 = {s1} /\ G2 = {s2}
  BY DEF SeqSets
<1> DEFINE b1 == Run({s1}, n1, x)
           b2 == Run({s2}, n2, x)
<1>5. b1 \in Seq(Token) /\ b2 \in Seq(Token) /\ us \in Splits(b1, b2)
  BY <1>1, <1>2, <1>3, <1>4, RunIs
<1>6. n2 = 0 \/ s1 # s2
  BY <1>1, <1>4
<1>7. /\ Len(b1) = n1
      /\ \A c, st, s, p :
           /\ EarlyAt(b1, c, st, s, p) <=> s = s1 /\ StreamOf(s) = st /\ Upto(LastPos(s1), n1, c, p)
           /\ LateAt(b1, c, st, s, p) <=> s = s1 /\ StreamOf(s) = st /\ After(LastPos(s1), n1, c, p)
  BY <1>3, <1>5, RunParts
<1>8. /\ Len(b2) = n2
      /\ \A c, st, s, p :
           /\ EarlyAt(b2, c, st, s, p) <=> s = s2 /\ StreamOf(s) = st /\ Upto(LastPos(s2), n2, c, p)
           /\ LateAt(b2, c, st, s, p) <=> s = s2 /\ StreamOf(s) = st /\ After(LastPos(s2), n2, c, p)
  BY <1>3, <1>5, RunParts
<1> HIDE DEF b1, b2
<1>9. us \in Seq(Seq(Token)) /\ Len(us) > 0
  BY <1>5, SplitsOK
<1>10. (Len(us) = 1 \/ Len(us) = 2) /\ \E c1, c2 \in Int : Parted(b1, b2, us, c1, c2)
  BY <1>5, SplitsParted
<1>11. PICK c1, c2 \in Int : Parted(b1, b2, us, c1, c2)
  BY <1>10
<1>12. \A st, s, p : p \in PosIn(st, us[1], s) <=>
         \/ s = s1 /\ StreamOf(s) = st /\ Upto(LastPos(s1), n1, c1, p)
         \/ s = s2 /\ StreamOf(s) = st /\ Upto(LastPos(s2), n2, c2, p)
  <2>1. us[1] \in Seq(Token)
    BY <1>9
  <2>2. \A st, s, p : p \in PosIn(st, us[1], s) <=> \E t : Has(us[1], t) /\ OnStream(st, t, s) /\ t.pos = p
    BY <2>1, PosInHas
  <2>3. \A t : Has(us[1], t) <=> Early(b1, c1, t) \/ Early(b2, c2, t)
    BY <1>11 DEF Parted
  <2>4. \A st, s, p : p \in PosIn(st, us[1], s) <=> EarlyAt(b1, c1, st, s, p) \/ EarlyAt(b2, c2, st, s, p)
    <3> SUFFICES ASSUME NEW st, NEW s, NEW p
                 PROVE  p \in PosIn(st, us[1], s) <=> EarlyAt(b1, c1, st, s, p) \/ EarlyAt(b2, c2, st, s, p)
      OBVIOUS
    <3>1. ASSUME NEW t PROVE Has(us[1], t) <=> Early(b1, c1, t) \/ Early(b2, c2, t)
      BY <2>3
    <3> QED
      BY <2>2, <3>1 DEF EarlyAt
  <2> QED
    BY <1>7, <1>8, <2>4
<1>13. Len(us) = 2 => \A st, s, p : p \in PosIn(st, us[2], s) <=>
         \/ s = s1 /\ StreamOf(s) = st /\ After(LastPos(s1), n1, c1, p)
         \/ s = s2 /\ StreamOf(s) = st /\ After(LastPos(s2), n2, c2, p)
  <2> SUFFICES ASSUME Len(us) = 2
               PROVE  \A st, s, p : p \in PosIn(st, us[2], s) <=>
                        \/ s = s1 /\ StreamOf(s) = st /\ After(LastPos(s1), n1, c1, p)
                        \/ s = s2 /\ StreamOf(s) = st /\ After(LastPos(s2), n2, c2, p)
    OBVIOUS
  <2>1. us[2] \in Seq(Token)
    <3>1. 2 \in 1 .. Len(us)
      OBVIOUS
    <3> QED
      BY <1>9, <3>1, ElementOfSeq
  <2>2. \A st, s, p : p \in PosIn(st, us[2], s) <=> \E t : Has(us[2], t) /\ OnStream(st, t, s) /\ t.pos = p
    BY <2>1, PosInHas
  <2>3. \A t : Has(us[2], t) <=> Late(b1, c1, t) \/ Late(b2, c2, t)
    BY <1>11 DEF Parted
  <2>4. \A st, s, p : p \in PosIn(st, us[2], s) <=> LateAt(b1, c1, st, s, p) \/ LateAt(b2, c2, st, s, p)
    <3> SUFFICES ASSUME NEW st, NEW s, NEW p
                 PROVE  p \in PosIn(st, us[2], s) <=> LateAt(b1, c1, st, s, p) \/ LateAt(b2, c2, st, s, p)
      OBVIOUS
    <3>1. ASSUME NEW t PROVE Has(us[2], t) <=> Late(b1, c1, t) \/ Late(b2, c2, t)
      BY <2>3
    <3> QED
      BY <2>2, <3>1 DEF LateAt
  <2> QED
    BY <1>7, <1>8, <2>4
<1>14. Len(us) = 1 => c1 >= n1 /\ c2 >= n2
  BY <1>7, <1>8, <1>11 DEF Parted
<1>15. ASSUME NEW st \in Streams, NEW s \in Seqs
       PROVE  \E c, n \in Int : Cut(st, s, us, PosMax(cell[st], s), c, n)
  <2> DEFINE L == PosMax(cell[st], s)
  <2>1. \A M, c, p : ~Upto(M, 0, c, p) /\ ~After(M, 0, c, p)
    <3>1. 1 .. 0 = {}
      OBVIOUS
    <3> QED
      BY <3>1 DEF Upto, After
  <2>2. CASE StreamOf(s) # st \/ (s # s1 /\ s # s2)
    <3>1. 0 \in Int /\ 0 >= 0
      OBVIOUS
    <3>2. \A p : p \in PosIn(st, us[1], s) <=> Upto(L, 0, 0, p)
      BY <1>12, <2>1, <2>2, Zenon
    <3>3. Len(us) = 2 => \A p : p \in PosIn(st, us[2], s) <=> After(L, 0, 0, p)
      BY <1>13, <2>1, <2>2, Zenon
    <3>4. Cut(st, s, us, L, 0, 0)
      BY <3>1, <3>2, <3>3 DEF Cut
    <3> QED
      BY <3>1, <3>4
  <2>3. CASE StreamOf(s) = st /\ s = s1
    <3>1. LastPos(s1) = L
      BY <2>3 DEF LastPos
    <3> HIDE DEF L
    <3>2. s = s2 => \A M, c, p : ~Upto(M, n2, c, p) /\ ~After(M, n2, c, p)
      BY <1>6, <2>1, <2>3
    <3>3. \A p : p \in PosIn(st, us[1], s) <=> Upto(L, n1, c1, p)
      BY <1>12, <2>3, <3>1, <3>2
    <3>4. Len(us) = 2 => \A p : p \in PosIn(st, us[2], s) <=> After(L, n1, c1, p)
      BY <1>13, <2>3, <3>1, <3>2
    <3>5. Cut(st, s, us, L, c1, n1)
      BY <1>14, <3>3, <3>4 DEF Cut
    <3>6. n1 \in Int
      BY <1>3
    <3> QED
      BY <3>5, <3>6 DEF L
  <2>4. CASE StreamOf(s) = st /\ s = s2 /\ s # s1
    <3>1. LastPos(s2) = L
      BY <2>4 DEF LastPos
    <3>2. \A p : p \in PosIn(st, us[1], s) <=> Upto(L, n2, c2, p)
      BY <1>12, <2>4, <3>1, Zenon
    <3>3. Len(us) = 2 => \A p : p \in PosIn(st, us[2], s) <=> After(L, n2, c2, p)
      BY <1>13, <2>4, <3>1, Zenon
    <3>4. Cut(st, s, us, L, c2, n2)
      BY <1>14, <3>2, <3>3 DEF Cut
    <3>5. n2 \in Int
      BY <1>3
    <3> QED
      BY <3>4, <3>5
  <2> QED
    BY <2>2, <2>3, <2>4
<1> QED
  BY <1>2, <1>9, <1>10, <1>15

LEMMA CutBegun ==
  ASSUME NEW us, NEW C \in [Streams -> Cells], us = before'.batch, C = before'.cell,
         Len(us) = 1 \/ Len(us) = 2,
         \A st \in Streams, s \in Seqs :
           \E c, n \in Int : Cut(st, s, us, PosMax(C[st], s), c, n)
  PROVE  Ordered' /\ Dense'
<1>1. \A st, s, n, p :
        /\ p \in Written(st, s, n)' <=> \E j \in 1 .. n : p \in PosIn(st, us[j], s)
        /\ p \in Grown(st, s, n)' <=> p \in Held(C[st], s) \/ p \in Written(st, s, n)'
  BY DEF Written, Grown
<1>4. \A j \in 1 .. Len(us) : j = 1 \/ (j = 2 /\ Len(us) = 2)
  <2> DEFINE m == Len(us)
  <2>1. m = 1 \/ m = 2
    OBVIOUS
  <2> HIDE DEF m
  <2>2. \A j \in 1 .. m : j = 1 \/ (j = 2 /\ m = 2)
    BY <2>1
  <2> QED
    BY <2>2 DEF m
<1>2. ASSUME NEW st \in Streams, NEW s \in Seqs, NEW j \in 1 .. Len(us),
             NEW p \in PosIn(st, us[j], s), NEW q, q \in Grown(st, s, j - 1)'
      PROVE  q < p
  <2> DEFINE L == PosMax(C[st], s)
  <2>1. PICK c, n \in Int : Cut(st, s, us, L, c, n)
    OBVIOUS
  <2>2. L \in Int /\ \A x \in Held(C[st], s) : x \in Int /\ L >= x
    <3>1. L \in -1 .. MaxPos /\ \A x \in Held(C[st], s) : x \in Int /\ L >= x
      BY PosMaxIs
    <3> QED
      BY <3>1, SizesAssumption
  <2> HIDE DEF L
  <2>3. CASE j = 1
    <3>1. 1 .. j - 1 = {}
      BY <2>3
    <3>2. q \in Held(C[st], s)
      BY <1>1, <1>2, <3>1
    <3>3. PICK k \in 1 .. n : p = L + k
      BY <2>1, <2>3 DEF Cut, Upto
    <3> QED
      BY <2>2, <3>2, <3>3
  <2>4. CASE j = 2 /\ Len(us) = 2
    <3>1. \A l \in 1 .. j - 1 : l = 1
      BY <2>4
    <3>2. q \in Held(C[st], s) \/ q \in PosIn(st, us[1], s)
      BY <1>1, <1>2, <3>1
    <3>3. PICK k \in 1 .. n : k > c /\ p = L + k
      BY <2>1, <2>4 DEF Cut, After
    <3>4. CASE q \in Held(C[st], s)
      BY <2>2, <3>3, <3>4
    <3>5. CASE q \in PosIn(st, us[1], s)
      <4>1. PICK l \in 1 .. n : l <= c /\ q = L + l
        BY <2>1, <3>5 DEF Cut, Upto
      <4> QED
        BY <2>1, <2>2, <3>3, <4>1
    <3> QED
      BY <3>2, <3>4, <3>5
  <2>5. j = 1 \/ (j = 2 /\ Len(us) = 2)
    BY <1>4
  <2> QED
    BY <2>3, <2>4, <2>5
<1>3. ASSUME NEW st \in Streams, NEW s \in Seqs, NEW p, p \in Written(st, s, Len(us))',
             NEW r \in 0 .. MaxPos, PosMax(C[st], s) < r, r < p
      PROVE  r \in Written(st, s, Len(us))'
  <2> DEFINE L == PosMax(C[st], s)
  <2>1. PICK c, n \in Int : Cut(st, s, us, L, c, n)
    OBVIOUS
  <2>2. L \in Int
    <3>1. L \in -1 .. MaxPos
      BY PosMaxIs
    <3> QED
      BY <3>1, SizesAssumption
  <2>3. L < r
    BY <1>3
  <2> HIDE DEF L
  <2>4. PICK j \in 1 .. Len(us) : p \in PosIn(st, us[j], s)
    BY <1>1, <1>3
  <2>5. j = 1 \/ (j = 2 /\ Len(us) = 2)
    BY <1>4
  <2>6. \E k \in 1 .. n : p = L + k /\ (Len(us) = 1 => k <= c)
    <3>1. CASE j = 1
      BY <2>1, <2>4, <3>1 DEF Cut, Upto
    <3>2. CASE j = 2 /\ Len(us) = 2
      BY <2>1, <2>4, <3>2 DEF Cut, After
    <3> QED
      BY <2>5, <3>1, <3>2
  <2>10. PICK k \in 1 .. n : p = L + k /\ (Len(us) = 1 => k <= c)
    BY <2>6
  <2>7. r - L \in 1 .. n /\ r = L + (r - L) /\ r - L < k
    BY <1>3, <2>2, <2>3, <2>10
  <2>8. CASE r - L <= c
    <3>1. r \in PosIn(st, us[1], s)
      BY <2>1, <2>7, <2>8 DEF Cut, Upto
    <3>2. 1 \in 1 .. Len(us)
      OBVIOUS
    <3> QED
      BY <1>1, <3>1, <3>2
  <2>9. CASE ~(r - L <= c)
    <3>1. r - L > c /\ Len(us) = 2
      BY <2>1, <2>7, <2>9 DEF Cut
    <3>2. r \in PosIn(st, us[2], s)
      BY <2>1, <2>7, <3>1 DEF Cut, After
    <3>3. 2 \in 1 .. Len(us)
      BY <3>1
    <3> QED
      BY <1>1, <3>2, <3>3
  <2> QED
    BY <2>8, <2>9
<1>6. Ordered'
  BY <1>2 DEF Ordered
<1>5. Dense'
  BY <1>3 DEF Dense
<1> QED
  BY <1>5, <1>6

LEMMA DecodeStartWindow ==
  ASSUME ~Coupled, CacheOK, DecodeBatch
  PROVE  WindowInv'
<1>1. PICK us \in Seq(Seq(Token)) :
        /\ DecodeStart(us) /\ (Len(us) = 1 \/ Len(us) = 2)
        /\ \A st \in Streams, s \in Seqs :
             \E c, n \in Int : Cut(st, s, us, PosMax(cell[st], s), c, n)
  BY BatchCut DEF CacheOK
<1>2. /\ cell' = Unshifted(cell) /\ phase' = "place" /\ batch' = us /\ slots' = <<>>
      /\ undo' = <<>> /\ ret' = None
      /\ before' = [cell |-> cell', head |-> head, batch |-> us]
  BY <1>1 DEF DecodeStart
<1>3. before'.cell = cell' /\ before'.batch = us
  BY <1>2
<1> DEFINE C == Unshifted(cell)
<1>4. /\ C \in [Streams -> Cells]
      /\ \A st \in Streams, i \in Idx : C[st][i].pos = cell[st][i].pos /\ C[st][i].seq = cell[st][i].seq
  BY UnshiftedIs DEF CacheOK, Stored
<1> HIDE DEF C
<1>5. C = before'.cell /\ us = before'.batch /\ cell' = C
  BY <1>2, <1>3 DEF C
<1>6. \A st \in Streams, s \in Seqs : PosMax(cell[st], s) = PosMax(C[st], s)
  <2> SUFFICES ASSUME NEW st \in Streams, NEW s \in Seqs PROVE Held(cell[st], s) = Held(C[st], s)
    BY DEF PosMax
  <2>1. \A p : p \in Held(cell[st], s) <=> p \in Held(C[st], s)
    BY <1>4, HeldIs, SMTT(30)
  <2> QED
    BY <2>1
<1>7. Begun'
  BY <1>4, <1>5 DEF Begun
<1>8. Ordered' /\ Dense'
  <2>1. \A st \in Streams, s \in Seqs : \E c, n \in Int : Cut(st, s, us, PosMax(C[st], s), c, n)
    BY <1>1, <1>6
  <2> QED
    BY <1>1, <1>4, <1>5, <2>1, CutBegun
<1>9. Len(slots') = 0 /\ Len(undo') = 0
  BY <1>2, EmptySeq
<1>10. 1 .. Len(slots') = {} /\ 1 .. Len(undo') = {} /\ \A k \in 0 .. Len(undo') : k = 0
  BY <1>9
<1>11. Underway'
  <2>1. Reused'
    BY <1>10 DEF Reused
  <2>2. Len(us) \in Nat /\ Len(us) - Len(us) = 0 /\ Len(us) <= Len(us)
        /\ \A j \in 1 .. Len(us) : 0 + j = j
    OBVIOUS
  <2>3. Done' = 0
    BY <1>2, <1>3, <2>2 DEF Done
  <2>4. \A j \in 1 .. Len(batch') : batch'[j] = before'.batch[Done' + j]
    BY <1>2, <1>3, <2>2, <2>3
  <2>5. Len(batch') <= Len(before'.batch)
    BY <1>2, <1>3, <2>2
  <2> QED
    BY <1>7, <1>8, <2>1, <2>4, <2>5 DEF Underway
<1>12. Placing'
  <2>1. \A st, s : Held(cell'[st], s) \subseteq Grown(st, s, 0)'
    BY <1>5 DEF Grown
  <2>2. \A st \in Streams, s \in Seqs : Held(cell'[st], s) \subseteq Grown(st, s, Len(slots))'
    BY <1>9, <2>1
  <2> QED
    BY <1>3, <1>10, <2>2 DEF Placing
<1>13. Retracing'
  <2>1. \A st, i : ~Reserved(st, i)'
    BY <1>10 DEF Reserved
  <2>2. \A k \in 0 .. Len(undo'), st \in Streams, i \in Idx :
          PutBack(k, st, i)' \/ Faithful(st, Past(k)[st][i], before.cell[st][i])'
    <3>1. \A k \in 0 .. Len(undo') : Past(k)' = before'.cell
      BY <1>3, <1>10 DEF Past
    <3> QED
      BY <3>1 DEF Faithful
  <2>3. /\ \A m \in 1 .. Len(undo') : undo'[m].slot = slots'[Len(undo') + 1 - m]
        /\ \A k \in 1 .. Len(undo'), st \in Streams, i \in Idx :
             InSlot(undo'[k].slot, st, i) => Spent(st, undo[k].cell[st][i])'
    BY <1>10
  <2>4. phase' # "restore"
    BY <1>2
  <2>5. Len(batch') = Len(before'.batch)
    BY <1>2, <1>3
  <2> QED
    BY <2>1, <2>2, <2>3, <2>4, <2>5 DEF Retracing, InSlot
<1>14. ~Decoded' /\ phase' # "compute"
  BY <1>2 DEF Decoded
<1> QED
  BY <1>11, <1>12, <1>13, <1>14 DEF WindowInv

LEMMA CallingWindow ==
  ASSUME ~Coupled, CacheOK, Calling, WindowInv
  PROVE  WindowInv'
<1>1. Stored
  BY DEF CacheOK
<1>2. ASSUME Call PROVE WindowInv'
  <2>1. phase' = "idle" /\ ~Decoded'
    BY <1>2 DEF Call, Decoded
  <2> QED
    BY <2>1 DEF WindowInv
<1>3. CASE DecodeBatch
  BY <1>3, DecodeStartWindow
<1>4. CASE Moving
  BY <1>1, <1>2, <1>4, MovingIs
<1>5. CASE \E wipe \in BOOLEAN : Clear(wipe)
  BY <1>2, <1>5 DEF Clear
<1>6. CASE \E s, d \in Seqs, r \in Ranges : SeqCpStream(s, d, r[1], r[2])
  BY <1>2, <1>6 DEF SeqCpStream
<1> QED
  BY <1>3, <1>4, <1>5, <1>6, CallingIs

LEMMA StutterWindow ==
  ASSUME UNCHANGED vars, WindowInv
  PROVE  WindowInv'
<1>1. /\ cell' = cell /\ slots' = slots /\ undo' = undo /\ batch' = batch /\ before' = before
      /\ phase' = phase /\ ret' = ret
  BY DEF vars
<1>2. /\ \A st, s, n : Grown(st, s, n)' = Grown(st, s, n)
      /\ \A st, x : Spent(st, x)' <=> Spent(st, x)
      /\ \A st, t : Passed(st, t)' <=> Passed(st, t)
      /\ (Begun' <=> Begun) /\ (Ordered' <=> Ordered) /\ (Dense' <=> Dense)
  BY <1>1, BeforeKept
<1>3. /\ \A st, p, s : Lost(st, p, s)' <=> Lost(st, p, s)
      /\ \A st, x, y : Faithful(st, x, y)' <=> Faithful(st, x, y)
      /\ \A st, i : Reserved(st, i)' <=> Reserved(st, i)
  BY <1>1, SameKept
<1>4. Underway => Underway'
  BY <1>1, UnderwayKept
<1>5. Placing => Placing'
  <2>1. \A m, st, i : Taker(m, st, i)' = Taker(m, st, i)
    BY <1>1 DEF Taker
  <2>2. \A m, st, i : Passed(st, Taker(m, st, i))' <=> Passed(st, Taker(m, st, i))
    BY <1>1, <2>1 DEF Passed, Behind, Grown, Written
  <2> QED
    BY <1>1, <1>2, <2>1, <2>2 DEF Placing, InSlot
<1>6. Retracing => Retracing'
  <2> SUFFICES ASSUME Retracing PROVE Retracing'
    OBVIOUS
  <2>1. /\ \A k, st, i : PutBack(k, st, i)' <=> PutBack(k, st, i)
        /\ \A k : Past(k)' = Past(k)
    BY <1>1 DEF PutBack, Past, InSlot
  <2>2. ASSUME NEW k \in 0 .. Len(undo), NEW st \in Streams, NEW i \in Idx
        PROVE  PutBack(k, st, i)' \/ Faithful(st, Past(k)[st][i], before.cell[st][i])'
    <3>1. PutBack(k, st, i) \/ Faithful(st, Past(k)[st][i], before.cell[st][i])
      BY DEF Retracing
    <3>2. Faithful(st, Past(k)[st][i], before.cell[st][i])
          => Faithful(st, Past(k)[st][i], before.cell[st][i])'
      BY <1>1, <1>3, <2>1 DEF Faithful
    <3> QED
      BY <2>1, <3>1, <3>2
  <2>3. ASSUME NEW k \in 1 .. Len(undo), NEW st \in Streams, NEW i \in Idx,
               InSlot(undo[k].slot, st, i)
        PROVE  Spent(st, undo[k].cell[st][i])'
    <3>1. \E x : x = undo'[k].cell[st][i] /\ Spent(st, x)
      BY <1>1, <2>3 DEF Retracing
    <3> QED
      BY <1>2, <3>1 DEF Spent
  <2>4. ASSUME NEW st \in Streams, NEW i \in Idx, Reserved(st, i)
        PROVE  PutBack(0, st, i)' \/ Spent(st, cell[st][i])'
    <3>1. PutBack(0, st, i) \/ \E x : x = cell'[st][i] /\ Spent(st, x)
      BY <1>1, <2>4 DEF Retracing
    <3> QED
      BY <1>2, <2>1, <3>1 DEF Spent
  <2> QED
    BY <1>1, <1>3, <2>2, <2>3, <2>4 DEF Retracing, InSlot
<1>7. Done' = Done /\ \A n : Settled(n)' <=> Settled(n)
  BY <1>1, <1>2, <1>3 DEF Settled, Done
<1>8. Computed => Computed'
  <2> SUFFICES ASSUME Computed PROVE Computed'
    OBVIOUS
  <2>1. Settled(Done)'
    BY <1>1, <1>2, <1>3 DEF Computed, Settled, Done
  <2>2. ASSUME NEW st \in Streams, NEW i \in Idx, Reserved(st, i)
        PROVE  Spent(st, cell[st][i])'
    <3>1. \E x : x = cell'[st][i] /\ Spent(st, x)
      BY <1>1, <2>2 DEF Computed
    <3> QED
      BY <1>2, <3>1 DEF Spent
  <2> QED
    BY <1>3, <2>1, <2>2 DEF Computed
<1>9. Ended => Ended'
  BY <1>1, <1>2, <1>7 DEF Ended
<1>10. Decoded' /\ Clean' => Decoded /\ Clean
  BY <1>1 DEF Decoded, Clean
<1> QED
  BY <1>1, <1>4, <1>5, <1>6, <1>8, <1>9, <1>10 DEF WindowInv

LEMMA NextWindow ==
  ASSUME ~Coupled
  PROVE  CacheOK /\ HomeInv /\ WindowInv /\ [Next]_vars => WindowInv'
<1> SUFFICES ASSUME CacheOK, HomeInv, WindowInv, [Next]_vars PROVE WindowInv'
  OBVIOUS
<1>1. CacheOK'
  BY NextOK
<1>2. CASE Calling
  BY <1>2, CallingWindow
<1>3. CASE PlaceUbatch
  BY <1>3, PlaceWindow
<1>4. CASE PlaceFails
  BY <1>4, PlaceFailsWindow
<1>5. CASE RestoreUbatch
  BY <1>5, RestoreWindow
<1>6. CASE ComputeUbatch
  BY <1>1, <1>6, ComputeWindow
<1>7. CASE FailUbatch
  BY <1>7, FailWindow
<1>8. CASE UNCHANGED vars
  BY <1>8, StutterWindow
<1> QED
  BY <1>2, <1>3, <1>4, <1>5, <1>6, <1>7, <1>8 DEF Next

LEMMA InitWindow == Init => HomeInv /\ WindowInv
<1> SUFFICES ASSUME Init PROVE HomeInv /\ WindowInv
  OBVIOUS
<1>1. Homed
  BY EmptySound DEF Init, Homed, HomedIn
<1>2. 1 .. Len(undo) = {}
  <2>1. Len(undo) = 0
    BY EmptySeq DEF Init
  <2> QED
    BY <2>1
<1>3. phase = "idle" /\ ~Decoded
  BY DEF Init, Decoded
<1> QED
  BY <1>1, <1>2, <1>3 DEF HomeInv, WindowInv
-----------------------------------------------------------------------------
(* What the invariant says of a decode that has ended.                     *)

(* The positions of a sequence, extended by the batch, have no gap if they *)
(* had none.                                                               *)
LEMMA GrownConvex ==
  ASSUME Begun, Ordered, Dense, NEW st \in Streams, NEW s \in Seqs, Contiguous(before.cell[st]),
         NEW n \in Nat, n = 0 \/ n = Len(before.batch),
         NEW a \in Grown(st, s, n), NEW b \in Grown(st, s, n), NEW x \in a .. b
  PROVE  x \in Grown(st, s, n)
<1> DEFINE C == before.cell[st]
           L == PosMax(C, s)
           N == Len(before.batch)
<1>1. C \in Cells /\ N \in Nat
  BY DEF Begun
<1>2. a \in 0 .. MaxPos /\ b \in 0 .. MaxPos /\ x \in 0 .. MaxPos /\ a <= x /\ x <= b
  <2>1. n \in Int /\ n <= N
    BY <1>1
  <2>2. Grown(st, s, n) \subseteq 0 .. MaxPos
    BY <2>1, GrownTyped
  <2>3. a \in 0 .. MaxPos /\ b \in 0 .. MaxPos
    BY <2>2
  <2> QED
    BY <2>3, SizesAssumption
<1>3. /\ L \in -1 .. MaxPos
      /\ L = -1 \/ L \in Held(C, s)
      /\ \A p \in Held(C, s) : p \in Int /\ L >= p
  BY <1>1, PosMaxIs
<1>4. /\ \A p : p \in Written(st, s, n) <=> \E j \in 1 .. n : p \in PosIn(st, before.batch[j], s)
      /\ \A p : p \in Grown(st, s, n) <=> p \in Held(C, s) \/ p \in Written(st, s, n)
  BY GrownIs
<1>5. Held(C, s) # {} => Held(C, s) = Min(Held(C, s)) .. L
  BY DEF Contiguous
<1>6. \A p \in Held(C, s) : Min(Held(C, s)) \in Int /\ Min(Held(C, s)) <= p
  <2> SUFFICES ASSUME Held(C, s) # {}
               PROVE  Min(Held(C, s)) \in Int /\ \A p \in Held(C, s) : Min(Held(C, s)) <= p
    OBVIOUS
  <2>1. Held(C, s) \subseteq Nat
    <3>1. Held(C, s) \subseteq 0 .. MaxPos
      BY <1>1, HeldTyped
    <3> QED
      BY <3>1, SizesAssumption
  <2>2. Min(Held(C, s)) \in Held(C, s) /\ \A p \in Held(C, s) : Min(Held(C, s)) <= p
    BY <2>1, MinIs
  <2> QED
    BY <2>1, <2>2
<1> DEFINE H == Held(C, s)
           m == Min(H)
<1> HIDE DEF L, C, H, m
<1>7. CASE x > L
  <2>1. b \notin Held(C, s)
    BY <1>2, <1>3, <1>7, SizesAssumption
  <2>2. b \in Written(st, s, n)
    BY <1>4, <2>1
  <2>3. n = N
    <3>1. 1 .. 0 = {}
      OBVIOUS
    <3> QED
      BY <1>4, <2>2, <3>1
  <2>4. x = b \/ x < b
    BY <1>2
  <2>5. x < b => x \in Written(st, s, n)
    BY <1>2, <1>7, <2>2, <2>3 DEF Dense, L, C
  <2> QED
    BY <1>4, <2>2, <2>4, <2>5
<1>8. CASE ~(x > L)
  <2>1. a <= L /\ x <= L /\ L # -1
    BY <1>2, <1>3, <1>8, SizesAssumption
  <2>2. L \in Held(C, s)
    BY <1>3, <2>1
  <2>3. a \in Held(C, s)
    <3> SUFFICES ASSUME a \in Written(st, s, n) PROVE FALSE
      BY <1>4
    <3>1. PICK j \in 1 .. n : a \in PosIn(st, before.batch[j], s)
      BY <1>4
    <3>2. n = N /\ j \in 1 .. N
      <4>1. 1 .. 0 = {}
        OBVIOUS
      <4> QED
        BY <3>1, <4>1
    <3>3. L \in Grown(st, s, j - 1)
      BY <2>2, GrownIs DEF C
    <3>4. L < a
      BY <3>1, <3>2, <3>3 DEF Ordered
    <3> QED
      BY <1>2, <1>3, <2>1, <3>4, SizesAssumption
  <2>4. H = m .. L /\ m \in Int /\ m <= a
    BY <1>5, <1>6, <2>2, <2>3 DEF H, m
  <2>5. x \in m .. L
    BY <1>2, <1>3, <2>1, <2>4, SizesAssumption
  <2> QED
    BY <1>4, <2>4, <2>5 DEF H
<1> QED
  BY <1>7, <1>8

LEMMA EndedIs ==
  ASSUME CacheOK, WindowInv, Decoded, Clean
  PROVE  /\ Begun /\ Ordered /\ Dense /\ Len(before.batch) \in Nat
         /\ \A st \in Streams : cell[st] \in Cells
         /\ \E n \in Nat :
              /\ n = 0 \/ n = Len(before.batch)
              /\ Len(before.batch) - 1 <= n /\ n <= Len(before.batch)
              /\ \A st \in Streams, s \in Seqs : \A p \in Grown(st, s, n) :
                   \/ p \in Held(cell[st], s)
                   \/ Behind(st, p, s) /\ \A q \in Held(cell[st], s) : q > p
              /\ \A st \in Streams, s \in Seqs : Held(cell[st], s) \subseteq Grown(st, s, n)
<1> DEFINE N == Len(before.batch)
           n == IF ret = "ok" THEN N ELSE 0
<1>1. Ended
  BY DEF WindowInv
<1>2. Begun /\ Ordered /\ Dense /\ Settled(n)
  BY <1>1 DEF Ended
<1>3. N \in Nat
  BY <1>2 DEF Begun
<1>4. n = N \/ (n = 0 /\ N = 1)
  BY DEF Clean
<1> HIDE DEF n, N
<1>5. n \in Nat /\ (n = 0 \/ n = N) /\ N - 1 <= n /\ n <= N
  BY <1>3, <1>4
<1>6. \A st, i : ~Reserved(st, i)
  <2>1. slots = <<>>
    BY DEF CacheOK, Phased, Decoded
  <2>2. 1 .. Len(slots) = {}
    <3>1. Len(slots) = 0
      BY <2>1, EmptySeq
    <3> QED
      BY <3>1
  <2> QED
    BY <2>2 DEF Reserved
<1>7. ASSUME NEW st \in Streams, NEW s \in Seqs, NEW p \in Grown(st, s, n)
      PROVE  \/ p \in Held(cell[st], s)
             \/ Behind(st, p, s) /\ \A q \in Held(cell[st], s) : q > p
  <2>1. p \in Held(cell[st], s) \/ Lost(st, p, s)
    BY <1>2 DEF Settled
  <2>2. Lost(st, p, s) => Behind(st, p, s) /\ \A q \in Held(cell[st], s) : q > p
    BY <1>6, HeldIs DEF Lost, Above
  <2> QED
    BY <2>1, <2>2
<1>8. \A st \in Streams, s \in Seqs : Held(cell[st], s) \subseteq Grown(st, s, n)
  BY <1>2 DEF Settled
<1>9. \A st \in Streams : cell[st] \in Cells
  BY DEF CacheOK, Stored
<1> QED
  BY <1>2, <1>3, <1>5, <1>7, <1>8, <1>9 DEF N

LEMMA NoHole ==
  ASSUME CacheOK, WindowInv
  PROVE  DecodeKeepsContiguous
<1> SUFFICES ASSUME Decoded, Clean, NEW st \in Streams, Contiguous(before.cell[st]), NEW s \in Seqs,
                    Held(cell[st], s) # {}
             PROVE  Held(cell[st], s) = Min(Held(cell[st], s)) .. PosMax(cell[st], s)
  BY DEF DecodeKeepsContiguous, Contiguous
<1> DEFINE H == Held(cell[st], s)
           a == Min(H)
           b == PosMax(cell[st], s)
<1>1. Begun /\ Ordered /\ Dense /\ cell[st] \in Cells
  BY EndedIs
<1>2. PICK n \in Nat :
        /\ n = 0 \/ n = Len(before.batch)
        /\ \A p \in Grown(st, s, n) :
             p \in H \/ (Behind(st, p, s) /\ \A q \in H : q > p)
        /\ H \subseteq Grown(st, s, n)
  BY EndedIs
<1>3. H \subseteq 0 .. MaxPos
  BY <1>1, HeldTyped
<1>4. a \in H /\ \A y \in H : a <= y
  <2>1. H \subseteq Nat
    BY <1>3, SizesAssumption
  <2> QED
    BY <2>1, MinIs
<1>5. /\ b \in -1 .. MaxPos /\ (b = -1 \/ b \in H)
      /\ \A p \in H : p \in Int /\ b >= p
  BY <1>1, PosMaxIs
<1> HIDE DEF H, a, b
<1>6. a \in Int /\ b \in Int /\ b \in H
  BY <1>3, <1>4, <1>5, SizesAssumption
<1>7. \A x \in H : x \in a .. b
  BY <1>4, <1>5, <1>6
<1>8. ASSUME NEW x \in a .. b PROVE x \in H
  <2>1. a \in Grown(st, s, n) /\ b \in Grown(st, s, n)
    BY <1>2, <1>4, <1>6
  <2>2. x \in Grown(st, s, n)
    BY <1>1, <1>2, <2>1, GrownConvex
  <2>3. ~(a > x)
    BY <1>6
  <2> QED
    BY <1>2, <1>4, <2>2, <2>3
<1>9. H = a .. b
  BY <1>7, <1>8
<1> QED
  BY <1>9 DEF H, a, b

LEMMA WindowHeld ==
  ASSUME NSwa # 1, CacheOK, WindowInv
  PROVE  WindowKept
<1> SUFFICES ASSUME Decoded, Clean, NEW s \in Seqs, NEW p \in Held(before.cell[StreamOf(s)], s),
                    p \notin Held(cell[StreamOf(s)], s)
             PROVE  Masked(p, PosMax(cell[StreamOf(s)], s) + 1)
  BY DEF WindowKept
<1> DEFINE st == StreamOf(s)
           H == Held(cell[st], s)
           N == Len(before.batch)
           top == PosMax(cell[st], s)
<1>1. st \in Streams
  BY Sizes
<1>2. Begun /\ N \in Nat /\ cell[st] \in Cells
  BY <1>1, EndedIs
<1>3. PICK n \in Nat :
        /\ N - 1 <= n /\ n <= N
        /\ \A x \in Grown(st, s, n) : x \in H \/ Behind(st, x, s)
  BY <1>1, EndedIs
<1> DEFINE G == Grown(st, s, n)
<1>4. Grown(st, s, N - 1) \subseteq G
  BY <1>2, <1>3, GrownMore
<1>5. G \subseteq 0 .. MaxPos
  BY <1>1, <1>2, <1>3, GrownTyped
<1>6. p \in G
  BY GrownIs
<1>7. \A x \in H : x \in Int /\ top >= x
  BY <1>2, PosMaxIs
<1>8. top \in Int
  <2>1. top \in -1 .. MaxPos
    BY <1>2, PosMaxIs
  <2> QED
    BY <2>1, SizesAssumption
<1>9. \A x : Behind(st, x, s) => \E q \in G : Masked(x, q + 1)
  BY <1>4 DEF Behind
<1> HIDE DEF G, H, top, st
<1>10. Max(G) \in G /\ \A y \in G : Max(G) >= y
  <2>1. G # {} /\ 0 \in Int /\ MaxPos \in Int
    BY <1>6, SizesAssumption
  <2> QED
    BY <1>5, <2>1, MaxIs
<1> DEFINE g == Max(G)
<1> HIDE DEF g
<1>11. g \in G /\ g \in Int /\ \A y \in G : y \in Int /\ g >= y
  BY <1>5, <1>10, SizesAssumption DEF g
<1>12. ~Behind(st, g, s)
  <2> SUFFICES ASSUME NEW q \in G, Masked(g, q + 1) PROVE FALSE
    BY <1>9
  <2>1. NSwa \in Nat /\ NSwa > 0 /\ (q + 1) - g >= NSwa
    BY SizesAssumption DEF Masked
  <2> QED
    BY <1>11, <2>1
<1>13. top >= g
  <2>1. g \in H
    BY <1>3, <1>11, <1>12 DEF G
  <2> QED
    BY <1>7, <2>1
<1>14. PICK q \in G : Masked(p, q + 1)
  BY <1>3, <1>6, <1>9 DEF G, H, st
<1>15. Masked(p, top + 1)
  <2>1. NSwa \in Nat /\ NSwa > 0 /\ (q + 1) - p >= NSwa
    BY <1>14, SizesAssumption DEF Masked
  <2>2. p \in Int /\ q \in Int /\ g >= q
    BY <1>6, <1>11, <1>14
  <2> QED
    BY <1>8, <1>11, <1>13, <2>1, <2>2 DEF Masked
<1> QED
  BY <1>15 DEF top, st
-----------------------------------------------------------------------------
(* A decode that ends well, or that was of one ubatch, leaves no hole in a *)
(* sequence that had none: find_slot may reuse the cells of a sequence in  *)
(* any order, but apply_ubatch purges whatever the sequence holds below    *)
(* the largest position it overwrote, and a failed ubatch is removed from  *)
(* its first position on.  This is for batches whose tokens have one       *)
(* sequence each, which is what the server builds.                         *)
THEOREM DecodeLeavesNoHole ==
  ASSUME ~Coupled
  PROVE  Spec => []DecodeKeepsContiguous
<1>1. CacheOK /\ HomeInv /\ [Next]_vars => HomeInv'
  BY NextHomed
<1>2. CacheOK /\ HomeInv /\ WindowInv /\ [Next]_vars => WindowInv'
  BY NextWindow
<1>3. CacheOK /\ WindowInv => DecodeKeepsContiguous
  BY NoHole
<1> QED
  BY <1>1, <1>2, <1>3, InitWindow, AlwaysOK, PTL DEF Spec

(* Such a decode drops no position that the attention window of a sequence *)
(* still covers when it ends, whoever's tokens went to the freed cells and *)
(* though prepare purges for slots that it then takes back.  With a window *)
(* of one position a sequence may lose its last position, the one it no    *)
(* longer sees, and with it the end that its window is counted from.       *)
THEOREM WindowIsKept ==
  ASSUME ~Coupled, NSwa # 1
  PROVE  Spec => []WindowKept
<1>1. CacheOK /\ HomeInv /\ [Next]_vars => HomeInv'
  BY NextHomed
<1>2. CacheOK /\ HomeInv /\ WindowInv /\ [Next]_vars => WindowInv'
  BY NextWindow
<1>3. CacheOK /\ WindowInv => WindowKept
  BY WindowHeld
<1> QED
  BY <1>1, <1>2, <1>3, InitWindow, AlwaysOK, PTL DEF Spec

(* The cells of a stream hold only sequences of that stream, however often *)
(* seq_cp moves a sequence to another one and whatever prepare puts back:  *)
(* one sequence's calls and ubatches leave the streams of the others alone.*)
THEOREM StreamsApart ==
  ASSUME ~Coupled
  PROVE  Spec => []Homed
<1>1. CacheOK /\ HomeInv /\ [Next]_vars => HomeInv'
  BY NextHomed
<1>2. HomeInv => Homed
  BY DEF HomeInv
<1> QED
  BY <1>1, <1>2, InitWindow, AlwaysOK, PTL DEF Spec
=============================================================================

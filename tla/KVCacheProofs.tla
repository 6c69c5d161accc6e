---------------------------- MODULE KVCacheProofs ----------------------------
(***************************************************************************)
(* Proofs about KVCache, for any number and size of streams, any window    *)
(* and any batches: type correctness, that the rows of a cell are those of *)
(* its token, and that preparing a batch restores the cells.               *)
(***************************************************************************)
EXTENDS KVCache, FiniteSetTheorems, SequenceTheorems, WellFoundedInduction, TLAPS

(* A set of numbers has a least element, and one that is bounded has a     *)
(* largest.                                                                *)
LEMMA LeastNat ==
  ASSUME NEW T, T \subseteq Nat, T # {}
  PROVE  \E x \in T : \A y \in T : x <= y
<1> DEFINE R == OpToRel(<, Nat)
<1>1. IsWellFoundedOn(R, Nat)
  BY NatLessThanWellFounded
<1>2. \A x, y \in Nat : x < y => <<x, y>> \in R
  BY DEF OpToRel
<1> HIDE DEF R
<1>3. PICK x \in T : \A y \in T : <<y, x>> \notin R
  BY <1>1, WFMin
<1>4. ASSUME NEW y \in T PROVE x <= y
  <2>1. x \in Nat /\ y \in Nat /\ <<y, x>> \notin R
    BY <1>3
  <2>2. ~(y < x)
    BY <1>2, <2>1
  <2> QED
    BY <2>1, <2>2
<1> QED
  BY <1>4

LEMMA MinIs ==
  ASSUME NEW T, T \subseteq Nat, T # {}
  PROVE  Min(T) \in T /\ \A y \in T : Min(T) <= y
<1>1. \E x \in T : \A y \in T : x <= y
  BY LeastNat
<1> QED
  BY <1>1 DEF Min

LEMMA MaxIs ==
  ASSUME NEW a \in Int, NEW b \in Int, NEW T, T \subseteq a .. b, T # {}
  PROVE  Max(T) \in T /\ \A y \in T : Max(T) >= y
<1> DEFINE D == {b - x : x \in T}
<1>1. D \subseteq Nat /\ D # {}
  <2>1. ASSUME NEW x \in T PROVE b - x \in Nat
    <3>1. x \in a .. b
      OBVIOUS
    <3> QED
      BY <3>1
  <2> QED
    BY <2>1
<1>2. PICK d \in D : \A e \in D : d <= e
  BY <1>1, LeastNat
<1>3. PICK x \in T : d = b - x
  OBVIOUS
<1>4. \A y \in T : x >= y
  <2> SUFFICES ASSUME NEW y \in T PROVE x >= y
    OBVIOUS
  <2>1. b - x <= b - y
    BY <1>2, <1>3
  <2> QED
    BY <2>1
<1> QED
  BY <1>4 DEF Max

-----------------------------------------------------------------------------
(* What the variables hold. *)

SoundCell ==
  {x \in [pos : -1 .. MaxPos, seq : SUBSET Seqs,
          shift : -MaxPos .. MaxPos, tok : Toks \cup {NoTok}] :
     /\ x.seq = {} <=> x.pos = -1
     /\ x.pos = -1 => x = EmptyCell}

Cells == [Idx -> SoundCell]
Token == [pos : 0 .. MaxPos, seqs : SeqSets, tok : Toks]
Slot  == UNION {[S -> UNION {[K -> Idx] : K \in SUBSET Nat}] : S \in SUBSET Streams}
Undo  == [slot : Slot, cell : [Streams -> Cells], head : [Streams -> 0 .. Size]]

Stored ==
  /\ cell \in [Streams -> Cells]
  /\ head \in [Streams -> 0 .. Size]
  /\ copies \in Seq([src : Streams, dst : Streams])
  /\ data \in [Streams -> [Idx -> Toks \cup {NoTok, Garbage}]]

(* A slot gives each token of a ubatch, in each of its streams, a cell of  *)
(* its own.                                                                *)
IsSlot(u, slot) ==
  /\ DOMAIN slot = StreamsOf(u)
  /\ \A st \in StreamsOf(u) :
       /\ slot[st] \in [TokensOn(st, u) -> Idx]
       /\ \A k, l \in TokensOn(st, u) : slot[st][k] = slot[st][l] => k = l

Sequences ==
  /\ batch \in Seq(Seq(Token))
  /\ slots \in Seq(Slot)
  /\ undo \in Seq(Undo)
  /\ Len(slots) <= Len(batch) /\ Len(undo) <= Len(slots)
  /\ \A k \in 1 .. Len(slots) : IsSlot(batch[k], slots[k])

(* How far the running decode is. *)
Phased ==
  \/ /\ phase = "idle" /\ batch = <<>> /\ slots = <<>> /\ undo = <<>>
     /\ ret \in {None, "ok", "no slot", "failed"}
  \/ /\ phase = "place" /\ Len(slots) < Len(batch) /\ Len(undo) = Len(slots)
     /\ ret = None /\ copies = <<>>
  \/ /\ phase = "restore" /\ Len(undo) > 0 /\ copies = <<>>
     /\ \/ ret = None /\ Len(slots) = Len(batch)
        \/ ret = "no slot"
  \/ /\ phase = "compute" /\ undo = <<>> /\ copies = <<>> /\ ret = None
     /\ Len(slots) = Len(batch) /\ Len(batch) > 0

CacheOK == Stored /\ Sequences /\ Phased

LEMMA Lengths ==
  Sequences => Len(undo) \in Nat /\ Len(slots) \in Nat /\ Len(batch) \in Nat
               /\ Len(undo) <= Len(slots) /\ Len(slots) <= Len(batch)
<1> SUFFICES ASSUME Sequences
             PROVE  Len(undo) \in Nat /\ Len(slots) \in Nat /\ Len(batch) \in Nat
                    /\ Len(undo) <= Len(slots) /\ Len(slots) <= Len(batch)
  OBVIOUS
<1>1. batch \in Seq(Seq(Token)) /\ slots \in Seq(Slot) /\ undo \in Seq(Undo)
  BY DEF Sequences
<1>2. Len(batch) \in Nat /\ Len(slots) \in Nat /\ Len(undo) \in Nat
  BY <1>1, LenProperties
<1> QED
  BY <1>2 DEF Sequences

LEMMA Popped ==
  ASSUME NEW S, NEW q \in Seq(S), Len(q) > 0
  PROVE  /\ q # <<>> /\ Head(q) = q[1] /\ Head(q) \in S
         /\ Tail(q) \in Seq(S) /\ Len(Tail(q)) = Len(q) - 1
         /\ \A k \in 1 .. Len(q) - 1 : Tail(q)[k] = q[k + 1]
         /\ Len(q) = 1 => Tail(q) = <<>>
<1>1. q # <<>>
  OBVIOUS
<1>2. Head(q) = q[1] /\ Head(q) \in S
      /\ Tail(q) \in Seq(S) /\ Len(Tail(q)) = Len(q) - 1
      /\ \A k \in 1 .. Len(q) - 1 : Tail(q)[k] = q[k + 1]
  BY <1>1, HeadTailProperties
<1> QED
  BY <1>1, <1>2, EmptySeq

LEMMA Sizes ==
  /\ 0 \in Seqs /\ Seqs \subseteq Nat /\ Idx \subseteq Nat /\ Idx = 0 .. Size - 1
  /\ Streams \subseteq Seqs /\ \A s \in Seqs : StreamOf(s) \in Streams
  /\ \A G \in SeqSets : G \subseteq Seqs /\ G # {}
<1>1. 0 \in Seqs /\ Seqs \subseteq Nat /\ Idx \subseteq Nat /\ Idx = 0 .. Size - 1
  BY SizesAssumption DEF Seqs, Idx
<1>2. Streams \subseteq Seqs /\ \A s \in Seqs : StreamOf(s) \in Streams
  BY <1>1 DEF Streams, StreamOf
<1>3. \A G \in SeqSets : G \subseteq Seqs /\ G # {}
  BY DEF SeqSets
<1> QED
  BY <1>1, <1>2, <1>3

LEMMA EmptySound ==
  /\ EmptyCell \in SoundCell
  /\ EmptyCell.pos = -1 /\ EmptyCell.seq = {} /\ EmptyCell.shift = 0 /\ EmptyCell.tok = NoTok
BY SizesAssumption DEF EmptyCell, SoundCell

(* What is left of a cell when sequences leave it.                         *)
LEMMA WithoutIs ==
  ASSUME NEW x \in SoundCell, NEW S
  PROVE  /\ Without(x, S) \in SoundCell
         /\ Without(x, S).pos # -1 => /\ x.pos # -1 /\ Without(x, S).pos = x.pos
                                      /\ Without(x, S).tok = x.tok
                                      /\ Without(x, S).shift = x.shift
                                      /\ Without(x, S).seq = x.seq \ S
         /\ Without(x, S).seq \subseteq x.seq \ S
         /\ ~(x.seq \subseteq S) => Without(x, S) = [x EXCEPT !.seq = @ \ S]
<1>1. CASE x.seq \subseteq S
  BY <1>1, EmptySound DEF Without
<1>2. CASE ~(x.seq \subseteq S)
  <2>1. Without(x, S) = [x EXCEPT !.seq = @ \ S]
    BY <1>2 DEF Without
  <2>2. x.pos # -1 /\ x.seq \ S # {}
    BY <1>2 DEF SoundCell
  <2> QED
    BY <2>1, <2>2, <1>2 DEF SoundCell
<1> QED
  BY <1>1, <1>2

LEMMA HeadAtIs ==
  ASSUME NEW F \in SUBSET Idx, NEW h \in 0 .. Size
  PROVE  HeadAt(F, h) \in 0 .. Size
<1>1. F # {} => Min(F) \in F
  BY Sizes, MinIs
<1>2. \A i \in Idx : i \in 0 .. Size
  BY SizesAssumption DEF Idx
<1> QED
  BY <1>1, <1>2 DEF HeadAt

(* The types of the invariant are those of TypeOK.                         *)
LEMMA OKTyped == CacheOK => TypeOK
<1> SUFFICES ASSUME CacheOK PROVE TypeOK
  OBVIOUS
<1>1. cell \in [Streams -> [Idx ->
         [pos : -1 .. MaxPos, seq : SUBSET Seqs,
          shift : -MaxPos .. MaxPos, tok : Toks \cup {NoTok}]]]
  BY DEF CacheOK, Stored, Cells, SoundCell
<1>2. \A st \in Streams, i \in Idx :
       /\ cell[st][i].seq = {} <=> cell[st][i].pos = -1
       /\ cell[st][i].pos = -1 => cell[st][i] = EmptyCell
  BY DEF CacheOK, Stored, Cells, SoundCell
<1>3. phase \in {"idle", "place", "restore", "compute"}
      /\ ret \in {None, "ok", "no slot", "failed"}
      /\ (phase = "idle" => batch = <<>> /\ slots = <<>> /\ undo = <<>>)
  BY DEF CacheOK, Phased
<1> QED
  BY <1>1, <1>2, <1>3 DEF TypeOK, CacheOK, Stored, Sequences

LEMMA InitOK == Init => CacheOK
<1> SUFFICES ASSUME Init PROVE CacheOK
  OBVIOUS
<1>1. cell \in [Streams -> Cells] /\ head \in [Streams -> 0 .. Size]
  BY EmptySound, SizesAssumption DEF Init, Cells
<1>2. Stored
  BY <1>1 DEF Init, Stored
<1>3. Sequences /\ Phased
  BY DEF Init, Sequences, Phased
<1> QED
  BY <1>2, <1>3 DEF CacheOK
-----------------------------------------------------------------------------
(* The calls between decodes. *)

(* The cells d stand for no token that c does not stand for.               *)
TamedIn(c, d) ==
  \A i \in Idx : d[i].pos # -1 => c[i].pos # -1 /\ d[i].tok = c[i].tok
Tamed(c, d) == \A st \in Streams : TamedIn(c[st], d[st])

LEMMA CallOK == CacheOK /\ Call /\ Stored' => CacheOK'
<1> SUFFICES ASSUME CacheOK, Call, Stored' PROVE CacheOK'
  OBVIOUS
<1>1. phase = "idle" /\ batch = <<>> /\ slots = <<>> /\ undo = <<>>
  BY DEF CacheOK, Phased, Call
<1>2. phase' = "idle" /\ batch' = <<>> /\ slots' = <<>> /\ undo' = <<>> /\ ret' = None
  BY <1>1 DEF Call
<1>3. Sequences' /\ Phased'
  BY <1>2 DEF Sequences, Phased
<1> QED
  BY <1>3 DEF CacheOK

(* What changes when a call replaces the cells of one stream.              *)
LEMMA SwapIs ==
  ASSUME Stored, NEW st \in Streams, NEW d \in Cells, TamedIn(cell[st], d),
         NEW h \in 0 .. Size, cell' = [cell EXCEPT ![st] = d],
         \/ head' = [head EXCEPT ![st] = h]
         \/ head' = head,
         UNCHANGED <<copies, data>>
  PROVE  Stored' /\ Tamed(cell, cell')
<1>1. cell' \in [Streams -> Cells] /\ head' \in [Streams -> 0 .. Size]
  BY DEF Stored
<1>2. Tamed(cell, cell')
  <2> SUFFICES ASSUME NEW t \in Streams PROVE TamedIn(cell[t], cell'[t])
    BY DEF Tamed
  <2>1. CASE t = st
    BY <2>1 DEF Stored
  <2>2. CASE t # st
    <3>1. cell'[t] = cell[t]
      BY <2>2 DEF Stored
    <3> QED
      BY <3>1 DEF TamedIn
  <2> QED
    BY <2>1, <2>2
<1> QED
  BY <1>1, <1>2 DEF Stored

LEMMA SeqRmIs ==
  ASSUME Stored, NEW s \in Seqs, NEW p0, NEW p1, SeqRm(s, p0, p1)
  PROVE  Stored' /\ Tamed(cell, cell') /\ UNCHANGED <<copies, data>>
<1> DEFINE st == StreamOf(s)
           d  == RmSeq(cell[st], s, Range0(p0, p1))
           F  == Freed(cell[st], d)
           h  == HeadAt(F, head[st])
<1>1. st \in Streams /\ cell[st] \in Cells /\ head[st] \in 0 .. Size
  BY Sizes DEF Stored
<1>2. d \in Cells /\ TamedIn(cell[st], d)
  <2>1. \A i \in Idx : cell[st][i] \in SoundCell
    BY <1>1 DEF Cells
  <2>2. \A i \in Idx : d[i] = cell[st][i] \/ d[i] = Without(cell[st][i], {s})
    BY DEF RmSeq
  <2>3. ASSUME NEW i \in Idx
        PROVE  d[i] \in SoundCell /\ (d[i].pos # -1 => cell[st][i].pos # -1 /\ d[i].tok = cell[st][i].tok)
    <3> HIDE DEF d
    <3> QED
      BY <2>1, <2>2, WithoutIs
  <2>4. d = [i \in Idx |-> d[i]]
    BY DEF RmSeq
  <2> HIDE DEF d
  <2> QED
    BY <2>3, <2>4 DEF Cells, TamedIn
<1>3. h \in 0 .. Size
  <2>1. F \in SUBSET Idx
    BY DEF Freed, Used
  <2> HIDE DEF F
  <2> QED
    BY <1>1, <2>1, HeadAtIs
<1>4. cell' = [cell EXCEPT ![st] = d] /\ head' = [head EXCEPT ![st] = h]
      /\ UNCHANGED <<copies, data>>
  BY <1>1 DEF SeqRm, Stored
<1> HIDE DEF st, d, h
<1> QED
  BY <1>1, <1>2, <1>3, <1>4, SwapIs

LEMMA SeqRmAnyIs ==
  ASSUME Stored, NEW p0, NEW p1, SeqRmAny(p0, p1)
  PROVE  Stored' /\ Tamed(cell, cell') /\ UNCHANGED <<copies, data>>
<1> DEFINE d(st) == [i \in Idx |-> IF cell[st][i].pos \in Range0(p0, p1)
                                   THEN EmptyCell ELSE cell[st][i]]
           F(st) == Freed(cell[st], d(st))
           h(st) == HeadAt(F(st), head[st])
<1>1. \A st \in Streams : cell[st] \in Cells /\ head[st] \in 0 .. Size
  BY DEF Stored
<1>2. ASSUME NEW st \in Streams PROVE d(st) \in Cells /\ TamedIn(cell[st], d(st))
  <2>1. \A i \in Idx : cell[st][i] \in SoundCell
    BY <1>1 DEF Cells
  <2> QED
    BY <2>1, EmptySound DEF Cells, TamedIn
<1>3. ASSUME NEW st \in Streams PROVE h(st) \in 0 .. Size
  <2>1. F(st) \in SUBSET Idx
    BY DEF Freed, Used
  <2> HIDE DEF F
  <2> QED
    BY <1>1, <2>1, HeadAtIs
<1>4. cell' = [st \in Streams |-> d(st)] /\ head' = [st \in Streams |-> h(st)]
      /\ UNCHANGED <<copies, data>>
  BY DEF SeqRmAny
<1> HIDE DEF d, h
<1>5. cell' \in [Streams -> Cells] /\ head' \in [Streams -> 0 .. Size] /\ Tamed(cell, cell')
  BY <1>2, <1>3, <1>4 DEF Tamed
<1> QED
  BY <1>4, <1>5 DEF Stored

LEMMA SeqCpShareIs ==
  ASSUME Stored, NEW src \in Seqs, NEW dst \in Seqs, NEW p0, NEW p1,
         SeqCpShare(src, dst, p0, p1)
  PROVE  Stored' /\ Tamed(cell, cell') /\ UNCHANGED <<copies, data>>
<1> DEFINE st == StreamOf(src)
           H  == Hits(cell[st], src, Range0(p0, p1))
           d  == [i \in Idx |-> IF i \in H
                    THEN [cell[st][i] EXCEPT !.seq = @ \cup {dst}] ELSE cell[st][i]]
<1>1. st \in Streams /\ cell[st] \in Cells
  BY Sizes DEF Stored
<1>2. d \in Cells /\ TamedIn(cell[st], d)
  <2>1. \A i \in Idx : cell[st][i] \in SoundCell
    BY <1>1 DEF Cells
  <2>2. \A i \in H : src \in cell[st][i].seq
    BY DEF Hits
  <2> HIDE DEF H
  <2>3. ASSUME NEW i \in H, i \in Idx
        PROVE  [cell[st][i] EXCEPT !.seq = @ \cup {dst}] \in SoundCell
    <3>1. cell[st][i].seq # {} /\ cell[st][i].pos # -1
      BY <2>1, <2>2, <2>3 DEF SoundCell
    <3> QED
      BY <2>1, <2>3, <3>1 DEF SoundCell
  <2>4. \A i \in Idx : d[i] \in SoundCell
    BY <2>1, <2>3
  <2>5. \A i \in Idx : d[i].pos = cell[st][i].pos /\ d[i].tok = cell[st][i].tok
    BY <2>1 DEF SoundCell
  <2>6. d \in Cells
    BY <2>4 DEF Cells
  <2> QED
    BY <2>5, <2>6 DEF TamedIn
<1>3. cell' = [cell EXCEPT ![st] = d] /\ UNCHANGED <<head, copies, data>>
  BY <1>1 DEF SeqCpShare, Stored
<1>4. 0 \in 0 .. Size
  BY SizesAssumption
<1> HIDE DEF st, d
<1> QED
  BY <1>1, <1>2, <1>3, <1>4, SwapIs

LEMMA SeqKeepIs ==
  ASSUME Stored, NEW s \in Seqs, SeqKeep(s)
  PROVE  Stored' /\ Tamed(cell, cell') /\ UNCHANGED <<copies, data>>
<1> DEFINE st == StreamOf(s)
           d  == [i \in Idx |-> Without(cell[st][i], Seqs \ {s})]
           F  == Freed(cell[st], d)
           h  == HeadAt(F, head[st])
<1>1. st \in Streams /\ cell[st] \in Cells /\ head[st] \in 0 .. Size
  BY Sizes DEF Stored
<1>2. d \in Cells /\ TamedIn(cell[st], d)
  <2>1. \A i \in Idx : cell[st][i] \in SoundCell
    BY <1>1 DEF Cells
  <2>2. \A i \in Idx : d[i] = Without(cell[st][i], Seqs \ {s})
    OBVIOUS
  <2>3. d = [i \in Idx |-> d[i]]
    OBVIOUS
  <2> HIDE DEF d
  <2>4. ASSUME NEW i \in Idx
        PROVE  d[i] \in SoundCell /\ (d[i].pos # -1 => cell[st][i].pos # -1 /\ d[i].tok = cell[st][i].tok)
    BY <2>1, <2>2, WithoutIs
  <2> QED
    BY <2>3, <2>4 DEF Cells, TamedIn
<1>3. h \in 0 .. Size
  <2>1. F \in SUBSET Idx
    BY DEF Freed, Used
  <2> HIDE DEF F
  <2> QED
    BY <1>1, <2>1, HeadAtIs
<1>4. cell' = [cell EXCEPT ![st] = d] /\ head' = [head EXCEPT ![st] = h]
      /\ UNCHANGED <<copies, data>>
  BY <1>1 DEF SeqKeep, Stored
<1> HIDE DEF st, d, h
<1> QED
  BY <1>1, <1>2, <1>3, <1>4, SwapIs

(* A cell that stays occupied where its position and shift change.         *)
LEMMA MovedIs ==
  ASSUME NEW x \in SoundCell, x.pos # -1,
         NEW y \in 0 .. MaxPos, NEW z \in -MaxPos .. MaxPos
  PROVE  /\ [x EXCEPT !.pos = y, !.shift = z] \in SoundCell
         /\ [x EXCEPT !.pos = y, !.shift = z].tok = x.tok
         /\ [x EXCEPT !.pos = y, !.shift = z].shift = z
<1>1. y \in -1 .. MaxPos /\ y # -1
  BY SizesAssumption
<1> QED
  BY <1>1 DEF SoundCell

LEMMA SeqAddIs ==
  ASSUME Stored, NEW s \in Seqs, NEW p0, NEW p1, NEW n \in {-1, 1}, SeqAdd(s, p0, p1, n)
  PROVE  Stored' /\ Tamed(cell, cell') /\ UNCHANGED <<copies, data>>
<1> DEFINE st == StreamOf(s)
           H  == Hits(cell[st], s, Range0(p0, p1))
           moved(x) == IF x.pos + n < 0 THEN EmptyCell
                       ELSE [x EXCEPT !.pos = @ + n, !.shift = @ + n]
           d  == [i \in Idx |-> IF i \in H THEN moved(cell[st][i]) ELSE cell[st][i]]
           F  == Freed(cell[st], d)
           h  == IF F = {} THEN 0 ELSE Min(F)
<1>1. st \in Streams /\ cell[st] \in Cells
  BY Sizes DEF Stored
<1>2. \A i \in H : cell[st][i].pos + n <= MaxPos /\ cell[st][i].shift + n \in -MaxPos .. MaxPos
  BY DEF SeqAdd
<1>3. d \in Cells /\ TamedIn(cell[st], d)
  <2>1. \A i \in Idx : cell[st][i] \in SoundCell
    BY <1>1 DEF Cells
  <2>2. \A i \in H : s \in cell[st][i].seq /\ i \in Idx
    BY DEF Hits
  <2> HIDE DEF H
  <2>3. ASSUME NEW i \in H
        PROVE  /\ moved(cell[st][i]) \in SoundCell
               /\ moved(cell[st][i]).pos # -1 => /\ cell[st][i].pos # -1
                                                 /\ moved(cell[st][i]).tok = cell[st][i].tok
    <3> DEFINE x == cell[st][i]
    <3>1. x \in SoundCell /\ x.seq # {} /\ x.pos # -1 /\ x.pos + n <= MaxPos
          /\ x.shift + n \in -MaxPos .. MaxPos
      BY <2>1, <2>2, <1>2 DEF SoundCell
    <3> HIDE DEF x
    <3>2. moved(x) \in SoundCell /\ (moved(x).pos # -1 => moved(x).tok = x.tok)
      <4>1. CASE x.pos + n < 0
        BY <4>1, EmptySound
      <4>2. CASE ~(x.pos + n < 0)
        <5>1. x.pos \in -1 .. MaxPos /\ n \in Int /\ x.pos + n \in 0 .. MaxPos /\ x.pos + n # -1
          BY <3>1, <4>2, SizesAssumption DEF SoundCell
        <5>2. moved(x) = [x EXCEPT !.pos = x.pos + n, !.shift = x.shift + n]
          BY <3>1, <4>2 DEF SoundCell
        <5> DEFINE y == x.pos + n
                   z == x.shift + n
        <5>3. y \in 0 .. MaxPos /\ z \in -MaxPos .. MaxPos
          BY <3>1, <5>1
        <5> HIDE DEF y, z
        <5>4. [x EXCEPT !.pos = y, !.shift = z] \in SoundCell
              /\ [x EXCEPT !.pos = y, !.shift = z].tok = x.tok
          BY <3>1, <5>3, MovedIs, ZenonT(60)
        <5> QED
          BY <5>2, <5>4 DEF y, z
      <4> QED
        BY <4>1, <4>2
    <3> QED
      BY <3>1, <3>2 DEF x
  <2>4. \A i \in Idx : d[i] = IF i \in H THEN moved(cell[st][i]) ELSE cell[st][i]
    OBVIOUS
  <2>5. d = [i \in Idx |-> d[i]]
    OBVIOUS
  <2> HIDE DEF d, moved
  <2> QED
    BY <2>1, <2>3, <2>4, <2>5 DEF Cells, TamedIn
<1>4. h \in 0 .. Size
  <2>1. F \in SUBSET Idx
    BY DEF Freed, Used
  <2> HIDE DEF F
  <2>2. F # {} => Min(F) \in F
    BY <2>1, Sizes, MinIs
  <2>3. \A i \in Idx : i \in 0 .. Size
    BY SizesAssumption DEF Idx
  <2> QED
    BY <2>1, <2>2, <2>3, SizesAssumption
<1>5. /\ cell' = [cell EXCEPT ![st] = d]
      /\ head' = head \/ head' = [head EXCEPT ![st] = h]
      /\ UNCHANGED <<copies, data>>
  BY <1>1 DEF SeqAdd, Stored
<1> HIDE DEF st, d, h
<1> QED
  BY <1>1, <1>3, <1>4, <1>5, SwapIs

LEMMA SeqDivIs ==
  ASSUME Stored, NEW s \in Seqs, NEW p0, NEW p1, SeqDiv(s, p0, p1, 2)
  PROVE  Stored' /\ Tamed(cell, cell') /\ UNCHANGED <<copies, data>>
<1> DEFINE st == StreamOf(s)
           H  == Hits(cell[st], s, Range0(p0, p1))
           divided(x) == [x EXCEPT !.pos = @ \div 2,
                                   !.shift = @ + (x.pos - (x.pos \div 2))]
           d  == [i \in Idx |-> IF i \in H THEN divided(cell[st][i]) ELSE cell[st][i]]
<1>1. st \in Streams /\ cell[st] \in Cells
  BY Sizes DEF Stored
<1>2. \A i \in H : divided(cell[st][i]).shift <= MaxPos
  BY DEF SeqDiv
<1>3. d \in Cells /\ TamedIn(cell[st], d)
  <2>1. \A i \in Idx : cell[st][i] \in SoundCell
    BY <1>1 DEF Cells
  <2>2. \A i \in H : s \in cell[st][i].seq /\ i \in Idx
    BY DEF Hits
  <2> HIDE DEF H
  <2>3. ASSUME NEW i \in H
        PROVE  /\ divided(cell[st][i]) \in SoundCell
               /\ cell[st][i].pos # -1 /\ divided(cell[st][i]).tok = cell[st][i].tok
    <3> DEFINE x == cell[st][i]
               y == x.pos \div 2
               z == x.shift + (x.pos - y)
    <3>1. x \in SoundCell /\ x.seq # {} /\ x.pos # -1
      BY <2>1, <2>2 DEF SoundCell
    <3>2. divided(x).shift <= MaxPos
      BY <1>2
    <3> HIDE DEF x
    <3>3. x.pos \in 0 .. MaxPos /\ x.shift \in -MaxPos .. MaxPos
      BY <3>1, SizesAssumption DEF SoundCell
    <3>4. divided(x) = [x EXCEPT !.pos = y, !.shift = z]
      BY <3>1 DEF SoundCell
    <3>5. divided(x).shift = z
      BY <3>1, <3>4 DEF SoundCell
    <3>6. y \in 0 .. MaxPos /\ z \in -MaxPos .. MaxPos
      <4>1. y \in 0 .. MaxPos /\ y <= x.pos
        BY <3>3, SizesAssumption
      <4>2. z <= MaxPos
        BY <3>2, <3>5
      <4> QED
        BY <4>1, <4>2, <3>3, SizesAssumption
    <3> HIDE DEF y, z
    <3>7. [x EXCEPT !.pos = y, !.shift = z] \in SoundCell
          /\ [x EXCEPT !.pos = y, !.shift = z].tok = x.tok
      BY <3>1, <3>6, MovedIs, ZenonT(60)
    <3>9. divided(x) \in SoundCell /\ divided(x).tok = x.tok
      BY <3>4, <3>7
    <3> QED
      BY <3>1, <3>9 DEF x
  <2>4. \A i \in Idx : d[i] = IF i \in H THEN divided(cell[st][i]) ELSE cell[st][i]
    OBVIOUS
  <2>5. d = [i \in Idx |-> d[i]]
    OBVIOUS
  <2> HIDE DEF d, divided
  <2> QED
    BY <2>1, <2>3, <2>4, <2>5 DEF Cells, TamedIn
<1>4. cell' = [cell EXCEPT ![st] = d] /\ UNCHANGED <<head, copies, data>>
  BY <1>1 DEF SeqDiv, Stored
<1>5. 0 \in 0 .. Size
  BY SizesAssumption
<1> HIDE DEF st, d
<1> QED
  BY <1>1, <1>3, <1>4, <1>5, SwapIs

LEMMA ClearIs ==
  ASSUME Stored, NEW wipe \in BOOLEAN, Clear(wipe)
  PROVE  Stored' /\ \A st \in Streams, i \in Idx : cell'[st][i].pos = -1
<1>1. cell' \in [Streams -> Cells] /\ head' \in [Streams -> 0 .. Size]
  BY EmptySound, SizesAssumption DEF Clear, Cells
<1>2. data' \in [Streams -> [Idx -> Toks \cup {NoTok, Garbage}]]
  BY DEF Clear, Stored
<1>3. \A st \in Streams, i \in Idx : cell'[st][i].pos = -1
  BY EmptySound DEF Clear
<1> QED
  BY <1>1, <1>2, <1>3 DEF Clear, Stored

LEMMA SeqCpStreamIs ==
  ASSUME Stored, NEW src \in Seqs, NEW dst \in Seqs, NEW p0, NEW p1,
         SeqCpStream(src, dst, p0, p1)
  PROVE  /\ Stored' /\ data' = data
         /\ copies' = Append(copies, [src |-> StreamOf(src), dst |-> StreamOf(dst)])
         /\ \A st \in Streams : st # StreamOf(dst) => cell'[st] = cell[st]
         /\ TamedIn(cell[StreamOf(src)], cell'[StreamOf(dst)])
<1> DEFINE s0 == StreamOf(src)
           s1 == StreamOf(dst)
           d  == [i \in Idx |-> IF src \in cell[s0][i].seq
                    THEN [cell[s0][i] EXCEPT !.seq = {dst}] ELSE EmptyCell]
<1>1. s0 \in Streams /\ s1 \in Streams
  BY Sizes
<1>2. d \in Cells /\ TamedIn(cell[s0], d)
  <2>1. \A i \in Idx : cell[s0][i] \in SoundCell
    BY <1>1 DEF Stored, Cells
  <2>2. ASSUME NEW i \in Idx, src \in cell[s0][i].seq
        PROVE  /\ [cell[s0][i] EXCEPT !.seq = {dst}] \in SoundCell
               /\ cell[s0][i].pos # -1
               /\ [cell[s0][i] EXCEPT !.seq = {dst}].tok = cell[s0][i].tok
    <3>1. cell[s0][i].seq # {} /\ cell[s0][i].pos # -1
      BY <2>1, <2>2 DEF SoundCell
    <3> QED
      BY <2>1, <3>1 DEF SoundCell
  <2>3. \A i \in Idx : d[i] = IF src \in cell[s0][i].seq
                              THEN [cell[s0][i] EXCEPT !.seq = {dst}] ELSE EmptyCell
    OBVIOUS
  <2>4. d = [i \in Idx |-> d[i]]
    OBVIOUS
  <2> HIDE DEF d, s0
  <2> QED
    BY <2>2, <2>3, <2>4, EmptySound DEF Cells, TamedIn
<1>3. /\ cell' = [cell EXCEPT ![s1] = d] /\ head' = [head EXCEPT ![s1] = head[s0]]
      /\ copies' = Append(copies, [src |-> s0, dst |-> s1]) /\ data' = data
  BY DEF SeqCpStream
<1> HIDE DEF d, s0, s1
<1>4. copies' \in Seq([src : Streams, dst : Streams])
  BY <1>1, <1>3 DEF Stored
<1>5. cell' \in [Streams -> Cells] /\ head' \in [Streams -> 0 .. Size]
  BY <1>1, <1>2, <1>3 DEF Stored
<1>6. Stored'
  BY <1>3, <1>4, <1>5 DEF Stored
<1>7. cell'[s1] = d /\ \A st \in Streams : st # s1 => cell'[st] = cell[st]
  BY <1>1, <1>3 DEF Stored
<1>8. TamedIn(cell[s0], cell'[s1])
  BY <1>2, <1>7
<1> QED
  BY <1>3, <1>6, <1>7, <1>8 DEF s0, s1

-----------------------------------------------------------------------------
(* A decode starts. *)

LEMMA PosMaxIs ==
  ASSUME NEW c \in Cells, NEW s
  PROVE  /\ PosMax(c, s) \in -1 .. MaxPos
         /\ PosMax(c, s) = -1 \/ PosMax(c, s) \in Held(c, s)
         /\ \A p \in Held(c, s) : p \in Int /\ PosMax(c, s) >= p
<1> DEFINE T == Held(c, s) \cup {-1}
<1>1. \A i \in Idx : c[i].pos \in -1 .. MaxPos
  BY DEF Cells, SoundCell
<1>2. T \subseteq -1 .. MaxPos /\ T # {}
  BY <1>1, SizesAssumption DEF Held
<1>3. -1 \in Int /\ MaxPos \in Int
  BY SizesAssumption
<1> HIDE DEF T
<1>4. Max(T) \in T /\ \A y \in T : Max(T) >= y
  BY <1>2, <1>3, MaxIs
<1>5. PosMax(c, s) = Max(T)
  BY DEF PosMax, T
<1>6. \A p \in Held(c, s) : p \in T
  BY DEF T
<1>7. \A p \in T : p \in Int
  BY <1>2
<1> QED
  BY <1>2, <1>4, <1>5, <1>6, <1>7 DEF T

LEMMA RunIs ==
  ASSUME Stored, NEW G \in SeqSets, NEW n \in Nat, NEW x \in Toks, Appendable(G, n)
  PROVE  Run(G, n, x) \in Seq(Token)
<1>1. Min(G) \in Seqs
  <2>1. G \subseteq Nat /\ G # {}
    BY Sizes
  <2>2. Min(G) \in G
    BY <2>1, MinIs
  <2> QED
    BY <2>2, Sizes
<1>2. LastPos(Min(G)) \in -1 .. MaxPos
  <2>1. cell[StreamOf(Min(G))] \in Cells
    BY <1>1, Sizes DEF Stored
  <2> QED
    BY <2>1, PosMaxIs DEF LastPos
<1>3. LastPos(Min(G)) + n <= MaxPos
  BY DEF Appendable
<1>4. ASSUME NEW k \in 1 .. n
      PROVE  [pos |-> LastPos(Min(G)) + k, seqs |-> G, tok |-> x] \in Token
  <2>1. LastPos(Min(G)) + k \in 0 .. MaxPos
    BY <1>2, <1>3, SizesAssumption
  <2> QED
    BY <2>1 DEF Token
<1> DEFINE r == [k \in 1 .. n |-> [pos |-> LastPos(Min(G)) + k, seqs |-> G, tok |-> x]]
<1>5. r \in [1 .. n -> Token]
  BY <1>4
<1>6. r \in Seq(Token)
  BY <1>5
<1> QED
  BY <1>6 DEF Run

(* Wherever a batch is cut, the ubatches are sequences of its tokens.      *)
LEMMA SplitsOK ==
  ASSUME NEW b1 \in Seq(Token), NEW b2 \in Seq(Token), NEW us \in Splits(b1, b2)
  PROVE  us \in Seq(Seq(Token)) /\ Len(us) > 0
<1>1. ASSUME NEW b \in Seq(Token), NEW v \in Cuts(b)
      PROVE  v \in Seq(Seq(Token)) /\ Len(v) > 0
  <2>1. CASE v = <<b>>
    BY <2>1
  <2>2. CASE \E k \in 1 .. Len(b) - 1 : v = <<SubSeq(b, 1, k), SubSeq(b, k + 1, Len(b))>>
    <3>1. PICK k \in 1 .. Len(b) - 1 : v = <<SubSeq(b, 1, k), SubSeq(b, k + 1, Len(b))>>
      BY <2>2
    <3>2. SubSeq(b, 1, k) \in Seq(Token) /\ SubSeq(b, k + 1, Len(b)) \in Seq(Token)
      <4>1. Len(b) \in Nat /\ k \in Nat /\ k + 1 \in Nat
        OBVIOUS
      <4>2. \A j \in 1 .. Len(b) : b[j] \in Token
        OBVIOUS
      <4> QED
        BY <4>1, <4>2, SubSeqProperties
    <3> QED
      BY <3>1, <3>2
  <2> QED
    BY <2>1, <2>2 DEF Cuts
<1>2. Equal(b1, b2) \in Seq(Seq(Token)) /\ Len(Equal(b1, b2)) > 0
  <2> DEFINE m == Min({Len(b1), Len(b2)})
             both == SubSeq(b1, 1, m) \o SubSeq(b2, 1, m)
             rest == SubSeq(b1, m + 1, Len(b1)) \o SubSeq(b2, m + 1, Len(b2))
  <2>1. m \in Nat /\ m <= Len(b1) /\ m <= Len(b2)
    <3>1. {Len(b1), Len(b2)} \subseteq Nat /\ {Len(b1), Len(b2)} # {}
      OBVIOUS
    <3>2. m \in {Len(b1), Len(b2)} /\ \A y \in {Len(b1), Len(b2)} : m <= y
      BY <3>1, MinIs
    <3> QED
      BY <3>1, <3>2
  <2> HIDE DEF m
  <2>2. /\ SubSeq(b1, 1, m) \in Seq(Token) /\ SubSeq(b1, m + 1, Len(b1)) \in Seq(Token)
        /\ SubSeq(b2, 1, m) \in Seq(Token) /\ SubSeq(b2, m + 1, Len(b2)) \in Seq(Token)
    BY <2>1, SubSeqProperties
  <2>3. both \in Seq(Token) /\ rest \in Seq(Token)
    BY <2>2, ConcatProperties
  <2>4. Equal(b1, b2) = IF rest = <<>> THEN <<both>> ELSE <<both, rest>>
    BY DEF Equal, m
  <2> HIDE DEF both, rest
  <2> QED
    BY <2>3, <2>4
<1>3. b1 \o b2 \in Seq(Token)
  OBVIOUS
<1>4. CASE us \in Cuts(b1 \o b2)
  BY <1>1, <1>3, <1>4
<1>5. CASE us = Equal(b1, b2)
  BY <1>2, <1>5
<1>6. CASE us = <<b1, b2>>
  BY <1>6
<1> QED
  BY <1>4, <1>5, <1>6 DEF Splits

(* The pending copies are carried out in one way.                          *)
LEMMA OriginsOne ==
  ASSUME Stored, NEW o \in Origins(copies), NEW p \in Origins(copies)
  PROVE  o[Len(copies)] = p[Len(copies)]
<1> DEFINE T == {k \in 0 .. Len(copies) : o[k] # p[k]}
<1>1. Len(copies) \in Nat
  BY DEF Stored
<1>2. ASSUME T # {} PROVE FALSE
  <2>1. T \subseteq Nat
    OBVIOUS
  <2>2. PICK x \in T : \A y \in T : x <= y
    BY <1>2, <2>1, LeastNat
  <2>3. x # 0
    BY DEF Origins
  <2>4. x - 1 \in 0 .. Len(copies) /\ ~(x <= x - 1) /\ x \in 1 .. Len(copies)
    BY <1>1, <2>3
  <2>5. o[x - 1] = p[x - 1]
    BY <2>2, <2>4
  <2>6. o[x] = CopyRows(o[x - 1], copies[x]) /\ p[x] = CopyRows(p[x - 1], copies[x])
    BY <2>4 DEF Origins
  <2> QED
    BY <2>5, <2>6
<1> QED
  BY <1>1, <1>2

LEMMA OriginsTyped ==
  ASSUME Stored, NEW o \in Origins(copies)
  PROVE  o[Len(copies)] \in [Streams -> Streams]
<1>1. Len(copies) \in 0 .. Len(copies)
  BY DEF Stored
<1> QED
  BY <1>1 DEF Origins

LEMMA UnshiftedIs ==
  ASSUME NEW c \in [Streams -> Cells]
  PROVE  /\ Unshifted(c) \in [Streams -> Cells]
         /\ \A st \in Streams, i \in Idx :
              /\ Unshifted(c)[st][i].pos = c[st][i].pos /\ Unshifted(c)[st][i].seq = c[st][i].seq
              /\ Unshifted(c)[st][i].tok = c[st][i].tok /\ Unshifted(c)[st][i].shift = 0
<1>1. ASSUME NEW st \in Streams, NEW i \in Idx
      PROVE  LET x == [c[st][i] EXCEPT !.shift = 0]
             IN  /\ x \in SoundCell /\ x.pos = c[st][i].pos /\ x.seq = c[st][i].seq
                 /\ x.tok = c[st][i].tok /\ x.shift = 0
  <2>1. c[st][i] \in SoundCell
    BY DEF Cells
  <2>2. c[st][i] = EmptyCell => [c[st][i] EXCEPT !.shift = 0] = EmptyCell
    BY DEF EmptyCell
  <2>3. 0 \in -MaxPos .. MaxPos
    BY SizesAssumption
  <2> QED
    BY <2>1, <2>2, <2>3 DEF SoundCell
<1> QED
  BY <1>1 DEF Unshifted, Cells

LEMMA DecodeStartIs ==
  ASSUME CacheOK, NEW us \in Seq(Seq(Token)), Len(us) > 0, DecodeStart(us)
  PROVE  CacheOK'
<1>1. cell' \in [Streams -> Cells]
  BY UnshiftedIs DEF CacheOK, Stored, DecodeStart
<1>2. data' \in [Streams -> [Idx -> Toks \cup {NoTok, Garbage}]]
  <2>1. PICK o \in Origins(copies) : data' = Copied(o)
    BY DEF DecodeStart
  <2>2. o[Len(copies)] \in [Streams -> Streams]
    BY OriginsTyped DEF CacheOK
  <2> QED
    BY <2>1, <2>2 DEF Copied, CacheOK, Stored
<1>3. Stored'
  BY <1>1, <1>2 DEF Stored, DecodeStart, CacheOK
<1>4. Sequences' /\ Phased'
  BY DEF DecodeStart, Sequences, Phased
<1> QED
  BY <1>3, <1>4 DEF CacheOK
-----------------------------------------------------------------------------
(* A ubatch takes its slot. *)

InSlot(slot, st, i) == st \in DOMAIN slot /\ i \in Range(slot[st])

LEMMA TokensOnIs ==
  ASSUME NEW u \in Seq(Token), NEW st \in Streams
  PROVE  /\ TokensOn(st, u) \subseteq DOMAIN u /\ TokensOn(st, u) \subseteq Nat
         /\ st \in StreamsOf(u) =>
              Max(TokensOn(st, u)) \in TokensOn(st, u)
              /\ \A k \in TokensOn(st, u) : k <= Max(TokensOn(st, u))
<1>1. TokensOn(st, u) \subseteq 1 .. Len(u) /\ 1 \in Int /\ Len(u) \in Int /\ DOMAIN u = 1 .. Len(u)
  BY DEF TokensOn
<1>2. ASSUME st \in StreamsOf(u)
      PROVE  /\ Max(TokensOn(st, u)) \in TokensOn(st, u)
             /\ \A k \in TokensOn(st, u) : Max(TokensOn(st, u)) >= k
  <2>1. TokensOn(st, u) # {}
    BY <1>2 DEF StreamsOf
  <2> QED
    BY <1>1, <2>1, MaxIs
<1> QED
  BY <1>1, <1>2

LEMMA PlacedIs ==
  ASSUME NEW c \in Cells, NEW u \in Seq(Token), NEW K \in SUBSET DOMAIN u,
         NEW slot \in [K -> Idx]
  PROVE  /\ Placed(c, slot, u) \in Cells
         /\ \A i \in Idx :
              /\ i \notin Range(slot) => Placed(c, slot, u)[i] = c[i]
              /\ i \in Range(slot) =>
                   /\ TokenAt(slot, i) \in K /\ slot[TokenAt(slot, i)] = i
                   /\ u[TokenAt(slot, i)] \in Token
                   /\ Placed(c, slot, u)[i] =
                        [pos   |-> u[TokenAt(slot, i)].pos, seq |-> u[TokenAt(slot, i)].seqs,
                         shift |-> 0,                       tok |-> u[TokenAt(slot, i)].tok]
                   /\ Placed(c, slot, u)[i].pos # -1
<1>1. ASSUME NEW i \in Idx, i \in Range(slot)
      PROVE  TokenAt(slot, i) \in K /\ slot[TokenAt(slot, i)] = i
  <2>1. \E k \in DOMAIN slot : slot[k] = i
    BY <1>1 DEF Range
  <2> QED
    BY <2>1 DEF TokenAt
<1>2. ASSUME NEW t \in Token
      PROVE  LET x == [pos |-> t.pos, seq |-> t.seqs, shift |-> 0, tok |-> t.tok]
             IN  x \in SoundCell /\ x.pos # -1
  <2>1. t.pos \in 0 .. MaxPos /\ t.pos \in -1 .. MaxPos /\ t.pos # -1 /\ 0 \in -MaxPos .. MaxPos
    BY SizesAssumption DEF Token
  <2>2. t.seqs \in SUBSET Seqs /\ t.seqs # {} /\ t.tok \in Toks
    BY Sizes DEF Token
  <2> QED
    BY <2>1, <2>2 DEF SoundCell
<1>3. ASSUME NEW i \in Idx, i \in Range(slot) PROVE u[TokenAt(slot, i)] \in Token
  BY <1>1, <1>3
<1>4. ASSUME NEW i \in Idx
      PROVE  Placed(c, slot, u)[i] =
               IF i \in Range(slot)
               THEN [pos   |-> u[TokenAt(slot, i)].pos, seq |-> u[TokenAt(slot, i)].seqs,
                     shift |-> 0,                       tok |-> u[TokenAt(slot, i)].tok]
               ELSE c[i]
  BY DEF Placed
<1>5. ASSUME NEW i \in Idx
      PROVE  Placed(c, slot, u)[i] \in SoundCell
             /\ (i \in Range(slot) => Placed(c, slot, u)[i].pos # -1)
  BY <1>2, <1>3, <1>4 DEF Cells
<1>6. Placed(c, slot, u) = [i \in Idx |-> Placed(c, slot, u)[i]]
  BY DEF Placed
<1>7. Placed(c, slot, u) \in Cells
  BY <1>5, <1>6 DEF Cells
<1> QED
  BY <1>1, <1>3, <1>4, <1>5, <1>7

LEMMA ApplyIs ==
  ASSUME NEW c \in Cells, NEW u \in Seq(Token), NEW K \in SUBSET DOMAIN u,
         NEW slot \in [K -> Idx]
  PROVE  /\ Apply(c, slot, u) \in Cells
         /\ \A i \in Idx : Apply(c, slot, u)[i].pos # -1 =>
              /\ Placed(c, slot, u)[i].pos # -1
              /\ Apply(c, slot, u)[i].pos = Placed(c, slot, u)[i].pos
              /\ Apply(c, slot, u)[i].tok = Placed(c, slot, u)[i].tok
              /\ Apply(c, slot, u)[i].shift = Placed(c, slot, u)[i].shift
              /\ Apply(c, slot, u)[i].seq \subseteq Placed(c, slot, u)[i].seq
<1> DEFINE purged(x) == {s \in x.seq : x.pos <= MaxRm(c, slot, s)}
           P == Placed(c, slot, u)
<1>1. P \in Cells
  BY PlacedIs
<1>2. Apply(c, slot, u) = [i \in Idx |-> Without(P[i], purged(P[i]))]
  BY DEF Apply
<1> HIDE DEF P, purged
<1>3. ASSUME NEW i \in Idx
      PROVE  /\ Without(P[i], purged(P[i])) \in SoundCell
             /\ Without(P[i], purged(P[i])).pos # -1 =>
                  /\ P[i].pos # -1 /\ Without(P[i], purged(P[i])).pos = P[i].pos
                  /\ Without(P[i], purged(P[i])).tok = P[i].tok
                  /\ Without(P[i], purged(P[i])).shift = P[i].shift
                  /\ Without(P[i], purged(P[i])).seq \subseteq P[i].seq
  <2>1. P[i] \in SoundCell
    BY <1>1 DEF Cells
  <2> DEFINE W == Without(P[i], purged(P[i]))
  <2>2. W.seq \subseteq P[i].seq \ purged(P[i])
    BY <2>1, WithoutIs
  <2>3. W \in SoundCell /\ (W.pos # -1 => P[i].pos # -1 /\ W.pos = P[i].pos
                                          /\ W.tok = P[i].tok /\ W.shift = P[i].shift)
    BY <2>1, WithoutIs
  <2> QED
    BY <2>2, <2>3
<1> QED
  BY <1>2, <1>3 DEF Cells, P

LEMMA AppliedIs ==
  ASSUME cell \in [Streams -> Cells], head \in [Streams -> 0 .. Size],
         NEW u \in Seq(Token), NEW slot, IsSlot(u, slot)
  PROVE  /\ Applied(u, slot) \in [Streams -> Cells]
         /\ HeadsAfter(u, slot) \in [Streams -> 0 .. Size]
         /\ \A st \in Streams, i \in Idx : Applied(u, slot)[st][i].pos # -1 =>
              IF InSlot(slot, st, i)
              THEN /\ TokenAt(slot[st], i) \in TokensOn(st, u)
                   /\ Applied(u, slot)[st][i].pos = u[TokenAt(slot[st], i)].pos
                   /\ Applied(u, slot)[st][i].tok = u[TokenAt(slot[st], i)].tok
                   /\ Applied(u, slot)[st][i].seq \subseteq u[TokenAt(slot[st], i)].seqs
              ELSE /\ cell[st][i].pos # -1
                   /\ Applied(u, slot)[st][i].tok = cell[st][i].tok
<1>1. ASSUME NEW st \in StreamsOf(u)
      PROVE  /\ st \in Streams /\ cell[st] \in Cells
             /\ TokensOn(st, u) \in SUBSET DOMAIN u
             /\ slot[st] \in [TokensOn(st, u) -> Idx]
  BY TokensOnIs DEF IsSlot, StreamsOf
<1>2. ASSUME NEW st \in Streams
      PROVE  Applied(u, slot)[st] = IF st \in StreamsOf(u)
                                    THEN Apply(cell[st], slot[st], u) ELSE cell[st]
  BY DEF Applied
<1>3. Applied(u, slot) \in [Streams -> Cells]
  <2>1. \A st \in StreamsOf(u) : Apply(cell[st], slot[st], u) \in Cells
    BY <1>1, ApplyIs
  <2> QED
    BY <2>1 DEF Applied
<1>4. HeadsAfter(u, slot) \in [Streams -> 0 .. Size]
  <2>1. ASSUME NEW st \in StreamsOf(u) PROVE slot[st][Max(TokensOn(st, u))] + 1 \in 0 .. Size
    <3>1. slot[st][Max(TokensOn(st, u))] \in Idx
      BY <1>1, TokensOnIs
    <3> QED
      BY <3>1, SizesAssumption DEF Idx
  <2> QED
    BY <2>1 DEF HeadsAfter
<1>5. ASSUME NEW st \in Streams, NEW i \in Idx, Applied(u, slot)[st][i].pos # -1
      PROVE  IF InSlot(slot, st, i)
             THEN /\ TokenAt(slot[st], i) \in TokensOn(st, u)
                  /\ Applied(u, slot)[st][i].pos = u[TokenAt(slot[st], i)].pos
                  /\ Applied(u, slot)[st][i].tok = u[TokenAt(slot[st], i)].tok
                  /\ Applied(u, slot)[st][i].seq \subseteq u[TokenAt(slot[st], i)].seqs
             ELSE /\ cell[st][i].pos # -1
                  /\ Applied(u, slot)[st][i].tok = cell[st][i].tok
  <2>1. CASE st \notin StreamsOf(u)
    <3>1. ~InSlot(slot, st, i) /\ Applied(u, slot)[st] = cell[st]
      BY <1>2, <2>1 DEF InSlot, IsSlot
    <3> QED
      BY <3>1, <1>5
  <2>2. CASE st \in StreamsOf(u)
    <3> DEFINE c == cell[st]
               A == Apply(c, slot[st], u)
               P == Placed(c, slot[st], u)
               k == TokenAt(slot[st], i)
    <3>1. Applied(u, slot)[st] = A /\ (InSlot(slot, st, i) <=> i \in Range(slot[st]))
      BY <1>2, <2>2 DEF InSlot, IsSlot
    <3>2. A[i].pos # -1
      BY <1>5, <3>1
    <3>3. /\ c \in Cells /\ TokensOn(st, u) \in SUBSET DOMAIN u
          /\ slot[st] \in [TokensOn(st, u) -> Idx]
      BY <1>1, <2>2
    <3> HIDE DEF c
    <3>4. /\ P[i].pos # -1 /\ A[i].pos = P[i].pos /\ A[i].tok = P[i].tok
          /\ A[i].seq \subseteq P[i].seq
      BY <3>2, <3>3, ApplyIs
    <3>5. i \notin Range(slot[st]) => P[i] = c[i]
      BY DEF Placed
    <3>6. i \in Range(slot[st]) =>
            /\ k \in TokensOn(st, u)
            /\ P[i] = [pos |-> u[k].pos, seq |-> u[k].seqs, shift |-> 0, tok |-> u[k].tok]
      BY ONLY <3>3, PlacedIs, u \in Seq(Token), i \in Idx
    <3>7. i \in Range(slot[st]) =>
            P[i].pos = u[k].pos /\ P[i].seq = u[k].seqs /\ P[i].tok = u[k].tok
      BY <3>6
    <3> HIDE DEF A, P, k
    <3>8. CASE InSlot(slot, st, i)
      BY <3>1, <3>4, <3>6, <3>7, <3>8 DEF k
    <3>9. CASE ~InSlot(slot, st, i)
      BY <3>1, <3>4, <3>5, <3>9 DEF c
    <3> QED
      BY <3>8, <3>9
  <2> QED
    BY <2>1, <2>2
<1> QED
  BY <1>3, <1>4, <1>5

(* What find_slot returns is a slot of free cells.                         *)
LEMMA SlotsForIs ==
  ASSUME head \in [Streams -> 0 .. Size],
         NEW u \in Seq(Token), NEW slot \in SlotsFor(u)
  PROVE  /\ IsSlot(u, slot) /\ slot \in Slot
         /\ \A st \in StreamsOf(u) : \A i \in Range(slot[st]) : Usable(cell[st], i)
<1>1. DOMAIN slot = StreamsOf(u)
      /\ \A st \in StreamsOf(u) : slot[st] \in FindSlot(cell[st], head[st], TokensOn(st, u))
  BY DEF SlotsFor
<1>2. ASSUME NEW st \in StreamsOf(u)
      PROVE  /\ slot[st] \in [TokensOn(st, u) -> Idx]
             /\ \A k, l \in TokensOn(st, u) : slot[st][k] = slot[st][l] => k = l
             /\ \A i \in Range(slot[st]) : Usable(cell[st], i)
  <2> DEFINE K == TokensOn(st, u)
             s == slot[st]
             h == head[st]
             h0 == IF h > Cardinality(Used(cell[st])) + 2 * Cardinality(K) THEN 0 ELSE h
             tried(i) == (i - h0) % Size
  <2>1. st \in Streams /\ K \subseteq Nat
    BY TokensOnIs DEF StreamsOf
  <2>2. /\ s \in [K -> {i \in Idx : Usable(cell[st], i)}]
        /\ \A k, l \in K : k < l => tried(s[k]) < tried(s[l])
    BY <1>1 DEF FindSlot
  <2>3. \A i \in Idx : tried(i) \in Int
    <3>1. h0 \in Int
      BY <2>1
    <3> HIDE DEF h0
    <3> QED
      BY <3>1, SizesAssumption DEF Idx
  <2>4. \A k, l \in K : s[k] = s[l] => ~(k < l)
    <3>1. \A t \in Int : ~(t < t)
      OBVIOUS
    <3>2. \A k \in K : s[k] \in Idx
      BY <2>2
    <3> HIDE DEF tried, K, s
    <3> QED
      BY <2>2, <2>3, <3>1, <3>2
  <2>5. \A k, l \in K : s[k] = s[l] => k = l
    <3> HIDE DEF K, s
    <3> QED
      BY <2>1, <2>4
  <2> QED
    BY <2>2, <2>5 DEF Range
<1>3. slot \in Slot
  <2> DEFINE V == UNION {[K -> Idx] : K \in SUBSET Nat}
  <2>1. \A st \in StreamsOf(u) : slot[st] \in V
    BY <1>2, TokensOnIs DEF StreamsOf
  <2>2. slot = [st \in StreamsOf(u) |-> slot[st]]
    BY DEF SlotsFor
  <2> HIDE DEF V
  <2>3. slot \in [StreamsOf(u) -> V]
    BY <2>1, <2>2
  <2>4. StreamsOf(u) \in SUBSET Streams
    BY DEF StreamsOf
  <2> QED
    BY <2>3, <2>4 DEF Slot, V
<1> QED
  BY <1>1, <1>2, <1>3 DEF IsSlot
-----------------------------------------------------------------------------
(* The steps of a running decode keep the invariant.                       *)

LEMMA NoneLeft == \A a, b : a = 0 /\ b = 0 => a <= b /\ 1 .. a = {}
OBVIOUS

LEMMA Idling ==
  ASSUME batch' = <<>>, slots' = <<>>, undo' = <<>>, phase' = "idle",
         ret' \in {None, "ok", "no slot", "failed"}
  PROVE  Sequences' /\ Phased'
<1>1. <<>> \in Seq(Seq(Token)) /\ <<>> \in Seq(Slot) /\ <<>> \in Seq(Undo)
  BY EmptySeq
<1>2. Len(<<>>) = 0
  BY EmptySeq
<1>3. Sequences'
  <2>1. batch' \in Seq(Seq(Token)) /\ slots' \in Seq(Slot) /\ undo' \in Seq(Undo)
    BY <1>1
  <2>2. Len(slots') = 0 /\ Len(batch') = 0 /\ Len(undo') = 0
    BY <1>2
  <2>3. Len(slots') <= Len(batch') /\ Len(undo') <= Len(slots')
    BY <2>2, NoneLeft, Zenon
  <2>4. 1 .. Len(slots') = {}
    BY <2>2, NoneLeft, Zenon
  <2> QED
    BY <2>1, <2>3, <2>4 DEF Sequences
<1>4. Phased'
  BY DEF Phased
<1> QED
  BY <1>3, <1>4

LEMMA PlaceOK == CacheOK /\ PlaceUbatch => CacheOK'
<1> SUFFICES ASSUME CacheOK, PlaceUbatch PROVE CacheOK'
  OBVIOUS
<1> DEFINE n == Len(slots) + 1
           u == batch[n]
<1>1. /\ Stored /\ Sequences /\ phase = "place" /\ Len(slots) < Len(batch)
      /\ Len(undo) = Len(slots) /\ ret = None /\ copies = <<>>
  BY DEF CacheOK, Phased, PlaceUbatch
<1>2. n \in 1 .. Len(batch) /\ u \in Seq(Token)
  BY <1>1 DEF Sequences
<1>3. PICK slot \in SlotsFor(u) :
        /\ Emplace(u, slot)
        /\ slots' = Append(slots, slot)
        /\ undo' = <<[slot |-> slot, cell |-> cell, head |-> head]>> \o undo
  BY DEF PlaceUbatch
<1>4. IsSlot(u, slot) /\ slot \in Slot
  BY <1>1, <1>2, SlotsForIs DEF Stored
<1> HIDE DEF u
<1>5. cell' \in [Streams -> Cells] /\ head' \in [Streams -> 0 .. Size]
  BY <1>1, <1>2, <1>3, <1>4, AppliedIs DEF Emplace, Stored
<1>6. Stored' /\ batch' = batch /\ ret' = ret /\ copies' = copies
  BY <1>1, <1>5 DEF Stored, PlaceUbatch
<1>7. /\ slots' \in Seq(Slot) /\ Len(slots') = n
      /\ \A k \in 1 .. Len(slots) : slots'[k] = slots[k]
      /\ slots'[n] = slot
  BY <1>1, <1>3, <1>4 DEF Sequences
<1>8. undo' \in Seq(Undo) /\ Len(undo') = Len(undo) + 1
  <2> DEFINE r == [slot |-> slot, cell |-> cell, head |-> head]
  <2>1. r \in Undo
    BY <1>1, <1>4 DEF Stored, Undo
  <2> HIDE DEF r
  <2>2. <<r>> \in Seq(Undo) /\ Len(<<r>>) = 1
    BY <2>1
  <2>3. undo \in Seq(Undo) /\ undo' = <<r>> \o undo
    BY <1>1, <1>3 DEF Sequences, r
  <2> QED
    BY <2>2, <2>3, ConcatProperties
<1>9. Sequences'
  <2>1. \A k \in 1 .. Len(slots') : IsSlot(batch'[k], slots'[k])
    <3> SUFFICES ASSUME NEW k \in 1 .. Len(slots') PROVE IsSlot(batch[k], slots'[k])
      BY <1>6
    <3>1. CASE k = n
      BY <3>1, <1>4, <1>7 DEF u
    <3>2. CASE k # n
      <4>1. k \in 1 .. Len(slots)
        BY <3>2, <1>1, <1>7 DEF Sequences
      <4> QED
        BY <4>1, <1>1, <1>7 DEF Sequences
    <3> QED
      BY <3>1, <3>2
  <2>2. Len(slots') <= Len(batch') /\ Len(undo') <= Len(slots')
    BY <1>1, <1>2, <1>6, <1>7, <1>8 DEF Sequences
  <2> QED
    BY <1>1, <1>6, <1>7, <1>8, <2>1, <2>2 DEF Sequences
<1>10. phase' = IF Len(slots') = Len(batch) THEN "restore" ELSE "place"
  BY DEF PlaceUbatch
<1>11. Phased'
  <2>1. Len(batch) \in Nat /\ Len(undo) \in Nat /\ n \in Nat /\ n <= Len(batch) /\ n > 0
    BY <1>1, <1>2, Lengths
  <2>2. Len(undo') = n
    BY <1>1, <1>8
  <2>3. CASE n = Len(batch)
    <3>1. phase' = "restore"
      BY <1>7, <1>10, <2>3
    <3> QED
      BY <1>1, <1>6, <1>7, <2>1, <2>2, <2>3, <3>1 DEF Phased
  <2>4. CASE n # Len(batch)
    <3>1. phase' = "place" /\ n < Len(batch)
      BY <1>7, <1>10, <2>1, <2>4
    <3> QED
      BY <1>1, <1>6, <1>7, <2>2, <3>1 DEF Phased
  <2> QED
    BY <2>3, <2>4
<1> QED
  BY <1>6, <1>9, <1>11 DEF CacheOK

LEMMA PlaceFailsOK == CacheOK /\ PlaceFails => CacheOK'
<1> SUFFICES ASSUME CacheOK, PlaceFails PROVE CacheOK'
  OBVIOUS
<1>1. Stored'
  BY DEF CacheOK, Stored, PlaceFails, store
<1>2. phase = "place" /\ Len(undo) = Len(slots) /\ copies = <<>> /\ Sequences
  BY DEF CacheOK, Phased, PlaceFails
<1>3. /\ phase' = IF undo = <<>> THEN "idle" ELSE "restore"
      /\ ret' = "no slot" /\ undo' = undo /\ copies' = copies
      /\ batch' = IF undo = <<>> THEN <<>> ELSE batch
      /\ slots' = IF undo = <<>> THEN <<>> ELSE slots
  BY DEF PlaceFails, store
<1>4. Sequences' /\ Phased'
  <2>1. CASE undo = <<>>
    BY <2>1, <1>3, Idling
  <2>2. CASE undo # <<>>
    <3>1. Len(undo) > 0
      <4>1. undo \in Seq(Undo) /\ Len(undo) \in Nat
        BY <1>2, Lengths DEF Sequences
      <4> QED
        BY <2>2, <4>1, EmptySeq
    <3>2. Sequences'
      BY <2>2, <1>2, <1>3 DEF Sequences
    <3>3. Phased'
      BY <2>2, <1>2, <1>3, <3>1 DEF Phased
    <3> QED
      BY <3>2, <3>3
  <2> QED
    BY <2>1, <2>2
<1> QED
  BY <1>1, <1>4 DEF CacheOK

(* The place of a stream in a slot is a stream, whatever is put back there. *)
LEMMA RestoredHeads ==
  ASSUME head \in [Streams -> 0 .. Size], NEW r \in Undo
  PROVE  HeadsRestored(r) \in [Streams -> 0 .. Size]
<1>1. ASSUME NEW st \in Streams, st \in DOMAIN r.slot
      PROVE  Cardinality({x \in DOMAIN r.slot : x < st}) \in Streams
  <2> DEFINE B == {x \in DOMAIN r.slot : x < st}
  <2>1. st \in Nat /\ DOMAIN r.slot \subseteq Streams
    BY Sizes DEF Undo, Slot
  <2> DEFINE n == st - 1
  <2>2. B \subseteq 0 .. n
    <3> SUFFICES ASSUME NEW x \in B PROVE x \in 0 .. n
      OBVIOUS
    <3>1. x \in Nat /\ x < st
      BY <2>1, Sizes
    <3> QED
      BY <3>1, <2>1
  <2>3. IsFiniteSet(0 .. n) /\ Cardinality(0 .. n) = st
    <3>1. n \in Int /\ 0 \in Int /\ n + 1 = st /\ (0 > n => st = 0)
      BY <2>1
    <3> HIDE DEF n
    <3>2. IsFiniteSet(0 .. n) /\ Cardinality(0 .. n) = IF 0 > n THEN 0 ELSE n - 0 + 1
      BY <3>1, FS_Interval
    <3> QED
      BY <3>1, <3>2
  <2> HIDE DEF B, n
  <2>4. IsFiniteSet(B) /\ Cardinality(B) <= st
    BY <2>2, <2>3, FS_Subset
  <2>5. Cardinality(B) \in Nat
    BY <2>4, FS_CardinalityType
  <2>6. CASE Unified
    <3>1. st = 0
      BY <2>6 DEF Streams
    <3>2. Cardinality(B) = 0
      BY <2>4, <2>5, <3>1
    <3> QED
      BY <3>2, <2>6 DEF Streams, B
  <2>7. CASE ~Unified
    <3>1. st \in 0 .. NSeq - 1
      BY <2>7 DEF Streams, Seqs
    <3>2. Cardinality(B) \in 0 .. NSeq - 1
      BY <3>1, <2>1, <2>4, <2>5, SizesAssumption
    <3> QED
      BY <3>2, <2>7 DEF Streams, Seqs, B
  <2> QED
    BY <2>6, <2>7
<1>2. r.head \in [Streams -> 0 .. Size]
  BY DEF Undo
<1> QED
  BY <1>1, <1>2 DEF HeadsRestored

LEMMA RestoreOK == CacheOK /\ RestoreUbatch => CacheOK'
<1> SUFFICES ASSUME CacheOK, RestoreUbatch PROVE CacheOK'
  OBVIOUS
<1> DEFINE r == Head(undo)
           done == Len(undo) = 1
           found == ret # "no slot"
<1>1. /\ Stored /\ Sequences /\ phase = "restore" /\ Len(undo) > 0 /\ copies = <<>>
      /\ \/ ret = None /\ Len(slots) = Len(batch)
         \/ ret = "no slot"
  BY DEF CacheOK, Phased, RestoreUbatch
<1>2. r \in Undo /\ Tail(undo) \in Seq(Undo) /\ Len(Tail(undo)) = Len(undo) - 1
      /\ (done => Tail(undo) = <<>>)
  <2>1. undo \in Seq(Undo)
    BY <1>1 DEF Sequences
  <2> QED
    BY <1>1, <2>1, Popped
<1>3. cell' \in [Streams -> Cells]
  <2>1. ASSUME NEW st \in Streams, NEW i \in Idx
        PROVE  [r.cell[st][i] EXCEPT !.shift = 0] \in SoundCell
    <3>1. r.cell[st][i] \in SoundCell
      BY <1>2 DEF Undo, Cells
    <3> HIDE DEF r
    <3>2. 0 \in -MaxPos .. MaxPos
      BY SizesAssumption
    <3>3. r.cell[st][i] = EmptyCell => [r.cell[st][i] EXCEPT !.shift = 0] = EmptyCell
      BY DEF EmptyCell
    <3> QED
      BY <3>1, <3>2, <3>3 DEF SoundCell
  <2>2. \A st \in Streams, i \in Idx : cell[st][i] \in SoundCell
    BY <1>1 DEF Stored, Cells
  <2>3. cell' = [st \in Streams |-> [i \in Idx |->
                    IF st \in DOMAIN r.slot /\ i \in Range(r.slot[st])
                    THEN [r.cell[st][i] EXCEPT !.shift = 0] ELSE cell[st][i]]]
    BY DEF RestoreUbatch
  <2> HIDE DEF r
  <2> QED
    BY <2>1, <2>2, <2>3 DEF Cells
<1>4. head' \in [Streams -> 0 .. Size]
  BY <1>1, <1>2, RestoredHeads DEF RestoreUbatch, Stored
<1>5. Stored'
  BY <1>1, <1>3, <1>4 DEF Stored, RestoreUbatch
<1>6. /\ undo' = Tail(undo) /\ ret' = ret /\ copies' = copies
      /\ phase' = IF ~done THEN "restore" ELSE IF found THEN "compute" ELSE "idle"
      /\ batch' = IF done /\ ~found THEN <<>> ELSE batch
      /\ slots' = IF done /\ ~found THEN <<>> ELSE slots
  BY DEF RestoreUbatch
<1>7. Len(undo') = Len(undo) - 1 /\ undo' \in Seq(Undo) /\ (done => undo' = <<>>)
  BY <1>2, <1>6
<1>8. CASE done /\ ~found
  <2>1. batch' = <<>> /\ slots' = <<>> /\ undo' = <<>> /\ phase' = "idle" /\ ret' = "no slot"
    BY <1>6, <1>7, <1>8
  <2>2. Sequences' /\ Phased'
    BY <2>1, Idling
  <2> QED
    BY <1>5, <2>2 DEF CacheOK
<1>9. CASE ~(done /\ ~found)
  <2>1. batch' = batch /\ slots' = slots
    BY <1>6, <1>9
  <2> HIDE DEF r
  <2>2. Len(undo) \in Nat /\ Len(slots) \in Nat /\ Len(batch) \in Nat /\ Len(undo) <= Len(slots)
    BY <1>1, Lengths
  <2>3. Sequences'
    <3>1. Len(undo') <= Len(slots')
      BY <1>7, <2>1, <2>2
    <3> QED
      BY <1>1, <1>7, <2>1, <3>1 DEF Sequences
  <2>4. Phased'
    <3> QED
      <4>1. CASE done
        <5>1. phase' = "compute" /\ undo' = <<>> /\ ret' = ret /\ copies' = <<>>
          BY <1>1, <1>6, <1>7, <1>9, <4>1
        <5>2. ret = None /\ Len(slots) = Len(batch)
          BY <1>1, <1>9, <4>1
        <5>3. Len(batch) > 0
          BY <1>1, <2>2, <5>2
        <5> QED
          BY <2>1, <5>1, <5>2, <5>3 DEF Phased
      <4>2. CASE ~done
        <5>1. phase' = "restore" /\ ret' = ret /\ copies' = <<>> /\ Len(undo') > 0
          <6>1. Len(undo) # 1
            BY <4>2
          <6>2. Len(undo') > 0
            <7>1. Len(undo) > 0 /\ Len(undo') = Len(undo) - 1
              BY <1>1, <1>7
            <7> QED
              BY <6>1, <7>1, <2>2
          <6> QED
            BY <1>1, <1>6, <4>2, <6>2
        <5> QED
          BY <1>1, <2>1, <5>1 DEF Phased
      <4> QED
        BY <4>1, <4>2
  <2> QED
    BY <1>5, <2>3, <2>4 DEF CacheOK
<1> QED
  BY <1>8, <1>9

(* The first ubatch of a decode that is computing, and its slot.           *)
LEMMA Computing ==
  ASSUME CacheOK, phase = "compute"
  PROVE  /\ Stored /\ Sequences
         /\ Head(batch) = batch[1] /\ Head(slots) = slots[1]
         /\ Head(batch) \in Seq(Token) /\ IsSlot(Head(batch), Head(slots))
         /\ Tail(batch) \in Seq(Seq(Token)) /\ Tail(slots) \in Seq(Slot)
         /\ Len(Tail(batch)) = Len(batch) - 1 /\ Len(Tail(slots)) = Len(slots) - 1
         /\ \A k \in 1 .. Len(Tail(slots)) : IsSlot(Tail(batch)[k], Tail(slots)[k])
         /\ Len(slots) = Len(batch) /\ Len(batch) \in Nat \ {0}
         /\ undo = <<>> /\ copies = <<>> /\ ret = None
<1>1. /\ Stored /\ Sequences /\ Len(slots) = Len(batch) /\ Len(batch) > 0
      /\ undo = <<>> /\ copies = <<>> /\ ret = None
  BY DEF CacheOK, Phased
<1>2. batch \in Seq(Seq(Token)) /\ slots \in Seq(Slot) /\ batch # <<>> /\ slots # <<>>
  BY <1>1 DEF Sequences
<1>3. /\ Head(batch) = batch[1] /\ Head(slots) = slots[1] /\ Head(batch) \in Seq(Token)
      /\ Tail(batch) \in Seq(Seq(Token)) /\ Tail(slots) \in Seq(Slot)
      /\ Len(Tail(batch)) = Len(batch) - 1 /\ Len(Tail(slots)) = Len(slots) - 1
      /\ \A k \in 1 .. Len(batch) - 1 : Tail(batch)[k] = batch[k + 1]
      /\ \A k \in 1 .. Len(slots) - 1 : Tail(slots)[k] = slots[k + 1]
  BY <1>2, HeadTailProperties
<1>4. IsSlot(Head(batch), Head(slots))
  <2>1. 1 \in 1 .. Len(slots)
    BY <1>1, <1>2
  <2> QED
    BY <2>1, <1>1, <1>3 DEF Sequences
<1>5. \A k \in 1 .. Len(Tail(slots)) : IsSlot(Tail(batch)[k], Tail(slots)[k])
  <2> SUFFICES ASSUME NEW k \in 1 .. Len(Tail(slots)) PROVE IsSlot(Tail(batch)[k], Tail(slots)[k])
    OBVIOUS
  <2>1. k \in 1 .. Len(slots) - 1 /\ k + 1 \in 1 .. Len(slots)
    BY <1>2, <1>3
  <2> QED
    BY <2>1, <1>1, <1>3 DEF Sequences
<1> QED
  BY <1>1, <1>2, <1>3, <1>4, <1>5

LEMMA RowsTyped ==
  ASSUME Stored, NEW u \in Seq(Token), NEW slot, IsSlot(u, slot)
  PROVE  /\ RowsWritten(u, slot, LAMBDA t : t.tok) \in [Streams -> [Idx -> Toks \cup {NoTok, Garbage}]]
         /\ RowsWritten(u, slot, LAMBDA t : Garbage) \in [Streams -> [Idx -> Toks \cup {NoTok, Garbage}]]
         /\ \A st \in Streams, i \in Idx : ~InSlot(slot, st, i) =>
              /\ RowsWritten(u, slot, LAMBDA t : t.tok)[st][i] = data[st][i]
              /\ RowsWritten(u, slot, LAMBDA t : Garbage)[st][i] = data[st][i]
         /\ \A st \in Streams, i \in Idx : InSlot(slot, st, i) =>
              RowsWritten(u, slot, LAMBDA t : t.tok)[st][i] = u[TokenAt(slot[st], i)].tok
<1>1. ASSUME NEW st \in Streams, NEW i \in Idx, st \in StreamsOf(u), i \in Range(slot[st])
      PROVE  u[TokenAt(slot[st], i)].tok \in Toks
  <2>1. \E k \in DOMAIN slot[st] : slot[st][k] = i
    BY <1>1 DEF Range
  <2>2. TokenAt(slot[st], i) \in DOMAIN slot[st]
    BY <2>1 DEF TokenAt
  <2>3. TokenAt(slot[st], i) \in DOMAIN u
    BY <2>2, <1>1, TokensOnIs DEF IsSlot
  <2>4. u[TokenAt(slot[st], i)] \in Token
    BY <2>3
  <2> QED
    BY <2>4 DEF Token
<1>2. \A st \in Streams, i \in Idx : InSlot(slot, st, i) <=> st \in StreamsOf(u) /\ i \in Range(slot[st])
  BY DEF InSlot, IsSlot
<1>3. RowsWritten(u, slot, LAMBDA t : t.tok) \in [Streams -> [Idx -> Toks \cup {NoTok, Garbage}]]
  BY <1>1 DEF RowsWritten, Stored
<1>4. RowsWritten(u, slot, LAMBDA t : Garbage) \in [Streams -> [Idx -> Toks \cup {NoTok, Garbage}]]
  BY DEF RowsWritten, Stored
<1>5. ASSUME NEW st \in Streams, NEW i \in Idx, ~InSlot(slot, st, i)
      PROVE  /\ RowsWritten(u, slot, LAMBDA t : t.tok)[st][i] = data[st][i]
             /\ RowsWritten(u, slot, LAMBDA t : Garbage)[st][i] = data[st][i]
  BY <1>2, <1>5 DEF RowsWritten
<1>6. ASSUME NEW st \in Streams, NEW i \in Idx, InSlot(slot, st, i)
      PROVE  RowsWritten(u, slot, LAMBDA t : t.tok)[st][i] = u[TokenAt(slot[st], i)].tok
  BY <1>2, <1>6 DEF RowsWritten
<1> QED
  BY <1>3, <1>4, <1>5, <1>6

LEMMA ComputeOK == CacheOK /\ ComputeUbatch => CacheOK'
<1> SUFFICES ASSUME CacheOK, ComputeUbatch PROVE CacheOK'
  OBVIOUS
<1> DEFINE u == Head(batch)
           slot == Head(slots)
<1>1. /\ Stored /\ Sequences /\ u \in Seq(Token) /\ IsSlot(u, slot)
      /\ Tail(batch) \in Seq(Seq(Token)) /\ Tail(slots) \in Seq(Slot)
      /\ Len(Tail(batch)) = Len(batch) - 1 /\ Len(Tail(slots)) = Len(slots) - 1
      /\ \A k \in 1 .. Len(Tail(slots)) : IsSlot(Tail(batch)[k], Tail(slots)[k])
      /\ Len(slots) = Len(batch) /\ Len(batch) \in Nat \ {0}
      /\ undo = <<>> /\ copies = <<>> /\ ret = None
  BY Computing DEF ComputeUbatch
<1>2. /\ cell' = Applied(u, slot) /\ head' = HeadsAfter(u, slot)
      /\ data' = RowsWritten(u, slot, LAMBDA t : t.tok)
      /\ batch' = Tail(batch) /\ slots' = Tail(slots)
      /\ phase' = IF Len(batch) = 1 THEN "idle" ELSE "compute"
      /\ ret' = IF Len(batch) = 1 THEN "ok" ELSE ret
      /\ undo' = undo /\ copies' = copies
  BY DEF ComputeUbatch, Emplace
<1> HIDE DEF u, slot
<1>3. Stored'
  BY <1>1, <1>2, AppliedIs, RowsTyped DEF Stored
<1>4. Sequences'
  BY <1>1, <1>2 DEF Sequences
<1>5. Phased'
  <2>1. CASE Len(batch) = 1
    <3>1. batch' = <<>> /\ slots' = <<>>
      BY <1>1, <1>2, <2>1, SMTT(30)
    <3> QED
      BY <3>1, <1>1, <1>2, <2>1 DEF Phased
  <2>2. CASE Len(batch) # 1
    BY <1>1, <1>2, <2>2 DEF Phased
  <2> QED
    BY <2>1, <2>2
<1> QED
  BY <1>3, <1>4, <1>5 DEF CacheOK

LEMMA FailOK == CacheOK /\ FailUbatch => CacheOK'
<1> SUFFICES ASSUME CacheOK, FailUbatch PROVE CacheOK'
  OBVIOUS
<1> DEFINE u       == Head(batch)
           slot    == Head(slots)
           firsts  == {Min(u[k].seqs) : k \in DOMAIN u}
           placed  == Applied(u, slot)
           gone(x) == {s \in firsts \cap x.seq : x.pos >= FailedFrom(u, s)}
           kept(x) == IF gone(x) = {} THEN x ELSE Without(x, gone(x))
           F(st)   == {i \in Idx : placed[st][i].pos # -1 /\ cell'[st][i].pos = -1}
<1>1. /\ Stored /\ Sequences /\ u \in Seq(Token) /\ IsSlot(u, slot)
      /\ undo = <<>> /\ copies = <<>>
  <2>1. phase = "compute"
    BY DEF FailUbatch
  <2> HIDE DEF placed, gone, kept, F
  <2> QED
    BY <2>1, Computing, ZenonT(60)
<1>2. /\ cell' = [st \in Streams |-> [i \in Idx |-> kept(placed[st][i])]]
      /\ head' = [st \in Streams |-> HeadAt(F(st), HeadsAfter(u, slot)[st])]
      /\ data' = RowsWritten(u, slot, LAMBDA t : Garbage)
      /\ batch' = <<>> /\ slots' = <<>> /\ phase' = "idle" /\ ret' = "failed"
      /\ undo' = undo /\ copies' = copies
  BY DEF FailUbatch
<1> HIDE DEF u, slot
<1>3. placed \in [Streams -> Cells] /\ HeadsAfter(u, slot) \in [Streams -> 0 .. Size]
  BY <1>1, AppliedIs DEF Stored
<1>4. cell' \in [Streams -> Cells]
  <2>1. ASSUME NEW x \in SoundCell PROVE kept(x) \in SoundCell
    <3> HIDE DEF gone
    <3> QED
      BY WithoutIs
  <2> HIDE DEF kept, placed
  <2> QED
    BY <1>2, <1>3, <2>1 DEF Cells
<1>5. head' \in [Streams -> 0 .. Size]
  <2>1. ASSUME NEW st \in Streams PROVE HeadAt(F(st), HeadsAfter(u, slot)[st]) \in 0 .. Size
    <3>1. F(st) \in SUBSET Idx
      OBVIOUS
    <3> HIDE DEF F
    <3> QED
      BY <1>3, <3>1, HeadAtIs
  <2> HIDE DEF F
  <2> QED
    BY <1>2, <2>1
<1>6. Stored'
  BY <1>1, <1>2, <1>4, <1>5, RowsTyped DEF Stored
<1>7. Sequences' /\ Phased'
  BY <1>1, <1>2 DEF Sequences, Phased
<1> QED
  BY <1>6, <1>7 DEF CacheOK

LEMMA DecodeBatchIs ==
  ASSUME Stored, DecodeBatch
  PROVE  \E us \in Seq(Seq(Token)) : Len(us) > 0 /\ DecodeStart(us)
<1>1. PICK G1, G2 \in SeqSets, n1 \in 1 .. MaxBatch, n2 \in 0 .. MaxBatch, x \in Toks :
        /\ Appendable(G1, n1) /\ Appendable(G2, n2)
        /\ \E us \in Splits(Run(G1, n1, x), Run(G2, n2, x)) : DecodeStart(us)
  BY DEF DecodeBatch
<1>2. PICK us \in Splits(Run(G1, n1, x), Run(G2, n2, x)) : DecodeStart(us)
  BY <1>1
<1>3. n1 \in Nat /\ n2 \in Nat
  BY SizesAssumption
<1>4. Run(G1, n1, x) \in Seq(Token) /\ Run(G2, n2, x) \in Seq(Token)
  BY <1>1, <1>3, RunIs
<1>5. us \in Seq(Seq(Token)) /\ Len(us) > 0
  BY <1>2, <1>4, SplitsOK
<1> QED
  BY <1>2, <1>5

(* The calls that only take tokens away or move them.                      *)
Moving ==
  \/ \E s \in Seqs, r \in Ranges : SeqRm(s, r[1], r[2])
  \/ \E r \in Ranges : SeqRmAny(r[1], r[2])
  \/ \E s, d \in Seqs, r \in Ranges : SeqCpShare(s, d, r[1], r[2])
  \/ \E s \in Seqs : SeqKeep(s)
  \/ \E s \in Seqs, r \in Ranges, d \in {-1, 1} : SeqAdd(s, r[1], r[2], d)
  \/ \E s \in Seqs, r \in Ranges : SeqDiv(s, r[1], r[2], 2)

LEMMA MovingIs ==
  ASSUME Stored, Moving
  PROVE  Stored' /\ Tamed(cell, cell') /\ UNCHANGED <<copies, data>> /\ Call
<1>1. CASE \E s \in Seqs, r \in Ranges : SeqRm(s, r[1], r[2])
  <2>1. PICK s \in Seqs, r \in Ranges : SeqRm(s, r[1], r[2])
    BY <1>1
  <2>2. Stored' /\ Tamed(cell, cell') /\ UNCHANGED <<copies, data>>
    BY <2>1, SeqRmIs
  <2>3. Call
    BY <2>1 DEF SeqRm
  <2> QED
    BY <2>2, <2>3
<1>2. CASE \E r \in Ranges : SeqRmAny(r[1], r[2])
  <2>1. PICK r \in Ranges : SeqRmAny(r[1], r[2])
    BY <1>2
  <2>2. Stored' /\ Tamed(cell, cell') /\ UNCHANGED <<copies, data>>
    BY <2>1, SeqRmAnyIs
  <2>3. Call
    BY <2>1 DEF SeqRmAny
  <2> QED
    BY <2>2, <2>3
<1>3. CASE \E s, d \in Seqs, r \in Ranges : SeqCpShare(s, d, r[1], r[2])
  <2>1. PICK s, d \in Seqs, r \in Ranges : SeqCpShare(s, d, r[1], r[2])
    BY <1>3
  <2>2. Stored' /\ Tamed(cell, cell') /\ UNCHANGED <<copies, data>>
    BY <2>1, SeqCpShareIs
  <2>3. Call
    BY <2>1 DEF SeqCpShare
  <2> QED
    BY <2>2, <2>3
<1>4. CASE \E s \in Seqs : SeqKeep(s)
  <2>1. PICK s \in Seqs : SeqKeep(s)
    BY <1>4
  <2>2. Stored' /\ Tamed(cell, cell') /\ UNCHANGED <<copies, data>>
    BY <2>1, SeqKeepIs
  <2>3. Call
    BY <2>1 DEF SeqKeep
  <2> QED
    BY <2>2, <2>3
<1>5. CASE \E s \in Seqs, r \in Ranges, d \in {-1, 1} : SeqAdd(s, r[1], r[2], d)
  <2>1. PICK s \in Seqs, r \in Ranges, d \in {-1, 1} : SeqAdd(s, r[1], r[2], d)
    BY <1>5
  <2>2. Stored' /\ Tamed(cell, cell') /\ UNCHANGED <<copies, data>>
    BY <2>1, SeqAddIs
  <2>3. Call
    BY <2>1 DEF SeqAdd
  <2> QED
    BY <2>2, <2>3
<1>6. CASE \E s \in Seqs, r \in Ranges : SeqDiv(s, r[1], r[2], 2)
  <2>1. PICK s \in Seqs, r \in Ranges : SeqDiv(s, r[1], r[2], 2)
    BY <1>6
  <2>2. Stored' /\ Tamed(cell, cell') /\ UNCHANGED <<copies, data>>
    BY <2>1, SeqDivIs, SMTT(30)
  <2>3. Call
    BY <2>1 DEF SeqDiv
  <2> QED
    BY <2>2, <2>3
<1> QED
  BY <1>1, <1>2, <1>3, <1>4, <1>5, <1>6 DEF Moving

LEMMA CallingIs ==
  Calling =>
    \/ Moving
    \/ \E wipe \in BOOLEAN : Clear(wipe)
    \/ \E s, d \in Seqs, r \in Ranges : SeqCpStream(s, d, r[1], r[2])
    \/ DecodeBatch
BY Zenon DEF Calling, Moving

LEMMA CallingOK == CacheOK /\ Calling => CacheOK'
<1> SUFFICES ASSUME CacheOK, Calling PROVE CacheOK'
  OBVIOUS
<1>1. Stored
  BY DEF CacheOK
<1>2. CASE Moving
  BY <1>1, <1>2, MovingIs, CallOK
<1>3. CASE \E wipe \in BOOLEAN : Clear(wipe)
  <2>1. PICK wipe \in BOOLEAN : Clear(wipe)
    BY <1>3
  <2>2. Stored' /\ Call
    BY <1>1, <2>1, ClearIs DEF Clear
  <2> QED
    BY <2>2, CallOK
<1>4. CASE \E s, d \in Seqs, r \in Ranges : SeqCpStream(s, d, r[1], r[2])
  <2>1. PICK s, d \in Seqs, r \in Ranges : SeqCpStream(s, d, r[1], r[2])
    BY <1>4
  <2>2. Stored'
    BY <1>1, <2>1, SeqCpStreamIs
  <2>3. Call
    BY <2>1 DEF SeqCpStream
  <2> QED
    BY <2>2, <2>3, CallOK
<1>5. CASE DecodeBatch
  BY <1>1, <1>5, DecodeBatchIs, DecodeStartIs
<1> QED
  BY <1>2, <1>3, <1>4, <1>5, CallingIs

LEMMA StutterOK == CacheOK /\ UNCHANGED vars => CacheOK'
<1> SUFFICES ASSUME CacheOK, UNCHANGED vars PROVE CacheOK'
  OBVIOUS
<1>1. Stored'
  BY DEF CacheOK, Stored, vars
<1>2. Sequences'
  BY DEF CacheOK, Sequences, vars
<1>3. Phased'
  BY DEF CacheOK, Phased, vars
<1> QED
  BY <1>1, <1>2, <1>3 DEF CacheOK

LEMMA NextOK == CacheOK /\ [Next]_vars => CacheOK'
<1> SUFFICES ASSUME CacheOK, [Next]_vars PROVE CacheOK'
  OBVIOUS
<1>1. CASE Calling
  BY <1>1, CallingOK
<1>2. CASE PlaceUbatch
  BY <1>2, PlaceOK
<1>3. CASE PlaceFails
  BY <1>3, PlaceFailsOK
<1>4. CASE RestoreUbatch
  BY <1>4, RestoreOK
<1>5. CASE ComputeUbatch
  BY <1>5, ComputeOK
<1>6. CASE FailUbatch
  BY <1>6, FailOK
<1>7. CASE UNCHANGED vars
  BY <1>7, StutterOK
<1> QED
  BY <1>1, <1>2, <1>3, <1>4, <1>5, <1>6, <1>7 DEF Next

THEOREM AlwaysOK == Spec => []CacheOK
BY InitOK, NextOK, PTL DEF Spec

(* Every cell, head and pending copy stays what its type says, through     *)
(* any calls and decodes: an empty cell belongs to no sequence and keeps   *)
(* nothing of the token it held, a search never starts past the end of     *)
(* its stream, and the heads that prepare puts back, which it reads at the *)
(* place that a stream has in the slot, are always heads of some stream.   *)
THEOREM WellTyped == Spec => []TypeOK
BY AlwaysOK, OKTyped, PTL
-----------------------------------------------------------------------------
(* The rows of the cells.                                                  *)

(* What the cells were k ubatches ago, as prepare remembers it, and the    *)
(* cells that it will put back on its way there.                           *)
Past(k) == IF k = 0 THEN cell ELSE undo[k].cell
PutBack(k, st, i) == \E m \in k + 1 .. Len(undo) : InSlot(undo[m].slot, st, i)

(* Where prepare emplaced a token the rows are still those of an earlier   *)
(* cell; everywhere else, and at every state it goes back to, they are     *)
(* those of the cell.                                                      *)
RowsBehind ==
  \A k \in 0 .. Len(undo), st \in Streams, i \in Idx :
    Past(k)[st][i].pos # -1 =>
      data[st][i] = Past(k)[st][i].tok \/ PutBack(k, st, i)

RowsInv == RowsMatchCells /\ (phase # "idle" => RowsBehind)

LEMMA NoCopies ==
  ASSUME NEW cs, Len(cs) = 0
  PROVE  \E o \in Origins(cs) : o[Len(cs)] = [st \in Streams |-> st]
<1> DEFINE id == [st \in Streams |-> st]
           o  == [k \in 0 .. Len(cs) |-> id]
<1>1. o \in [0 .. Len(cs) -> [Streams -> Streams]] /\ o[0] = id /\ o[Len(cs)] = id
  OBVIOUS
<1>2. \A k \in 1 .. Len(cs) : FALSE
  OBVIOUS
<1> HIDE DEF o
<1>3. o \in Origins(cs)
  BY <1>1, <1>2 DEF Origins
<1> QED
  BY <1>1, <1>3

(* With no copy pending, the rows are those of the cells at once.          *)
LEMMA RowsNow ==
  ASSUME Stored', Len(copies') = 0,
         \A st \in Streams, i \in Idx :
           cell'[st][i].pos # -1 => data'[st][i] = cell'[st][i].tok
  PROVE  RowsMatchCells'
<1>1. PICK o \in Origins(copies') : o[Len(copies')] = [st \in Streams |-> st]
  BY NoCopies
<1>2. \A st \in Streams : Copied(o)'[st] = data'[st]
  BY <1>1 DEF Copied, Stored
<1> QED
  BY <1>2 DEF RowsMatchCells

LEMMA MovingRows ==
  ASSUME Stored, Moving, phase = "idle", RowsMatchCells
  PROVE  RowsMatchCells'
<1>1. Tamed(cell, cell') /\ UNCHANGED <<copies, data>>
  BY MovingIs
<1>2. PICK o \in Origins(copies) : \A st \in Streams, i \in Idx :
        cell[st][i].pos # -1 => Copied(o)[st][i] = cell[st][i].tok
  BY DEF RowsMatchCells
<1>3. Copied(o)' = Copied(o) /\ copies' = copies
  BY <1>1 DEF Copied
<1>4. \A st \in Streams, i \in Idx : cell'[st][i].pos # -1 =>
        cell[st][i].pos # -1 /\ cell'[st][i].tok = cell[st][i].tok
  BY <1>1 DEF Tamed, TamedIn
<1>5. \A st \in Streams, i \in Idx :
        cell'[st][i].pos # -1 => Copied(o)'[st][i] = cell'[st][i].tok
  BY <1>2, <1>3, <1>4
<1> QED
  BY <1>3, <1>5 DEF RowsMatchCells

LEMMA ClearRows ==
  ASSUME Stored, NEW wipe \in BOOLEAN, Clear(wipe), phase = "idle", RowsMatchCells
  PROVE  RowsMatchCells'
<1>1. \A st \in Streams, i \in Idx : cell'[st][i].pos = -1
  BY ClearIs
<1>2. PICK o \in Origins(copies) : TRUE
  BY DEF RowsMatchCells
<1>3. copies' = copies
  BY DEF Clear
<1> QED
  BY <1>1, <1>2, <1>3 DEF RowsMatchCells

(* A copy between streams: the destination gets the rows the source will   *)
(* have when the copies before this one are carried out.                   *)
LEMMA SeqCpStreamRows ==
  ASSUME Stored, NEW src \in Seqs, NEW dst \in Seqs, NEW p0, NEW p1,
         SeqCpStream(src, dst, p0, p1), phase = "idle", RowsMatchCells
  PROVE  RowsMatchCells'
<1> DEFINE s0 == StreamOf(src)
           s1 == StreamOf(dst)
           n  == Len(copies)
           cp == [src |-> s0, dst |-> s1]
<1>1. /\ data' = data /\ copies' = Append(copies, cp)
      /\ \A st \in Streams : st # s1 => cell'[st] = cell[st]
      /\ TamedIn(cell[s0], cell'[s1])
      /\ s0 \in Streams /\ s1 \in Streams
  BY SeqCpStreamIs, Sizes
<1>2. PICK o \in Origins(copies) : \A st \in Streams, i \in Idx :
        cell[st][i].pos # -1 => Copied(o)[st][i] = cell[st][i].tok
  BY DEF RowsMatchCells
<1>3. /\ n \in Nat /\ Len(copies') = n + 1 /\ copies'[n + 1] = cp
      /\ \A k \in 1 .. n : copies'[k] = copies[k]
  BY <1>1 DEF Stored
<1>4. /\ o \in [0 .. n -> [Streams -> Streams]] /\ o[0] = [st \in Streams |-> st]
      /\ \A k \in 1 .. n : o[k] = CopyRows(o[k - 1], copies[k])
  BY DEF Origins
<1> DEFINE last == CopyRows(o[n], cp)
           p == [k \in 0 .. n + 1 |-> IF k = n + 1 THEN last ELSE o[k]]
<1>5. o[n] \in [Streams -> Streams]
  BY <1>3, <1>4
<1>6. /\ last \in [Streams -> Streams] /\ last[s1] = o[n][s0]
      /\ \A st \in Streams : st # s1 => last[st] = o[n][st]
  BY <1>1, <1>5 DEF CopyRows
<1> HIDE DEF last, n
<1>7. p \in [0 .. n + 1 -> [Streams -> Streams]] /\ p[n + 1] = last
      /\ \A k \in 0 .. n : p[k] = o[k]
  <2>1. \A k \in 0 .. n + 1 : k # n + 1 => k \in 0 .. n
    BY <1>3
  <2>2. \A k \in 0 .. n : k # n + 1 /\ k \in 0 .. n + 1
    BY <1>3
  <2>3. n + 1 \in 0 .. n + 1
    BY <1>3
  <2> QED
    BY <1>4, <1>6, <2>1, <2>2, <2>3
<1> HIDE DEF p
<1>8. p \in Origins(copies')
  <2>1. p[0] = [st \in Streams |-> st]
    BY <1>3, <1>4, <1>7
  <2>2. ASSUME NEW k \in 1 .. n + 1 PROVE p[k] = CopyRows(p[k - 1], copies'[k])
    <3>1. CASE k = n + 1
      <4>1. k - 1 = n /\ n \in 0 .. n
        BY <1>3, <3>1
      <4>2. p[k - 1] = o[n] /\ p[k] = last /\ copies'[k] = cp
        BY <1>3, <1>7, <3>1, <4>1
      <4> QED
        BY <4>2 DEF last
    <3>2. CASE k # n + 1
      <4>1. k \in 1 .. n /\ k \in 0 .. n /\ k - 1 \in 0 .. n
        BY <1>3, <3>2
      <4>2. p[k] = o[k] /\ p[k - 1] = o[k - 1] /\ copies'[k] = copies[k]
        BY <1>3, <1>7, <4>1
      <4> QED
        BY <1>4, <4>1, <4>2
    <3> QED
      BY <3>1, <3>2
  <2> QED
    BY <1>3, <1>7, <2>1, <2>2 DEF Origins
<1>9. PICK q \in Origins(copies') : q[Len(copies')] = last
  BY <1>3, <1>7, <1>8
<1>10. \A st \in Streams : Copied(q)'[st] = data[last[st]] /\ Copied(o)[st] = data[o[n][st]]
  BY <1>1, <1>9 DEF Copied, n
<1>11. ASSUME NEW st \in Streams, NEW i \in Idx, cell'[st][i].pos # -1
       PROVE  Copied(q)'[st][i] = cell'[st][i].tok
  <2>1. CASE st = s1
    <3>1. cell[s0][i].pos # -1 /\ cell'[s1][i].tok = cell[s0][i].tok
      BY <1>1, <1>11, <2>1 DEF TamedIn
    <3>2. Copied(q)'[s1] = Copied(o)[s0]
      BY <1>1, <1>6, <1>10
    <3> QED
      BY <1>1, <1>2, <2>1, <3>1, <3>2
  <2>2. CASE st # s1
    <3>1. cell'[st] = cell[st] /\ Copied(q)'[st] = Copied(o)[st]
      BY <1>1, <1>6, <1>10, <2>2
    <3> QED
      BY <1>2, <1>11, <3>1
  <2> QED
    BY <2>1, <2>2
<1> QED
  BY <1>9, <1>11 DEF RowsMatchCells

LEMMA DecodeStartRows ==
  ASSUME CacheOK, NEW us, DecodeStart(us), RowsMatchCells
  PROVE  RowsInv'
<1>1. Stored /\ phase = "idle"
  BY DEF CacheOK, DecodeStart
<1>2. PICK o \in Origins(copies) : data' = Copied(o)
  BY DEF DecodeStart
<1>3. PICK p \in Origins(copies) : \A st \in Streams, i \in Idx :
        cell[st][i].pos # -1 => Copied(p)[st][i] = cell[st][i].tok
  BY <1>1 DEF RowsMatchCells
<1>4. data' = Copied(p)
  BY <1>1, <1>2, OriginsOne DEF Copied
<1>5. \A st \in Streams, i \in Idx :
        cell'[st][i].pos # -1 => data'[st][i] = cell'[st][i].tok
  <2>1. \A st \in Streams, i \in Idx :
          cell'[st][i].pos = cell[st][i].pos /\ cell'[st][i].tok = cell[st][i].tok
    BY <1>1, UnshiftedIs DEF DecodeStart, Stored
  <2> QED
    BY <1>3, <1>4, <2>1
<1>6. phase' = "place" /\ undo' = <<>>
  BY DEF DecodeStart
<1>7. \A k \in 0 .. Len(undo') : k = 0
  <2>1. Len(undo') = 0
    BY <1>6, EmptySeq
  <2> QED
    BY <2>1
<1>8. RowsBehind'
  BY <1>5, <1>7 DEF RowsBehind, Past
<1> QED
  BY <1>6, <1>8 DEF RowsInv, RowsMatchCells

LEMMA PlaceRows ==
  ASSUME CacheOK, PlaceUbatch, RowsInv
  PROVE  RowsInv'
<1> DEFINE u == batch[Len(slots) + 1]
           n == Len(undo)
<1>1. Stored /\ Sequences /\ phase = "place" /\ Len(slots) < Len(batch) /\ RowsBehind
  BY DEF CacheOK, Phased, PlaceUbatch, RowsInv
<1>2. n \in Nat /\ u \in Seq(Token)
  <2>1. Len(slots) \in Nat /\ Len(batch) \in Nat /\ n \in Nat
    BY <1>1, Lengths
  <2>2. Len(slots) + 1 \in 1 .. Len(batch)
    BY <1>1, <2>1
  <2> QED
    BY <1>1, <2>1, <2>2 DEF Sequences
<1>3. PICK slot \in SlotsFor(u) :
        /\ cell' = Applied(u, slot)
        /\ undo' = <<[slot |-> slot, cell |-> cell, head |-> head]>> \o undo
  BY DEF PlaceUbatch, Emplace
<1>4. IsSlot(u, slot)
  BY <1>1, <1>2, SlotsForIs DEF Stored
<1>5. /\ Len(undo') = n + 1
      /\ undo'[1].slot = slot /\ undo'[1].cell = cell
      /\ \A m \in 1 .. n : undo'[m + 1] = undo[m]
  <2> DEFINE r == [slot |-> slot, cell |-> cell, head |-> head]
  <2>1. r.slot = slot /\ r.cell = cell
    OBVIOUS
  <2> HIDE DEF r
  <2>2. undo \in Seq(Undo) /\ undo' = <<r>> \o undo
    BY <1>1, <1>3 DEF Sequences, r
  <2>3. <<r>> \in Seq({r}) /\ Len(<<r>>) = 1 /\ <<r>>[1] = r
    OBVIOUS
  <2>4. /\ Len(undo') = 1 + n /\ undo'[1] = r
        /\ \A m \in 1 .. n : undo'[m + 1] = undo[m]
    BY <1>2, <2>2, <2>3
  <2> QED
    BY <1>2, <2>1, <2>4
<1> HIDE DEF u, n
<1>6. data' = data
  BY DEF PlaceUbatch
<1>7. ASSUME NEW k \in 0 .. n + 1, NEW st \in Streams, NEW i \in Idx, Past(k)'[st][i].pos # -1
      PROVE  data'[st][i] = Past(k)'[st][i].tok \/ PutBack(k, st, i)'
  <2>1. PutBack(k, st, i)' <=> \E m \in k + 1 .. n + 1 : InSlot(undo'[m].slot, st, i)
    BY <1>5 DEF PutBack, InSlot
  <2>2. ASSUME NEW j \in 0 .. n, PutBack(j, st, i), k <= j + 1 PROVE PutBack(k, st, i)'
    <3>1. PICK m \in j + 1 .. n : InSlot(undo[m].slot, st, i)
      BY <2>2 DEF PutBack, n
    <3>2. m \in 1 .. n /\ m + 1 \in k + 1 .. n + 1
      BY <1>2, <2>2, <3>1
    <3>3. InSlot(undo'[m + 1].slot, st, i)
      BY <1>5, <3>1, <3>2
    <3> QED
      BY <2>1, <3>2, <3>3
  <2>3. \A j \in 0 .. n : Past(j)[st][i].pos # -1 =>
          data[st][i] = Past(j)[st][i].tok \/ PutBack(j, st, i)
    BY <1>1 DEF RowsBehind, n
  <2>4. CASE k = 0
    <3>1. 0 \in 0 .. n
      BY <1>2
    <3>2. Past(k)' = Applied(u, slot) /\ Past(0) = cell
      BY <1>3, <2>4 DEF Past
    <3>3. CASE InSlot(slot, st, i)
      <4>1. 1 \in k + 1 .. n + 1
        BY <1>2, <2>4
      <4> QED
        BY <1>5, <2>1, <3>3, <4>1
    <3>4. CASE ~InSlot(slot, st, i)
      <4>1. cell[st][i].pos # -1 /\ Applied(u, slot)[st][i].tok = cell[st][i].tok
        BY <1>1, <1>2, <1>4, <1>7, <3>2, <3>4, AppliedIs DEF Stored
      <4>2. data[st][i] = cell[st][i].tok \/ PutBack(0, st, i)
        BY <2>3, <3>1, <3>2, <4>1
      <4>3. PutBack(0, st, i) => PutBack(k, st, i)'
        BY <2>2, <2>4, <3>1
      <4> QED
        BY <1>6, <3>2, <4>1, <4>2, <4>3
    <3> QED
      BY <3>3, <3>4
  <2>5. CASE k # 0
    <3> DEFINE j == k - 1
    <3>1. j \in 0 .. n /\ k = j + 1 /\ k <= j + 1
      BY <1>2, <2>5
    <3>2. Past(k)' = Past(j)
      <4>1. CASE j = 0
        BY <1>5, <3>1, <4>1 DEF Past
      <4>2. CASE j # 0
        <5>1. j \in 1 .. n
          BY <1>2, <3>1, <4>2
        <5>2. undo'[k] = undo[j]
          BY <1>5, <3>1, <5>1
        <5> QED
          BY <2>5, <4>2, <5>2 DEF Past
      <4> QED
        BY <4>1, <4>2
    <3> HIDE DEF j
    <3>3. data[st][i] = Past(j)[st][i].tok \/ PutBack(j, st, i)
      BY <1>7, <2>3, <3>1, <3>2
    <3> QED
      BY <1>6, <2>2, <3>1, <3>2, <3>3
  <2> QED
    BY <2>4, <2>5
<1>8. RowsBehind'
  BY <1>5, <1>7 DEF RowsBehind
<1>9. phase' # "idle"
  BY DEF PlaceUbatch
<1> QED
  BY <1>8, <1>9 DEF RowsInv, RowsMatchCells

LEMMA PlaceFailsRows ==
  ASSUME CacheOK, CacheOK', PlaceFails, RowsInv
  PROVE  RowsInv'
<1>1. Stored' /\ copies' = <<>> /\ phase = "place" /\ RowsBehind
  BY DEF CacheOK, Phased, PlaceFails, store, RowsInv
<1>2. cell' = cell /\ data' = data /\ undo' = undo
  BY DEF PlaceFails, store
<1>3. CASE undo = <<>>
  <2>1. Len(undo) = 0 /\ Len(copies') = 0
    BY <1>1, <1>3, EmptySeq
  <2>2. \A st \in Streams, i \in Idx : ~PutBack(0, st, i) /\ Past(0) = cell
    BY <2>1 DEF PutBack, Past
  <2>3. \A st \in Streams, i \in Idx :
          cell[st][i].pos # -1 => data[st][i] = cell[st][i].tok
    BY <1>1, <2>1, <2>2 DEF RowsBehind
  <2>4. RowsMatchCells'
    BY <1>1, <1>2, <2>1, <2>3, RowsNow
  <2>5. phase' = "idle"
    BY <1>3 DEF PlaceFails
  <2> QED
    BY <2>4, <2>5 DEF RowsInv
<1>4. CASE undo # <<>>
  <2>1. phase' = "restore"
    BY <1>4 DEF PlaceFails
  <2>2. RowsBehind'
    BY <1>1, <1>2 DEF RowsBehind, Past, PutBack
  <2> QED
    BY <2>1, <2>2 DEF RowsInv, RowsMatchCells
<1> QED
  BY <1>3, <1>4

(* What a restore step makes of the cells.                                 *)
LEMMA RestoredIs ==
  ASSUME CacheOK, RestoreUbatch
  PROVE  /\ Len(undo) \in Nat \ {0} /\ Len(undo') = Len(undo) - 1
         /\ \A m \in 1 .. Len(undo) - 1 : undo'[m] = undo[m + 1]
         /\ undo[1] \in Undo
         /\ \A st \in Streams, i \in Idx :
              IF InSlot(undo[1].slot, st, i)
              THEN /\ cell'[st][i].pos = undo[1].cell[st][i].pos
                   /\ cell'[st][i].tok = undo[1].cell[st][i].tok
                   /\ cell'[st][i].shift = 0
                   /\ undo[1].cell[st][i].shift = 0 => cell'[st][i] = undo[1].cell[st][i]
              ELSE cell'[st][i] = cell[st][i]
<1>1. undo \in Seq(Undo) /\ Len(undo) > 0 /\ Len(undo) \in Nat
  BY Lengths DEF CacheOK, Sequences, Phased, RestoreUbatch
<1>2. /\ Head(undo) = undo[1] /\ Head(undo) \in Undo /\ Len(Tail(undo)) = Len(undo) - 1
      /\ \A m \in 1 .. Len(undo) - 1 : Tail(undo)[m] = undo[m + 1]
  BY <1>1, Popped
<1>3. /\ undo' = Tail(undo)
      /\ cell' = [st \in Streams |-> [i \in Idx |->
                    IF st \in DOMAIN undo[1].slot /\ i \in Range(undo[1].slot[st])
                    THEN [undo[1].cell[st][i] EXCEPT !.shift = 0] ELSE cell[st][i]]]
  BY <1>2 DEF RestoreUbatch
<1>4. ASSUME NEW st \in Streams, NEW i \in Idx
      PROVE  IF InSlot(undo[1].slot, st, i)
              THEN /\ cell'[st][i].pos = undo[1].cell[st][i].pos
                   /\ cell'[st][i].tok = undo[1].cell[st][i].tok
                   /\ cell'[st][i].shift = 0
                   /\ undo[1].cell[st][i].shift = 0 => cell'[st][i] = undo[1].cell[st][i]
              ELSE cell'[st][i] = cell[st][i]
  <2> DEFINE x == undo[1].cell[st][i]
  <2>1. x \in SoundCell
    BY <1>2 DEF Undo, Cells
  <2>2. cell'[st][i] = IF InSlot(undo[1].slot, st, i)
                       THEN [x EXCEPT !.shift = 0] ELSE cell[st][i]
    BY <1>3 DEF InSlot
  <2> HIDE DEF x
  <2>3. LET y == [x EXCEPT !.shift = 0]
        IN  y.pos = x.pos /\ y.tok = x.tok /\ y.shift = 0 /\ (x.shift = 0 => y = x)
    BY <2>1 DEF SoundCell
  <2> QED
    BY <2>2, <2>3 DEF x
<1> QED
  BY <1>1, <1>2, <1>3, <1>4

LEMMA RestoreRows ==
  ASSUME CacheOK, CacheOK', RestoreUbatch, RowsInv
  PROVE  RowsInv'
<1> DEFINE n == Len(undo) - 1
<1>1. Stored' /\ copies' = <<>> /\ phase = "restore" /\ RowsBehind /\ data' = data
  BY DEF CacheOK, Phased, RestoreUbatch, RowsInv
<1>2. n \in Nat /\ Len(undo') = n /\ Len(undo) = n + 1
      /\ \A m \in 1 .. n : undo'[m] = undo[m + 1]
  BY RestoredIs
<1>3. \A j \in 0 .. n + 1, st \in Streams, i \in Idx : Past(j)[st][i].pos # -1 =>
        data[st][i] = Past(j)[st][i].tok \/ PutBack(j, st, i)
  BY <1>1, <1>2 DEF RowsBehind
<1> HIDE DEF n
<1>4. ASSUME NEW k \in 0 .. n, NEW st \in Streams, NEW i \in Idx, Past(k)'[st][i].pos # -1
      PROVE  data'[st][i] = Past(k)'[st][i].tok \/ PutBack(k, st, i)'
  <2>1. PutBack(k, st, i)' <=> \E m \in k + 1 .. n : InSlot(undo'[m].slot, st, i)
    BY <1>2 DEF PutBack, InSlot
  <2>2. ASSUME NEW j \in 0 .. n + 1, PutBack(j, st, i),
               k + 1 <= j \/ (j = 0 /\ k = 0 /\ ~InSlot(undo[1].slot, st, i))
        PROVE  PutBack(k, st, i)'
    <3>1. PICK m \in j + 1 .. n + 1 : InSlot(undo[m].slot, st, i)
      BY <1>2, <2>2 DEF PutBack
    <3>2. m - 1 \in k + 1 .. n /\ m - 1 \in 1 .. n
      <4>1. CASE k + 1 <= j
        BY <1>2, <4>1
      <4>2. CASE j = 0 /\ k = 0 /\ ~InSlot(undo[1].slot, st, i)
        <5>1. m # 1
          BY <3>1, <4>2
        <5> QED
          BY <1>2, <4>2, <5>1
      <4> QED
        BY <2>2, <4>1, <4>2
    <3>3. undo'[m - 1] = undo[m]
      <4>1. (m - 1) + 1 = m
        BY <1>2, <3>1
      <4> QED
        BY <1>2, <3>2, <4>1
    <3> QED
      BY <2>1, <3>1, <3>2, <3>3
  <2>3. \A j \in 0 .. n + 1 : k + 1 <= j => (PutBack(j, st, i) => PutBack(k, st, i)')
    BY <2>2
  <2>4. CASE k = 0 /\ ~InSlot(undo[1].slot, st, i)
    <3>1. Past(k)'[st][i] = cell[st][i] /\ Past(0) = cell /\ 0 \in 0 .. n + 1
      BY <1>2, <2>4, RestoredIs DEF Past
    <3>2. data[st][i] = cell[st][i].tok \/ PutBack(0, st, i)
      BY <1>3, <1>4, <3>1
    <3>3. PutBack(0, st, i) => PutBack(k, st, i)'
      BY <2>2, <2>4, <3>1
    <3> QED
      BY <1>1, <3>1, <3>2, <3>3
  <2>5. CASE k = 0 /\ InSlot(undo[1].slot, st, i)
    <3>1. /\ Past(k)'[st][i].pos = Past(1)[st][i].pos
          /\ Past(k)'[st][i].tok = Past(1)[st][i].tok
          /\ 1 \in 0 .. n + 1 /\ k + 1 <= 1
      BY <1>2, <2>5, RestoredIs DEF Past
    <3>2. data[st][i] = Past(1)[st][i].tok \/ PutBack(1, st, i)
      BY <1>3, <1>4, <3>1
    <3>3. PutBack(1, st, i) => PutBack(k, st, i)'
      BY <2>3, <3>1
    <3> QED
      BY <1>1, <3>1, <3>2, <3>3
  <2>6. CASE k # 0
    <3>1. k \in 1 .. n /\ k + 1 \in 0 .. n + 1 /\ k + 1 # 0 /\ k + 1 <= k + 1
      BY <1>2, <2>6
    <3>2. Past(k)' = Past(k + 1)
      BY <1>2, <2>6, <3>1 DEF Past
    <3>3. data[st][i] = Past(k + 1)[st][i].tok \/ PutBack(k + 1, st, i)
      BY <1>3, <1>4, <3>1, <3>2
    <3>4. PutBack(k + 1, st, i) => PutBack(k, st, i)'
      BY <2>3, <3>1
    <3> QED
      BY <1>1, <3>2, <3>3, <3>4
  <2> QED
    BY <2>4, <2>5, <2>6
<1>5. RowsBehind'
  BY <1>2, <1>4 DEF RowsBehind
<1>6. CASE phase' # "idle"
  BY <1>5, <1>6 DEF RowsInv, RowsMatchCells
<1>7. CASE phase' = "idle"
  <2>1. Len(undo') = 0
    <3>1. undo' = <<>>
      BY <1>7 DEF CacheOK, Phased
    <3> QED
      BY <3>1, EmptySeq
  <2>2. \A st \in Streams, i \in Idx : ~PutBack(0, st, i)' /\ Past(0)' = cell'
    BY <2>1 DEF PutBack, Past
  <2>3. \A st \in Streams, i \in Idx :
          cell'[st][i].pos # -1 => data'[st][i] = cell'[st][i].tok
    BY <1>5, <2>1, <2>2 DEF RowsBehind
  <2>4. Len(copies') = 0
    BY <1>1, EmptySeq
  <2>5. RowsMatchCells'
    BY <1>1, <2>3, <2>4, RowsNow
  <2> QED
    BY <1>7, <2>5 DEF RowsInv
<1> QED
  BY <1>6, <1>7

LEMMA ComputeRows ==
  ASSUME CacheOK, CacheOK', ComputeUbatch, RowsInv
  PROVE  RowsInv'
<1> DEFINE u == Head(batch)
           slot == Head(slots)
<1>1. /\ Stored /\ u \in Seq(Token) /\ IsSlot(u, slot) /\ undo = <<>> /\ copies = <<>>
      /\ RowsBehind
  BY Computing DEF ComputeUbatch, RowsInv
<1>2. /\ cell' = Applied(u, slot) /\ data' = RowsWritten(u, slot, LAMBDA t : t.tok)
      /\ undo' = <<>> /\ copies' = <<>>
  BY <1>1 DEF ComputeUbatch, Emplace
<1> HIDE DEF u, slot
<1>3. Len(undo) = 0 /\ Len(undo') = 0 /\ Len(copies') = 0
  BY <1>1, <1>2, EmptySeq
<1>4. \A st \in Streams, i \in Idx : cell[st][i].pos # -1 => data[st][i] = cell[st][i].tok
  <2>1. \A st \in Streams, i \in Idx : ~PutBack(0, st, i) /\ Past(0) = cell
    BY <1>3 DEF PutBack, Past
  <2> QED
    BY <1>1, <1>3, <2>1 DEF RowsBehind
<1>5. ASSUME NEW st \in Streams, NEW i \in Idx, cell'[st][i].pos # -1
      PROVE  data'[st][i] = cell'[st][i].tok
  <2>1. CASE InSlot(slot, st, i)
    <3>1. cell'[st][i].tok = u[TokenAt(slot[st], i)].tok
      BY <1>1, <1>2, <1>5, <2>1, AppliedIs DEF Stored
    <3>2. data'[st][i] = u[TokenAt(slot[st], i)].tok
      BY <1>1, <1>2, <2>1, RowsTyped
    <3> QED
      BY <3>1, <3>2
  <2>2. CASE ~InSlot(slot, st, i)
    <3>1. cell[st][i].pos # -1 /\ cell'[st][i].tok = cell[st][i].tok
      BY <1>1, <1>2, <1>5, <2>2, AppliedIs DEF Stored
    <3>2. data'[st][i] = data[st][i]
      BY <1>1, <1>2, <2>2, RowsTyped
    <3> QED
      BY <1>4, <3>1, <3>2
  <2> QED
    BY <2>1, <2>2
<1>6. RowsMatchCells'
  BY <1>3, <1>5, RowsNow DEF CacheOK
<1>7. RowsBehind'
  <2>1. \A k \in 0 .. Len(undo') : Past(k)' = cell'
    BY <1>3 DEF Past
  <2> QED
    BY <1>5, <2>1 DEF RowsBehind
<1> QED
  BY <1>6, <1>7 DEF RowsInv

(* A failed ubatch leaves no cell on its rows, as long as every token is   *)
(* of one sequence: the first position of that sequence in the ubatch is   *)
(* not above the token's.                                                  *)
LEMMA FailRows ==
  ASSUME ~Coupled, CacheOK, CacheOK', FailUbatch, RowsInv
  PROVE  RowsInv'
<1> DEFINE u       == Head(batch)
           slot    == Head(slots)
           firsts  == {Min(u[k].seqs) : k \in DOMAIN u}
           placed  == Applied(u, slot)
           gone(x) == {s \in firsts \cap x.seq : x.pos >= FailedFrom(u, s)}
           kept(x) == IF gone(x) = {} THEN x ELSE Without(x, gone(x))
<1>1. /\ Stored /\ u \in Seq(Token) /\ IsSlot(u, slot) /\ undo = <<>> /\ copies = <<>>
      /\ RowsBehind
  <2>1. phase = "compute"
    BY DEF FailUbatch
  <2>2. RowsBehind
    BY <2>1 DEF RowsInv
  <2> HIDE DEF placed, gone, kept
  <2> QED
    BY <2>1, <2>2, Computing, ZenonT(60)
<1>2. /\ cell' = [st \in Streams |-> [i \in Idx |-> kept(placed[st][i])]]
      /\ data' = RowsWritten(u, slot, LAMBDA t : Garbage)
      /\ copies' = <<>> /\ phase' = "idle"
  BY <1>1 DEF FailUbatch
<1> HIDE DEF u, slot
<1>3. placed \in [Streams -> Cells]
  BY <1>1, AppliedIs DEF Stored
<1>4. \A st \in Streams, i \in Idx : cell[st][i].pos # -1 => data[st][i] = cell[st][i].tok
  <2>1. Len(undo) = 0
    BY <1>1, EmptySeq
  <2>2. \A st \in Streams, i \in Idx : ~PutBack(0, st, i) /\ Past(0) = cell
    BY <2>1 DEF PutBack, Past
  <2> QED
    BY <1>1, <2>1, <2>2 DEF RowsBehind
<1>5. ASSUME NEW st \in Streams, NEW i \in Idx, cell'[st][i].pos # -1
      PROVE  data'[st][i] = cell'[st][i].tok
  <2> DEFINE x == placed[st][i]
  <2>1. x \in SoundCell /\ cell'[st][i] = kept(x)
    BY <1>2, <1>3 DEF Cells
  <2>2. x.pos # -1 /\ kept(x).tok = x.tok
    <3>1. CASE gone(x) = {}
      BY <1>5, <2>1, <3>1
    <3>2. CASE gone(x) # {}
      <4>1. kept(x) = Without(x, gone(x)) /\ Without(x, gone(x)).pos # -1
        BY <1>5, <2>1, <3>2
      <4> HIDE DEF x, gone, kept
      <4> QED
        BY <2>1, <4>1, WithoutIs
    <3> QED
      BY <3>1, <3>2
  <2>3. CASE InSlot(slot, st, i)
    <3> DEFINE k == TokenAt(slot[st], i)
    <3>1. k \in TokensOn(st, u) /\ x.pos = u[k].pos /\ x.seq \subseteq u[k].seqs
      BY <1>1, <2>2, <2>3, AppliedIs DEF Stored
    <3>2. k \in DOMAIN u /\ u[k] \in Token
      BY <1>1, <3>1, TokensOnIs
    <3> HIDE DEF k, x, gone, kept, firsts
    <3>3. PICK s \in Seqs : u[k].seqs = {s}
      BY <3>2 DEF Token, SeqSets
    <3>4. x.seq = {s}
      BY <2>1, <2>2, <3>1, <3>3 DEF SoundCell
    <3>5. Min(u[k].seqs) = s /\ s \in firsts
      <4>1. {s} \subseteq Nat /\ {s} # {}
        BY Sizes
      <4>2. Min({s}) \in {s}
        BY <4>1, MinIs
      <4> QED
        BY <3>2, <3>3, <4>2 DEF firsts
    <3>6. FailedFrom(u, s) <= u[k].pos
      <4> DEFINE T == {u[l].pos : l \in {j \in DOMAIN u : Min(u[j].seqs) = s}}
      <4>1. u[k].pos \in T
        BY <3>2, <3>5
      <4>2. T \subseteq Nat
        <5>1. ASSUME NEW l \in DOMAIN u PROVE u[l].pos \in Nat
          <6>1. u[l] \in Token
            BY <1>1
          <6> QED
            BY <6>1, SizesAssumption DEF Token
        <5> QED
          BY <5>1
      <4> HIDE DEF T
      <4>3. Min(T) <= u[k].pos
        BY <4>1, <4>2, MinIs
      <4> QED
        BY <4>3 DEF FailedFrom, T
    <3>7. x.pos >= FailedFrom(u, s)
      <4>1. u[k].pos \in Int
        BY <3>2, SizesAssumption DEF Token
      <4> QED
        BY <3>1, <3>6, <4>1
    <3>8. gone(x) = {s}
      BY <3>4, <3>5, <3>7 DEF gone
    <3>9. kept(x) = Without(x, {s})
      BY <3>8 DEF kept
    <3>10. kept(x) = EmptyCell
      BY <3>4, <3>9 DEF Without
    <3> QED
      BY <1>5, <2>1, <3>10, EmptySound
  <2>4. CASE ~InSlot(slot, st, i)
    <3>1. cell[st][i].pos # -1 /\ x.tok = cell[st][i].tok
      BY <1>1, <2>2, <2>4, AppliedIs DEF Stored
    <3>2. data'[st][i] = data[st][i]
      BY <1>1, <1>2, <2>4, RowsTyped, ZenonT(60)
    <3> QED
      BY <1>4, <2>1, <2>2, <3>1, <3>2
  <2> QED
    BY <2>3, <2>4
<1>6. Len(copies') = 0
  BY <1>2, EmptySeq
<1>7. RowsMatchCells'
  BY <1>5, <1>6, RowsNow DEF CacheOK
<1> QED
  BY <1>2, <1>7 DEF RowsInv

LEMMA InitRows == Init => RowsInv
<1> SUFFICES ASSUME Init PROVE RowsInv
  OBVIOUS
<1>1. Len(copies) = 0
  BY EmptySeq DEF Init
<1>2. PICK o \in Origins(copies) : TRUE
  BY <1>1, NoCopies
<1>3. \A st \in Streams, i \in Idx : cell[st][i].pos = -1
  BY EmptySound DEF Init
<1>4. RowsMatchCells
  BY <1>2, <1>3 DEF RowsMatchCells
<1>5. phase = "idle"
  BY DEF Init
<1> QED
  BY <1>4, <1>5 DEF RowsInv

LEMMA CallingRows ==
  ASSUME CacheOK, Calling, RowsInv
  PROVE  RowsInv'
<1>1. Stored /\ phase = "idle" /\ RowsMatchCells
  BY DEF CacheOK, Calling, RowsInv
<1>2. ASSUME Call PROVE phase' = "idle"
  BY <1>2 DEF Call
<1>3. CASE Moving
  <2>1. RowsMatchCells' /\ Call
    BY <1>1, <1>3, MovingRows, MovingIs
  <2> QED
    BY <1>2, <2>1 DEF RowsInv
<1>4. CASE \E wipe \in BOOLEAN : Clear(wipe)
  <2>1. PICK wipe \in BOOLEAN : Clear(wipe)
    BY <1>4
  <2>2. RowsMatchCells' /\ Call
    BY <1>1, <2>1, ClearRows DEF Clear
  <2> QED
    BY <1>2, <2>2 DEF RowsInv
<1>5. CASE \E s, d \in Seqs, r \in Ranges : SeqCpStream(s, d, r[1], r[2])
  <2>1. PICK s, d \in Seqs, r \in Ranges : SeqCpStream(s, d, r[1], r[2])
    BY <1>5
  <2>2. RowsMatchCells'
    BY <1>1, <2>1, SeqCpStreamRows
  <2>3. Call
    BY <2>1 DEF SeqCpStream
  <2> QED
    BY <1>2, <2>2, <2>3 DEF RowsInv
<1>6. CASE DecodeBatch
  <2>1. PICK us \in Seq(Seq(Token)) : DecodeStart(us)
    BY <1>1, <1>6, DecodeBatchIs
  <2> QED
    BY <1>1, <2>1, DecodeStartRows
<1> QED
  BY <1>3, <1>4, <1>5, <1>6, CallingIs

LEMMA NextRows ==
  ASSUME ~Coupled
  PROVE  CacheOK /\ RowsInv /\ [Next]_vars => RowsInv'
<1> SUFFICES ASSUME CacheOK, RowsInv, [Next]_vars PROVE RowsInv'
  OBVIOUS
<1>1. CacheOK'
  BY NextOK
<1>2. CASE Calling
  BY <1>2, CallingRows
<1>3. CASE PlaceUbatch
  BY <1>3, PlaceRows
<1>4. CASE PlaceFails
  BY <1>1, <1>4, PlaceFailsRows
<1>5. CASE RestoreUbatch
  BY <1>1, <1>5, RestoreRows
<1>6. CASE ComputeUbatch
  BY <1>1, <1>6, ComputeRows
<1>7. CASE FailUbatch
  BY <1>1, <1>7, FailRows
<1>8. CASE UNCHANGED vars
  <2>1. RowsMatchCells'
    BY <1>8 DEF RowsInv, RowsMatchCells, Copied, vars
  <2>2. phase' # "idle" => RowsBehind'
    BY <1>8 DEF RowsInv, RowsBehind, Past, PutBack, vars
  <2> QED
    BY <2>1, <2>2 DEF RowsInv
<1> QED
  BY <1>2, <1>3, <1>4, <1>5, <1>6, <1>7, <1>8 DEF Next

(* Between two calls, the K and V rows of every occupied cell are, once    *)
(* the pending stream copies are carried out, those of the token the cell  *)
(* stands for: whatever was copied, moved, purged or put back, and however *)
(* the last decode ended.  That a batch assigns no token to several        *)
(* sequences is needed: process_ubatch's failure path removes the cells of *)
(* a shared token from its first sequence only.                            *)
THEOREM RowsFollowCells ==
  ASSUME ~Coupled
  PROVE  Spec => []RowsMatchCells
<1>1. Init => RowsInv
  BY InitRows
<1>2. CacheOK /\ RowsInv /\ [Next]_vars => RowsInv'
  BY NextRows
<1>3. RowsInv => RowsMatchCells
  BY DEF RowsInv
<1> QED
  BY <1>1, <1>2, <1>3, AlwaysOK, PTL DEF Spec
-----------------------------------------------------------------------------
(* prepare restores the cells, when there is no sliding window.            *)

(* Each state that prepare remembers differs from the one after it in the  *)
(* cells of a slot alone, no cell has a shift, and the oldest one is what  *)
(* the cells were when it started.                                         *)
Retraceable ==
  /\ batch = before.batch
  /\ \A k \in {Len(undo)} : Past(k) = before.cell
  /\ \A k \in 0 .. Len(undo), st \in Streams, i \in Idx : Past(k)[st][i].shift = 0
  /\ \A k \in 1 .. Len(undo), st \in Streams, i \in Idx :
       InSlot(undo[k].slot, st, i) \/ Past(k - 1)[st][i] = Past(k)[st][i]

PrepareInv ==
  /\ phase \in {"place", "restore"} => Retraceable
  /\ phase = "compute" =>
       \/ batch = before.batch /\ cell = before.cell
       \/ Len(before.batch) \in Nat /\ Len(batch) < Len(before.batch)
  /\ phase = "idle" /\ ret = "no slot" => cell = before.cell

(* Without a window only empty cells are usable, so that nothing is        *)
(* overwritten and nothing purged.                                         *)
LEMMA NothingPurged ==
  ASSUME NSwa = 0, NEW c \in Cells, NEW u \in Seq(Token), NEW K \in SUBSET DOMAIN u,
         NEW slot \in [K -> Idx], \A i \in Range(slot) : Usable(c, i)
  PROVE  \A i \in Idx : Apply(c, slot, u)[i] = Placed(c, slot, u)[i]
<1>1. ASSUME NEW i \in Range(slot) PROVE i \in Idx /\ c[i].seq = {}
  <2>1. i \in Idx
    BY DEF Range
  <2>2. c[i] \in SoundCell
    BY <2>1 DEF Cells
  <2>3. c[i].pos = -1
    BY <1>1 DEF Usable, Masked
  <2> QED
    BY <2>1, <2>2, <2>3 DEF SoundCell
<1>2. ASSUME NEW s PROVE MaxRm(c, slot, s) = -1
  <2>1. \A j \in Range(slot) : c[j].seq # {s}
    BY <1>1
  <2>2. {c[i].pos : i \in {j \in Range(slot) : c[j].seq = {s}}} \cup {-1} = {-1}
    BY <2>1
  <2>3. {-1} \subseteq -1 .. 0 /\ {-1} # {} /\ -1 \in Int /\ 0 \in Int
    OBVIOUS
  <2>4. Max({-1}) \in {-1}
    BY <2>3, MaxIs
  <2> QED
    BY <2>2, <2>4 DEF MaxRm
<1> SUFFICES ASSUME NEW i \in Idx PROVE Apply(c, slot, u)[i] = Placed(c, slot, u)[i]
  OBVIOUS
<1> DEFINE x == Placed(c, slot, u)[i]
           p == {s \in x.seq : x.pos <= MaxRm(c, slot, s)}
<1>3. x \in SoundCell
  <2>1. Placed(c, slot, u) \in Cells
    BY PlacedIs
  <2> QED
    BY <2>1 DEF Cells
<1>4. Apply(c, slot, u)[i] = Without(x, p)
  BY DEF Apply
<1> HIDE DEF x
<1>5. x.pos \in -1 .. MaxPos /\ (x.seq = {} <=> x.pos = -1) /\ (x.pos = -1 => x = EmptyCell)
  BY <1>3 DEF SoundCell
<1>6. p = {s \in x.seq : x.pos <= -1}
  BY <1>2
<1>7. CASE x.pos = -1
  <2>1. x.seq \subseteq p
    BY <1>5, <1>7
  <2> QED
    BY <1>4, <1>5, <1>7, <2>1 DEF Without, x
<1>8. CASE x.pos # -1
  <2>1. p = {} /\ ~(x.seq \subseteq p)
    BY <1>5, <1>6, <1>8, SizesAssumption
  <2>2. Without(x, p) = [x EXCEPT !.seq = @ \ p]
    BY <2>1 DEF Without
  <2>3. [x EXCEPT !.seq = @ \ p] = x
    BY <1>3, <2>1 DEF SoundCell
  <2> QED
    BY <1>4, <2>2, <2>3 DEF x
<1> QED
  BY <1>7, <1>8

LEMMA OnlyTheSlot ==
  ASSUME NSwa = 0, Stored, NEW u \in Seq(Token), NEW slot \in SlotsFor(u),
         NEW st \in Streams, NEW i \in Idx
  PROVE  IF InSlot(slot, st, i)
         THEN Applied(u, slot)[st][i].shift = 0
         ELSE Applied(u, slot)[st][i] = cell[st][i]
<1>1. IsSlot(u, slot) /\ \A t \in StreamsOf(u) : \A j \in Range(slot[t]) : Usable(cell[t], j)
  BY SlotsForIs DEF Stored
<1>2. CASE st \notin StreamsOf(u)
  <2>1. ~InSlot(slot, st, i)
    BY <1>1, <1>2 DEF InSlot, IsSlot
  <2> QED
    BY <1>2, <2>1 DEF Applied
<1>3. CASE st \in StreamsOf(u)
  <2> DEFINE c == cell[st]
             K == TokensOn(st, u)
             t == slot[st]
             k == TokenAt(t, i)
  <2>1. c \in Cells /\ K \in SUBSET DOMAIN u /\ t \in [K -> Idx]
        /\ \A j \in Range(t) : Usable(c, j)
    BY <1>1, <1>3, TokensOnIs DEF IsSlot, Stored
  <2>2. Applied(u, slot)[st] = Apply(c, t, u) /\ (InSlot(slot, st, i) <=> i \in Range(t))
    BY <1>1, <1>3 DEF Applied, InSlot, IsSlot
  <2> HIDE DEF c, K, t, k
  <2>3. Apply(c, t, u)[i] = Placed(c, t, u)[i]
    BY <2>1, NothingPurged
  <2>4. CASE i \in Range(t)
    <3>1. Placed(c, t, u)[i] = [pos |-> u[k].pos, seq |-> u[k].seqs, shift |-> 0, tok |-> u[k].tok]
      BY <2>1, <2>4, PlacedIs DEF k
    <3>2. Placed(c, t, u)[i].shift = 0
      BY <3>1
    <3> QED
      BY <2>2, <2>3, <2>4, <3>2
  <2>5. CASE i \notin Range(t)
    <3>1. Placed(c, t, u)[i] = c[i]
      BY <2>5 DEF Placed
    <3> QED
      BY <2>2, <2>3, <2>5, <3>1 DEF c
  <2> QED
    BY <2>4, <2>5
<1> QED
  BY <1>2, <1>3

LEMMA DecodeStartPrepare ==
  ASSUME CacheOK, NEW us, DecodeStart(us)
  PROVE  PrepareInv'
<1>1. /\ cell' = Unshifted(cell) /\ phase' = "place" /\ batch' = us /\ undo' = <<>>
      /\ before' = [cell |-> cell', head |-> head, batch |-> us]
  BY DEF DecodeStart
<1>2. before'.cell = cell' /\ before'.batch = us
  BY <1>1
<1>3. Len(undo') = 0
  BY <1>1, EmptySeq
<1>4. \A k \in 0 .. Len(undo') : k = 0
  BY <1>3
<1>5. \A k \in 1 .. Len(undo') : FALSE
  BY <1>3
<1>6. Past(0)' = cell'
  BY DEF Past
<1>7. \A st \in Streams, i \in Idx : cell'[st][i].shift = 0
  BY <1>1, UnshiftedIs DEF CacheOK, Stored
<1>8. Retraceable'
  <2>1. \A k \in 0 .. Len(undo'), st \in Streams, i \in Idx : Past(k)'[st][i].shift = 0
    BY <1>4, <1>6, <1>7
  <2>2. \A k \in {Len(undo')} : Past(k)' = cell'
    BY <1>3 DEF Past
  <2> QED
    BY <1>1, <1>2, <1>5, <2>1, <2>2 DEF Retraceable
<1> QED
  BY <1>1, <1>8 DEF PrepareInv

LEMMA PlacePrepare ==
  ASSUME NSwa = 0, CacheOK, PlaceUbatch, PrepareInv
  PROVE  PrepareInv'
<1> DEFINE u == batch[Len(slots) + 1]
           n == Len(undo)
<1>1. Stored /\ Sequences /\ phase = "place" /\ Len(slots) < Len(batch) /\ Retraceable
  BY DEF CacheOK, Phased, PlaceUbatch, PrepareInv
<1>2. n \in Nat /\ u \in Seq(Token)
  <2>1. Len(slots) \in Nat /\ Len(batch) \in Nat /\ n \in Nat
    BY <1>1, Lengths
  <2>2. Len(slots) + 1 \in 1 .. Len(batch)
    BY <1>1, <2>1
  <2> QED
    BY <1>1, <2>1, <2>2 DEF Sequences
<1>3. PICK slot \in SlotsFor(u) :
        /\ cell' = Applied(u, slot)
        /\ undo' = <<[slot |-> slot, cell |-> cell, head |-> head]>> \o undo
  BY DEF PlaceUbatch, Emplace
<1>4. /\ Len(undo') = n + 1
      /\ undo'[1].slot = slot /\ undo'[1].cell = cell
      /\ \A m \in 1 .. n : undo'[m + 1] = undo[m]
  <2> DEFINE r == [slot |-> slot, cell |-> cell, head |-> head]
  <2>1. r.slot = slot /\ r.cell = cell
    OBVIOUS
  <2> HIDE DEF r
  <2>2. undo \in Seq(Undo) /\ undo' = <<r>> \o undo
    BY <1>1, <1>3 DEF Sequences, r
  <2>3. <<r>> \in Seq({r}) /\ Len(<<r>>) = 1 /\ <<r>>[1] = r
    OBVIOUS
  <2>4. /\ Len(undo') = 1 + n /\ undo'[1] = r
        /\ \A m \in 1 .. n : undo'[m + 1] = undo[m]
    BY <1>2, <2>2, <2>3
  <2> QED
    BY <1>2, <2>1, <2>4
<1>5. ASSUME NEW st \in Streams, NEW i \in Idx
      PROVE  IF InSlot(slot, st, i) THEN cell'[st][i].shift = 0
             ELSE cell'[st][i] = cell[st][i]
  BY <1>1, <1>2, <1>3, OnlyTheSlot
<1> HIDE DEF u, n
<1>6. Past(0)' = cell' /\ Past(0) = cell /\ \A j \in 0 .. n : Past(j + 1)' = Past(j)
  <2>1. Past(0)' = cell' /\ Past(0) = cell
    BY DEF Past
  <2>2. ASSUME NEW j \in 0 .. n PROVE Past(j + 1)' = Past(j)
    <3>1. j + 1 # 0
      BY <1>2
    <3>2. CASE j = 0
      BY <1>4, <3>1, <3>2 DEF Past
    <3>3. CASE j # 0
      <4>1. j \in 1 .. n
        BY <1>2, <3>3
      <4> QED
        BY <1>4, <3>1, <3>3, <4>1 DEF Past
    <3> QED
      BY <3>2, <3>3
  <2> QED
    BY <2>1, <2>2
<1>7. batch' = batch /\ before' = before /\ (phase' = "restore" \/ phase' = "place")
  BY DEF PlaceUbatch
<1>8. ASSUME NEW k \in 0 .. n + 1, NEW st \in Streams, NEW i \in Idx
      PROVE  /\ Past(k)'[st][i].shift = 0
             /\ k # 0 => InSlot(undo'[k].slot, st, i) \/ Past(k - 1)'[st][i] = Past(k)'[st][i]
  <2>1. \A j \in 0 .. n : Past(j)[st][i].shift = 0
    BY <1>1 DEF Retraceable, n
  <2>2. CASE k = 0
    <3>1. 0 \in 0 .. n
      BY <1>2
    <3>2. cell[st][i].shift = 0
      BY <1>6, <2>1, <3>1
    <3> QED
      BY <1>5, <1>6, <2>2, <3>2
  <2>3. CASE k = 1
    <3>1. 0 \in 0 .. n /\ 0 + 1 = 1 /\ k - 1 = 0
      BY <1>2, <2>3
    <3>2. Past(k)' = cell /\ Past(k - 1)' = cell'
      BY <1>6, <2>3, <3>1
    <3>3. cell[st][i].shift = 0
      BY <1>6, <2>1, <3>1
    <3> QED
      BY <1>4, <1>5, <2>3, <3>2, <3>3
  <2>4. CASE k # 0 /\ k # 1
    <3> DEFINE j == k - 1
    <3>1. j \in 0 .. n /\ j \in 1 .. n /\ j - 1 \in 0 .. n /\ j + 1 = k /\ (j - 1) + 1 = j
      BY <1>2, <2>4
    <3>2. Past(k)' = Past(j) /\ Past(j)' = Past(j - 1) /\ undo'[k] = undo[j]
      BY <1>4, <1>6, <3>1
    <3>3. InSlot(undo[j].slot, st, i) \/ Past(j - 1)[st][i] = Past(j)[st][i]
      BY <1>1, <3>1 DEF Retraceable, n
    <3> QED
      BY <2>1, <3>1, <3>2, <3>3
  <2> QED
    BY <2>2, <2>3, <2>4
<1>9. \A k \in {n + 1} : Past(k)' = before'.cell
  <2>1. n \in 0 .. n
    BY <1>2
  <2>2. Past(n) = before.cell
    BY <1>1 DEF Retraceable, n
  <2>3. PICK j : j = n
    OBVIOUS
  <2>4. Past(j + 1)' = before'.cell
    BY <1>6, <1>7, <2>1, <2>2, <2>3
  <2> QED
    BY <2>3, <2>4
<1>10. Retraceable'
  <2>1. \A k \in 0 .. Len(undo'), st \in Streams, i \in Idx : Past(k)'[st][i].shift = 0
    BY <1>4, <1>8
  <2>2. \A k \in 1 .. Len(undo'), st \in Streams, i \in Idx :
          InSlot(undo'[k].slot, st, i) \/ Past(k - 1)'[st][i] = Past(k)'[st][i]
    <3>1. \A k \in 1 .. n + 1 : k \in 0 .. n + 1 /\ k # 0
      BY <1>2
    <3> QED
      BY <1>4, <1>8, <3>1
  <2>3. \A k \in {Len(undo')} : Past(k)' = before'.cell
    BY <1>4, <1>9
  <2>4. batch' = before'.batch
    BY <1>1, <1>7 DEF Retraceable
  <2> QED
    BY <2>1, <2>2, <2>3, <2>4 DEF Retraceable, InSlot
<1> QED
  BY <1>7, <1>10 DEF PrepareInv

LEMMA PlaceFailsPrepare ==
  ASSUME CacheOK, PlaceFails, PrepareInv
  PROVE  PrepareInv'
<1>1. /\ cell' = cell /\ before' = before /\ undo' = undo
      /\ phase = "place" /\ Retraceable
  BY DEF PlaceFails, store, PrepareInv
<1>2. CASE undo = <<>>
  <2>1. Len(undo) = 0
    BY <1>2, EmptySeq
  <2>2. cell = before.cell
    BY <1>1, <2>1 DEF Retraceable, Past
  <2>3. phase' = "idle"
    BY <1>2 DEF PlaceFails
  <2> QED
    BY <1>1, <2>2, <2>3 DEF PrepareInv
<1>3. CASE undo # <<>>
  <2>1. phase' = "restore" /\ batch' = batch
    BY <1>3 DEF PlaceFails
  <2>2. Retraceable'
    BY <1>1, <2>1 DEF Retraceable, Past, InSlot
  <2> QED
    BY <2>1, <2>2 DEF PrepareInv
<1> QED
  BY <1>2, <1>3

LEMMA RestorePrepare ==
  ASSUME CacheOK, CacheOK', RestoreUbatch, PrepareInv
  PROVE  PrepareInv'
<1> DEFINE n == Len(undo) - 1
<1>1. /\ phase = "restore" /\ Retraceable /\ before' = before /\ Stored'
      /\ batch' = IF n = 0 /\ ret = "no slot" THEN <<>> ELSE batch
      /\ phase' = IF n # 0 THEN "restore" ELSE IF ret # "no slot" THEN "compute" ELSE "idle"
  <2>1. n = 0 <=> Len(undo) = 1
    BY RestoredIs
  <2> QED
    BY <2>1 DEF RestoreUbatch, PrepareInv, CacheOK
<1>2. /\ n \in Nat /\ Len(undo') = n /\ Len(undo) = n + 1
      /\ \A m \in 1 .. n : undo'[m] = undo[m + 1]
      /\ undo[1].cell \in [Streams -> Cells]
  BY RestoredIs DEF Undo
<1>3. /\ \A k \in {n + 1} : Past(k) = before.cell
      /\ \A k \in 0 .. n + 1, st \in Streams, i \in Idx : Past(k)[st][i].shift = 0
      /\ \A k \in 1 .. n + 1, st \in Streams, i \in Idx :
           InSlot(undo[k].slot, st, i) \/ Past(k - 1)[st][i] = Past(k)[st][i]
  BY <1>1, <1>2, ZenonT(60) DEF Retraceable
<1> HIDE DEF n
<1>4. Past(0) = cell /\ Past(1) = undo[1].cell
  BY DEF Past
(* One step back, the cells are exactly what they were. *)
<1>5. cell' = undo[1].cell
  <2>1. ASSUME NEW st \in Streams, NEW i \in Idx PROVE cell'[st][i] = undo[1].cell[st][i]
    <3>1. 1 \in 0 .. n + 1 /\ 1 \in 1 .. n + 1
      BY <1>2
    <3>2. undo[1].cell[st][i].shift = 0
      BY <1>3, <1>4, <3>1
    <3>3. InSlot(undo[1].slot, st, i) \/ cell[st][i] = undo[1].cell[st][i]
      <4>1. Past(1 - 1) = cell
        BY DEF Past
      <4> QED
        BY <1>3, <1>4, <3>1, <4>1
    <3> QED
      BY <3>2, <3>3, RestoredIs
  <2>2. cell' \in [Streams -> [Idx -> SoundCell]] /\ undo[1].cell \in [Streams -> [Idx -> SoundCell]]
    BY <1>1, <1>2 DEF Stored, Cells
  <2>3. ASSUME NEW st \in Streams PROVE cell'[st] = undo[1].cell[st]
    <3>1. cell'[st] \in [Idx -> SoundCell] /\ undo[1].cell[st] \in [Idx -> SoundCell]
      BY <2>2
    <3>2. \A i \in Idx : cell'[st][i] = undo[1].cell[st][i]
      BY <2>1
    <3> QED
      BY <3>1, <3>2
  <2> QED
    BY <2>2, <2>3
<1>6. \A k \in 0 .. n : Past(k)' = Past(k + 1)
  <2> SUFFICES ASSUME NEW k \in 0 .. n PROVE Past(k)' = Past(k + 1)
    OBVIOUS
  <2>1. CASE k = 0
    BY <1>4, <1>5, <2>1 DEF Past
  <2>2. CASE k # 0
    <3>1. k \in 1 .. n /\ k + 1 # 0
      BY <1>2, <2>2
    <3> QED
      BY <1>2, <2>2, <3>1 DEF Past
  <2> QED
    BY <2>1, <2>2
<1>7. CASE n # 0
  <2>1. phase' = "restore" /\ batch' = batch
    BY <1>1, <1>7
  <2>2. \A k \in {n} : Past(k)' = before.cell
    <3> SUFFICES ASSUME NEW k \in {n} PROVE Past(k)' = before.cell
      OBVIOUS
    <3>1. k \in 0 .. n /\ k + 1 \in {n + 1}
      BY <1>2
    <3> QED
      BY <1>3, <1>6, <3>1
  <2>3. \A k \in 0 .. n, st \in Streams, i \in Idx : Past(k)'[st][i].shift = 0
    <3> SUFFICES ASSUME NEW k \in 0 .. n, NEW st \in Streams, NEW i \in Idx
                 PROVE  Past(k)'[st][i].shift = 0
      OBVIOUS
    <3>1. k + 1 \in 0 .. n + 1
      BY <1>2
    <3> QED
      BY <1>3, <1>6, <3>1
  <2>4. \A k \in 1 .. n, st \in Streams, i \in Idx :
          InSlot(undo'[k].slot, st, i) \/ Past(k - 1)'[st][i] = Past(k)'[st][i]
    <3> SUFFICES ASSUME NEW k \in 1 .. n, NEW st \in Streams, NEW i \in Idx
                 PROVE  InSlot(undo'[k].slot, st, i) \/ Past(k - 1)'[st][i] = Past(k)'[st][i]
      OBVIOUS
    <3> DEFINE j == k - 1
    <3>1. /\ k \in 0 .. n /\ j \in 0 .. n /\ k + 1 \in 1 .. n + 1
          /\ (k + 1) - 1 = k /\ j + 1 = k
      BY <1>2
    <3>2. Past(k)' = Past(k + 1) /\ Past(j)' = Past(k) /\ undo'[k] = undo[k + 1]
      BY <1>2, <1>6, <3>1
    <3>3. InSlot(undo[k + 1].slot, st, i) \/ Past(k)[st][i] = Past(k + 1)[st][i]
      BY <1>3, <3>1
    <3> QED
      BY <3>2, <3>3
  <2>5. Retraceable'
    BY <1>1, <1>2, <2>1, <2>2, <2>3, <2>4 DEF Retraceable, InSlot
  <2> QED
    BY <2>1, <2>5 DEF PrepareInv
<1>8. CASE n = 0
  <2>1. cell' = before'.cell
    <3>1. 1 \in {n + 1}
      BY <1>8
    <3> QED
      BY <1>1, <1>3, <1>4, <1>5, <3>1
  <2>2. phase' = "idle" \/ (phase' = "compute" /\ batch' = batch)
    BY <1>1, <1>8
  <2>3. batch = before'.batch
    BY <1>1 DEF Retraceable
  <2> QED
    BY <2>1, <2>2, <2>3 DEF PrepareInv
<1> QED
  BY <1>7, <1>8

LEMMA ComputePrepare ==
  ASSUME CacheOK, ComputeUbatch, PrepareInv
  PROVE  PrepareInv'
<1>1. /\ phase = "compute" /\ Len(Tail(batch)) = Len(batch) - 1
      /\ Len(batch) \in Nat \ {0} /\ ret = None
  BY Computing DEF ComputeUbatch
<1>2. /\ batch' = Tail(batch) /\ before' = before
      /\ phase' = IF Len(batch) = 1 THEN "idle" ELSE "compute"
      /\ ret' = IF Len(batch) = 1 THEN "ok" ELSE ret
  BY DEF ComputeUbatch
<1>3. ret' # "no slot"
  BY <1>1, <1>2 DEF None
<1>4. \/ batch = before.batch
      \/ Len(before.batch) \in Nat /\ Len(batch) < Len(before.batch)
  BY <1>1 DEF PrepareInv
<1>5. Len(before'.batch) \in Nat /\ Len(batch') < Len(before'.batch)
  BY <1>1, <1>2, <1>4
<1>6. phase' \in {"idle", "compute"}
  BY <1>2
<1> QED
  BY <1>3, <1>5, <1>6 DEF PrepareInv

LEMMA CallingPrepare ==
  ASSUME CacheOK, Calling, PrepareInv
  PROVE  PrepareInv'
<1>1. Stored
  BY DEF CacheOK
<1>2. ASSUME Call PROVE PrepareInv'
  BY <1>2 DEF Call, PrepareInv, None
<1>3. CASE DecodeBatch
  BY <1>1, <1>3, DecodeBatchIs, DecodeStartPrepare
<1>4. CASE Moving
  BY <1>1, <1>2, <1>4, MovingIs
<1>5. CASE \E wipe \in BOOLEAN : Clear(wipe)
  BY <1>2, <1>5 DEF Clear
<1>6. CASE \E s, d \in Seqs, r \in Ranges : SeqCpStream(s, d, r[1], r[2])
  BY <1>2, <1>6 DEF SeqCpStream
<1> QED
  BY <1>3, <1>4, <1>5, <1>6, CallingIs

LEMMA NextPrepare ==
  ASSUME NSwa = 0
  PROVE  CacheOK /\ PrepareInv /\ [Next]_vars => PrepareInv'
<1> SUFFICES ASSUME CacheOK, PrepareInv, [Next]_vars PROVE PrepareInv'
  OBVIOUS
<1>1. CacheOK'
  BY NextOK
<1>2. CASE Calling
  BY <1>2, CallingPrepare
<1>3. CASE PlaceUbatch
  BY <1>3, PlacePrepare
<1>4. CASE PlaceFails
  BY <1>4, PlaceFailsPrepare
<1>5. CASE RestoreUbatch
  BY <1>1, <1>5, RestorePrepare
<1>6. CASE ComputeUbatch
  BY <1>6, ComputePrepare
<1>7. CASE FailUbatch
  BY <1>7 DEF FailUbatch, PrepareInv
<1>8. CASE UNCHANGED vars
  <2>1. /\ cell' = cell /\ undo' = undo /\ batch' = batch /\ before' = before
        /\ phase' = phase /\ ret' = ret
    BY <1>8 DEF vars
  <2>2. Retraceable' <=> Retraceable
    BY <2>1 DEF Retraceable, Past
  <2> QED
    BY <2>1, <2>2 DEF PrepareInv
<1> QED
  BY <1>2, <1>3, <1>4, <1>5, <1>6, <1>7, <1>8 DEF Next

(* Without a sliding window prepare leaves every cell of every stream as   *)
(* it found it, position, sequences and shift, whether it found room for   *)
(* all ubatches or gave up half way: its walk backwards through the states *)
(* it remembers undoes its walk forwards, although it puts back the cells  *)
(* of the slots alone.                                                     *)
THEOREM PrepareUndone ==
  ASSUME NSwa = 0
  PROVE  Spec => []PrepareRestores
<1>1. Init => PrepareInv
  BY DEF Init, PrepareInv, None
<1>2. CacheOK /\ PrepareInv /\ [Next]_vars => PrepareInv'
  BY NextPrepare
<1>3. CacheOK /\ PrepareInv => PrepareRestores
  <2> SUFFICES ASSUME CacheOK, PrepareInv PROVE PrepareRestores
    OBVIOUS
  <2>1. phase = "compute" /\ batch = before.batch => cell = before.cell
    <3> SUFFICES ASSUME phase = "compute", batch = before.batch PROVE cell = before.cell
      OBVIOUS
    <3>1. Len(batch) \in Nat
      BY Computing
    <3>2. ~(Len(batch) < Len(before.batch))
      BY <3>1
    <3> QED
      BY <3>2 DEF PrepareInv
  <2> QED
    BY <2>1 DEF PrepareInv, PrepareRestores
<1> QED
  BY <1>1, <1>2, <1>3, AlwaysOK, PTL DEF Spec
=============================================================================

--------------------------- MODULE SlotCacheProofs ---------------------------
(***************************************************************************)
(* Proofs about SlotCache, for any number of slots, any sizes, prompts and *)
(* faults: what a slot remembers is what its sequence holds, an idle slot  *)
(* that remembers nothing holds nothing, and no step that concerns other   *)
(* slots touches an idle slot's sequence.                                  *)
(***************************************************************************)
EXTENDS SlotCache, FiniteSetTheorems, FunctionTheorems, SequenceTheorems,
        WellFoundedInduction, TLAPS

(* A set of numbers has a least element.                                   *)
LEMMA LeastNat ==
  ASSUME NEW T, T \subseteq Nat, T # {}
  PROVE  \E x \in T : \A y \in T : x <= y
<1> DEFINE R == OpToRel(<, Nat)
<1>1. IsWellFoundedOn(R, Nat)
  BY NatLessThanWellFounded
<1>2. \A x, y \in Nat : x < y => <<x, y>> \in R
  BY DEF OpToRel
<1> HIDE DEF R
<1>3. PICK x \in T : \A y \in T : <<y, x>> \notin R
  BY <1>1, WFMin
<1>4. ASSUME NEW y \in T PROVE x <= y
  <2>1. x \in Nat /\ y \in Nat /\ <<y, x>> \notin R
    BY <1>3
  <2>2. ~(y < x)
    BY <1>2, <2>1
  <2> QED
    BY <2>1, <2>2
<1> QED
  BY <1>4

LEMMA MinIs ==
  ASSUME NEW T, T \subseteq Nat, T # {}
  PROVE  Min(T) \in T /\ \A y \in T : Min(T) <= y
<1>1. \E x \in T : \A y \in T : x <= y
  BY LeastNat
<1> QED
  BY <1>1 DEF Min

LEMMA MinOfTwo ==
  ASSUME NEW x \in Nat, NEW y \in Nat
  PROVE  Min({x, y}) = IF x <= y THEN x ELSE y
<1> DEFINE T == {x, y}
<1>1. T \subseteq Nat /\ T # {}
  OBVIOUS
<1>2. Min(T) \in T /\ \A z \in T : Min(T) <= z
  BY <1>1, MinIs
<1> QED
  BY <1>2

LEMMA MaxOfTwo ==
  ASSUME NEW x \in Int, NEW y \in Int
  PROVE  Max({x, y}) = IF x >= y THEN x ELSE y
<1>1. \E z \in {x, y} : \A w \in {x, y} : z >= w
  OBVIOUS
<1>2. Max({x, y}) \in {x, y} /\ \A w \in {x, y} : Max({x, y}) >= w
  BY <1>1 DEF Max
<1> QED
  BY <1>2

(* A function that is defined step by step exists.                         *)
HasSteps(D, first, n, F) ==
  \E g \in [0 .. n -> D] :
    g[0] = first /\ \A k \in 1 .. n : g[k] = F[<<g[k - 1], k>>]

LEMMA StepByStep ==
  ASSUME NEW D, NEW first \in D, NEW n \in Nat, NEW F \in [D \X (1 .. n) -> D]
  PROVE  HasSteps(D, first, n, F)
<1> DEFINE Good(m, g) == /\ g \in [0 .. m -> D] /\ g[0] = first
                         /\ \A k \in 1 .. m : g[k] = F[<<g[k - 1], k>>]
           Bad == {m \in 0 .. n : ~ \E g : Good(m, g)}
<1>1. Good(0, [k \in 0 .. 0 |-> first])
  OBVIOUS
<1>2. ASSUME NEW m \in 1 .. n, NEW g, Good(m - 1, g) PROVE \E h : Good(m, h)
  <2> DEFINE x == F[<<g[m - 1], m>>]
             h == [k \in 0 .. m |-> IF k = m THEN x ELSE g[k]]
  <2>1. m - 1 \in 0 .. m - 1 /\ m \in 1 .. n /\ m \in Nat
    OBVIOUS
  <2>2. g[m - 1] \in D
    BY <1>2, <2>1
  <2>3. <<g[m - 1], m>> \in D \X (1 .. n)
    BY <2>1, <2>2
  <2>4. x \in D
    BY <2>3
  <2>5. h \in [0 .. m -> D]
    <3>1. ASSUME NEW k \in 0 .. m PROVE h[k] \in D
      <4>1. CASE k = m
        BY <2>4, <4>1
      <4>2. CASE k # m
        <5>1. k \in 0 .. m - 1
          BY <4>2
        <5> QED
          BY <1>2, <4>2, <5>1
      <4> QED
        BY <4>1, <4>2
    <3> QED
      BY <3>1
  <2>6. h[0] = first
    BY <1>2, <2>1
  <2>7. ASSUME NEW k \in 1 .. m PROVE h[k] = F[<<h[k - 1], k>>]
    <3>1. k - 1 \in 0 .. m /\ k - 1 # m /\ k \in 0 .. m
      OBVIOUS
    <3>2. h[k - 1] = g[k - 1]
      BY <3>1
    <3>3. CASE k = m
      BY <3>1, <3>2, <3>3
    <3>4. CASE k # m
      <4>1. k \in 1 .. m - 1
        BY <3>4
      <4>2. h[k] = g[k]
        BY <3>1, <3>4
      <4> QED
        BY <1>2, <3>2, <4>1, <4>2
    <3> QED
      BY <3>3, <3>4
  <2> QED
    BY <2>5, <2>6, <2>7
<1>3. Bad = {}
  <2> SUFFICES ASSUME Bad # {} PROVE FALSE
    OBVIOUS
  <2>1. Bad \subseteq Nat
    OBVIOUS
  <2>2. PICK m \in Bad : \A y \in Bad : m <= y
    BY <2>1, LeastNat
  <2> HIDE DEF Good
  <2>3. m \in 1 .. n
    BY <1>1
  <2>4. m - 1 \in 0 .. n /\ m - 1 \notin Bad
    BY <2>2, <2>3
  <2>5. PICK g : Good(m - 1, g)
    BY <2>4
  <2>6. \E h : Good(m, h)
    BY <1>2, <2>3, <2>5
  <2> QED
    BY <2>6
<1>4. n \in 0 .. n
  OBVIOUS
<1>5. PICK g : Good(n, g)
  BY <1>3, <1>4
<1> QED
  BY <1>5 DEF HasSteps
-----------------------------------------------------------------------------
(* What the cells hold. *)

Cell     == {Empty} \cup [pos : 0 .. NCtx, tok : Tok, seqs : (SUBSET Slots) \ {{}}]
CellMaps == [Cells -> Cell]

LEMMA CellsOfIs ==
  /\ Cells \subseteq Nat /\ IsFiniteSet(Cells)
  /\ \A s \in Slots : CellsOf(s) \subseteq Cells
  /\ Unified => \A s \in Slots : CellsOf(s) = Cells
  /\ ~Unified => \A s, r \in Slots : s # r => CellsOf(s) \cap CellsOf(r) = {}
<1>1. NCells \in Nat \ {0} /\ NSlots \in Nat \ {0} /\ Unified \in BOOLEAN
  BY SizesAssumption
<1>2. NCells * NSlots \in Nat
  BY <1>1
<1>3. CASE Unified
  <2>1. Cells = 0 .. NCells - 1
    BY <1>1, <1>3 DEF Cells
  <2>2. 0 \in Int /\ NCells - 1 \in Int
    BY <1>1
  <2>3. IsFiniteSet(0 .. NCells - 1)
    BY <2>2, FS_Interval
  <2>4. \A s \in Slots : CellsOf(s) = Cells
    BY <1>3 DEF CellsOf
  <2>5. Cells \subseteq Nat /\ IsFiniteSet(Cells)
    BY <2>1, <2>3
  <2> QED
    BY <1>3, <2>4, <2>5
<1>4. CASE ~Unified
  <2>1. Cells = 0 .. NCells * NSlots - 1
    BY <1>1, <1>4 DEF Cells
  <2>2. 0 \in Int /\ NCells * NSlots - 1 \in Int
    BY <1>2
  <2>3. IsFiniteSet(Cells)
    BY <2>1, <2>2, FS_Interval
  <2>4. \A s \in Slots : CellsOf(s) = NCells * s .. NCells * (s + 1) - 1
    BY <1>4 DEF CellsOf
  <2>5. ASSUME NEW s \in Slots
        PROVE  /\ NCells * s \in Nat /\ NCells * (s + 1) \in Nat
               /\ NCells * (s + 1) <= NCells * NSlots
    <3>1. s \in Nat /\ s + 1 <= NSlots
      BY <1>1 DEF Slots
    <3> QED
      BY <1>1, <3>1
  <2>6. ASSUME NEW s \in Slots, NEW r \in Slots, s < r
        PROVE  NCells * (s + 1) <= NCells * r
    <3>1. s \in Nat /\ r \in Nat /\ s + 1 <= r
      BY <1>1, <2>6 DEF Slots
    <3> QED
      BY <1>1, <3>1
  <2>7. \A s \in Slots : CellsOf(s) \subseteq Cells
    BY <1>2, <2>1, <2>4, <2>5
  <2>8. ASSUME NEW s \in Slots, NEW r \in Slots, s < r
        PROVE  CellsOf(s) \cap CellsOf(r) = {}
    <3>1. NCells * s \in Nat /\ NCells * (s + 1) \in Nat /\ NCells * r \in Nat
          /\ NCells * (r + 1) \in Nat
      BY <2>5
    <3>2. NCells * (s + 1) <= NCells * r
      BY <2>6, <2>8
    <3> DEFINE a == NCells * s  b == NCells * (s + 1)  d == NCells * r  e == NCells * (r + 1)
    <3>3. a \in Nat /\ b \in Nat /\ d \in Nat /\ e \in Nat /\ b <= d
      BY <3>1, <3>2
    <3>4. CellsOf(s) = a .. b - 1 /\ CellsOf(r) = d .. e - 1
      BY <2>4
    <3> HIDE DEF a, b, d, e
    <3> QED
      BY <3>3, <3>4
  <2>9. \A s, r \in Slots : s # r => CellsOf(s) \cap CellsOf(r) = {}
    <3> SUFFICES ASSUME NEW s \in Slots, NEW r \in Slots, s # r
                 PROVE  CellsOf(s) \cap CellsOf(r) = {}
      OBVIOUS
    <3>1. s < r \/ r < s
      BY <1>1 DEF Slots
    <3> QED
      BY <2>8, <3>1
  <2> QED
    BY <1>2, <1>4, <2>1, <2>3, <2>7, <2>9
<1> QED
  BY <1>1, <1>3, <1>4

(* What a sequence holds is the same in two states of the cells.           *)
SameFor(c, d, s) ==
  /\ Mine(d, s) = Mine(c, s)
  /\ \A i \in Mine(c, s) : d[i].pos = c[i].pos /\ d[i].tok = c[i].tok

LEMMA CellIs ==
  ASSUME NEW c \in CellMaps, NEW i \in Cells
  PROVE  /\ c[i] \in Cell /\ c[i].seqs \subseteq Slots
         /\ c[i].seqs # {} => c[i].pos \in 0 .. NCtx /\ c[i].tok \in Tok
         /\ c[i].seqs = {} => c[i] = Empty
         /\ c[i].pos \in Int
<1>1. c[i] \in Cell
  BY DEF CellMaps
<1> QED
  BY <1>1 DEF Cell, Empty

LEMMA MineIs ==
  ASSUME NEW c \in CellMaps, NEW s \in Slots, NEW i \in Mine(c, s)
  PROVE  /\ i \in Cells /\ i \in CellsOf(s) /\ s \in c[i].seqs
         /\ c[i].pos \in 0 .. NCtx /\ c[i].tok \in Tok
         /\ c[i].seqs \in (SUBSET Slots) \ {{}}
<1>1. i \in Cells /\ i \in CellsOf(s) /\ s \in c[i].seqs
  BY DEF Mine, Has
<1> QED
  BY <1>1, CellIs

LEMMA SeqRmIs ==
  ASSUME NEW c \in CellMaps, NEW s \in Slots, NEW p0 \in Int, NEW p1 \in Int
  PROVE  LET d == SeqRm(c, s, p0, p1)
         IN  /\ d \in CellMaps
             /\ Mine(d, s) = {i \in Mine(c, s) : c[i].pos \notin p0 .. p1 - 1}
             /\ \A i \in Mine(d, s) : d[i] = c[i]
             /\ \A r \in Slots : r # s => SameFor(c, d, r)
             /\ \A i \in Cells : d[i].seqs \subseteq c[i].seqs
<1> DEFINE d == SeqRm(c, s, p0, p1)
           Goes(i) == Has(c, i, s) /\ c[i].pos \in p0 .. p1 - 1
<1>1. ASSUME NEW i \in Cells
      PROVE  /\ d[i] \in Cell
             /\ ~Goes(i) => d[i] = c[i]
             /\ Goes(i) => /\ d[i].seqs = c[i].seqs \ {s}
                           /\ d[i].seqs # {} => d[i].pos = c[i].pos /\ d[i].tok = c[i].tok
  <2>1. CASE ~Goes(i)
    BY <2>1, CellIs DEF SeqRm
  <2>2. CASE Goes(i) /\ c[i].seqs = {s}
    BY <2>2 DEF SeqRm, Cell, Empty
  <2>3. CASE Goes(i) /\ c[i].seqs # {s}
    <3>1. d[i] = [c[i] EXCEPT !.seqs = c[i].seqs \ {s}]
      BY <2>3 DEF SeqRm
    <3>2. s \in c[i].seqs
      BY <2>3 DEF Has
    <3>3. c[i] \in [pos : 0 .. NCtx, tok : Tok, seqs : (SUBSET Slots) \ {{}}]
      BY <3>2, CellIs DEF Cell, Empty
    <3>4. c[i].seqs \ {s} \in (SUBSET Slots) \ {{}}
      BY <2>3, <3>2, <3>3
    <3>5. /\ d[i] \in [pos : 0 .. NCtx, tok : Tok, seqs : (SUBSET Slots) \ {{}}]
          /\ d[i].seqs = c[i].seqs \ {s} /\ d[i].pos = c[i].pos /\ d[i].tok = c[i].tok
      BY <3>1, <3>3, <3>4
    <3> QED
      BY <2>3, <3>5 DEF Cell
  <2> QED
    BY <2>1, <2>2, <2>3
<1>2. d = [i \in Cells |-> d[i]]
  BY DEF SeqRm
<1> HIDE DEF d
<1>3. d \in CellMaps
  BY <1>1, <1>2 DEF CellMaps
<1>4. \A i \in Cells : d[i].seqs \subseteq c[i].seqs
  BY <1>1
<1>5. Mine(d, s) = {i \in Mine(c, s) : c[i].pos \notin p0 .. p1 - 1}
  <2>1. ASSUME NEW i \in Cells
        PROVE  Has(d, i, s) <=> Has(c, i, s) /\ c[i].pos \notin p0 .. p1 - 1
    BY <1>1 DEF Has
  <2> QED
    BY <2>1 DEF Mine
<1>6. \A i \in Mine(d, s) : d[i] = c[i]
  BY <1>1, <1>5 DEF Mine
<1>7. ASSUME NEW r \in Slots, r # s PROVE SameFor(c, d, r)
  <2>1. ASSUME NEW i \in Cells
        PROVE  /\ Has(d, i, r) <=> Has(c, i, r)
               /\ Has(c, i, r) => d[i].pos = c[i].pos /\ d[i].tok = c[i].tok
    BY <1>1, <1>7 DEF Has
  <2> QED
    BY <2>1 DEF Mine, SameFor
<1> QED
  BY <1>3, <1>4, <1>5, <1>6, <1>7 DEF d

LEMMA SeqClearIs ==
  ASSUME NEW c \in CellMaps, NEW s \in Slots
  PROVE  LET d == SeqClear(c, s)
         IN  /\ d \in CellMaps /\ Mine(d, s) = {}
             /\ \A r \in Slots : r # s => SameFor(c, d, r)
             /\ \A i \in Cells : d[i].seqs \subseteq c[i].seqs
<1> DEFINE d == SeqRm(c, s, 0, NCtx + 1)
<1>1. NCtx \in Nat
  BY SizesAssumption
<1>2. 0 \in Int /\ NCtx + 1 \in Int /\ 0 .. (NCtx + 1) - 1 = 0 .. NCtx
  BY <1>1
<1>3. /\ d \in CellMaps
      /\ Mine(d, s) = {i \in Mine(c, s) : c[i].pos \notin 0 .. (NCtx + 1) - 1}
      /\ \A r \in Slots : r # s => SameFor(c, d, r)
      /\ \A i \in Cells : d[i].seqs \subseteq c[i].seqs
  BY <1>2, SeqRmIs
<1>4. Mine(d, s) = {}
  BY <1>2, <1>3, MineIs
<1> QED
  BY <1>3, <1>4 DEF SeqClear

LEMMA SeqShiftIs ==
  ASSUME NEW c \in CellMaps, NEW s \in Slots, NEW p0 \in Int, NEW p1 \in Int, NEW by \in Int,
         \A i \in Mine(c, s) : c[i].pos \in p0 .. p1 - 1 => c[i].pos + by \in 0 .. NCtx
  PROVE  LET d == SeqShift(c, s, p0, p1, by)
         IN  /\ d \in CellMaps
             /\ \A r \in Slots : Mine(d, r) = Mine(c, r)
             /\ \A i \in Mine(c, s) : /\ d[i].tok = c[i].tok
                                      /\ d[i].pos = IF c[i].pos \in p0 .. p1 - 1
                                                    THEN c[i].pos + by ELSE c[i].pos
             /\ \A i \in Cells : d[i].seqs = c[i].seqs /\ (i \notin Mine(c, s) => d[i] = c[i])
<1> DEFINE d == SeqShift(c, s, p0, p1, by)
           Moves(i) == Has(c, i, s) /\ c[i].pos \in p0 .. p1 - 1
<1>1. ASSUME NEW i \in Cells
      PROVE  /\ d[i] \in Cell /\ d[i].seqs = c[i].seqs
             /\ ~Moves(i) => d[i] = c[i]
             /\ Moves(i) => d[i].pos = c[i].pos + by /\ d[i].tok = c[i].tok
  <2>1. CASE ~Moves(i)
    BY <2>1, CellIs DEF SeqShift
  <2>2. CASE Moves(i)
    <3> DEFINE p == c[i].pos + by
    <3>1. d[i] = [c[i] EXCEPT !.pos = p]
      BY <2>2 DEF SeqShift
    <3>2. i \in Mine(c, s)
      BY <2>2 DEF Mine
    <3>3. p \in 0 .. NCtx
      BY <2>2, <3>2
    <3>4. s \in c[i].seqs
      BY <2>2 DEF Has
    <3>5. c[i] \in [pos : 0 .. NCtx, tok : Tok, seqs : (SUBSET Slots) \ {{}}]
      BY <3>4, CellIs DEF Cell, Empty
    <3> HIDE DEF p
    <3>6. /\ d[i] \in [pos : 0 .. NCtx, tok : Tok, seqs : (SUBSET Slots) \ {{}}]
          /\ d[i].seqs = c[i].seqs /\ d[i].pos = p /\ d[i].tok = c[i].tok
      BY <3>1, <3>3, <3>5
    <3> QED
      BY <2>2, <3>6 DEF Cell, p
  <2> QED
    BY <2>1, <2>2
<1>2. d = [i \in Cells |-> d[i]]
  BY DEF SeqShift
<1> HIDE DEF d
<1>3. d \in CellMaps
  BY <1>1, <1>2 DEF CellMaps
<1>4. \A r \in Slots : Mine(d, r) = Mine(c, r)
  BY <1>1 DEF Mine, Has
<1>5. \A i \in Mine(c, s) : i \in Cells /\ Has(c, i, s)
  BY DEF Mine
<1>6. \A i \in Cells : i \notin Mine(c, s) => ~Moves(i)
  BY DEF Mine
<1> QED
  BY <1>1, <1>3, <1>4, <1>5, <1>6 DEF d

LEMMA SeqCpIs ==
  ASSUME NEW c \in CellMaps, NEW s \in Slots, NEW t \in Slots, NEW p0, NEW p1
  PROVE  LET d == SeqCp(c, s, t, p0, p1)
         IN  d \in CellMaps /\ \A r \in Slots : r # t => SameFor(c, d, r)
<1> DEFINE d == SeqCp(c, s, t, p0, p1)
           Copied(i) == Has(c, i, s) /\ c[i].pos \in p0 .. p1 - 1
<1>1. ASSUME NEW i \in Cells
      PROVE  /\ d[i] \in Cell /\ d[i].pos = c[i].pos /\ d[i].tok = c[i].tok
             /\ \A r \in Slots : r # t => (r \in d[i].seqs <=> r \in c[i].seqs)
  <2>1. CASE ~Copied(i)
    BY <2>1, CellIs DEF SeqCp
  <2>2. CASE Copied(i)
    <3> DEFINE q == c[i].seqs \cup {t}
    <3>1. d[i] = [c[i] EXCEPT !.seqs = q]
      BY <2>2 DEF SeqCp
    <3>2. s \in c[i].seqs
      BY <2>2 DEF Has
    <3>3. c[i] \in [pos : 0 .. NCtx, tok : Tok, seqs : (SUBSET Slots) \ {{}}]
      BY <3>2, CellIs DEF Cell, Empty
    <3>4. q \in (SUBSET Slots) \ {{}} /\ \A r \in Slots : r # t => (r \in q <=> r \in c[i].seqs)
      BY <3>3
    <3> HIDE DEF q
    <3>5. /\ d[i] \in [pos : 0 .. NCtx, tok : Tok, seqs : (SUBSET Slots) \ {{}}]
          /\ d[i].seqs = q /\ d[i].pos = c[i].pos /\ d[i].tok = c[i].tok
      BY <3>1, <3>3, <3>4
    <3> QED
      BY <3>4, <3>5 DEF Cell
  <2> QED
    BY <2>1, <2>2
<1>2. d = [i \in Cells |-> d[i]]
  BY DEF SeqCp
<1> HIDE DEF d
<1>3. d \in CellMaps
  BY <1>1, <1>2 DEF CellMaps
<1>4. ASSUME NEW r \in Slots, r # t PROVE SameFor(c, d, r)
  BY <1>1, <1>4 DEF SameFor, Mine, Has
<1> QED
  BY <1>3, <1>4 DEF d

LEMMA CopyStreamIs ==
  ASSUME NEW c \in CellMaps, NEW s \in Slots, NEW t \in Slots, ~Unified
  PROVE  LET d == CopyStream(c, s, t)
         IN  d \in CellMaps /\ \A r \in Slots : r # t => SameFor(c, d, r)
<1> DEFINE d == CopyStream(c, s, t)
           from(i) == i + NCells * (s - t)
<1>1. ASSUME NEW i \in Cells
      PROVE  d[i] \in Cell /\ (i \notin CellsOf(t) => d[i] = c[i])
  <2>1. CASE i \notin CellsOf(t)
    BY <2>1, CellIs DEF CopyStream
  <2>2. CASE i \in CellsOf(t) /\ from(i) \notin Mine(c, s)
    BY <2>2 DEF CopyStream, Cell
  <2>3. CASE i \in CellsOf(t) /\ from(i) \in Mine(c, s)
    <3>1. PICK j \in Mine(c, s) : j = from(i)
      BY <2>3
    <3>2. d[i] = [c[j] EXCEPT !.seqs = {t}]
      BY <2>3, <3>1 DEF CopyStream
    <3>3. c[j] \in [pos : 0 .. NCtx, tok : Tok, seqs : (SUBSET Slots) \ {{}}]
      BY MineIs, CellIs DEF Cell, Empty
    <3>4. d[i] \in [pos : 0 .. NCtx, tok : Tok, seqs : (SUBSET Slots) \ {{}}]
      BY <3>2, <3>3
    <3> QED
      BY <2>3, <3>4 DEF Cell
  <2> QED
    BY <2>1, <2>2, <2>3
<1>2. d = [i \in Cells |-> d[i]]
  BY DEF CopyStream
<1> HIDE DEF d
<1>3. d \in CellMaps
  BY <1>1, <1>2 DEF CellMaps
<1>4. ASSUME NEW r \in Slots, r # t PROVE SameFor(c, d, r)
  <2>1. CellsOf(r) \cap CellsOf(t) = {}
    BY <1>4, CellsOfIs
  <2>2. \A i \in Cells : i \in CellsOf(r) => d[i] = c[i]
    BY <1>1, <2>1
  <2> QED
    BY <2>2 DEF SameFor, Mine, Has
<1> QED
  BY <1>3, <1>4 DEF d

Datum == [pos : 0 .. NCtx, tok : Tok]

(* The saved cells go to a block of free cells of the slot.                *)
Block(s, data, d, low) ==
  /\ Mine(d, s) = low .. low + Len(data) - 1
  /\ \A i \in Mine(d, s) : /\ i - low + 1 \in 1 .. Len(data)
                           /\ d[i].pos = data[i - low + 1].pos /\ d[i].tok = data[i - low + 1].tok

LEMMA RestoredIs ==
  ASSUME cells \in CellMaps, NEW s \in Slots, NEW data \in Seq(Datum)
  PROVE  LET d == Restored(s, data)
         IN  /\ d \in CellMaps
             /\ \A r \in Slots : r # s => SameFor(cells, d, r)
             /\ \A i \in Cells : d[i].seqs \subseteq cells[i].seqs \/ d[i].seqs = {s}
             /\ data # <<>> /\ Blocks(SeqClear(cells, s), s, Len(data)) # {}
                  => \E low \in Nat : Block(s, data, d, low)
<1> DEFINE c == SeqClear(cells, s)
           n == Len(data)
           B == Blocks(c, s, n)
           d == Restored(s, data)
<1>1. /\ c \in CellMaps /\ Mine(c, s) = {}
      /\ \A r \in Slots : r # s => SameFor(cells, c, r)
      /\ \A i \in Cells : c[i].seqs \subseteq cells[i].seqs
  BY SeqClearIs
<1>2. CASE data = <<>>
  <2>1. d = cells
    BY <1>2 DEF Restored
  <2> QED
    BY <1>2, <2>1 DEF SameFor
<1>3. CASE data # <<>> /\ B = {}
  <2>1. d = c
    BY <1>3 DEF Restored
  <2> QED
    BY <1>1, <1>3, <2>1
<1>4. CASE data # <<>> /\ B # {}
  <2> DEFINE low == Min(B)
  <2>1. B \subseteq Nat
    BY CellsOfIs DEF Blocks
  <2>2. low \in B
    BY <1>4, <2>1, MinIs
  <2>3. low \in Nat /\ low .. low + n - 1 \subseteq Free(c, s)
    BY <2>1, <2>2 DEF Blocks
  <2>4. d = [i \in Cells |->
               IF i \in low .. low + n - 1
               THEN [pos |-> data[i - low + 1].pos, tok |-> data[i - low + 1].tok, seqs |-> {s}]
               ELSE c[i]]
    BY <1>4 DEF Restored
  <2>5. n \in Nat /\ \A k \in 1 .. n : data[k] \in Datum
    BY LenProperties, ElementOfSeq
  <2> HIDE DEF low, n, c, d
  <2>6. ASSUME NEW i \in low .. low + n - 1
        PROVE  /\ i - low + 1 \in 1 .. n /\ data[i - low + 1] \in Datum
               /\ i \in Cells /\ i \in CellsOf(s) /\ c[i].seqs = {}
    <3>1. i - low + 1 \in 1 .. n
      BY <2>3, <2>5
    <3>2. i \in Free(c, s)
      BY <2>3
    <3> QED
      BY <2>5, <3>1, <3>2, CellsOfIs DEF Free
  <2>7. ASSUME NEW i \in low .. low + n - 1
        PROVE  /\ d[i] \in Cell /\ d[i].seqs = {s}
               /\ d[i].pos = data[i - low + 1].pos /\ d[i].tok = data[i - low + 1].tok
    <3> DEFINE x == data[i - low + 1]
    <3>1. x \in Datum /\ i \in Cells
      BY <2>6
    <3>2. d[i] = [pos |-> x.pos, tok |-> x.tok, seqs |-> {s}]
      BY <2>4, <3>1
    <3> HIDE DEF x
    <3>3. d[i] \in Cell /\ d[i].seqs = {s} /\ d[i].pos = x.pos /\ d[i].tok = x.tok
      BY <3>1, <3>2 DEF Cell, Datum
    <3> QED
      BY <3>3 DEF x
  <2>8. \A i \in Cells : i \notin low .. low + n - 1 => d[i] = c[i]
    BY <2>4
  <2>9. d = [i \in Cells |-> d[i]]
    BY <2>4
  <2>10. d \in CellMaps
    BY <1>1, <2>7, <2>8, <2>9, CellIs DEF CellMaps
  <2>11. Mine(d, s) = low .. low + n - 1
    <3>1. ASSUME NEW i \in Cells PROVE Has(d, i, s) <=> i \in low .. low + n - 1
      <4>1. ~Has(c, i, s)
        BY <1>1 DEF Mine
      <4> QED
        BY <2>6, <2>7, <2>8, <4>1 DEF Has
    <3>2. \A i \in low .. low + n - 1 : i \in Cells
      BY <2>6
    <3> QED
      BY <3>1, <3>2 DEF Mine
  <2>12. ASSUME NEW r \in Slots, r # s PROVE SameFor(cells, d, r)
    <3>1. SameFor(cells, c, r)
      BY <1>1, <2>12
    <3>2. ASSUME NEW i \in Cells
          PROVE  /\ Has(d, i, r) <=> Has(c, i, r)
                 /\ Has(c, i, r) => d[i] = c[i]
      BY <2>6, <2>7, <2>8, <2>12 DEF Has
    <3> QED
      BY <3>1, <3>2 DEF SameFor, Mine
  <2>13. \A i \in Cells : d[i].seqs \subseteq cells[i].seqs \/ d[i].seqs = {s}
    BY <1>1, <2>7, <2>8
  <2>14. Block(s, data, d, low)
    BY <2>6, <2>7, <2>11 DEF Block, n
  <2> QED
    BY <2>3, <2>10, <2>12, <2>13, <2>14 DEF d
<1> QED
  BY <1>2, <1>3, <1>4

(* The tokens of a batch.                                                  *)
EntrySet == [slot : Slots, pos : 0 .. NCtx - 1, tok : Tok, out : BOOLEAN]
CellOf(e) == [pos |-> e.pos, tok |-> e.tok, seqs |-> {e.slot}]

LEMMA PutOneIs ==
  ASSUME NEW c \in CellMaps, NEW e \in EntrySet
  PROVE  /\ PutOne(c, e) \in CellMaps /\ CellOf(e) \in Cell
         /\ PutOne(c, e) = [c EXCEPT ![Min(Free(c, e.slot))] = CellOf(e)]
<1>1. NCtx \in Nat
  BY SizesAssumption
<1>2. e.pos \in 0 .. NCtx - 1 /\ e.tok \in Tok /\ e.slot \in Slots
  BY DEF EntrySet
<1>3. e.pos \in 0 .. NCtx /\ {e.slot} \in (SUBSET Slots) \ {{}}
  BY <1>1, <1>2
<1>4. CellOf(e) \in Cell
  BY <1>2, <1>3 DEF Cell, CellOf
<1>5. PutOne(c, e) = [c EXCEPT ![Min(Free(c, e.slot))] = CellOf(e)]
  BY DEF PutOne, CellOf
<1> QED
  BY <1>4, <1>5 DEF CellMaps

(* Put() in steps.                                                         *)
LEMMA PutSteps ==
  ASSUME NEW c \in CellMaps, NEW e \in Seq(EntrySet)
  PROVE  \E g \in [0 .. Len(e) -> CellMaps] :
           /\ g[0] = c /\ Put(c, e) = g[Len(e)]
           /\ \A k \in 1 .. Len(e) : g[k] = PutOne(g[k - 1], e[k])
<1> DEFINE n == Len(e)
           F == [x \in CellMaps \X (1 .. n) |-> PutOne(x[1], e[x[2]])]
           after == CHOOSE g : g = [k \in 0 .. n |->
                      IF k = 0 THEN c ELSE PutOne(g[k - 1], e[k])]
<1>1. n \in Nat /\ \A k \in 1 .. n : e[k] \in EntrySet
  BY LenProperties, ElementOfSeq
<1>2. \A x \in CellMaps, k \in 1 .. n : F[<<x, k>>] = PutOne(x, e[k]) /\ PutOne(x, e[k]) \in CellMaps
  BY <1>1, PutOneIs
<1>3. F \in [CellMaps \X (1 .. n) -> CellMaps]
  BY <1>1, PutOneIs
<1> HIDE DEF F, n
<1>4. PICK g \in [0 .. n -> CellMaps] :
        g[0] = c /\ \A k \in 1 .. n : g[k] = F[<<g[k - 1], k>>]
  <2>1. n \in Nat
    BY <1>1
  <2>2. HasSteps(CellMaps, c, n, F)
    BY <2>1, <1>3, StepByStep
  <2> QED
    BY <2>2 DEF HasSteps
<1>5. g = [k \in 0 .. n |-> IF k = 0 THEN c ELSE PutOne(g[k - 1], e[k])]
  <2>1. ASSUME NEW k \in 0 .. n
        PROVE  g[k] = IF k = 0 THEN c ELSE PutOne(g[k - 1], e[k])
    <3>1. CASE k = 0
      BY <1>4, <3>1
    <3>2. CASE k # 0
      <4>1. k \in 1 .. n /\ k - 1 \in 0 .. n
        BY <1>1, <3>2
      <4>2. g[k - 1] \in CellMaps
        BY <4>1
      <4>3. g[k] = F[<<g[k - 1], k>>]
        BY <1>4, <4>1
      <4> QED
        BY <1>2, <3>2, <4>1, <4>2, <4>3
    <3> QED
      BY <3>1, <3>2
  <2>2. g = [k \in 0 .. n |-> g[k]]
    OBVIOUS
  <2> QED
    BY <2>1, <2>2
<1>6. after = [k \in 0 .. n |-> IF k = 0 THEN c ELSE PutOne(after[k - 1], e[k])]
  BY <1>5
<1>7. Put(c, e) = after[n]
  BY Zenon DEF Put, n
<1> HIDE DEF after
<1>8. 0 \in 0 .. n /\ n \in 0 .. n /\ \A k \in 1 .. n : k \in 0 .. n /\ k # 0 /\ k - 1 \in 0 .. n
  BY <1>1
<1>9. after[0] = c /\ \A k \in 1 .. n : after[k] = PutOne(after[k - 1], e[k])
  BY <1>6, <1>8
<1>10. ASSUME NEW k \in 0 .. n PROVE after[k] \in CellMaps
  <2> DEFINE Bad == {m \in 0 .. n : after[m] \notin CellMaps}
  <2>1. ASSUME Bad # {} PROVE FALSE
    <3>1. Bad \subseteq Nat
      BY <1>1
    <3>2. PICK m \in Bad : \A y \in Bad : m <= y
      BY <2>1, <3>1, LeastNat
    <3>3. m # 0 /\ m \in 1 .. n
      BY <1>1, <1>9, <3>2
    <3>4. m - 1 \in 0 .. n /\ m - 1 \notin Bad
      BY <1>1, <3>2, <3>3
    <3>5. after[m - 1] \in CellMaps
      BY <3>4
    <3> QED
      BY <1>2, <1>9, <3>2, <3>3, <3>5
  <2> QED
    BY <2>1
<1>11. after \in [0 .. n -> CellMaps]
  BY <1>6, <1>10
<1> QED
  BY <1>7, <1>9, <1>11 DEF n

(* Where the first k entries of e went.                                    *)
Placed(c, e, k, f, d) ==
  /\ f \in [1 .. k -> Cells]
  /\ \A j, l \in 1 .. k : f[j] = f[l] => j = l
  /\ \A j \in 1 .. k : f[j] \in Free(c, e[j].slot) /\ d[f[j]] = CellOf(e[j])
  /\ \A i \in Cells : (\A j \in 1 .. k : f[j] # i) => d[i] = c[i]

LEMMA PutNext ==
  ASSUME cells \in CellMaps, NEW e \in Seq(EntrySet), HasRoom(e),
         NEW k \in 1 .. Len(e), NEW c \in CellMaps, NEW f, Placed(cells, e, k - 1, f, c)
  PROVE  \E h : Placed(cells, e, k, h, PutOne(c, e[k]))
<1> DEFINE s == e[k].slot
           A == {j \in 1 .. k - 1 : e[j].slot \in IF Unified THEN Slots ELSE {s}}
           J == {j \in DOMAIN e : e[j].slot \in IF Unified THEN Slots ELSE {s}}
           m == Min(Free(c, s))
           h == [j \in 1 .. k |-> IF j = k THEN m ELSE f[j]]
           d == PutOne(c, e[k])
<1>1. Len(e) \in Nat /\ DOMAIN e = 1 .. Len(e) /\ \A j \in 1 .. Len(e) : e[j] \in EntrySet
  BY LenProperties, ElementOfSeq
<1>2. \A j \in 1 .. Len(e) : e[j].slot \in Slots /\ CellOf(e[j]).seqs = {e[j].slot}
  BY <1>1 DEF EntrySet, CellOf
<1>3. s \in Slots
  BY <1>2
<1>4. \A j \in 1 .. k - 1 : j \in 1 .. Len(e) /\ j # k
  BY <1>1
<1>5. /\ \A t \in Slots : Free(cells, t) \subseteq Cells /\ Free(c, t) \subseteq Cells
      /\ \A t \in Slots : IsFiniteSet(Free(cells, t))
  BY CellsOfIs, FS_Subset DEF Free
<1>6. Free(c, s) # {}
  <2> SUFFICES ASSUME Free(c, s) = {} PROVE FALSE
    OBVIOUS
  <2>1. IsFiniteSet(J) /\ IsFiniteSet(A) /\ Cardinality(A) < Cardinality(J)
    <3>1. IsFiniteSet(1 .. Len(e))
      BY <1>1, FS_Interval
    <3>2. J \subseteq 1 .. Len(e)
      BY <1>1
    <3>3. IsFiniteSet(J)
      BY <3>1, <3>2, FS_Subset
    <3>4. k \in J
      BY <1>1, <1>3
    <3>5. IsFiniteSet(J \ {k}) /\ Cardinality(J \ {k}) = Cardinality(J) - 1
      BY <3>3, <3>4, FS_RemoveElement
    <3>6. A \in SUBSET (J \ {k})
      BY <1>1, <1>4
    <3>7. IsFiniteSet(A) /\ Cardinality(A) <= Cardinality(J \ {k})
      BY <3>5, <3>6, FS_Subset
    <3>8. Cardinality(J) \in Nat /\ Cardinality(A) \in Nat
      BY <3>3, <3>7, FS_CardinalityType
    <3> HIDE DEF A, J
    <3> QED
      BY <3>3, <3>5, <3>7, <3>8
  <2>2. Cardinality(J) <= Cardinality(Free(cells, s))
    BY <1>3 DEF HasRoom
  <2>3. ASSUME NEW i \in Free(cells, s) PROVE \E j \in A : f[j] = i
    <3>1. i \in Cells /\ i \in CellsOf(s) /\ cells[i].seqs = {}
      BY <1>3, <1>5 DEF Free
    <3>2. c[i].seqs # {}
      BY <3>1 DEF Free
    <3>3. PICK j \in 1 .. k - 1 : f[j] = i
      BY <3>1, <3>2 DEF Placed
    <3>4. i \in CellsOf(e[j].slot) /\ e[j].slot \in Slots
      BY <1>2, <1>4, <3>3 DEF Placed, Free
    <3>5. ~Unified => e[j].slot = s
      BY <1>3, <3>1, <3>4, CellsOfIs
    <3> QED
      BY <3>3, <3>4, <3>5
  <2> DEFINE w == [i \in Free(cells, s) |-> CHOOSE j \in A : f[j] = i]
  <2>4. \A i \in Free(cells, s) : w[i] \in A /\ f[w[i]] = i
    BY <2>3
  <2>5. w \in [Free(cells, s) -> A]
    BY <2>4
  <2>6. IsFiniteSet(Free(cells, s)) /\ Cardinality(Free(cells, s)) \in Nat
        /\ Cardinality(J) \in Nat /\ Cardinality(A) \in Nat
    BY <1>3, <1>5, <2>1, FS_CardinalityType
  <2> HIDE DEF w, A, J
  <2>7. Cardinality(A) < Cardinality(Free(cells, s))
    BY <2>1, <2>2, <2>6
  <2>8. \E x, y \in Free(cells, s) : x # y /\ w[x] = w[y]
    BY <2>1, <2>5, <2>6, <2>7, FS_PigeonHole
  <2> QED
    BY <2>4, <2>8
<1>7. m \in Free(c, s)
  <2> DEFINE T == Free(c, s)
  <2>1. T \subseteq Nat /\ T # {}
    BY <1>3, <1>5, <1>6, CellsOfIs
  <2> HIDE DEF T
  <2>2. Min(T) \in T
    BY <2>1, MinIs
  <2> QED
    BY <2>2, Zenon DEF T
<1>8. m \in Cells /\ c[m].seqs = {} /\ m \in CellsOf(s)
  BY <1>3, <1>5, <1>7 DEF Free
<1>9. ASSUME NEW j \in 1 .. k - 1 PROVE f[j] # m
  <2>1. c[f[j]] = CellOf(e[j])
    BY DEF Placed
  <2>2. c[f[j]].seqs = {e[j].slot}
    BY <1>2, <1>4, <2>1
  <2> HIDE DEF m
  <2> QED
    BY <1>8, <2>2
<1>10. m \in Free(cells, s)
  <2>1. c[m] = cells[m]
    BY <1>8, <1>9 DEF Placed
  <2> QED
    BY <1>8, <2>1 DEF Free
<1>11. d = [c EXCEPT ![m] = CellOf(e[k])]
  BY <1>1, PutOneIs
<1>12. d[m] = CellOf(e[k]) /\ \A i \in Cells : i # m => d[i] = c[i]
  BY <1>8, <1>11 DEF CellMaps
<1> HIDE DEF m, d
<1>13. h[k] = m /\ \A j \in 1 .. k : j # k => j \in 1 .. k - 1 /\ h[j] = f[j]
  BY <1>1
<1>14. h \in [1 .. k -> Cells]
  BY <1>8, <1>13 DEF Placed
<1>15. \A j, l \in 1 .. k : h[j] = h[l] => j = l
  BY <1>9, <1>13 DEF Placed
<1>16. \A j \in 1 .. k : h[j] \in Free(cells, e[j].slot) /\ d[h[j]] = CellOf(e[j])
  <2> SUFFICES ASSUME NEW j \in 1 .. k
               PROVE  h[j] \in Free(cells, e[j].slot) /\ d[h[j]] = CellOf(e[j])
    OBVIOUS
  <2>1. CASE j = k
    BY <1>10, <1>12, <1>13, <2>1
  <2>2. CASE j # k
    BY <1>9, <1>12, <1>13, <2>2 DEF Placed
  <2> QED
    BY <2>1, <2>2
<1>17. ASSUME NEW i \in Cells, \A j \in 1 .. k : h[j] # i PROVE d[i] = cells[i]
  <2>1. k \in 1 .. k /\ i # m
    BY <1>1, <1>13, <1>17
  <2>2. \A j \in 1 .. k - 1 : j \in 1 .. k /\ f[j] # i
    BY <1>4, <1>13, <1>17
  <2> QED
    BY <1>12, <2>1, <2>2 DEF Placed
<1> HIDE DEF h
<1>18. Placed(cells, e, k, h, d)
  BY <1>14, <1>15, <1>16, <1>17 DEF Placed
<1> QED
  BY <1>18 DEF d

LEMMA PutIs ==
  ASSUME cells \in CellMaps, NEW e \in Seq(EntrySet), HasRoom(e)
  PROVE  /\ Put(cells, e) \in CellMaps
         /\ \E f : Placed(cells, e, Len(e), f, Put(cells, e))
<1>1. PICK g \in [0 .. Len(e) -> CellMaps] :
        /\ g[0] = cells /\ Put(cells, e) = g[Len(e)]
        /\ \A k \in 1 .. Len(e) : g[k] = PutOne(g[k - 1], e[k])
  BY PutSteps
<1>2. Len(e) \in Nat
  BY LenProperties
<1> DEFINE Bad == {k \in 0 .. Len(e) : ~ \E f : Placed(cells, e, k, f, g[k])}
<1>3. \E f : Placed(cells, e, 0, f, g[0])
  <2>1. 1 .. 0 = {}
    OBVIOUS
  <2>2. [j \in 1 .. 0 |-> 0] \in [1 .. 0 -> Cells]
    BY <2>1
  <2> QED
    BY <1>1, <2>1, <2>2 DEF Placed
<1>4. ASSUME Bad # {} PROVE FALSE
  <2>1. Bad \subseteq Nat
    BY <1>2
  <2>2. PICK k \in Bad : \A y \in Bad : k <= y
    BY <1>4, <2>1, LeastNat
  <2>3. k \in 1 .. Len(e)
    BY <1>2, <1>3, <2>2
  <2>4. k - 1 \in 0 .. Len(e) /\ k - 1 \notin Bad
    BY <1>2, <2>2, <2>3
  <2>5. PICK f : Placed(cells, e, k - 1, f, g[k - 1])
    BY <2>4
  <2>6. g[k - 1] \in CellMaps
    BY <2>4
  <2>7. \E h : Placed(cells, e, k, h, PutOne(g[k - 1], e[k]))
    BY <2>3, <2>5, <2>6, PutNext
  <2> QED
    BY <1>1, <2>2, <2>3, <2>7
<1>5. Len(e) \in 0 .. Len(e)
  BY <1>2
<1> QED
  BY <1>1, <1>4, <1>5

(* The n-th of a finite set of numbers.                                    *)
Rank(S, i) == Cardinality({k \in S : k < i})

LEMMA RankIs ==
  ASSUME NEW S, S \subseteq Nat, IsFiniteSet(S)
  PROVE  /\ \A i \in S : Rank(S, i) \in 0 .. Cardinality(S) - 1
         /\ \A i, j \in S : Rank(S, i) = Rank(S, j) => i = j
         /\ \A n \in 1 .. Cardinality(S) : \E i \in S : Rank(S, i) = n - 1
<1> DEFINE below(i) == {k \in S : k < i}
           m == Cardinality(S)
<1>1. ASSUME NEW i \in S
      PROVE  /\ IsFiniteSet(below(i)) /\ Cardinality(below(i)) \in Nat
             /\ Cardinality(below(i)) < m
  <2>1. below(i) \in SUBSET (S \ {i})
    OBVIOUS
  <2>2. IsFiniteSet(S \ {i}) /\ Cardinality(S \ {i}) = Cardinality(S) - 1
    BY FS_RemoveElement
  <2>3. IsFiniteSet(below(i)) /\ Cardinality(below(i)) <= Cardinality(S \ {i})
    BY <2>1, <2>2, FS_Subset
  <2>4. Cardinality(S) \in Nat /\ Cardinality(below(i)) \in Nat
    BY <2>3, FS_CardinalityType
  <2> HIDE DEF below
  <2> QED
    BY <2>2, <2>3, <2>4
<1>2. ASSUME NEW i \in S, NEW j \in S, i < j PROVE Rank(S, i) < Rank(S, j)
  <2>1. below(i) \subseteq below(j) /\ i \in below(j) /\ i \notin below(i)
    <3>1. i \in Nat /\ j \in Nat /\ \A k \in S : k \in Nat
      OBVIOUS
    <3>2. ASSUME NEW k \in S, k < i PROVE k < j
      BY <1>2, <3>1, <3>2
    <3>3. ~(i < i)
      BY <3>1
    <3> QED
      BY <1>2, <3>2, <3>3
  <2>2. IsFiniteSet(below(j)) /\ Cardinality(below(i)) \in Nat /\ Cardinality(below(j)) \in Nat
    BY <1>1
  <2> HIDE DEF below
  <2>3. below(i) \in SUBSET below(j)
    BY <2>1
  <2>4. /\ Cardinality(below(i)) <= Cardinality(below(j))
        /\ Cardinality(below(j)) = Cardinality(below(i)) => below(j) = below(i)
    BY <2>2, <2>3, FS_Subset
  <2>5. Cardinality(below(i)) < Cardinality(below(j))
    BY <2>1, <2>2, <2>4
  <2> QED
    BY <2>5 DEF below, Rank
<1>3. \A i \in S : Rank(S, i) \in Nat /\ Rank(S, i) < m
  BY <1>1 DEF Rank
<1>4. m \in Nat
  BY FS_CardinalityType
<1>5. \A i, j \in S : Rank(S, i) = Rank(S, j) => i = j
  <2> SUFFICES ASSUME NEW i \in S, NEW j \in S, Rank(S, i) = Rank(S, j), i # j PROVE FALSE
    OBVIOUS
  <2>1. i < j \/ j < i
    OBVIOUS
  <2> QED
    BY <1>2, <1>3, <2>1
<1> DEFINE T == 0 .. m - 1
           f == [i \in S |-> Rank(S, i)]
<1>6. f \in [S -> T]
  BY <1>3, <1>4
<1>7. f \in Injection(S, T)
  BY <1>5, <1>6 DEF Injection, IsInjective
<1>8. IsFiniteSet(T) /\ Cardinality(T) = m
  <2>1. 0 \in Int /\ m - 1 \in Int
    BY <1>4
  <2>2. IsFiniteSet(T) /\ Cardinality(T) = IF 0 > m - 1 THEN 0 ELSE (m - 1) - 0 + 1
    BY <2>1, FS_Interval
  <2> HIDE DEF m
  <2> QED
    BY <1>4, <2>2
<1>9. f \in Surjection(S, T)
  <2> HIDE DEF f, T
  <2>1. Cardinality(S) = Cardinality(T)
    BY <1>8
  <2> QED
    BY <1>7, <1>8, <2>1, FS_Injection
<1>10. \A t \in T : \E i \in S : f[i] = t
  BY <1>9 DEF Surjection
<1>11. \A n \in 1 .. m : n - 1 \in T
  BY <1>4
<1> HIDE DEF T
<1>12. \A n \in 1 .. m : \E i \in S : Rank(S, i) = n - 1
  BY <1>10, <1>11
<1> QED
  BY <1>3, <1>4, <1>5, <1>12

LEMMA NthIs ==
  ASSUME NEW S, S \subseteq Nat, IsFiniteSet(S)
  PROVE  /\ Cardinality(S) \in Nat
         /\ \A n \in 1 .. Cardinality(S) : Nth(S, n) \in S
         /\ \A n, k \in 1 .. Cardinality(S) : Nth(S, n) = Nth(S, k) => n = k
         /\ \A i \in S : \E n \in 1 .. Cardinality(S) : Nth(S, n) = i
<1>1. Cardinality(S) \in Nat
  BY FS_CardinalityType
<1>2. ASSUME NEW n \in 1 .. Cardinality(S)
      PROVE  Nth(S, n) \in S /\ Rank(S, Nth(S, n)) = n - 1
  <2>1. \E i \in S : Rank(S, i) = n - 1
    BY RankIs
  <2> QED
    BY <2>1 DEF Nth, Rank
<1>3. ASSUME NEW i \in S PROVE \E n \in 1 .. Cardinality(S) : Nth(S, n) = i
  <2> DEFINE r == Rank(S, i)
  <2>1. r \in 0 .. Cardinality(S) - 1
    BY RankIs
  <2>2. r + 1 \in 1 .. Cardinality(S) /\ (r + 1) - 1 = r
    BY <1>1, <2>1
  <2>3. Nth(S, r + 1) \in S /\ Rank(S, Nth(S, r + 1)) = r
    BY <1>2, <2>2
  <2>4. Nth(S, r + 1) = i
    BY <2>3, RankIs
  <2> QED
    BY <2>2, <2>4
<1>4. \A n, k \in 1 .. Cardinality(S) : Nth(S, n) = Nth(S, k) => n = k
  BY <1>2
<1> QED
  BY <1>1, <1>2, <1>3, <1>4
-----------------------------------------------------------------------------
(* The inductive invariant. *)

(* Shared cells are not shifted: the cells are not unified, or contexts    *)
(* are not shifted, or no branch shares its parent's cells.                *)
Exact == ~(Unified /\ CtxShift /\ "reuse" \in Kinds)

(* The entries of batch b for s that are still to be decoded.              *)
Todo(b, n, s) == {j \in n + 1 .. Len(b) : b[j].slot = s}

(* Each token of q is, once, at its position, either in a cell of s in c   *)
(* or among the entries still to be decoded, and nothing else is.          *)
Agrees(c, s, q, b, n) ==
  /\ \A i \in Mine(c, s) : c[i].pos < Len(q) /\ c[i].tok = q[c[i].pos + 1]
  /\ \A j \in Todo(b, n, s) : b[j].pos < Len(q) /\ b[j].tok = q[b[j].pos + 1]
  /\ \A p \in 0 .. Len(q) - 1 : \/ \E i \in Mine(c, s) : c[i].pos = p
                                \/ \E j \in Todo(b, n, s) : b[j].pos = p
  /\ \A i, k \in Mine(c, s) : c[i].pos = c[k].pos => i = k
  /\ \A j, k \in Todo(b, n, s) : b[j].pos = b[k].pos => j = k
  /\ \A i \in Mine(c, s), j \in Todo(b, n, s) : c[i].pos # b[j].pos

(* The same of the data of a saved prompt.                                 *)
Spells(d, q) ==
  /\ \A k \in DOMAIN d : d[k].pos < Len(q) /\ d[k].tok = q[d[k].pos + 1]
  /\ \A p \in 0 .. Len(q) - 1 : \E k \in DOMAIN d : d[k].pos = p
  /\ \A k, l \in DOMAIN d : d[k].pos = d[l].pos => k = l

SavedSet ==
  {e \in [tokens : Seq(Tok), data : Seq(Datum), sure : BOOLEAN] :
     e.tokens # <<>> /\ (Exact /\ e.sure => Spells(e.data, e.tokens))}

SlotsTyped ==
  /\ cells \in CellMaps
  /\ tokens \in [Slots -> Seq(Tok)]
  /\ state \in [Slots -> {"idle", "started", "prompt", "done", "generating"}]
  /\ task \in [Slots -> {NoTask} \cup [kind : Kinds, prompt : Prompts]]
  /\ sampled \in [Slots -> Gen \cup {NoTok}]
  /\ map \in [Slots -> Seq(Gen)]
  /\ used \subseteq Slots /\ suspect \subseteq Slots
  /\ saved \in Seq(SavedSet) /\ Len(saved) <= MaxSaved
  /\ \A s \in Slots : state[s] = "idle" <=> task[s] = NoTask
  /\ \A s \in Slots : state[s] = "generating" => sampled[s] \in Gen

LoopTyped ==
  /\ pc \in {"tasks", "shift", "sampled", "prompts", "decode", "aborted"}
  /\ turn \in Slots /\ batch \in Seq(EntrySet)
  /\ at \in 0 .. Len(batch) /\ nbatch \in 1 .. NBatch

(* How long a slot's tokens are: there is always a position for the next.  *)
Lengths ==
  \A s \in Slots :
    /\ state[s] \in {"done", "generating"} => Len(tokens[s]) < NCtx
    /\ state[s] = "prompt" => Len(tokens[s]) < Len(task[s].prompt)
    /\ /\ state[s] = "generating"
       /\ (pc = "sampled" /\ turn <= s) \/ (pc = "shift" /\ s < turn)
       => Len(tokens[s]) + 1 < NCtx

(* A slot with a token that is still to be decoded is not idle and has     *)
(* remembered it, and samples after its last one.                          *)
Batches ==
  /\ pc \in {"tasks", "shift"} => batch = <<>>
  /\ pc \in {"tasks", "shift", "sampled", "prompts"} => at = 0
  /\ \A j \in at + 1 .. Len(batch) :
       LET s == batch[j].slot
       IN  /\ state[s] \in {"prompt", "done", "generating"} /\ tokens[s] # <<>>
           /\ batch[j].out => state[s] # "prompt"
           /\ pc = "sampled" => state[s] = "generating" /\ s < turn
           /\ pc = "prompts" => state[s] = "generating" \/ s < turn
  /\ \A j, k \in 1 .. Len(batch) : j < k /\ batch[j].out => batch[k].slot # batch[j].slot

NoneLeaks == \A s \in Slots : tokens[s] = <<>> => Mine(cells, s) = {}

Unshared ==
  Unified /\ CtxShift /\ "reuse" \notin Kinds
    => \A i \in Cells : \A r, s \in cells[i].seqs : r = s

Truth == Exact => \A s \in Slots \ suspect : Agrees(cells, s, tokens[s], batch, at)

SlotInv == SlotsTyped /\ LoopTyped /\ Lengths /\ Batches /\ NoneLeaks /\ Unshared /\ Truth

LEMMA Sizes ==
  /\ NCtx \in Nat /\ NCtx >= 4 /\ NBatch \in Nat /\ NBatch > 0 /\ NSlots \in Nat /\ NSlots > 0
  /\ NKeep \in Nat /\ MaxSaved \in Nat /\ MaxMap \in Nat /\ Unified \in BOOLEAN
  /\ CtxShift \in BOOLEAN /\ Slots \subseteq Nat /\ 0 \in Slots /\ NSlots - 1 \in Slots
  /\ \A s \in Slots : s < NSlots /\ (s < NSlots - 1 => s + 1 \in Slots)
BY SizesAssumption DEF Slots

LEMMA PromptIs ==
  ASSUME NEW p \in Prompts
  PROVE  /\ p \in Seq(Tok) /\ Len(p) \in Nat /\ Len(p) >= 1 /\ Len(p) < NCtx
         /\ \A j \in 1 .. Len(p) : p[j] \in Tok
<1>1. p \in Seq(ToSet(p)) /\ Len(p) \in 1 .. NCtx - 1
  BY PromptsAssumption
<1>2. ToSet(p) \subseteq Tok
  BY DEF Tok
<1>3. DOMAIN p = 1 .. Len(p) /\ \A j \in 1 .. Len(p) : p[j] \in Tok
  BY <1>1, <1>2, LenProperties, ElementOfSeq
<1>4. p \in Seq(Tok)
  BY <1>1, <1>3
<1> QED
  BY <1>1, <1>3, <1>4, Sizes

LEMMA GenIs == Gen \subseteq Tok /\ Bos \in Tok /\ Blank \in Tok
BY DEF Tok

LEMMA TypedOK == SlotInv => TypeOK
<1> SUFFICES ASSUME SlotInv PROVE TypeOK
  OBVIOUS
<1> USE DEF SlotInv, SlotsTyped, LoopTyped
<1>1. \A s \in Busy : task[s].kind \in Kinds /\ task[s].prompt \in Prompts
  <2> SUFFICES ASSUME NEW s \in Busy PROVE task[s].kind \in Kinds /\ task[s].prompt \in Prompts
    OBVIOUS
  <2>1. s \in Slots /\ task[s] # NoTask
    BY DEF Busy
  <2>2. task[s] \in [kind : Kinds, prompt : Prompts]
    BY <2>1
  <2> QED
    BY <2>2
<1> QED
  BY <1>1 DEF TypeOK, CellMaps, Cell

LEMMA NotLeaking == SlotInv => NoLeak
BY DEF SlotInv, NoneLeaks, NoLeak, Idle

LEMMA CountImage ==
  ASSUME NEW S, IsFiniteSet(S), NEW f, \A i, k \in S : f[i] = f[k] => i = k,
         NEW T, \A i \in S : f[i] \in T, \A t \in T : \E i \in S : f[i] = t
  PROVE  IsFiniteSet(T) /\ Cardinality(T) = Cardinality(S)
<1> DEFINE g == [i \in S |-> f[i]]
<1>1. g \in [S -> T] /\ g \in Surjection(S, T) /\ g \in Injection(S, T)
  BY DEF Surjection, Injection, IsInjective
<1> HIDE DEF g
<1> QED
  BY <1>1, FS_Surjection

LEMMA AgreesMatches ==
  ASSUME SlotsTyped, LoopTyped, NEW s \in Slots, Agrees(cells, s, tokens[s], batch, at)
  PROVE  Matches(s)
<1> DEFINE q == tokens[s]
           A == Mine(cells, s)
           B == Todo(batch, at, s)
           f == [i \in A |-> cells[i].pos + 1]
           g == [j \in B |-> batch[j].pos + 1]
           L == 1 .. Len(q)
           F == {f[i] : i \in A}
           G == {g[j] : j \in B}
<1>1. q \in Seq(Tok) /\ Len(q) \in Nat /\ DOMAIN q = L
  BY LenProperties DEF SlotsTyped
<1>2. /\ Len(batch) \in Nat /\ at \in Nat
      /\ \A j \in at + 1 .. Len(batch) : batch[j] \in EntrySet
  BY LenProperties, ElementOfSeq DEF LoopTyped
<1>3. \A i \in A : cells[i].pos \in Nat /\ f[i] = cells[i].pos + 1
  BY MineIs, Sizes DEF SlotsTyped
<1>4. \A j \in B : batch[j].pos \in Nat /\ g[j] = batch[j].pos + 1
  BY <1>2, Sizes DEF EntrySet, Todo
<1>5. IsFiniteSet(A) /\ IsFiniteSet(B)
  <2>1. A \in SUBSET Cells
    BY DEF Mine
  <2>2. IsFiniteSet(at + 1 .. Len(batch))
    BY <1>2, FS_Interval
  <2>3. B \in SUBSET (at + 1 .. Len(batch))
    BY DEF Todo
  <2> QED
    BY <2>1, <2>2, <2>3, CellsOfIs, FS_Subset
<1> HIDE DEF f, g, A, B
<1>6. /\ \A i \in A : cells[i].pos < Len(q) /\ cells[i].tok = q[cells[i].pos + 1]
      /\ \A j \in B : batch[j].pos < Len(q) /\ batch[j].tok = q[batch[j].pos + 1]
      /\ \A p \in 0 .. Len(q) - 1 : \/ \E i \in A : cells[i].pos = p
                                    \/ \E j \in B : batch[j].pos = p
      /\ \A i, k \in A : cells[i].pos = cells[k].pos => i = k
      /\ \A j, k \in B : batch[j].pos = batch[k].pos => j = k
      /\ \A i \in A, j \in B : cells[i].pos # batch[j].pos
  BY DEF Agrees, A, B
<1> HIDE DEF q
<1>7. IsFiniteSet(F) /\ Cardinality(F) = Cardinality(A)
  <2>1. \A i, k \in A : f[i] = f[k] => i = k
    BY <1>3, <1>6
  <2>2. (\A i \in A : f[i] \in F) /\ (\A t \in F : \E i \in A : f[i] = t)
    OBVIOUS
  <2> HIDE DEF F
  <2> QED
    BY <1>5, <2>1, <2>2, CountImage
<1>8. IsFiniteSet(G) /\ Cardinality(G) = Cardinality(B)
  <2>1. \A i, k \in B : g[i] = g[k] => i = k
    BY <1>4, <1>6
  <2>2. (\A i \in B : g[i] \in G) /\ (\A t \in G : \E i \in B : g[i] = t)
    OBVIOUS
  <2> HIDE DEF G
  <2> QED
    BY <1>5, <2>1, <2>2, CountImage
<1>9. F \cap G = {} /\ F \cup G = L
  <2>1. F \cap G = {}
    BY <1>3, <1>4, <1>6
  <2>2. \A x \in F \cup G : x \in L
    BY <1>1, <1>3, <1>4, <1>6
  <2>3. ASSUME NEW x \in L PROVE x \in F \cup G
    <3>1. x - 1 \in 0 .. Len(q) - 1
      BY <1>1
    <3>2. CASE \E i \in A : cells[i].pos = x - 1
      BY <1>3, <3>2
    <3>3. CASE \E j \in B : batch[j].pos = x - 1
      BY <1>4, <3>3
    <3> QED
      BY <1>6, <3>1, <3>2, <3>3
  <2> QED
    BY <2>1, <2>2, <2>3
<1>10. Cardinality(A) + Cardinality(B) = Len(q)
  <2>1. Cardinality(L) = Len(q)
    <3>1. 1 \in Int /\ Len(q) \in Int
      BY <1>1
    <3>2. Cardinality(L) = IF 1 > Len(q) THEN 0 ELSE Len(q) - 1 + 1
      BY <3>1, FS_Interval
    <3> HIDE DEF L
    <3> QED
      BY <1>1, <3>2
  <2>2. Cardinality(F \cup G) = Cardinality(F) + Cardinality(G) - Cardinality(F \cap G)
    BY <1>7, <1>8, FS_Union
  <2>3. Cardinality(F \cap G) = 0 /\ Cardinality(F) \in Nat /\ Cardinality(G) \in Nat
    BY <1>7, <1>8, <1>9, FS_EmptySet, FS_CardinalityType
  <2>4. Cardinality(F \cup G) = Cardinality(L)
    BY <1>9
  <2> HIDE DEF F, G, L
  <2>5. Cardinality(F) + Cardinality(G) = Len(q)
    BY <1>1, <2>1, <2>2, <2>3, <2>4
  <2>6. Cardinality(F) = Cardinality(A) /\ Cardinality(G) = Cardinality(B)
    BY <1>7, <1>8
  <2> QED
    BY <2>5, <2>6
<1>11. Held(s) \cup {<<batch[j].pos, batch[j].tok>> : j \in B} = {<<j - 1, q[j]>> : j \in L}
  <2> DEFINE H == {<<cells[i].pos, cells[i].tok>> : i \in A}
             P == {<<batch[j].pos, batch[j].tok>> : j \in B}
             W == {<<j - 1, q[j]>> : j \in L}
  <2>1. ASSUME NEW i \in A PROVE <<cells[i].pos, cells[i].tok>> \in W
    <3>1. cells[i].pos + 1 \in L /\ (cells[i].pos + 1) - 1 = cells[i].pos
      BY <1>1, <1>3, <1>6
    <3> QED
      BY <1>6, <3>1
  <2>2. ASSUME NEW j \in B PROVE <<batch[j].pos, batch[j].tok>> \in W
    <3>1. batch[j].pos + 1 \in L /\ (batch[j].pos + 1) - 1 = batch[j].pos
      BY <1>1, <1>4, <1>6, SMTT(30)
    <3> QED
      BY <1>6, <3>1
  <2>3. ASSUME NEW j \in L PROVE <<j - 1, q[j]>> \in H \cup P
    <3>1. j - 1 \in 0 .. Len(q) - 1 /\ (j - 1) + 1 = j
      BY <1>1
    <3>2. CASE \E i \in A : cells[i].pos = j - 1
      <4>1. PICK i \in A : cells[i].pos = j - 1
        BY <3>2
      <4>2. cells[i].tok = q[j]
        BY <1>6, <3>1, <4>1
      <4>3. <<cells[i].pos, cells[i].tok>> \in H
        OBVIOUS
      <4> QED
        BY <4>1, <4>2, <4>3
    <3>3. CASE \E k \in B : batch[k].pos = j - 1
      <4>1. PICK k \in B : batch[k].pos = j - 1
        BY <3>3
      <4>2. batch[k].tok = q[j]
        BY <1>6, <3>1, <4>1
      <4>3. <<batch[k].pos, batch[k].tok>> \in P
        OBVIOUS
      <4> QED
        BY <4>1, <4>2, <4>3
    <3> QED
      BY <1>6, <3>1, <3>2, <3>3
  <2>4. H \cup P = W
    BY <2>1, <2>2, <2>3
  <2> QED
    BY <2>4 DEF Held, A
<1>12. Pending(s) = B
  BY DEF Pending, B, Todo
<1> QED
  BY <1>1, <1>10, <1>11, <1>12 DEF Matches, A, q

LEMMA TruthMatches == SlotInv /\ Exact => KVMatchesTokens
BY AgreesMatches DEF SlotInv, Truth, KVMatchesTokens

(* What is not touched stays true.                                         *)
LEMMA AgreesSame ==
  ASSUME NEW c, NEW d, NEW s, SameFor(c, d, s), NEW q, NEW b, NEW n, NEW e, NEW m,
         Todo(e, m, s) = Todo(b, n, s), \A j \in Todo(b, n, s) : e[j] = b[j],
         Agrees(c, s, q, b, n)
  PROVE  Agrees(d, s, q, e, m)
<1> DEFINE A == Mine(c, s)  B == Todo(b, n, s)
<1>1. Mine(d, s) = A /\ \A i \in A : d[i].pos = c[i].pos /\ d[i].tok = c[i].tok
  BY DEF SameFor
<1>2. Todo(e, m, s) = B /\ \A j \in B : e[j] = b[j]
  OBVIOUS
<1>3. /\ \A i \in A : c[i].pos < Len(q) /\ c[i].tok = q[c[i].pos + 1]
      /\ \A j \in B : b[j].pos < Len(q) /\ b[j].tok = q[b[j].pos + 1]
      /\ \A p \in 0 .. Len(q) - 1 : \/ \E i \in A : c[i].pos = p
                                    \/ \E j \in B : b[j].pos = p
      /\ \A i, k \in A : c[i].pos = c[k].pos => i = k
      /\ \A j, k \in B : b[j].pos = b[k].pos => j = k
      /\ \A i \in A, j \in B : c[i].pos # b[j].pos
  BY DEF Agrees
<1> HIDE DEF A, B
<1>4. /\ \A i \in A : d[i].pos < Len(q) /\ d[i].tok = q[d[i].pos + 1]
      /\ \A i, k \in A : d[i].pos = d[k].pos => i = k
  BY <1>1, <1>3
<1>5. /\ \A j \in B : e[j].pos < Len(q) /\ e[j].tok = q[e[j].pos + 1]
      /\ \A j, k \in B : e[j].pos = e[k].pos => j = k
  BY <1>2, <1>3
<1>6. ASSUME NEW p \in 0 .. Len(q) - 1
      PROVE  (\E i \in A : d[i].pos = p) \/ (\E j \in B : e[j].pos = p)
  <2>1. (\E i \in A : c[i].pos = p) \/ (\E j \in B : b[j].pos = p)
    BY <1>3
  <2> QED
    BY <1>1, <1>2, <2>1, Zenon
<1>7. ASSUME NEW i \in A, NEW j \in B PROVE d[i].pos # e[j].pos
  <2>1. d[i].pos = c[i].pos
    BY <1>1
  <2>2. e[j] = b[j]
    BY <1>2
  <2>3. c[i].pos # b[j].pos
    BY <1>3
  <2> QED
    BY <2>1, <2>2, <2>3
<1> QED
  BY <1>1, <1>2, <1>4, <1>5, <1>6, <1>7 DEF Agrees

LEMMA SameIsSame == \A c, s : SameFor(c, c, s)
BY DEF SameFor

LEMMA NothingAgrees ==
  ASSUME NEW c, NEW s, Mine(c, s) = {}, NEW b, NEW n, Todo(b, n, s) = {}
  PROVE  Agrees(c, s, <<>>, b, n)
<1>1. Len(<<>>) = 0 /\ 0 .. 0 - 1 = {}
  BY EmptySeq
<1> HIDE DEF Todo
<1> QED
  BY <1>1 DEF Agrees

LEMMA NoneTodo == \A n \in Nat : \A s : Todo(<<>>, n, s) = {}
<1>1. Len(<<>>) = 0 /\ \A n \in Nat : n + 1 .. 0 = {}
  BY EmptySeq
<1> QED
  BY <1>1 DEF Todo

LEMMA InitOK == Init => SlotInv
<1> SUFFICES ASSUME Init PROVE SlotInv
  OBVIOUS
<1> USE DEF Init
<1>1. cells \in CellMaps /\ \A s \in Slots : Mine(cells, s) = {}
  BY DEF CellMaps, Cell, Mine, Has, Empty
<1>2. <<>> \in Seq(Tok) /\ <<>> \in Seq(Gen) /\ <<>> \in Seq(SavedSet) /\ <<>> \in Seq(EntrySet)
      /\ Len(<<>>) = 0 /\ Len(<<>>) <= MaxSaved
  BY EmptySeq, Sizes
<1>3. SlotsTyped
  <2>1. saved \in Seq(SavedSet) /\ Len(saved) <= MaxSaved
    BY <1>2, Zenon
  <2>2. tokens \in [Slots -> Seq(Tok)] /\ map \in [Slots -> Seq(Gen)]
    BY <1>2
  <2>3. task \in [Slots -> {NoTask} \cup [kind : Kinds, prompt : Prompts]]
    OBVIOUS
  <2> QED
    BY <1>1, <2>1, <2>2, <2>3 DEF SlotsTyped
<1>4. LoopTyped
  <2>1. batch \in Seq(EntrySet) /\ Len(batch) = 0
    BY <1>2, Zenon
  <2> QED
    BY <2>1, Sizes DEF LoopTyped
<1>5. Batches
  <2>1. Len(batch) = 0
    BY <1>2, Zenon
  <2>2. 0 + 1 .. 0 = {} /\ 1 .. 0 = {}
    OBVIOUS
  <2> QED
    BY <2>1, <2>2 DEF Batches
<1>6. Lengths
  BY DEF Lengths
<1>7. NoneLeaks
  BY <1>1 DEF NoneLeaks
<1>8. Unshared
  BY DEF Unshared, Empty
<1>9. \A s \in Slots : Agrees(cells, s, tokens[s], batch, at)
  <2> SUFFICES ASSUME NEW s \in Slots PROVE Agrees(cells, s, tokens[s], batch, at)
    OBVIOUS
  <2>1. tokens[s] = <<>> /\ batch = <<>> /\ at = 0
    OBVIOUS
  <2>2. Agrees(cells, s, <<>>, <<>>, 0)
    BY <1>1, NoneTodo, NothingAgrees
  <2> QED
    BY <2>1, <2>2, Zenon
<1> QED
  BY <1>3, <1>4, <1>5, <1>6, <1>7, <1>8, <1>9 DEF SlotInv, Truth

-----------------------------------------------------------------------------
(* Saved prompts. *)

LEMMA ContentIs ==
  ASSUME cells \in CellMaps, NEW s \in Slots
  PROVE  /\ Content(s) \in Seq(Datum)
         /\ \A q : Agrees(cells, s, q, <<>>, 0) => Spells(Content(s), q)
<1> DEFINE M == Mine(cells, s)
           n == Cardinality(M)
           d == Content(s)
<1>1. M \subseteq Cells /\ M \subseteq Nat /\ IsFiniteSet(M)
  <2>1. M \in SUBSET Cells
    BY DEF Mine
  <2> QED
    BY <2>1, CellsOfIs, FS_Subset
<1>2. /\ n \in Nat
      /\ \A k \in 1 .. n : Nth(M, k) \in M
      /\ \A k, l \in 1 .. n : Nth(M, k) = Nth(M, l) => k = l
      /\ \A i \in M : \E k \in 1 .. n : Nth(M, k) = i
  <2> HIDE DEF M
  <2> QED
    BY <1>1, NthIs
<1>3. d = [k \in 1 .. n |-> [i \in Cells |-> [pos |-> cells[i].pos, tok |-> cells[i].tok]][Nth(M, k)]]
  BY DEF Content, Chosen
<1> HIDE DEF M, n, d
<1>4. DOMAIN d = 1 .. n /\ \A k \in 1 .. n : d[k] = [pos |-> cells[Nth(M, k)].pos, tok |-> cells[Nth(M, k)].tok]
  <2>1. ASSUME NEW k \in 1 .. n
        PROVE  d[k] = [pos |-> cells[Nth(M, k)].pos, tok |-> cells[Nth(M, k)].tok]
    <3>1. Nth(M, k) \in Cells
      BY <1>1, <1>2
    <3> QED
      BY <1>3, <3>1
  <2> QED
    BY <1>3, <2>1
<1>5. \A i \in M : cells[i].pos \in 0 .. NCtx /\ cells[i].tok \in Tok
  BY MineIs DEF M
<1>6. \A k \in 1 .. n : d[k] \in Datum
  BY <1>2, <1>4, <1>5 DEF Datum
<1>7. d = [k \in 1 .. n |-> d[k]]
  BY <1>3, <1>4
<1>8. d \in Seq(Datum)
  BY <1>2, <1>6, <1>7, SeqDef
<1>9. ASSUME NEW q, Agrees(cells, s, q, <<>>, 0) PROVE Spells(d, q)
  <2>1. Todo(<<>>, 0, s) = {}
    BY NoneTodo
  <2>2. /\ \A i \in M : cells[i].pos < Len(q) /\ cells[i].tok = q[cells[i].pos + 1]
        /\ \A p \in 0 .. Len(q) - 1 : \E i \in M : cells[i].pos = p
        /\ \A i, k \in M : cells[i].pos = cells[k].pos => i = k
    BY <1>9, <2>1 DEF Agrees, M
  <2>3. \A k \in 1 .. n : Nth(M, k) \in M /\ d[k].pos = cells[Nth(M, k)].pos
                          /\ d[k].tok = cells[Nth(M, k)].tok
    BY <1>2, <1>4
  <2>4. \A k \in 1 .. n : d[k].pos < Len(q) /\ d[k].tok = q[d[k].pos + 1]
    BY <2>2, <2>3
  <2>5. ASSUME NEW p \in 0 .. Len(q) - 1 PROVE \E k \in 1 .. n : d[k].pos = p
    <3>1. PICK i \in M : cells[i].pos = p
      BY <2>2
    <3>2. PICK k \in 1 .. n : Nth(M, k) = i
      BY <1>2
    <3> QED
      BY <2>3, <3>1, <3>2
  <2>6. \A k, l \in 1 .. n : d[k].pos = d[l].pos => k = l
    BY <1>2, <2>2, <2>3
  <2> QED
    BY <1>4, <2>4, <2>5, <2>6 DEF Spells
<1> QED
  BY <1>8, <1>9 DEF d

LEMMA AllocIs ==
  ASSUME SlotsTyped, NEW s \in Slots, tokens[s] # <<>>,
         Exact /\ s \notin suspect => Spells(Content(s), tokens[s])
  PROVE  Alloc(s) \in Seq(SavedSet)
<1> DEFINE S == {j \in DOMAIN saved : ~IsPrefix(saved[j].tokens, tokens[s])}
           kept == Chosen(saved, S)
           e == [tokens |-> tokens[s], data |-> Content(s), sure |-> s \notin suspect]
<1>1. saved \in Seq(SavedSet) /\ Len(saved) \in Nat /\ DOMAIN saved = 1 .. Len(saved)
      /\ \A j \in 1 .. Len(saved) : saved[j] \in SavedSet
  BY LenProperties, ElementOfSeq DEF SlotsTyped
<1>2. S \subseteq 1 .. Len(saved) /\ S \subseteq Nat /\ IsFiniteSet(S)
  <2>1. IsFiniteSet(1 .. Len(saved))
    BY <1>1, FS_Interval
  <2>2. S \in SUBSET (1 .. Len(saved))
    BY <1>1
  <2> QED
    BY <2>1, <2>2, FS_Subset
<1>3. kept \in Seq(SavedSet)
  <2>1. Cardinality(S) \in Nat /\ \A n \in 1 .. Cardinality(S) : Nth(S, n) \in S
    <3> HIDE DEF S
    <3> QED
      BY <1>2, NthIs
  <2>2. kept = [n \in 1 .. Cardinality(S) |-> saved[Nth(S, n)]]
    BY DEF Chosen
  <2> HIDE DEF S, kept
  <2>3. \A n \in 1 .. Cardinality(S) : saved[Nth(S, n)] \in SavedSet
    BY <1>1, <1>2, <2>1
  <2>4. kept \in [1 .. Cardinality(S) -> SavedSet]
    BY <2>2, <2>3
  <2> QED
    BY <2>1, <2>4, SeqDef
<1>4. e \in SavedSet
  <2>1. tokens[s] \in Seq(Tok) /\ Content(s) \in Seq(Datum)
    BY ContentIs DEF SlotsTyped
  <2> QED
    BY <2>1 DEF SavedSet
<1> HIDE DEF kept, e
<1>5. Append(kept, e) \in Seq(SavedSet)
  BY <1>3, <1>4, AppendProperties
<1>6. Alloc(s) = saved \/ Alloc(s) = Append(kept, e)
  BY DEF Alloc, kept, e
<1> QED
  BY <1>1, <1>5, <1>6

LEMMA EvictIs ==
  ASSUME NEW list \in Seq(SavedSet), MaxSaved > 0
  PROVE  Evict(list) \in Seq(SavedSet) /\ Len(Evict(list)) <= MaxSaved
<1> DEFINE n == Len(list)
           m == Max({1, n - MaxSaved + 1})
<1>1. n \in Nat /\ \A j \in 1 .. n : list[j] \in SavedSet
  BY LenProperties, ElementOfSeq
<1>2. n - MaxSaved + 1 \in Int /\ 1 \in Int
  BY <1>1, Sizes
<1>3. m = IF 1 >= n - MaxSaved + 1 THEN 1 ELSE n - MaxSaved + 1
  BY <1>2, MaxOfTwo
<1>4. m \in Nat /\ m >= 1 /\ m >= n - MaxSaved + 1 /\ m <= n + 1
  BY <1>1, <1>3, Sizes
<1>5. Evict(list) = SubSeq(list, m, n)
  BY DEF Evict
<1> HIDE DEF n, m
<1>6. SubSeq(list, m, n) \in Seq(SavedSet)
      /\ Len(SubSeq(list, m, n)) = IF m <= n THEN n - m + 1 ELSE 0
  <2>1. \A j \in m .. n : list[j] \in SavedSet
    BY <1>1, <1>4
  <2> QED
    BY <1>1, <1>4, <2>1, SubSeqProperties
<1> QED
  BY <1>1, <1>4, <1>5, <1>6, Sizes

LEMMA RemoveAtIs ==
  ASSUME NEW list \in Seq(SavedSet), NEW k \in 1 .. Len(list)
  PROVE  RemoveAt(list, k) \in Seq(SavedSet)
<1>1. Len(list) \in Nat /\ \A j \in 1 .. Len(list) : list[j] \in SavedSet
  BY LenProperties, ElementOfSeq
<1>2. SubSeq(list, 1, k - 1) \in Seq(SavedSet) /\ SubSeq(list, k + 1, Len(list)) \in Seq(SavedSet)
  <2>1. \A j \in 1 .. k - 1 : list[j] \in SavedSet
    BY <1>1
  <2>2. \A j \in k + 1 .. Len(list) : list[j] \in SavedSet
    BY <1>1
  <2> QED
    BY <1>1, <2>1, <2>2, SubSeqProperties
<1> QED
  BY <1>2, ConcatProperties DEF RemoveAt

LEMMA BestIs ==
  ASSUME NEW s, NEW p, NEW list, Len(list) \in Nat
  PROVE  Best(s, p, list) \in 0 .. Len(list)
<1> DEFINE n == Len(list)
           Wins(b, k) == /\ 4 * Common(list[k].tokens, p) >= Len(list[k].tokens)
                         /\ Better(IF b = 0 THEN tokens[s] ELSE list[b].tokens, list[k].tokens, p)
           pick(b, k) == IF Wins(b, k) THEN k ELSE b
           F == [x \in (0 .. n) \X (1 .. n) |-> pick(x[1], x[2])]
           among == CHOOSE g : g = [k \in 0 .. n |->
                      IF k = 0 THEN 0 ELSE IF Wins(g[k - 1], k) THEN k ELSE g[k - 1]]
<1>1. Best(s, p, list) = among[n]
  BY Zenon DEF Best
<1> HIDE DEF n, Wins
<1>2. n \in Nat
  BY DEF n
<1>3. F \in [(0 .. n) \X (1 .. n) -> 0 .. n]
  <2>1. ASSUME NEW x \in (0 .. n) \X (1 .. n) PROVE pick(x[1], x[2]) \in 0 .. n
    BY <1>2
  <2> QED
    BY <2>1
<1>4. \A b \in 0 .. n, k \in 1 .. n : F[<<b, k>>] = pick(b, k)
  OBVIOUS
<1> HIDE DEF F
<1>5. 0 \in 0 .. n /\ n \in 0 .. n
  BY <1>2
<1>6. HasSteps(0 .. n, 0, n, F)
  BY <1>2, <1>3, <1>5, StepByStep
<1>7. PICK g \in [0 .. n -> 0 .. n] : g[0] = 0 /\ \A k \in 1 .. n : g[k] = F[<<g[k - 1], k>>]
  BY <1>6 DEF HasSteps
<1>8. \A k \in 1 .. n : g[k] = pick(g[k - 1], k)
  <2> SUFFICES ASSUME NEW k \in 1 .. n PROVE g[k] = pick(g[k - 1], k)
    OBVIOUS
  <2>1. k - 1 \in 0 .. n
    BY <1>2
  <2>2. g[k - 1] \in 0 .. n
    BY <2>1
  <2> QED
    BY <1>4, <1>7, <2>2
<1>9. g = [k \in 0 .. n |-> IF k = 0 THEN 0 ELSE IF Wins(g[k - 1], k) THEN k ELSE g[k - 1]]
  <2>1. ASSUME NEW k \in 0 .. n
        PROVE  g[k] = IF k = 0 THEN 0 ELSE IF Wins(g[k - 1], k) THEN k ELSE g[k - 1]
    <3>1. k # 0 => k \in 1 .. n
      BY <1>2
    <3> QED
      BY <1>7, <1>8, <3>1
  <2>2. g = [k \in 0 .. n |-> g[k]]
    OBVIOUS
  <2> QED
    BY <2>1, <2>2
<1>10. among = [k \in 0 .. n |->
                  IF k = 0 THEN 0 ELSE IF Wins(among[k - 1], k) THEN k ELSE among[k - 1]]
  BY <1>9
<1> HIDE DEF among
<1>11. among[0] = 0
  BY <1>5, <1>10
<1>12. ASSUME NEW k \in 1 .. n PROVE among[k] = k \/ among[k] = among[k - 1]
  <2>1. k \in 0 .. n /\ k # 0
    BY <1>2
  <2> QED
    BY <1>10, <2>1
<1> DEFINE Bad == {k \in 0 .. n : among[k] \notin 0 .. n}
<1>13. ASSUME Bad # {} PROVE FALSE
  <2>1. Bad \subseteq Nat
    BY <1>2
  <2>2. PICK k \in Bad : \A y \in Bad : k <= y
    BY <1>13, <2>1, LeastNat
  <2>3. k \in 1 .. n
    BY <1>2, <1>5, <1>11, <2>2
  <2>4. k - 1 \in 0 .. n /\ k - 1 \notin Bad
    BY <1>2, <2>2, <2>3
  <2>5. among[k - 1] \in 0 .. n
    BY <2>4
  <2> QED
    BY <1>2, <1>12, <2>2, <2>3, <2>5
<1> QED
  BY <1>1, <1>5, <1>13 DEF n

-----------------------------------------------------------------------------
(* Tasks. *)

(* Nothing changes for slots other than s.                                 *)
Others(s) ==
  \A r \in Slots : r # s =>
    /\ SameFor(cells, cells', r) /\ tokens'[r] = tokens[r]
    /\ state'[r] = state[r] /\ task'[r] = task[r]
    /\ r \in suspect' <=> r \in suspect

LEMMA HandledOK ==
  ASSUME SlotInv, pc = "tasks", UNCHANGED updateVars, NEW s \in Slots, Others(s),
         SlotsTyped', Unshared', state'[s] \in {"idle", "started"},
         tokens'[s] = <<>> => Mine(cells', s) = {},
         Exact /\ s \notin suspect' => Agrees(cells', s, tokens'[s], <<>>, 0)
  PROVE  SlotInv'
<1>1. /\ pc' = "tasks" /\ batch = <<>> /\ batch' = <<>> /\ at = 0 /\ at' = 0
      /\ turn' = turn /\ nbatch' = nbatch
  BY DEF SlotInv, Batches, updateVars
<1>2. LoopTyped'
  BY DEF SlotInv, LoopTyped, updateVars
<1>3. Lengths'
  <2>1. ASSUME NEW r \in Slots
        PROVE  /\ state'[r] \in {"done", "generating"} => Len(tokens'[r]) < NCtx
               /\ state'[r] = "prompt" => Len(tokens'[r]) < Len(task'[r].prompt)
    <3>1. CASE r = s
      BY <3>1
    <3>2. CASE r # s
      <4>1. state'[r] = state[r] /\ tokens'[r] = tokens[r] /\ task'[r] = task[r]
        BY <3>2 DEF Others
      <4>2. /\ state[r] \in {"done", "generating"} => Len(tokens[r]) < NCtx
            /\ state[r] = "prompt" => Len(tokens[r]) < Len(task[r].prompt)
        BY DEF SlotInv, Lengths
      <4> QED
        BY <4>1, <4>2
    <3> QED
      BY <3>1, <3>2
  <2> QED
    BY <1>1, <2>1 DEF Lengths
<1>4. Batches'
  <2>1. Len(<<>>) = 0
    BY EmptySeq
  <2>2. Len(batch') = 0
    BY <1>1, <2>1
  <2>3. 0 + 1 .. 0 = {} /\ 1 .. 0 = {}
    OBVIOUS
  <2> QED
    BY <1>1, <2>2, <2>3 DEF Batches
<1>5. NoneLeaks'
  <2> SUFFICES ASSUME NEW r \in Slots, tokens'[r] = <<>> PROVE Mine(cells', r) = {}
    BY DEF NoneLeaks
  <2>1. CASE r = s
    BY <2>1
  <2>2. CASE r # s
    BY <2>2 DEF SlotInv, NoneLeaks, Others, SameFor
  <2> QED
    BY <2>1, <2>2
<1>6. Truth'
  <2> SUFFICES ASSUME Exact, NEW r \in Slots, r \notin suspect'
               PROVE  Agrees(cells', r, tokens'[r], batch', at')
    BY DEF Truth
  <2>1. CASE r = s
    BY <1>1, <2>1, Zenon
  <2>2. CASE r # s
    <3>1. Agrees(cells, r, tokens[r], batch, at)
      BY <2>2 DEF SlotInv, Truth, Others
    <3>2. SameFor(cells, cells', r) /\ tokens'[r] = tokens[r] /\ batch' = batch /\ at' = at
      BY <1>1, <2>2 DEF Others
    <3>3. Agrees(cells', r, tokens[r], batch, at)
      BY <3>1, <3>2, AgreesSame
    <3> QED
      BY <3>2, <3>3
  <2> QED
    BY <2>1, <2>2
<1> QED
  BY <1>2, <1>3, <1>4, <1>5, <1>6 DEF SlotInv

LEMMA StartsIs ==
  ASSUME SlotInv, NEW s \in Slots, NEW k, NEW p \in Prompts, Starts(s, k, p)
  PROVE  /\ pc = "tasks" /\ UNCHANGED updateVars /\ state'[s] = "started"
         /\ state' \in [Slots -> {"idle", "started", "prompt", "done", "generating"}]
         /\ task' \in [Slots -> {NoTask} \cup [kind : Kinds, prompt : Prompts]]
         /\ sampled' = sampled
         /\ \A r \in Slots : r # s => state'[r] = state[r] /\ task'[r] = task[r]
         /\ \A r \in Slots : state'[r] = "idle" <=> task'[r] = NoTask
         /\ \A r \in Slots : state'[r] = "generating" => sampled'[r] \in Gen
<1> DEFINE t == [kind |-> k, prompt |-> p]
<1>1. t \in [kind : Kinds, prompt : Prompts] /\ t # NoTask
  <2>1. k \in Kinds /\ k # "none"
    BY KindsAssumption DEF Starts, AllKinds
  <2> QED
    BY <2>1 DEF NoTask
<1>2. /\ state \in [Slots -> {"idle", "started", "prompt", "done", "generating"}]
      /\ task \in [Slots -> {NoTask} \cup [kind : Kinds, prompt : Prompts]]
      /\ \A r \in Slots : state[r] = "idle" <=> task[r] = NoTask
      /\ \A r \in Slots : state[r] = "generating" => sampled[r] \in Gen
  BY DEF SlotInv, SlotsTyped
<1>3. /\ pc = "tasks" /\ UNCHANGED updateVars /\ sampled' = sampled
      /\ state' = [state EXCEPT ![s] = "started"] /\ task' = [task EXCEPT ![s] = t]
  BY DEF Starts
<1> HIDE DEF t
<1>4. task' \in [Slots -> {NoTask} \cup [kind : Kinds, prompt : Prompts]]
  BY <1>1, <1>2, <1>3
<1> QED
  BY <1>1, <1>2, <1>3, <1>4

LEMMA CompleteOnOK ==
  ASSUME SlotInv, NEW s \in Slots, NEW p \in Prompts, CompleteOn(s, p)
  PROVE  SlotInv'
<1>1. UNCHANGED <<cells, tokens, saved, suspect, map, used>> /\ Starts(s, "completion", p)
  BY DEF CompleteOn
<1>2. SlotsTyped'
  BY <1>1, StartsIs DEF SlotInv, SlotsTyped
<1>3. Unshared'
  BY <1>1 DEF SlotInv, Unshared
<1>4. Others(s)
  BY <1>1, StartsIs, SameIsSame DEF Others
<1>5. /\ pc = "tasks" /\ UNCHANGED updateVars /\ state'[s] = "started"
  BY <1>1, StartsIs
<1>6. tokens'[s] = <<>> => Mine(cells', s) = {}
  BY <1>1 DEF SlotInv, NoneLeaks
<1>7. Exact /\ s \notin suspect' => Agrees(cells', s, tokens'[s], <<>>, 0)
  <2>1. batch = <<>> /\ at = 0
    BY <1>5 DEF SlotInv, Batches
  <2> QED
    BY <1>1, <2>1 DEF SlotInv, Truth
<1> QED
  BY <1>2, <1>3, <1>4, <1>5, <1>6, <1>7, HandledOK

LEMMA BlockAgrees ==
  ASSUME NEW s, NEW data \in Seq(Datum), NEW d, NEW low \in Nat, Block(s, data, d, low),
         NEW q, Spells(data, q)
  PROVE  Agrees(d, s, q, <<>>, 0)
<1> DEFINE n == Len(data)
<1>1. n \in Nat /\ DOMAIN data = 1 .. n
  BY LenProperties
<1>2. /\ Mine(d, s) = low .. low + n - 1
      /\ \A i \in low .. low + n - 1 :
           /\ i - low + 1 \in 1 .. n
           /\ d[i].pos = data[i - low + 1].pos /\ d[i].tok = data[i - low + 1].tok
  BY DEF Block
<1>3. /\ \A k \in 1 .. n : data[k].pos < Len(q) /\ data[k].tok = q[data[k].pos + 1]
      /\ \A p \in 0 .. Len(q) - 1 : \E k \in 1 .. n : data[k].pos = p
      /\ \A k, l \in 1 .. n : data[k].pos = data[l].pos => k = l
  BY <1>1 DEF Spells
<1> HIDE DEF n
<1>4. \A i \in Mine(d, s) : d[i].pos < Len(q) /\ d[i].tok = q[d[i].pos + 1]
  BY <1>2, <1>3, SMTT(30)
<1>5. ASSUME NEW p \in 0 .. Len(q) - 1 PROVE \E i \in Mine(d, s) : d[i].pos = p
  <2>1. PICK k \in 1 .. n : data[k].pos = p
    BY <1>3
  <2>2. PICK i \in low .. low + n - 1 : i - low + 1 = k
    <3>1. low + k - 1 \in low .. low + n - 1 /\ (low + k - 1) - low + 1 = k
      BY <1>1
    <3> QED
      BY <3>1
  <2> QED
    BY <1>2, <2>1, <2>2
<1>6. ASSUME NEW i \in Mine(d, s), NEW k \in Mine(d, s), d[i].pos = d[k].pos PROVE i = k
  <2>1. i \in low .. low + n - 1 /\ k \in low .. low + n - 1
    BY <1>2
  <2>2. i - low + 1 = k - low + 1
    BY <1>2, <1>3, <1>6, <2>1
  <2> QED
    BY <1>1, <2>1, <2>2
<1>7. Todo(<<>>, 0, s) = {}
  BY NoneTodo
<1> QED
  BY <1>4, <1>5, <1>6, <1>7 DEF Agrees

(* What prompt_save() and prompt_load() leave to slot s.                   *)
LEMMA SwapIs ==
  ASSUME SlotInv, pc = "tasks", NEW s \in Slots, NEW p \in Prompts, tokens[s] # <<>>,
         MaxSaved > 0, Swap(s, p)
  PROVE  /\ cells' \in CellMaps /\ tokens' \in [Slots -> Seq(Tok)] /\ suspect' \subseteq Slots
         /\ saved' \in Seq(SavedSet) /\ Len(saved') <= MaxSaved
         /\ \A r \in Slots : r # s => /\ SameFor(cells, cells', r) /\ tokens'[r] = tokens[r]
                                      /\ r \in suspect' <=> r \in suspect
         /\ Unshared' /\ tokens'[s] # <<>>
         /\ Exact /\ s \notin suspect' => Agrees(cells', s, tokens'[s], <<>>, 0)
<1> DEFINE list == Alloc(s)
           best == Best(s, p, list)
           e == list[best]
<1>1. /\ cells \in CellMaps /\ tokens \in [Slots -> Seq(Tok)] /\ suspect \subseteq Slots
      /\ batch = <<>> /\ at = 0
  BY DEF SlotInv, SlotsTyped, Batches
<1>2. Exact /\ s \notin suspect => Agrees(cells, s, tokens[s], <<>>, 0)
  BY <1>1 DEF SlotInv, Truth
<1>3. Exact /\ s \notin suspect => Spells(Content(s), tokens[s])
  BY <1>1, <1>2, ContentIs
<1>4. list \in Seq(SavedSet) /\ Len(list) \in Nat
  BY <1>3, AllocIs, LenProperties DEF SlotInv
<1>5. best \in 0 .. Len(list)
  BY <1>4, BestIs
<1>6. Evict(list) \in Seq(SavedSet) /\ Len(Evict(list)) <= MaxSaved
  BY <1>4, EvictIs
<1>7. CASE best = 0
  <2>1. saved' = Evict(list) /\ UNCHANGED <<cells, tokens, suspect>>
    BY <1>7 DEF Swap
  <2>2. Unshared'
    BY <2>1 DEF SlotInv, Unshared
  <2> HIDE DEF list, best
  <2> QED
    BY <1>1, <1>2, <1>6, <2>1, <2>2, SameIsSame
<1>8. CASE best # 0
  <2>1. best \in 1 .. Len(list)
    BY <1>4, <1>5, <1>8
  <2>2. e \in SavedSet
    BY <1>4, <2>1, ElementOfSeq
  <2>3. /\ e.tokens \in Seq(Tok) /\ e.tokens # <<>> /\ e.data \in Seq(Datum)
        /\ Exact /\ e.sure => Spells(e.data, e.tokens)
    BY <2>2 DEF SavedSet
  <2> DEFINE B == Blocks(SeqClear(cells, s), s, Len(e.data))
             fits == e.data = <<>> \/ B # {}
  <2>4. /\ cells' = Restored(s, e.data)
        /\ IF fits THEN /\ tokens' = [tokens EXCEPT ![s] = e.tokens]
                        /\ saved' = Evict(RemoveAt(list, best))
                        /\ suspect' = IF e.sure THEN suspect \ {s} ELSE suspect \cup {s}
           ELSE saved' = Evict(list) /\ suspect' = suspect \cup {s} /\ UNCHANGED tokens
    BY <1>8 DEF Swap
  <2>5. RemoveAt(list, best) \in Seq(SavedSet)
    BY <1>4, <2>1, RemoveAtIs
  <2>6. Evict(RemoveAt(list, best)) \in Seq(SavedSet) /\ Len(Evict(RemoveAt(list, best))) <= MaxSaved
    BY <2>5, EvictIs
  <2>7. /\ cells' \in CellMaps
        /\ \A r \in Slots : r # s => SameFor(cells, cells', r)
        /\ \A i \in Cells : cells'[i].seqs \subseteq cells[i].seqs \/ cells'[i].seqs = {s}
        /\ e.data # <<>> /\ B # {} => \E low \in Nat : Block(s, e.data, cells', low)
    <3> HIDE DEF e
    <3> QED
      BY <1>1, <2>3, <2>4, RestoredIs
  <2>8. Unshared'
    <3> SUFFICES ASSUME Unified, CtxShift, "reuse" \notin Kinds, NEW i \in Cells,
                        NEW r \in cells'[i].seqs, NEW t \in cells'[i].seqs
                 PROVE  r = t
      BY DEF Unshared
    <3>1. \A x, y \in cells[i].seqs : x = y
      BY DEF SlotInv, Unshared
    <3> QED
      BY <2>7, <3>1
  <2> HIDE DEF list, best, e, B
  <2>9. CASE fits
    <3>1. /\ tokens' = [tokens EXCEPT ![s] = e.tokens]
          /\ saved' = Evict(RemoveAt(list, best))
          /\ suspect' = IF e.sure THEN suspect \ {s} ELSE suspect \cup {s}
      BY <2>4, <2>9
    <3>2. tokens' \in [Slots -> Seq(Tok)] /\ tokens'[s] = e.tokens
          /\ \A r \in Slots : r # s => tokens'[r] = tokens[r]
      BY <1>1, <2>3, <3>1
    <3>3. suspect' \subseteq Slots /\ \A r \in Slots : r # s => (r \in suspect' <=> r \in suspect)
      BY <1>1, <3>1
    <3>4. ASSUME Exact, s \notin suspect' PROVE Agrees(cells', s, tokens'[s], <<>>, 0)
      <4>1. e.sure
        BY <3>1, <3>4
      <4>2. Spells(e.data, e.tokens)
        BY <2>3, <3>4, <4>1
      <4>3. e.data # <<>>
        <5>1. Len(e.tokens) \in Nat /\ Len(e.tokens) # 0
          BY <2>3, EmptySeq
        <5>2. \E k \in DOMAIN e.data : e.data[k].pos = 0
          BY <4>2, <5>1 DEF Spells
        <5>3. DOMAIN e.data = 1 .. Len(e.data)
          BY <2>3, LenProperties
        <5>4. e.data = <<>> => Len(e.data) = 0
          BY EmptySeq
        <5> QED
          BY <5>2, <5>3, <5>4
      <4>4. PICK low \in Nat : Block(s, e.data, cells', low)
        BY <2>7, <2>9, <4>3
      <4> QED
        BY <2>3, <3>2, <4>2, <4>4, BlockAgrees
    <3> QED
      BY <2>3, <2>6, <2>7, <2>8, <3>1, <3>2, <3>3, <3>4
  <2>10. CASE ~fits
    <3>1. saved' = Evict(list) /\ suspect' = suspect \cup {s} /\ UNCHANGED tokens
      BY <2>4, <2>10
    <3> QED
      BY <1>1, <1>6, <2>7, <2>8, <3>1
  <2> QED
    BY <2>9, <2>10
<1> QED
  BY <1>7, <1>8

LEMMA CompleteOK ==
  ASSUME SlotInv, NEW s \in Slots, NEW p \in Prompts, Complete(s, p)
  PROVE  SlotInv'
<1>1. Starts(s, "completion", p) /\ UNCHANGED <<map, used>>
  BY DEF Complete
<1>2. CASE ~Saves(s, p, Similar(Idle, p) = {})
  <2>1. UNCHANGED <<cells, tokens, saved, suspect>> /\ s \in Slots
    BY <1>2 DEF Complete
  <2>2. SlotsTyped'
    BY <1>1, <2>1, StartsIs DEF SlotInv, SlotsTyped
  <2>3. Unshared'
    BY <2>1 DEF SlotInv, Unshared
  <2>4. Others(s)
    BY <1>1, <2>1, StartsIs, SameIsSame DEF Others
  <2>5. pc = "tasks" /\ UNCHANGED updateVars /\ state'[s] = "started"
    BY <1>1, StartsIs
  <2>6. tokens'[s] = <<>> => Mine(cells', s) = {}
    BY <2>1 DEF SlotInv, NoneLeaks
  <2>7. Exact /\ s \notin suspect' => Agrees(cells', s, tokens'[s], <<>>, 0)
    <3>1. batch = <<>> /\ at = 0
      BY <2>5 DEF SlotInv, Batches
    <3> QED
      BY <2>1, <3>1 DEF SlotInv, Truth
  <2> QED
    BY <2>2, <2>3, <2>4, <2>5, <2>6, <2>7, HandledOK
<1>3. CASE Saves(s, p, Similar(Idle, p) = {})
  <2>1. Swap(s, p) /\ tokens[s] # <<>> /\ MaxSaved > 0
    BY <1>3 DEF Complete, Saves
  <2>2. /\ cells' \in CellMaps /\ tokens' \in [Slots -> Seq(Tok)] /\ suspect' \subseteq Slots
        /\ saved' \in Seq(SavedSet) /\ Len(saved') <= MaxSaved
        /\ \A r \in Slots : r # s => /\ SameFor(cells, cells', r) /\ tokens'[r] = tokens[r]
                                     /\ r \in suspect' <=> r \in suspect
        /\ Unshared' /\ tokens'[s] # <<>>
        /\ Exact /\ s \notin suspect' => Agrees(cells', s, tokens'[s], <<>>, 0)
    <3>1. pc = "tasks"
      BY <1>1, StartsIs
    <3> QED
      BY <2>1, <3>1, SwapIs
  <2>3. SlotsTyped'
    BY <1>1, <2>2, StartsIs DEF SlotInv, SlotsTyped
  <2>4. Others(s)
    BY <1>1, <2>2, StartsIs DEF Others
  <2>5. pc = "tasks" /\ UNCHANGED updateVars /\ state'[s] = "started"
    BY <1>1, StartsIs
  <2> QED
    BY <2>2, <2>3, <2>4, <2>5, HandledOK
<1> QED
  BY <1>2, <1>3

LEMMA MapIs ==
  ASSUME SlotsTyped, NEW q \in Slots, NEW from \in Nat, NEW m \in Int, m <= Len(map[q])
  PROVE  SubSeq(map[q], from + 1, m) \in Seq(Tok)
<1>1. map[q] \in Seq(Gen) /\ Len(map[q]) \in Nat
  BY LenProperties DEF SlotsTyped
<1>2. \A j \in 1 .. Len(map[q]) : map[q][j] \in Tok
  BY <1>1, GenIs, ElementOfSeq
<1>3. \A j \in from + 1 .. m : map[q][j] \in Tok
  BY <1>1, <1>2
<1> QED
  BY <1>3, SubSeqProperties

LEMMA BranchReuseOK ==
  ASSUME SlotInv, NEW s \in Slots, NEW q \in Slots, NEW p \in Prompts,
         NEW from \in 0 .. NCtx, NEW to \in 0 .. NCtx, BranchReuse(s, q, p, from, to)
  PROVE  SlotInv'
<1> DEFINE m == Min({to, Len(map[q])})
           u == IF map[q] = <<>> THEN tokens[s] ELSE SubSeq(map[q], from + 1, m)
           t == u \o p
<1>1. /\ Starts(s, "reuse", p) /\ "reuse" \in Kinds
      /\ cells' = IF Unified THEN SeqCp(cells, q, s, from, to) ELSE CopyStream(cells, q, s)
      /\ tokens' = [tokens EXCEPT ![s] = t]
      /\ used' = used \cup {s} /\ suspect' = suspect \cup {s}
      /\ UNCHANGED <<saved, map>>
  BY DEF BranchReuse, Starts
<1>2. SlotsTyped
  BY DEF SlotInv
<1>3. u \in Seq(Tok)
  <2>1. from \in Nat /\ to \in Nat /\ Len(map[q]) \in Nat
    BY <1>2, Sizes, LenProperties DEF SlotsTyped
  <2>2. m \in Int /\ m <= Len(map[q])
    BY <2>1, MinOfTwo
  <2>3. SubSeq(map[q], from + 1, m) \in Seq(Tok)
    BY <1>2, <2>1, <2>2, MapIs
  <2> QED
    BY <1>2, <2>3 DEF SlotsTyped
<1>4. t \in Seq(Tok) /\ t # <<>>
  <2> HIDE DEF u
  <2>1. p \in Seq(Tok) /\ Len(p) \in Nat /\ Len(p) >= 1
    BY PromptIs
  <2>2. t \in Seq(Tok) /\ Len(t) = Len(u) + Len(p) /\ Len(u) \in Nat
    BY <1>3, <2>1, ConcatProperties, LenProperties
  <2>3. t = <<>> => Len(t) = 0
    BY EmptySeq
  <2> HIDE DEF t
  <2> QED
    BY <2>1, <2>2, <2>3
<1> HIDE DEF t
<1>5. /\ cells' \in CellMaps
      /\ \A r \in Slots : r # s => SameFor(cells, cells', r)
  <2>1. cells \in CellMaps
    BY <1>2 DEF SlotsTyped
  <2>2. CASE Unified
    BY <1>1, <2>1, <2>2, SeqCpIs
  <2>3. CASE ~Unified
    BY <1>1, <2>1, <2>3, CopyStreamIs
  <2> QED
    BY <2>2, <2>3
<1>6. /\ tokens' \in [Slots -> Seq(Tok)] /\ tokens'[s] = t
      /\ \A r \in Slots : r # s => tokens'[r] = tokens[r]
  BY <1>1, <1>2, <1>4 DEF SlotsTyped
<1>7. SlotsTyped'
  <2>1. used' \subseteq Slots /\ suspect' \subseteq Slots /\ saved' = saved /\ map' = map
    BY <1>1, <1>2 DEF SlotsTyped
  <2> QED
    BY <1>1, <1>2, <1>5, <1>6, <2>1, StartsIs DEF SlotsTyped
<1>8. Unshared'
  BY <1>1 DEF Unshared
<1>9. Others(s)
  BY <1>1, <1>5, <1>6, StartsIs DEF Others
<1>10. pc = "tasks" /\ UNCHANGED updateVars /\ state'[s] = "started"
  BY <1>1, StartsIs
<1>11. tokens'[s] # <<>> /\ s \in suspect'
  BY <1>1, <1>4, <1>6
<1> QED
  BY <1>7, <1>8, <1>9, <1>10, <1>11, HandledOK

LEMMA BranchFreshOK ==
  ASSUME SlotInv, NEW s \in Slots, NEW q \in Slots, NEW p \in Prompts,
         NEW from \in 0 .. NCtx, NEW to \in 0 .. NCtx, BranchFresh(s, q, p, from, to)
  PROVE  SlotInv'
<1> DEFINE t == <<Bos>> \o SubSeq(map[q], from + 1, to) \o <<Blank>> \o p \o p
<1>1. /\ Starts(s, "fresh", p) /\ to <= Len(map[q])
      /\ cells' = SeqClear(cells, s) /\ tokens' = [tokens EXCEPT ![s] = t]
      /\ map' = [map EXCEPT ![s] = <<>>]
      /\ used' = used \ {s} /\ suspect' = suspect \cup {s} /\ UNCHANGED saved
  BY DEF BranchFresh
<1>2. SlotsTyped
  BY DEF SlotInv
<1>3. t \in Seq(Tok) /\ t # <<>>
  <2> DEFINE b == SubSeq(map[q], from + 1, to)
             v == <<Bos>> \o b
             w == v \o <<Blank>>
             x == w \o p
  <2>1. from \in Nat /\ to \in Int
    BY Sizes
  <2>2. b \in Seq(Tok)
    BY <1>1, <1>2, <2>1, MapIs
  <2>3. <<Bos>> \in Seq(Tok) /\ <<Blank>> \in Seq(Tok) /\ p \in Seq(Tok)
    BY GenIs, PromptIs
  <2>4. Len(p) \in Nat /\ Len(p) >= 1
    BY PromptIs
  <2> HIDE DEF b
  <2>5. v \in Seq(Tok)
    BY <2>2, <2>3, ConcatProperties
  <2> HIDE DEF v
  <2>6. w \in Seq(Tok)
    BY <2>3, <2>5, ConcatProperties
  <2> HIDE DEF w
  <2>7. x \in Seq(Tok)
    BY <2>3, <2>6, ConcatProperties
  <2> HIDE DEF x
  <2>8. x \o p \in Seq(Tok) /\ Len(x \o p) = Len(x) + Len(p) /\ Len(x) \in Nat
    BY <2>3, <2>7, ConcatProperties, LenProperties
  <2>9. x \o p = <<>> => Len(x \o p) = 0
    BY EmptySeq
  <2>10. x \o p # <<>>
    BY <2>4, <2>8, <2>9
  <2> QED
    BY <2>8, <2>10 DEF x, w, v, b
<1> HIDE DEF t
<1>4. cells' \in CellMaps /\ \A r \in Slots : r # s => SameFor(cells, cells', r)
  BY <1>1, <1>2, SeqClearIs DEF SlotsTyped
<1>5. /\ tokens' \in [Slots -> Seq(Tok)] /\ tokens'[s] = t
      /\ \A r \in Slots : r # s => tokens'[r] = tokens[r]
  BY <1>1, <1>2, <1>3 DEF SlotsTyped
<1>6. SlotsTyped'
  <2>1. used' \subseteq Slots /\ suspect' \subseteq Slots /\ saved' = saved
    BY <1>1, <1>2 DEF SlotsTyped
  <2>2. map' \in [Slots -> Seq(Gen)]
    <3>1. <<>> \in Seq(Gen)
      BY EmptySeq
    <3> QED
      BY <1>1, <1>2, <3>1 DEF SlotsTyped
  <2> QED
    BY <1>1, <1>2, <1>4, <1>5, <2>1, <2>2, StartsIs DEF SlotsTyped
<1>7. Unshared'
  <2> SUFFICES ASSUME Unified, CtxShift, "reuse" \notin Kinds, NEW i \in Cells,
                      NEW r \in cells'[i].seqs, NEW x \in cells'[i].seqs
               PROVE  r = x
    BY DEF Unshared
  <2>1. \A y, z \in cells[i].seqs : y = z
    BY DEF SlotInv, Unshared
  <2>2. cells'[i].seqs \subseteq cells[i].seqs
    BY <1>1, <1>2, SeqClearIs DEF SlotsTyped
  <2> QED
    BY <2>1, <2>2
<1>8. Others(s)
  BY <1>1, <1>4, <1>5, StartsIs DEF Others
<1>9. pc = "tasks" /\ UNCHANGED updateVars /\ state'[s] = "started"
  BY <1>1, StartsIs
<1>10. tokens'[s] # <<>> /\ s \in suspect'
  BY <1>1, <1>3, <1>5
<1> QED
  BY <1>6, <1>7, <1>8, <1>9, <1>10, HandledOK

LEMMA ReleaseIs ==
  ASSUME SlotsTyped, NEW S, Release(S)
  PROVE  /\ state' \in [Slots -> {"idle", "started", "prompt", "done", "generating"}]
         /\ task' \in [Slots -> {NoTask} \cup [kind : Kinds, prompt : Prompts]]
         /\ \A r \in Slots : state'[r] = "idle" <=> task'[r] = NoTask
         /\ \A r \in Slots : r \in S => state'[r] = "idle"
         /\ \A r \in Slots : r \notin S => state'[r] = state[r] /\ task'[r] = task[r]
BY DEF Release, SlotsTyped

LEMMA CancelOK ==
  ASSUME SlotInv, NEW s \in Slots, Cancel(s)
  PROVE  SlotInv'
<1>1. /\ pc = "tasks" /\ Release({s})
      /\ UNCHANGED <<cells, tokens, sampled, map, used, saved, suspect, updateVars>>
  BY DEF Cancel
<1>2. SlotsTyped'
  BY <1>1, ReleaseIs DEF SlotInv, SlotsTyped
<1>3. Unshared'
  BY <1>1 DEF SlotInv, Unshared
<1>4. Others(s) /\ state'[s] = "idle"
  BY <1>1, ReleaseIs, SameIsSame DEF Others, SlotInv
<1>5. tokens'[s] = <<>> => Mine(cells', s) = {}
  BY <1>1 DEF SlotInv, NoneLeaks
<1>6. Exact /\ s \notin suspect' => Agrees(cells', s, tokens'[s], <<>>, 0)
  <2>1. batch = <<>> /\ at = 0
    BY <1>1 DEF SlotInv, Batches
  <2> QED
    BY <1>1, <2>1 DEF SlotInv, Truth
<1> QED
  BY <1>1, <1>2, <1>3, <1>4, <1>5, <1>6, HandledOK

LEMMA EraseOK ==
  ASSUME SlotInv, NEW s \in Slots, Erase(s)
  PROVE  SlotInv'
<1>1. /\ pc = "tasks" /\ state[s] = "idle" /\ cells' = SeqClear(cells, s)
      /\ tokens' = [tokens EXCEPT ![s] = <<>>] /\ suspect' = suspect \ {s}
      /\ UNCHANGED <<state, task, sampled, map, used, saved, updateVars>>
  BY DEF Erase, Idle, Busy
<1>2. /\ cells' \in CellMaps /\ Mine(cells', s) = {}
      /\ \A r \in Slots : r # s => SameFor(cells, cells', r)
      /\ \A i \in Cells : cells'[i].seqs \subseteq cells[i].seqs
  BY <1>1, SeqClearIs DEF SlotInv, SlotsTyped
<1>3. /\ tokens' \in [Slots -> Seq(Tok)] /\ tokens'[s] = <<>>
      /\ \A r \in Slots : r # s => tokens'[r] = tokens[r]
  <2>1. <<>> \in Seq(Tok)
    BY EmptySeq
  <2> QED
    BY <1>1, <2>1 DEF SlotInv, SlotsTyped
<1>4. SlotsTyped'
  BY <1>1, <1>2, <1>3 DEF SlotInv, SlotsTyped
<1>5. Unshared'
  <2> SUFFICES ASSUME Unified, CtxShift, "reuse" \notin Kinds, NEW i \in Cells,
                      NEW r \in cells'[i].seqs, NEW x \in cells'[i].seqs
               PROVE  r = x
    BY DEF Unshared
  <2>1. \A y, z \in cells[i].seqs : y = z
    BY DEF SlotInv, Unshared
  <2> QED
    BY <1>2, <2>1
<1>6. Others(s)
  BY <1>1, <1>2, <1>3 DEF Others
<1>7. Agrees(cells', s, <<>>, <<>>, 0)
  <2>1. Todo(<<>>, 0, s) = {}
    BY NoneTodo
  <2> QED
    BY <1>2, <2>1, NothingAgrees
<1>8. Exact /\ s \notin suspect' => Agrees(cells', s, tokens'[s], <<>>, 0)
  BY <1>3, <1>7, Zenon
<1>9. UNCHANGED updateVars /\ state'[s] \in {"idle", "started"}
  BY <1>1
<1> QED
  BY <1>1, <1>2, <1>4, <1>5, <1>6, <1>8, <1>9, HandledOK

LEMMA AbortOK ==
  ASSUME SlotInv, Abort
  PROVE  SlotInv'
<1> USE DEF Abort, SlotInv
<1>1. SlotsTyped'
  BY DEF SlotsTyped
<1>2. LoopTyped'
  BY DEF LoopTyped
<1>3. Lengths'
  BY DEF Lengths
<1>4. Batches'
  BY DEF Batches
<1>5. NoneLeaks' /\ Unshared' /\ Truth'
  BY DEF NoneLeaks, Unshared, Truth
<1> QED
  BY <1>1, <1>2, <1>3, <1>4, <1>5

LEMMA TasksOK == SlotInv /\ Tasks => SlotInv'
<1> SUFFICES ASSUME SlotInv, Tasks PROVE SlotInv'
  OBVIOUS
<1>1. ASSUME NEW s \in Slots, NEW p \in Prompts, Complete(s, p) PROVE SlotInv'
  BY <1>1, CompleteOK
<1>2. ASSUME NEW s \in Slots, NEW p \in Prompts, CompleteOn(s, p) PROVE SlotInv'
  BY <1>2, CompleteOnOK
<1>3. ASSUME NEW s \in Slots, NEW q \in Slots, NEW p \in Prompts,
             NEW from \in 0 .. NCtx, NEW to \in 0 .. NCtx,
             \/ BranchReuse(s, q, p, from, to)
             \/ BranchAborts(s, q, p, from, to)
             \/ BranchFresh(s, q, p, from, to)
      PROVE  SlotInv'
  BY <1>3, BranchReuseOK, BranchFreshOK, AbortOK DEF BranchAborts
<1>4. ASSUME NEW s \in Slots, Cancel(s) \/ Erase(s) PROVE SlotInv'
  BY <1>4, CancelOK, EraseOK
<1> QED
  BY <1>1, <1>2, <1>3, <1>4 DEF Tasks

-----------------------------------------------------------------------------
(* The steps of update_slots. *)

LEMMA GoToIs ==
  ASSUME turn \in Slots, NEW here, NEW there, GoTo(here, there)
  PROVE  /\ turn' \in Slots
         /\ \/ pc' = here /\ turn' = turn + 1 /\ turn < NSlots - 1
            \/ pc' = there /\ turn' = 0 /\ \A s \in Slots : s <= turn
<1>1. turn \in Nat /\ turn < NSlots /\ (turn < NSlots - 1 => turn + 1 \in Slots) /\ 0 \in Slots
  BY Sizes
<1>2. CASE turn < NSlots - 1
  BY <1>1, <1>2 DEF GoTo
<1>3. CASE ~(turn < NSlots - 1)
  <2>1. pc' = there /\ turn' = 0
    BY <1>3 DEF GoTo
  <2>2. \A s \in Slots : s \in Nat /\ s < NSlots
    BY Sizes
  <2>3. \A s \in Slots : s <= turn
    BY <1>1, <1>3, <2>2, Sizes
  <2> QED
    BY <1>1, <2>1, <2>3
<1> QED
  BY <1>2, <1>3

LEMMA StartUpdateOK ==
  ASSUME SlotInv, StartUpdate
  PROVE  SlotInv'
<1>1. /\ pc = "tasks" /\ pc' = "shift" /\ turn' = 0 /\ batch' = <<>> /\ at' = 0
      /\ nbatch' = NBatch
      /\ UNCHANGED <<cells, tokens, state, task, sampled, map, used, saved, suspect>>
  BY DEF StartUpdate
<1>2. batch = <<>> /\ at = 0
  BY <1>1 DEF SlotInv, Batches
<1>3. SlotsTyped' /\ NoneLeaks' /\ Unshared' /\ Truth'
  BY <1>1, <1>2 DEF SlotInv, SlotsTyped, NoneLeaks, Unshared, Truth
<1>4. LoopTyped'
  BY <1>1, <1>2, Sizes DEF SlotInv, LoopTyped
<1>5. Lengths'
  <2>1. \A s \in Slots : ~(s < 0)
    BY Sizes
  <2> QED
    BY <1>1, <2>1 DEF SlotInv, Lengths
<1>6. Batches'
  BY <1>1, <1>2 DEF SlotInv, Batches
<1> QED
  BY <1>3, <1>4, <1>5, <1>6 DEF SlotInv

(* A context shift removes the tokens k + 1 .. k + d of q.                 *)
Cut(q, k, d) == SubSeq(q, 1, k) \o SubSeq(q, k + d + 1, Len(q))

LEMMA CutIs ==
  ASSUME NEW q \in Seq(Tok), NEW k \in Nat, NEW d \in Nat, k + d <= Len(q)
  PROVE  /\ Cut(q, k, d) \in Seq(Tok) /\ Len(Cut(q, k, d)) = Len(q) - d
         /\ \A j \in 1 .. Len(q) - d : Cut(q, k, d)[j] = IF j <= k THEN q[j] ELSE q[j + d]
<1> DEFINE n == Len(q)
           x == SubSeq(q, 1, k)
           y == SubSeq(q, k + d + 1, n)
           t == x \o y
<1>1. n \in Nat /\ k + d <= n /\ \A j \in 1 .. n : q[j] \in Tok
  BY LenProperties, ElementOfSeq
<1> HIDE DEF n
<1>2. x \in Seq(Tok) /\ Len(x) = k /\ \A j \in 1 .. k : x[j] = q[j]
  <2>1. \A j \in 1 .. k : q[j] \in Tok
    BY <1>1
  <2>2. /\ x \in Seq(Tok) /\ Len(x) = IF 1 <= k THEN k - 1 + 1 ELSE 0
        /\ \A j \in 1 .. k - 1 + 1 : x[j] = q[1 + j - 1]
    BY <2>1, SubSeqProperties
  <2> HIDE DEF x
  <2>3. \A j \in 1 .. k : j \in 1 .. k - 1 + 1 /\ 1 + j - 1 = j
    OBVIOUS
  <2> QED
    BY <2>2, <2>3
<1>3. y \in Seq(Tok) /\ Len(y) = n - k - d /\ \A j \in 1 .. n - k - d : y[j] = q[k + d + j]
  <2> DEFINE m == k + d + 1
  <2>1. m \in Int /\ m = k + d + 1 /\ n \in Int
    BY <1>1
  <2> HIDE DEF m
  <2>2. \A j \in m .. n : q[j] \in Tok
    BY <1>1, <2>1
  <2>3. /\ SubSeq(q, m, n) \in Seq(Tok)
        /\ Len(SubSeq(q, m, n)) = IF m <= n THEN n - m + 1 ELSE 0
        /\ \A j \in 1 .. n - m + 1 : SubSeq(q, m, n)[j] = q[m + j - 1]
    BY <2>1, <2>2, SubSeqProperties, SMTT(30)
  <2>4. y = SubSeq(q, m, n)
    BY DEF m
  <2> HIDE DEF y
  <2>5. Len(y) = n - k - d
    BY <1>1, <2>1, <2>3, <2>4
  <2>6. ASSUME NEW j \in 1 .. n - k - d PROVE y[j] = q[k + d + j]
    <3>1. j \in 1 .. n - m + 1 /\ m + j - 1 = k + d + j
      BY <1>1, <2>1
    <3> QED
      BY <2>3, <2>4, <3>1
  <2> QED
    BY <2>3, <2>4, <2>5, <2>6
<1> HIDE DEF x, y
<1>4. /\ t \in Seq(Tok) /\ Len(t) = Len(x) + Len(y)
      /\ \A j \in 1 .. Len(x) + Len(y) : t[j] = IF j <= Len(x) THEN x[j] ELSE y[j - Len(x)]
  <2>1. x \in Seq(Tok) /\ y \in Seq(Tok)
    BY <1>2, <1>3
  <2> QED
    BY ONLY <2>1, ConcatProperties
<1> HIDE DEF t
<1>5. Len(t) = n - d
  BY <1>1, <1>2, <1>3, <1>4
<1>6. ASSUME NEW j \in 1 .. n - d PROVE t[j] = IF j <= k THEN q[j] ELSE q[j + d]
  <2>1. j \in 1 .. Len(x) + Len(y)
    BY <1>1, <1>2, <1>3
  <2>2. CASE j <= k
    <3>1. j \in 1 .. k
      BY <2>2
    <3>2. t[j] = x[j]
      BY <1>2, <1>4, <2>1, <2>2
    <3> QED
      BY <1>2, <2>2, <3>1, <3>2
  <2>3. CASE ~(j <= k)
    <3>1. j - k \in 1 .. n - k - d /\ k + d + (j - k) = j + d
      BY <1>1, <2>3
    <3>2. t[j] = y[j - k]
      BY <1>2, <1>4, <2>1, <2>3
    <3>3. y[j - k] = q[k + d + (j - k)]
      BY <1>3, <3>1
    <3> QED
      BY <2>3, <3>1, <3>2, <3>3
  <2> QED
    BY <2>2, <2>3
<1>7. Cut(q, k, d) = t
  BY DEF Cut, t, x, y, n
<1> QED
  BY <1>4, <1>5, <1>6, <1>7 DEF n

(* ... and moves the cells of those after.                                 *)
Shifted(c, s, k, d, n) == SeqShift(SeqRm(c, s, k, k + d), s, k + d, n, -d)

LEMMA ShiftedIs ==
  ASSUME NEW b \in CellMaps, NEW s \in Slots, NEW k \in Nat, NEW d \in Nat, NEW n \in Nat
  PROVE  LET c == Shifted(b, s, k, d, n)
         IN  /\ c \in CellMaps /\ \A r \in Slots : r # s => Mine(c, r) = Mine(b, r)
             /\ \A i \in Cells : c[i].seqs \subseteq b[i].seqs
             /\ Mine(c, s) = {i \in Mine(b, s) : b[i].pos \notin k .. (k + d) - 1}
             /\ \A i \in Mine(c, s) :
                  /\ c[i].tok = b[i].tok
                  /\ c[i].pos = IF b[i].pos \in (k + d) .. n - 1 THEN b[i].pos - d ELSE b[i].pos
             /\ \A r \in Slots :
                  /\ r # s
                  /\ \A i \in Cells : Unified => s \notin b[i].seqs \/ r \notin b[i].seqs
                  => SameFor(b, c, r)
<1> DEFINE e == SeqRm(b, s, k, k + d)
           by == -d
           c == SeqShift(e, s, k + d, n, by)
<1>1. by \in Int /\ \A x \in Int : x + by = x - d
  OBVIOUS
<1>2. /\ e \in CellMaps
      /\ Mine(e, s) = {i \in Mine(b, s) : b[i].pos \notin k .. (k + d) - 1}
      /\ \A i \in Mine(e, s) : e[i] = b[i]
      /\ \A r \in Slots : r # s => SameFor(b, e, r)
      /\ \A i \in Cells : e[i].seqs \subseteq b[i].seqs
  <2>1. k \in Int /\ k + d \in Int
    OBVIOUS
  <2> QED
    BY <2>1, SeqRmIs
<1> HIDE DEF e, by
<1>3. \A i \in Mine(e, s) : e[i].pos \in 0 .. NCtx
  BY <1>2, MineIs
<1>4. /\ c \in CellMaps
      /\ \A r \in Slots : Mine(c, r) = Mine(e, r)
      /\ \A i \in Mine(e, s) : /\ c[i].tok = e[i].tok
                               /\ c[i].pos = IF e[i].pos \in (k + d) .. n - 1
                                             THEN e[i].pos + by ELSE e[i].pos
      /\ \A i \in Cells : c[i].seqs = e[i].seqs /\ (i \notin Mine(e, s) => c[i] = e[i])
  <2>1. \A i \in Mine(e, s) : e[i].pos \in (k + d) .. n - 1 => e[i].pos + by \in 0 .. NCtx
    BY <1>1, <1>3, Sizes
  <2>2. k + d \in Int /\ n \in Int
    OBVIOUS
  <2> QED
    BY <1>1, <1>2, <2>1, <2>2, SeqShiftIs
<1>5. Shifted(b, s, k, d, n) = c
  BY DEF Shifted, e, by
<1> HIDE DEF c
<1>6. ASSUME NEW r \in Slots, r # s,
             \A i \in Cells : Unified => s \notin b[i].seqs \/ r \notin b[i].seqs
      PROVE  SameFor(b, c, r)
  <2>1. SameFor(b, e, r)
    BY <1>2, <1>6
  <2>2. ASSUME NEW i \in Mine(e, r) PROVE i \notin Mine(e, s) /\ i \in Cells
    <3>1. i \in Cells /\ i \in CellsOf(r) /\ r \in e[i].seqs
      BY DEF Mine, Has
    <3>2. ASSUME i \in Mine(e, s) PROVE FALSE
      <4>1. i \in CellsOf(s) /\ s \in e[i].seqs
        BY <3>2 DEF Mine, Has
      <4>2. Unified
        BY <1>6, <3>1, <4>1, CellsOfIs
      <4> QED
        BY <1>2, <1>6, <3>1, <4>1, <4>2
    <3> QED
      BY <3>1, <3>2
  <2>3. \A i \in Mine(e, r) : c[i] = e[i]
    BY <1>4, <2>2
  <2> QED
    BY <1>4, <2>1, <2>3 DEF SameFor
<1>7. \A r \in Slots : r # s => Mine(c, r) = Mine(b, r)
  BY <1>2, <1>4 DEF SameFor
<1>8. \A i \in Cells : c[i].seqs \subseteq b[i].seqs
  BY <1>2, <1>4
<1>9. Mine(c, s) = {i \in Mine(b, s) : b[i].pos \notin k .. (k + d) - 1}
  BY <1>2, <1>4
<1>10. ASSUME NEW i \in Mine(c, s)
       PROVE  /\ c[i].tok = b[i].tok
              /\ c[i].pos = IF b[i].pos \in (k + d) .. n - 1 THEN b[i].pos - d ELSE b[i].pos
  <2>1. i \in Mine(e, s) /\ e[i] = b[i]
    BY <1>2, <1>4
  <2>2. b[i].pos \in Int
    BY <1>3, <2>1, Sizes
  <2>3. b[i].pos + by = b[i].pos - d
    BY <1>1, <2>2
  <2> QED
    BY <1>4, <2>1, <2>3
<1> QED
  BY <1>4, <1>5, <1>6, <1>7, <1>8, <1>9, <1>10

LEMMA ShiftAgrees ==
  ASSUME NEW b \in CellMaps, NEW s \in Slots, NEW q \in Seq(Tok), NEW k \in Nat, NEW d \in Nat,
         k + d <= Len(q), Agrees(b, s, q, <<>>, 0)
  PROVE  Agrees(Shifted(b, s, k, d, Len(q)), s, Cut(q, k, d), <<>>, 0)
<1> DEFINE n == Len(q)
           c == Shifted(b, s, k, d, n)
           t == Cut(q, k, d)
           A == Mine(b, s)
           B == Mine(c, s)
<1>1. n \in Nat /\ k + d <= n
  BY LenProperties
<1>2. Len(t) = n - d /\ \A j \in 1 .. n - d : t[j] = IF j <= k THEN q[j] ELSE q[j + d]
  BY CutIs
<1> HIDE DEF n, t
<1>3. /\ B = {i \in A : b[i].pos \notin k .. (k + d) - 1}
      /\ \A i \in B : /\ c[i].tok = b[i].tok
                      /\ c[i].pos = IF b[i].pos \in (k + d) .. n - 1 THEN b[i].pos - d ELSE b[i].pos
  <2>1. n \in Nat
    BY <1>1
  <2> QED
    BY ONLY <2>1, ShiftedIs, b \in CellMaps, s \in Slots, k \in Nat, d \in Nat, SMTT(30)
<1>4. \A i \in A : b[i].pos \in Nat
  BY MineIs, Sizes
<1>5. Todo(<<>>, 0, s) = {}
  BY NoneTodo
<1>6. /\ \A i \in A : b[i].pos < n /\ b[i].tok = q[b[i].pos + 1]
      /\ \A p \in 0 .. n - 1 : \E i \in A : b[i].pos = p
      /\ \A i, l \in A : b[i].pos = b[l].pos => i = l
  BY <1>5 DEF Agrees, n
<1> HIDE DEF c, A, B
<1>7. ASSUME NEW i \in B
      PROVE  /\ i \in A /\ b[i].pos \in Nat /\ b[i].pos < n
             /\ b[i].pos < k => c[i].pos = b[i].pos
             /\ ~(b[i].pos < k) => b[i].pos >= k + d /\ c[i].pos = b[i].pos - d
  <2>1. i \in A /\ b[i].pos \in Nat /\ b[i].pos < n /\ b[i].pos \notin k .. (k + d) - 1
    BY <1>3, <1>4, <1>6
  <2>2. c[i].pos = IF b[i].pos \in (k + d) .. n - 1 THEN b[i].pos - d ELSE b[i].pos
    BY <1>3
  <2> QED
    BY <1>1, <2>1, <2>2
<1>8. ASSUME NEW i \in B PROVE c[i].pos < Len(t) /\ c[i].tok = t[c[i].pos + 1]
  <2>1. c[i].tok = q[b[i].pos + 1]
    BY <1>3, <1>6, <1>7
  <2>2. CASE b[i].pos < k
    <3>1. c[i].pos + 1 \in 1 .. n - d /\ c[i].pos + 1 <= k /\ c[i].pos = b[i].pos
      BY <1>1, <1>7, <2>2, SMTT(30)
    <3> QED
      BY <1>1, <1>2, <1>7, <2>1, <3>1, SMTT(30)
  <2>3. CASE ~(b[i].pos < k)
    <3>1. /\ c[i].pos + 1 \in 1 .. n - d /\ ~(c[i].pos + 1 <= k)
          /\ (c[i].pos + 1) + d = b[i].pos + 1
      BY <1>1, <1>7, <2>3, SMTT(30)
    <3>2. t[c[i].pos + 1] = q[(c[i].pos + 1) + d]
      BY <1>2, <3>1
    <3>3. c[i].pos < n - d
      BY <1>1, <1>7, <2>3
    <3> QED
      BY <1>2, <2>1, <3>1, <3>2, <3>3
  <2> QED
    BY <2>2, <2>3
<1>9. ASSUME NEW p \in 0 .. Len(t) - 1 PROVE \E i \in B : c[i].pos = p
  <2>1. p \in Nat /\ p < n - d
    BY <1>1, <1>2
  <2>2. CASE p < k
    <3>1. PICK i \in A : b[i].pos = p
      BY <1>1, <1>6, <2>1
    <3>2. i \in B
      BY <1>3, <2>2, <3>1
    <3> QED
      BY <1>7, <2>2, <3>1, <3>2
  <2>3. CASE ~(p < k)
    <3>1. p + d \in 0 .. n - 1
      BY <1>1, <2>1
    <3>2. PICK i \in A : b[i].pos = p + d
      BY <1>6, <3>1
    <3>3. p + d \notin k .. (k + d) - 1
      BY <2>1, <2>3
    <3>4. i \in B
      BY <1>3, <3>2, <3>3
    <3>5. ~(b[i].pos < k)
      BY <2>1, <2>3, <3>2
    <3> QED
      BY <1>7, <2>1, <3>2, <3>4, <3>5, SMTT(30)
  <2> QED
    BY <2>2, <2>3
<1>10. ASSUME NEW i \in B, NEW l \in B, c[i].pos = c[l].pos PROVE i = l
  <2>1. b[i].pos = b[l].pos
    BY <1>7, <1>10, SMTT(30)
  <2> QED
    BY <1>6, <1>7, <2>1
<1> QED
  BY <1>5, <1>8, <1>9, <1>10 DEF Agrees, B, c, t, n

LEMMA KeepIs ==
  ASSUME SlotInv, NEW s \in Slots, Full(s)
  PROVE  /\ Len(tokens[s]) \in Nat /\ Keep(s) \in Nat /\ Discard(s) \in Nat
         /\ Discard(s) >= 1 /\ Keep(s) + Discard(s) < Len(tokens[s])
<1> DEFINE n == Len(tokens[s])  k == Keep(s)
<1>1. n \in Nat /\ n + 1 >= NCtx
  <2>1. tokens[s] \in Seq(Tok)
    BY DEF SlotInv, SlotsTyped
  <2> QED
    BY <2>1, LenProperties DEF Full
<1>2. k \in Nat /\ k <= NCtx - 4
  <2>1. NCtx - 4 \in Nat /\ NKeep \in Nat
    BY Sizes
  <2>2. k = IF NCtx - 4 <= NKeep THEN NCtx - 4 ELSE NKeep
    BY <2>1, MinOfTwo DEF Keep
  <2> QED
    BY <2>1, <2>2
<1>3. Discard(s) = (n - k) \div 2
  BY DEF Discard
<1> HIDE DEF n, k
<1>4. n - k \in Nat /\ n - k >= 3
  BY <1>1, <1>2, Sizes
<1>5. \A m \in Nat : m >= 3 => m \div 2 \in Nat /\ m \div 2 >= 1 /\ m \div 2 < m
  OBVIOUS
<1>6. Discard(s) \in Nat /\ Discard(s) >= 1 /\ Discard(s) < n - k
  BY <1>3, <1>4, <1>5
<1> QED
  BY <1>1, <1>2, <1>6 DEF n, k

(* What a step of the context shift owes the loop: a slot that generates   *)
(* is not full.                                                            *)
LEMMA ShiftFrame ==
  ASSUME SlotInv, ShiftSlot, SlotsTyped',
         \A r \in Slots : state'[r] # "idle" => state'[r] = state[r] /\ task'[r] = task[r]
                                               /\ Len(tokens'[r]) <= Len(tokens[r]),
         state'[turn] = "generating" => Len(tokens'[turn]) + 1 < NCtx
  PROVE  LoopTyped' /\ Lengths' /\ Batches'
<1>1. /\ pc = "shift" /\ GoTo("shift", "sampled") /\ batch' = batch /\ at' = at /\ nbatch' = nbatch
  BY DEF ShiftSlot
<1>2. turn \in Slots /\ batch = <<>> /\ at = 0
  BY <1>1 DEF SlotInv, LoopTyped, Batches
<1>3. /\ turn' \in Slots
      /\ \/ pc' = "shift" /\ turn' = turn + 1
         \/ pc' = "sampled" /\ turn' = 0 /\ \A s \in Slots : s <= turn
  BY <1>1, <1>2, GoToIs
<1>4. LoopTyped'
  BY <1>1, <1>3 DEF SlotInv, LoopTyped
<1>5. ASSUME NEW r \in Slots
      PROVE  Len(tokens[r]) \in Nat /\ Len(tokens'[r]) \in Nat /\ r \in Nat
  <2>1. tokens[r] \in Seq(Tok) /\ tokens'[r] \in Seq(Tok)
    BY DEF SlotInv, SlotsTyped
  <2> QED
    BY <2>1, LenProperties, Sizes
<1>6. Lengths'
  <2> SUFFICES ASSUME NEW r \in Slots
               PROVE  /\ state'[r] \in {"done", "generating"} => Len(tokens'[r]) < NCtx
                      /\ state'[r] = "prompt" => Len(tokens'[r]) < Len(task'[r].prompt)
                      /\ /\ state'[r] = "generating"
                         /\ (pc' = "sampled" /\ turn' <= r) \/ (pc' = "shift" /\ r < turn')
                         => Len(tokens'[r]) + 1 < NCtx
    BY DEF Lengths
  <2>1. /\ state[r] \in {"done", "generating"} => Len(tokens[r]) < NCtx
        /\ state[r] = "prompt" => Len(tokens[r]) < Len(task[r].prompt)
        /\ state[r] = "generating" /\ r < turn => Len(tokens[r]) + 1 < NCtx
    BY <1>1 DEF SlotInv, Lengths
  <2>2. state'[r] \in {"done", "generating"} => Len(tokens'[r]) < NCtx
    BY <1>5, <2>1, Sizes, SMTT(30)
  <2>3. state'[r] = "prompt" => Len(tokens'[r]) < Len(task'[r].prompt)
    <3> SUFFICES ASSUME state'[r] = "prompt" PROVE Len(tokens'[r]) < Len(task[r].prompt)
      OBVIOUS
    <3>1. Len(tokens'[r]) <= Len(tokens[r]) /\ state[r] = "prompt" /\ task[r] # NoTask
      BY DEF SlotInv, SlotsTyped
    <3>2. task[r].prompt \in Prompts
      BY <3>1 DEF SlotInv, SlotsTyped
    <3>3. Len(task[r].prompt) \in Nat
      BY <3>2, PromptIs
    <3> QED
      BY <1>5, <2>1, <3>1, <3>3
  <2>4. ASSUME state'[r] = "generating",
               (pc' = "sampled" /\ turn' <= r) \/ (pc' = "shift" /\ r < turn')
        PROVE  Len(tokens'[r]) + 1 < NCtx
    <3>1. turn \in Nat /\ r <= turn
      BY <1>2, <1>3, <1>5, <2>4, Sizes
    <3>2. CASE r = turn
      BY <2>4, <3>2
    <3>3. CASE r # turn
      <4>1. r < turn /\ state[r] = "generating" /\ Len(tokens'[r]) <= Len(tokens[r])
        BY <1>5, <2>4, <3>1, <3>3
      <4> QED
        BY <1>5, <2>1, <4>1, Sizes
    <3> QED
      BY <3>2, <3>3
  <2> QED
    BY <2>2, <2>3, <2>4
<1>7. Batches'
  <2>1. Len(batch) = 0
    BY <1>2, EmptySeq, Zenon
  <2>2. 0 + 1 .. 0 = {} /\ 1 .. 0 = {}
    OBVIOUS
  <2> QED
    BY <1>1, <1>2, <1>3, <2>1, <2>2 DEF Batches
<1> QED
  BY <1>4, <1>6, <1>7

LEMMA ShiftSlotOK ==
  ASSUME SlotInv, ShiftSlot
  PROVE  SlotInv'
<1> DEFINE s == turn
           q == tokens[s]
           n == Len(q)
           k == Keep(s)
           d == Discard(s)
<1>1. /\ pc = "shift" /\ batch' = batch /\ at' = at
      /\ UNCHANGED <<sampled, map, used, saved, suspect>>
  BY DEF ShiftSlot
<1>2. s \in Slots /\ batch = <<>> /\ at = 0 /\ SlotsTyped /\ cells \in CellMaps
  BY <1>1 DEF SlotInv, LoopTyped, Batches, SlotsTyped
<1>3. q \in Seq(Tok) /\ n \in Nat
  BY <1>2, LenProperties DEF SlotsTyped
<1>4. CASE Full(s) /\ CtxShift
  <2> DEFINE c == Shifted(cells, s, k, d, n)
             t == Cut(q, k, d)
  <2>1. cells' = c /\ tokens' = [tokens EXCEPT ![s] = t] /\ UNCHANGED <<state, task>>
    BY <1>4 DEF ShiftSlot, Shifted, Cut
  <2>2. k \in Nat /\ d \in Nat /\ d >= 1 /\ k + d <= n /\ d < n
    BY <1>2, <1>4, KeepIs
  <2>3. q = tokens[s] /\ (Exact /\ s \notin suspect => Agrees(cells, s, q, <<>>, 0))
    BY <1>2 DEF SlotInv, Truth
  <2> HIDE DEF k, d, s, q
  <2>4. t \in Seq(Tok) /\ Len(t) = n - d
    BY <1>3, <2>2, CutIs
  <2>5. Agrees(cells, s, q, <<>>, 0) => Agrees(c, s, t, <<>>, 0)
    BY <1>2, <1>3, <2>2, ShiftAgrees
  <2> HIDE DEF n
  <2>6. /\ c \in CellMaps /\ \A r \in Slots : r # s => Mine(c, r) = Mine(cells, r)
        /\ \A i \in Cells : c[i].seqs \subseteq cells[i].seqs
        /\ \A r \in Slots : /\ r # s
                            /\ \A i \in Cells : Unified => s \notin cells[i].seqs \/ r \notin cells[i].seqs
                            => SameFor(cells, c, r)
    <3>1. cells \in CellMaps /\ s \in Slots /\ k \in Nat /\ d \in Nat /\ n \in Nat
      BY <1>2, <1>3, <2>2
    <3> QED
      BY ONLY <3>1, ShiftedIs, SMTT(30)
  <2> HIDE DEF t, c
  <2>7. /\ tokens' \in [Slots -> Seq(Tok)] /\ tokens'[s] = t
        /\ \A r \in Slots : r # s => tokens'[r] = tokens[r]
    BY <1>2, <2>1, <2>4 DEF SlotsTyped
  <2>8. SlotsTyped'
    BY <1>1, <1>2, <2>1, <2>6, <2>7 DEF SlotsTyped
  <2>9. LoopTyped' /\ Lengths' /\ Batches'
    <3>1. ASSUME NEW r \in Slots PROVE Len(tokens'[r]) <= Len(tokens[r])
      <4>1. tokens[r] \in Seq(Tok)
        BY <1>2 DEF SlotsTyped
      <4>2. Len(tokens[r]) \in Nat
        BY <4>1, LenProperties
      <4>3. Len(t) <= Len(q)
        BY <1>3, <2>2, <2>4 DEF n
      <4> QED
        BY <2>3, <2>7, <4>2, <4>3
    <3>2. state[s] = "generating" => Len(tokens'[s]) + 1 < NCtx
      <4>1. state[s] = "generating" => n < NCtx
        BY <1>2, <2>3 DEF SlotInv, Lengths, n
      <4> QED
        BY <1>3, <2>2, <2>4, <2>7, <4>1, Sizes
    <3> QED
      BY <2>1, <2>8, <3>1, <3>2, ShiftFrame DEF s
  <2>10. NoneLeaks'
    <3>1. ASSUME tokens'[s] = <<>> PROVE FALSE
      <4>1. Len(t) = 0
        BY <2>7, <3>1, EmptySeq, Zenon
      <4> QED
        BY <1>3, <2>2, <2>4, <4>1
    <3>2. ASSUME NEW r \in Slots, r # s, tokens'[r] = <<>> PROVE Mine(cells', r) = {}
      BY <2>1, <2>6, <2>7, <3>2 DEF SlotInv, NoneLeaks
    <3> QED
      BY <3>1, <3>2 DEF NoneLeaks
  <2>11. Unshared'
    <3> SUFFICES ASSUME Unified, CtxShift, "reuse" \notin Kinds, NEW i \in Cells,
                        NEW r \in cells'[i].seqs, NEW x \in cells'[i].seqs
                 PROVE  r = x
      BY DEF Unshared
    <3>1. \A y, z \in cells[i].seqs : y = z
      BY DEF SlotInv, Unshared
    <3> QED
      BY <2>1, <2>6, <3>1
  <2>12. Truth'
    <3> SUFFICES ASSUME Exact, NEW r \in Slots, r \notin suspect
                 PROVE  Agrees(cells', r, tokens'[r], <<>>, 0)
      BY <1>1, <1>2 DEF Truth
    <3>1. CASE r = s
      BY <2>1, <2>3, <2>5, <2>7, <3>1
    <3>2. CASE r # s
      <4>1. ASSUME NEW i \in Cells, Unified PROVE s \notin cells[i].seqs \/ r \notin cells[i].seqs
        <5>1. \A y, z \in cells[i].seqs : y = z
          BY <1>4, <4>1 DEF SlotInv, Unshared, Exact
        <5> QED
          BY <3>2, <5>1
      <4>2. SameFor(cells, c, r)
        BY <2>6, <3>2, <4>1
      <4>3. Agrees(cells, r, tokens[r], <<>>, 0)
        BY <1>2 DEF SlotInv, Truth
      <4> QED
        BY <2>1, <2>7, <3>2, <4>2, <4>3, AgreesSame
    <3> QED
      BY <3>1, <3>2
  <2> QED
    BY <2>8, <2>9, <2>10, <2>11, <2>12 DEF SlotInv
<1>5. CASE ~(Full(s) /\ CtxShift)
  <2>1. /\ UNCHANGED <<cells, tokens>>
        /\ (Full(s) /\ Release({s})) \/ (~Full(s) /\ UNCHANGED <<state, task>>)
    <3>1. CASE Full(s) /\ ~CtxShift
      <4>1. ~(Full(s) /\ CtxShift)
        BY <3>1
      <4>2. Release({s}) /\ UNCHANGED <<cells, tokens>>
        BY <4>1, <3>1 DEF ShiftSlot
      <4> QED
        BY <3>1, <4>2
    <3>2. CASE ~Full(s)
      BY <3>2 DEF ShiftSlot
    <3> QED
      BY <1>5, <3>1, <3>2
  <2>2. /\ SlotsTyped'
        /\ \A r \in Slots : state'[r] # "idle" => state'[r] = state[r] /\ task'[r] = task[r]
        /\ state'[s] # "idle" => ~Full(s)
    <3>1. CASE Full(s) /\ Release({s})
      <4>1. SlotsTyped'
        BY <1>1, <1>2, <2>1, <3>1, ReleaseIs DEF SlotsTyped
      <4> QED
        BY <1>2, <3>1, <4>1, ReleaseIs
    <3>2. CASE ~Full(s) /\ UNCHANGED <<state, task>>
      BY <1>1, <1>2, <2>1, <3>2 DEF SlotsTyped
    <3> QED
      BY <2>1, <3>1, <3>2
  <2>3. LoopTyped' /\ Lengths' /\ Batches'
    <3>1. \A r \in Slots : Len(tokens'[r]) <= Len(tokens[r])
      <4> SUFFICES ASSUME NEW r \in Slots PROVE Len(tokens'[r]) <= Len(tokens[r])
        OBVIOUS
      <4>1. tokens[r] \in Seq(Tok)
        BY <1>2 DEF SlotsTyped
      <4>2. Len(tokens[r]) \in Nat
        BY <4>1, LenProperties
      <4> QED
        BY <2>1, <4>2
    <3>2. state'[s] = "generating" => Len(tokens'[s]) + 1 < NCtx
      <4> SUFFICES ASSUME state'[s] = "generating" PROVE Len(tokens'[s]) + 1 < NCtx
        OBVIOUS
      <4>1. state[s] = "generating" /\ ~Full(s)
        BY <1>2, <2>2
      <4>2. ~(n + 1 >= NCtx)
        BY <4>1 DEF Full
      <4> QED
        BY <1>3, <2>1, <4>2, Sizes
    <3> QED
      BY <2>2, <3>1, <3>2, ShiftFrame
  <2>4. NoneLeaks' /\ Unshared' /\ Truth'
    BY <1>1, <2>1 DEF SlotInv, NoneLeaks, Unshared, Truth
  <2> QED
    BY <2>2, <2>3, <2>4 DEF SlotInv
<1> QED
  BY <1>4, <1>5

(* Entries of s join batch b.                                              *)
Joined(b, w, s) ==
  /\ Len(b) \in Nat /\ Len(w) \in Nat /\ Len(b) <= Len(w)
  /\ \A j \in 1 .. Len(b) : w[j] = b[j]
  /\ \A j \in Len(b) + 1 .. Len(w) : w[j].slot = s

LEMMA JoinedTodo ==
  ASSUME NEW b, NEW w, NEW s, Joined(b, w, s)
  PROVE  /\ Todo(w, 0, s) = Todo(b, 0, s) \cup (Len(b) + 1 .. Len(w))
         /\ \A r : /\ r # s => Todo(w, 0, r) = Todo(b, 0, r)
                   /\ \A j \in Todo(b, 0, r) : w[j] = b[j]
<1>1. /\ Len(b) \in Nat /\ Len(w) \in Nat /\ Len(b) <= Len(w)
      /\ \A j \in 1 .. Len(b) : w[j] = b[j]
      /\ \A j \in Len(b) + 1 .. Len(w) : w[j].slot = s
  BY DEF Joined
<1>2. \A j : j \in 1 .. Len(w) <=> j \in 1 .. Len(b) \/ j \in Len(b) + 1 .. Len(w)
  BY <1>1
<1>3. \A r, j : /\ j \in Todo(w, 0, r) <=> j \in 1 .. Len(w) /\ w[j].slot = r
                /\ j \in Todo(b, 0, r) <=> j \in 1 .. Len(b) /\ b[j].slot = r
  BY DEF Todo
<1>4. ASSUME NEW j
      PROVE  j \in Todo(w, 0, s) <=> j \in Todo(b, 0, s) \/ j \in Len(b) + 1 .. Len(w)
  BY <1>1, <1>2, <1>3
<1>5. ASSUME NEW r, r # s PROVE Todo(w, 0, r) = Todo(b, 0, r)
  <2>1. \A j : j \in Todo(w, 0, r) <=> j \in Todo(b, 0, r)
    BY <1>1, <1>2, <1>3, <1>5
  <2>2. Todo(w, 0, r) \subseteq Todo(b, 0, r) /\ Todo(b, 0, r) \subseteq Todo(w, 0, r)
    BY <2>1
  <2> QED
    BY <2>2
<1>6. \A r : \A j \in Todo(b, 0, r) : w[j] = b[j]
  BY <1>1, <1>3
<1>7. Todo(w, 0, s) = Todo(b, 0, s) \cup (Len(b) + 1 .. Len(w))
  BY <1>4
<1> QED
  BY <1>5, <1>6, <1>7

LEMMA AgreesJoined ==
  ASSUME NEW b, NEW w, NEW s, Joined(b, w, s), NEW c, NEW d, NEW r, r # s, SameFor(c, d, r),
         NEW q, Agrees(c, r, q, b, 0)
  PROVE  Agrees(d, r, q, w, 0)
<1>1. Todo(w, 0, r) = Todo(b, 0, r) /\ \A j \in Todo(b, 0, r) : w[j] = b[j]
  BY JoinedTodo
<1> QED
  BY <1>1, AgreesSame

(* The token that was sampled joins the batch as entry k.                  *)
Adds(q, t, b, w, s, k) ==
  /\ Todo(w, 0, s) = Todo(b, 0, s) \cup {k} /\ k \notin Todo(b, 0, s)
  /\ \A j \in Todo(b, 0, s) : w[j] = b[j] /\ b[j].pos \in Nat
  /\ Len(q) \in Nat /\ Len(t) = Len(q) + 1 /\ \A j \in 1 .. Len(q) : t[j] = q[j]
  /\ w[k].pos = Len(q) /\ w[k].tok = t[Len(q) + 1]

LEMMA AgreesNext ==
  ASSUME NEW c \in CellMaps, NEW s \in Slots, NEW q, NEW t, NEW b, NEW w, NEW k,
         Adds(q, t, b, w, s, k), Agrees(c, s, q, b, 0)
  PROVE  Agrees(c, s, t, w, 0)
<1> DEFINE B == Todo(b, 0, s)
           n == Len(q)
           x == t[n + 1]
<1>0. /\ n \in Nat /\ Len(t) = n + 1 /\ \A j \in 1 .. n : t[j] = q[j]
      /\ w[k].pos = n /\ w[k].tok = x /\ t[n + 1] = x
      /\ Todo(w, 0, s) = B \cup {k} /\ k \notin B
      /\ \A j \in B : w[j] = b[j] /\ b[j].pos \in Nat
  BY DEF Adds
<1> DEFINE A == Mine(c, s)
<1>1. \A i \in A : c[i].pos \in Nat
  BY MineIs, Sizes
<1>2. /\ \A i \in A : c[i].pos < n /\ c[i].tok = q[c[i].pos + 1]
      /\ \A j \in B : b[j].pos < n /\ b[j].tok = q[b[j].pos + 1]
      /\ \A p \in 0 .. n - 1 : \/ \E i \in A : c[i].pos = p
                               \/ \E j \in B : b[j].pos = p
      /\ \A i, l \in A : c[i].pos = c[l].pos => i = l
      /\ \A j, l \in B : b[j].pos = b[l].pos => j = l
      /\ \A i \in A, j \in B : c[i].pos # b[j].pos
  BY <1>0 DEF Agrees
<1> HIDE DEF A, B, n, x
<1>3. \A p \in Nat : p < n => p + 1 \in 1 .. n /\ t[p + 1] = q[p + 1]
  BY <1>0
<1>4. \A i \in A : c[i].pos < n + 1 /\ c[i].tok = t[c[i].pos + 1] /\ c[i].pos # w[k].pos
  BY <1>0, <1>1, <1>2, <1>3
<1>5. \A j \in B : w[j].pos = b[j].pos /\ w[j].pos # n /\ w[j].pos < n + 1 /\ w[j].tok = t[w[j].pos + 1]
  BY <1>0, <1>2, <1>3
<1>6. \A j \in B \cup {k} : w[j].pos < n + 1 /\ w[j].tok = t[w[j].pos + 1]
  BY <1>0, <1>5
<1>7. ASSUME NEW p \in 0 .. (n + 1) - 1
      PROVE  (\E i \in A : c[i].pos = p) \/ (\E j \in B \cup {k} : w[j].pos = p)
  <2>1. CASE p = n
    BY <1>0, <2>1
  <2>2. CASE p # n
    <3>1. p \in 0 .. n - 1
      BY <1>0, <2>2
    <3>2. (\E i \in A : c[i].pos = p) \/ (\E j \in B : b[j].pos = p)
      BY <1>0, <1>2, <3>1
    <3> QED
      BY <1>0, <1>5, <3>2
  <2> QED
    BY <1>0, <2>1, <2>2
<1>8. \A j, l \in B \cup {k} : w[j].pos = w[l].pos => j = l
  BY <1>0, <1>2, <1>5
<1>9. \A i \in A, j \in B \cup {k} : c[i].pos # w[j].pos
  BY <1>0, <1>2, <1>4, <1>5
<1> QED
  BY <1>0, <1>2, <1>4, <1>6, <1>7, <1>8, <1>9, SMTT(30) DEF Agrees, A, B, n

LEMMA TodoIs ==
  ASSUME NEW b \in Seq(EntrySet), NEW n \in Nat, NEW s
  PROVE  \A j \in Todo(b, n, s) : /\ j \in n + 1 .. Len(b) /\ j \in 1 .. Len(b) /\ b[j].slot = s
                                  /\ b[j] \in EntrySet /\ b[j].pos \in Nat
<1>1. Len(b) \in Nat /\ \A j \in 1 .. Len(b) : b[j] \in EntrySet
  BY LenProperties, ElementOfSeq
<1>2. \A e \in EntrySet : e.pos \in Nat
  BY Sizes DEF EntrySet
<1> QED
  BY <1>1, <1>2 DEF Todo

LEMMA AddSampledOK ==
  ASSUME SlotInv, AddSampled
  PROVE  SlotInv'
<1> DEFINE s == turn
           q == tokens[s]
           x == sampled[s]
           e == Entry(s, Len(q), x, TRUE)
           w == Append(batch, e)
           t == Append(q, x)
           adds == state[s] = "generating" /\ Joins(s)
<1>1. /\ pc = "sampled" /\ GoTo("sampled", "prompts")
      /\ UNCHANGED <<cells, state, task, sampled, map, used, saved, suspect, at, nbatch>>
      /\ adds => batch' = w /\ tokens' = [tokens EXCEPT ![s] = t]
      /\ ~adds => batch' = batch /\ tokens' = tokens
  BY DEF AddSampled
<1>2. s \in Slots /\ at = 0 /\ SlotsTyped /\ cells \in CellMaps /\ batch \in Seq(EntrySet)
  BY <1>1 DEF SlotInv, LoopTyped, Batches, SlotsTyped
<1>3. /\ turn' \in Slots
      /\ \/ pc' = "sampled" /\ turn' = s + 1
         \/ pc' = "prompts" /\ turn' = 0
  BY <1>1, <1>2, GoToIs
<1>4. q \in Seq(Tok) /\ Len(q) \in Nat
  BY <1>2, LenProperties DEF SlotsTyped
<1>5. Len(batch) \in Nat
  BY <1>2, LenProperties
<1>6. /\ \A j \in 1 .. Len(batch) :
           /\ batch[j].slot \in Slots /\ batch[j].slot < s
           /\ state[batch[j].slot] = "generating" /\ tokens[batch[j].slot] # <<>>
      /\ \A j, k \in 1 .. Len(batch) : j < k /\ batch[j].out => batch[k].slot # batch[j].slot
  <2>1. \A j \in 1 .. Len(batch) : batch[j] \in EntrySet
    BY <1>2, ElementOfSeq
  <2>2. 0 + 1 = 1
    OBVIOUS
  <2> QED
    BY <1>1, <1>2, <2>1, <2>2 DEF SlotInv, Batches, EntrySet
<1> HIDE DEF w, t, e, q, x, adds, s
<1>7. CASE adds
  <2>1. x \in Gen /\ x \in Tok /\ Len(q) + 1 < NCtx /\ state[s] = "generating" /\ q = tokens[s]
    <3>1. state[s] = "generating" /\ s = turn /\ s \in Nat
      BY <1>2, <1>7, Sizes DEF adds, s
    <3> QED
      BY <1>1, <1>2, <3>1, GenIs DEF SlotInv, SlotsTyped, Lengths, q, x
  <2>2. e \in EntrySet /\ e.slot = s /\ e.pos = Len(q) /\ e.tok = x
    BY <1>2, <1>4, <2>1, Sizes DEF e, Entry, EntrySet
  <2>3. /\ w \in Seq(EntrySet) /\ Len(w) = Len(batch) + 1 /\ w[Len(batch) + 1] = e
        /\ \A j \in 1 .. Len(batch) : w[j] = batch[j]
    BY <1>2, <2>2, AppendProperties DEF w
  <2>4. /\ t \in Seq(Tok) /\ t # <<>> /\ Len(t) = Len(q) + 1 /\ t[Len(q) + 1] = x
        /\ \A j \in 1 .. Len(q) : t[j] = q[j]
    BY <1>4, <2>1, AppendProperties DEF t
  <2>5. /\ tokens' \in [Slots -> Seq(Tok)] /\ tokens'[s] = t
        /\ \A r \in Slots : r # s => tokens'[r] = tokens[r]
    BY <1>1, <1>2, <1>7, <2>4 DEF SlotsTyped
  <2>6. SlotsTyped'
    BY <1>1, <1>2, <2>5 DEF SlotsTyped
  <2>7. LoopTyped'
    BY <1>1, <1>2, <1>3, <1>5, <1>7, <2>3 DEF SlotInv, LoopTyped, s
  <2>8. Lengths'
    <3> SUFFICES ASSUME NEW r \in Slots
                 PROVE  /\ state'[r] \in {"done", "generating"} => Len(tokens'[r]) < NCtx
                        /\ state'[r] = "prompt" => Len(tokens'[r]) < Len(task'[r].prompt)
                        /\ /\ state'[r] = "generating"
                           /\ (pc' = "sampled" /\ turn' <= r) \/ (pc' = "shift" /\ r < turn')
                           => Len(tokens'[r]) + 1 < NCtx
      BY DEF Lengths
    <3>1. s \in Nat /\ r \in Nat /\ s = turn
      BY <1>2, Sizes DEF s
    <3>2. CASE r = s
      <4>1. state'[r] = "generating" /\ Len(tokens'[r]) < NCtx
        BY <1>1, <1>4, <2>1, <2>4, <2>5, <3>2, Sizes
      <4>2. ~((pc' = "sampled" /\ turn' <= r) \/ (pc' = "shift" /\ r < turn'))
        BY <1>3, <3>1, <3>2
      <4> QED
        BY <4>1, <4>2
    <3>3. CASE r # s
      <4>1. pc' = "sampled" /\ turn' <= r => pc = "sampled" /\ turn <= r
        BY <1>1, <1>3, <3>1
      <4>2. pc' # "shift"
        BY <1>3
      <4> QED
        BY <1>1, <2>5, <3>3, <4>1, <4>2 DEF SlotInv, Lengths
    <3> QED
      BY <3>2, <3>3
  <2>9. Batches'
    <3>1. 1 .. Len(w) = (1 .. Len(batch)) \cup {Len(batch) + 1}
      BY <1>5, <2>3
    <3>2. \A j \in 1 .. Len(w) :
            /\ w[j].slot \in Slots /\ w[j].slot <= s
            /\ state'[w[j].slot] = "generating" /\ tokens'[w[j].slot] # <<>>
      <4>1. ASSUME NEW j \in 1 .. Len(batch)
            PROVE  /\ w[j].slot \in Slots /\ w[j].slot <= s
                   /\ state'[w[j].slot] = "generating" /\ tokens'[w[j].slot] # <<>>
        <5>1. w[j] = batch[j] /\ batch[j].slot \in Slots /\ batch[j].slot < s /\ batch[j].slot \in Nat
              /\ s \in Nat
          BY <1>2, <1>6, <2>3, Sizes
        <5> QED
          BY <1>1, <1>6, <2>5, <5>1
      <4>2. w[Len(batch) + 1].slot = s /\ s \in Nat
        BY <1>2, <2>2, <2>3, Sizes
      <4> QED
        BY <1>1, <1>2, <2>1, <2>4, <2>5, <3>1, <4>1, <4>2
    <3>3. \A j, k \in 1 .. Len(w) : j < k /\ w[j].out => w[k].slot # w[j].slot
      <4> SUFFICES ASSUME NEW j \in 1 .. Len(w), NEW k \in 1 .. Len(w), j < k, w[j].out
                   PROVE  w[k].slot # w[j].slot
        OBVIOUS
      <4>1. j \in 1 .. Len(batch) /\ w[j] = batch[j]
        BY <1>5, <2>3
      <4>2. CASE k = Len(batch) + 1
        <5>1. w[k].slot = s /\ batch[j].slot < s /\ s \in Nat
          BY <1>2, <1>6, <2>2, <2>3, <4>1, <4>2, Sizes
        <5> QED
          BY <4>1, <5>1
      <4>3. CASE k # Len(batch) + 1
        <5>1. k \in 1 .. Len(batch) /\ w[k] = batch[k]
          BY <2>3, <3>1, <4>3
        <5> QED
          BY <1>6, <4>1, <5>1
      <4> QED
        BY <4>2, <4>3
    <3>4. batch' = w /\ at' = 0 /\ pc' \in {"sampled", "prompts"}
          /\ (pc' = "sampled" => turn' = s + 1) /\ s \in Nat
      BY <1>1, <1>2, <1>3, <1>7, Sizes DEF s
    <3>5. \A j \in 0 + 1 .. Len(w) :
            /\ state'[w[j].slot] \in {"prompt", "done", "generating"} /\ tokens'[w[j].slot] # <<>>
            /\ w[j].out => state'[w[j].slot] # "prompt"
            /\ pc' = "sampled" => state'[w[j].slot] = "generating" /\ w[j].slot < turn'
            /\ pc' = "prompts" => state'[w[j].slot] = "generating" \/ w[j].slot < turn'
      <4> SUFFICES ASSUME NEW j \in 1 .. Len(w)
                   PROVE  /\ state'[w[j].slot] = "generating" /\ tokens'[w[j].slot] # <<>>
                          /\ pc' = "sampled" => w[j].slot < turn'
        OBVIOUS
      <4>1. w[j].slot \in Nat /\ w[j].slot <= s
        BY <3>2, Sizes
      <4> QED
        BY <3>2, <3>4, <4>1
    <3> QED
      BY <3>3, <3>4, <3>5 DEF Batches
  <2>10. NoneLeaks' /\ Unshared'
    <3>1. NoneLeaks'
      BY <1>1, <2>4, <2>5 DEF SlotInv, NoneLeaks
    <3> QED
      BY <1>1, <3>1 DEF SlotInv, Unshared
  <2>11. Truth'
    <3> SUFFICES ASSUME Exact, NEW r \in Slots, r \notin suspect
                 PROVE  Agrees(cells, r, tokens'[r], w, 0)
      BY <1>1, <1>2, <1>7 DEF Truth
    <3>1. Agrees(cells, r, tokens[r], batch, 0)
      BY <1>2 DEF SlotInv, Truth
    <3>2. Joined(batch, w, s)
      <4>1. \A j \in Len(batch) + 1 .. Len(w) : j = Len(batch) + 1
        BY <1>5, <2>3
      <4> QED
        BY <1>5, <2>2, <2>3, <4>1 DEF Joined
    <3>3. CASE r # s
      BY <2>5, <3>1, <3>2, <3>3, AgreesJoined, SameIsSame
    <3>4. CASE r = s
      <4> DEFINE k == Len(batch) + 1
      <4>1. Todo(w, 0, s) = Todo(batch, 0, s) \cup {k}
            /\ \A j \in Todo(batch, 0, s) : w[j] = batch[j]
        <5>1. Len(batch) + 1 .. Len(w) = {k}
          BY <1>5, <2>3
        <5> QED
          BY <3>2, <5>1, JoinedTodo
      <4>2. \A j \in Todo(batch, 0, s) : batch[j].pos \in Nat /\ j \in 1 .. Len(batch)
        BY <1>2, TodoIs
      <4>3. k \notin Todo(batch, 0, s) /\ w[k] = e
        BY <1>5, <2>3, <4>2
      <4>4. Agrees(cells, s, q, batch, 0)
        BY <2>1, <3>1, <3>4
      <4> HIDE DEF k
      <4>5. Adds(q, t, batch, w, s, k)
        BY <1>4, <2>2, <2>4, <4>1, <4>2, <4>3 DEF Adds
      <4>6. Agrees(cells, s, t, w, 0)
        BY <1>2, <4>4, <4>5, AgreesNext
      <4> QED
        BY <2>5, <3>4, <4>6
    <3> QED
      BY <3>3, <3>4
  <2> QED
    BY <2>6, <2>7, <2>8, <2>9, <2>10, <2>11 DEF SlotInv
<1>8. CASE ~adds
  <2>1. UNCHANGED <<cells, tokens, state, task, sampled, map, used, saved, suspect, batch, at, nbatch>>
    BY <1>1, <1>8
  <2>2. SlotsTyped' /\ LoopTyped' /\ NoneLeaks' /\ Unshared' /\ Truth'
    <3>1. LoopTyped'
      BY <1>3, <2>1 DEF SlotInv, LoopTyped, s
    <3> QED
      BY <2>1, <3>1 DEF SlotInv, SlotsTyped, NoneLeaks, Unshared, Truth
  <2>3. Lengths'
    <3>1. \A r \in Slots : r \in Nat
      BY Sizes
    <3>2. s = turn /\ s \in Nat
      BY <1>2, <3>1 DEF s
    <3>3. pc' # "shift" /\ \A r \in Slots : pc' = "sampled" /\ turn' <= r => pc = "sampled" /\ turn <= r
      BY <1>1, <1>3, <3>1, <3>2
    <3> QED
      BY <2>1, <3>3 DEF SlotInv, Lengths
  <2>4. Batches'
    <3>1. s = turn /\ s \in Nat /\ \A r \in Slots : r \in Nat
      BY <1>2, Sizes DEF s
    <3>2. /\ batch' = batch /\ at' = 0 /\ state' = state /\ tokens' = tokens
          /\ pc' \in {"sampled", "prompts"} /\ (pc' = "sampled" => turn' = s + 1)
      BY <1>2, <1>3, <2>1 DEF s
    <3>3. \A j \in 0 + 1 .. Len(batch) :
            /\ state[batch[j].slot] \in {"prompt", "done", "generating"}
            /\ tokens[batch[j].slot] # <<>>
            /\ batch[j].out => state[batch[j].slot] # "prompt"
            /\ pc' = "sampled" => state[batch[j].slot] = "generating" /\ batch[j].slot < turn'
            /\ pc' = "prompts" => state[batch[j].slot] = "generating" \/ batch[j].slot < turn'
      <4> SUFFICES ASSUME NEW j \in 1 .. Len(batch)
                   PROVE  /\ state[batch[j].slot] = "generating" /\ tokens[batch[j].slot] # <<>>
                          /\ pc' = "sampled" => batch[j].slot < turn'
        OBVIOUS
      <4> QED
        BY <1>6, <3>1, <3>2
    <3> QED
      BY <1>6, <3>2, <3>3 DEF Batches
  <2> QED
    BY <2>2, <2>3, <2>4 DEF SlotInv
<1> QED
  BY <1>7, <1>8

LEMMA CommonIs ==
  ASSUME NEW T, NEW q \in Seq(T), NEW S, NEW p \in Seq(S)
  PROVE  Common(q, p) \in Nat /\ Common(q, p) <= Len(q) /\ Common(q, p) <= Len(p)
<1> DEFINE C == {n \in DOMAIN q \cap DOMAIN p : SubSeq(q, 1, n) = SubSeq(p, 1, n)}
<1>1. DOMAIN q = 1 .. Len(q) /\ Len(q) \in Nat /\ DOMAIN p = 1 .. Len(p) /\ Len(p) \in Nat
  BY LenProperties
<1>2. C \in SUBSET (1 .. Len(q)) /\ C \in SUBSET (1 .. Len(p))
  BY <1>1
<1> HIDE DEF C
<1>3. ASSUME NEW n \in Nat, C \in SUBSET (1 .. n)
      PROVE  Cardinality(C) \in Nat /\ Cardinality(C) <= n
  <2> DEFINE I == 1 .. n
  <2>1. IsFiniteSet(I) /\ Cardinality(I) = n
    <3>1. 1 \in Int /\ n \in Int
      OBVIOUS
    <3>2. IsFiniteSet(I) /\ Cardinality(I) = IF 1 > n THEN 0 ELSE n - 1 + 1
      BY <3>1, FS_Interval
    <3> HIDE DEF I
    <3> QED
      BY <3>2
  <2> HIDE DEF I
  <2>2. C \in SUBSET I
    BY <1>3 DEF I
  <2>3. IsFiniteSet(C) /\ Cardinality(C) <= Cardinality(I)
    BY <2>1, <2>2, FS_Subset
  <2>4. Cardinality(C) \in Nat
    BY <2>3, FS_CardinalityType
  <2> QED
    BY <2>1, <2>3, <2>4
<1> QED
  BY <1>1, <1>2, <1>3 DEF Common, C

(* The n_past of a slot that is about to compute its prompt.               *)
LEMMA PastIs ==
  ASSUME SlotInv, NEW s \in Slots, state[s] = "started"
  PROVE  Past(s) \in Nat /\ Past(s) < Len(task[s].prompt) /\ Past(s) <= Len(tokens[s])
<1> DEFINE p == task[s].prompt
           n == Common(tokens[s], p)
           m == IF Lost(s, n) THEN 0 ELSE n
<1>1. task[s] # NoTask
  BY DEF SlotInv, SlotsTyped
<1>2. p \in Prompts
  BY <1>1 DEF SlotInv, SlotsTyped
<1>3. p \in Seq(Tok) /\ Len(p) \in Nat /\ Len(p) >= 1
  BY <1>2, PromptIs
<1>4. tokens[s] \in Seq(Tok) /\ Len(tokens[s]) \in Nat
  <2>1. tokens[s] \in Seq(Tok)
    BY DEF SlotInv, SlotsTyped
  <2> QED
    BY <2>1, LenProperties
<1>5. n \in Nat /\ n <= Len(tokens[s]) /\ n <= Len(p)
  BY <1>3, <1>4, CommonIs
<1>6. Past(s) = IF m = Len(p) THEN m - 1 ELSE m
  BY DEF Past
<1> HIDE DEF n, p
<1>7. m \in Nat /\ m <= Len(tokens[s]) /\ m <= Len(p)
  BY <1>3, <1>4, <1>5
<1> HIDE DEF m
<1> QED
  BY <1>3, <1>4, <1>6, <1>7 DEF p

(* The tokens of a slot whose prompt p is computed from m up to n, and the *)
(* entries that it adds to the batch.                                      *)
Fed(q, p, m, n)  == SubSeq(q, 1, m) \o SubSeq(p, m + 1, n)
Feed(s, p, m, n) == [j \in 1 .. n - m |-> Entry(s, m + j - 1, p[m + j], m + j = Len(p))]

LEMMA FedIs ==
  ASSUME NEW q \in Seq(Tok), NEW p \in Seq(Tok), NEW m \in Nat, NEW n \in Nat,
         m <= Len(q), m <= n, n <= Len(p)
  PROVE  /\ Fed(q, p, m, n) \in Seq(Tok) /\ Len(Fed(q, p, m, n)) = n
         /\ \A j \in 1 .. n : Fed(q, p, m, n)[j] = IF j <= m THEN q[j] ELSE p[j]
<1> DEFINE x == SubSeq(q, 1, m)
           y == SubSeq(p, m + 1, n)
           t == x \o y
<1>1. /\ Len(q) \in Nat /\ \A j \in 1 .. Len(q) : q[j] \in Tok
      /\ Len(p) \in Nat /\ \A j \in 1 .. Len(p) : p[j] \in Tok
  BY LenProperties, ElementOfSeq
<1>2. x \in Seq(Tok) /\ Len(x) = m /\ \A j \in 1 .. m : x[j] = q[j]
  <2>1. \A j \in 1 .. m : q[j] \in Tok
    BY <1>1
  <2>2. /\ x \in Seq(Tok) /\ Len(x) = IF 1 <= m THEN m - 1 + 1 ELSE 0
        /\ \A j \in 1 .. m - 1 + 1 : x[j] = q[1 + j - 1]
    BY <2>1, SubSeqProperties
  <2> HIDE DEF x
  <2>3. \A j \in 1 .. m : j \in 1 .. m - 1 + 1 /\ 1 + j - 1 = j
    OBVIOUS
  <2> QED
    BY <2>2, <2>3
<1>3. y \in Seq(Tok) /\ Len(y) = n - m /\ \A j \in 1 .. n - m : y[j] = p[m + j]
  <2> DEFINE l == m + 1
  <2>1. l \in Int /\ l = m + 1 /\ n \in Int
    OBVIOUS
  <2> HIDE DEF l
  <2>2. \A j \in l .. n : p[j] \in Tok
    BY <1>1, <2>1
  <2>3. /\ SubSeq(p, l, n) \in Seq(Tok)
        /\ Len(SubSeq(p, l, n)) = IF l <= n THEN n - l + 1 ELSE 0
        /\ \A j \in 1 .. n - l + 1 : SubSeq(p, l, n)[j] = p[l + j - 1]
    BY <2>1, <2>2, SubSeqProperties
  <2>4. y = SubSeq(p, l, n)
    BY DEF l
  <2> HIDE DEF y
  <2>5. Len(y) = n - m
    BY <2>1, <2>3, <2>4
  <2>6. ASSUME NEW j \in 1 .. n - m PROVE y[j] = p[m + j]
    <3>1. j \in 1 .. n - l + 1 /\ l + j - 1 = m + j
      BY <2>1
    <3> QED
      BY <2>3, <2>4, <3>1
  <2> QED
    BY <2>3, <2>4, <2>5, <2>6
<1> HIDE DEF x, y
<1>4. /\ t \in Seq(Tok) /\ Len(t) = Len(x) + Len(y)
      /\ \A j \in 1 .. Len(x) + Len(y) : t[j] = IF j <= Len(x) THEN x[j] ELSE y[j - Len(x)]
  <2>1. x \in Seq(Tok) /\ y \in Seq(Tok)
    BY <1>2, <1>3
  <2> QED
    BY ONLY <2>1, ConcatProperties
<1> HIDE DEF t
<1>5. Len(t) = n
  BY <1>2, <1>3, <1>4
<1>6. ASSUME NEW j \in 1 .. n PROVE t[j] = IF j <= m THEN q[j] ELSE p[j]
  <2>1. j \in 1 .. Len(x) + Len(y)
    BY <1>2, <1>3
  <2>2. CASE j <= m
    <3>1. j \in 1 .. m /\ t[j] = x[j]
      BY <1>2, <1>4, <2>1, <2>2
    <3> QED
      BY <1>2, <2>2, <3>1
  <2>3. CASE ~(j <= m)
    <3>1. j - m \in 1 .. n - m /\ m + (j - m) = j
      BY <2>3
    <3>2. t[j] = y[j - m]
      BY <1>2, <1>4, <2>1, <2>3
    <3> QED
      BY <1>3, <2>3, <3>1, <3>2
  <2> QED
    BY <2>2, <2>3
<1>7. Fed(q, p, m, n) = t
  BY DEF Fed, t, x, y
<1> QED
  BY <1>4, <1>5, <1>6, <1>7

(* Batch w is b with these entries.                                        *)
Feeds(b, w, s, p, m, n) ==
  /\ w \in Seq(EntrySet) /\ Joined(b, w, s) /\ Len(w) = Len(b) + (n - m)
  /\ \A j \in 1 .. n - m :
       /\ w[Len(b) + j].slot = s /\ w[Len(b) + j].pos = m + j - 1
       /\ w[Len(b) + j].tok = p[m + j]
       /\ w[Len(b) + j].out => m + j = Len(p)

LEMMA FeedIs ==
  ASSUME NEW b \in Seq(EntrySet), NEW s \in Slots, NEW p \in Seq(Tok), NEW m \in Nat, NEW n \in Nat,
         m <= n, n <= Len(p), n < NCtx
  PROVE  Feeds(b, b \o Feed(s, p, m, n), s, p, m, n)
<1> DEFINE f == Feed(s, p, m, n)
           w == b \o f
           l == n - m
<1>1. Len(p) \in Nat /\ (\A j \in 1 .. Len(p) : p[j] \in Tok) /\ Len(b) \in Nat
  BY LenProperties, ElementOfSeq
<1>2. l \in Nat /\ \A j \in 1 .. l : m + j \in 1 .. Len(p) /\ m + j - 1 \in 0 .. NCtx - 1
  BY <1>1, Sizes
<1>3. f = [j \in 1 .. l |-> Entry(s, m + j - 1, p[m + j], m + j = Len(p))]
  BY DEF Feed
<1> HIDE DEF f
<1>4. \A j \in 1 .. l : f[j] = Entry(s, m + j - 1, p[m + j], m + j = Len(p))
  BY <1>3
<1>5. ASSUME NEW j \in 1 .. l
      PROVE  /\ f[j] \in EntrySet /\ f[j].slot = s /\ f[j].pos = m + j - 1 /\ f[j].tok = p[m + j]
             /\ f[j].out => m + j = Len(p)
  <2>1. m + j - 1 \in 0 .. NCtx - 1 /\ p[m + j] \in Tok
    BY <1>1, <1>2
  <2> DEFINE y == (m + j = Len(p))
             z == m + j - 1
  <2>2. y \in BOOLEAN /\ z \in 0 .. NCtx - 1 /\ f[j] = [slot |-> s, pos |-> z, tok |-> p[m + j], out |-> y]
    BY <1>4, <2>1 DEF Entry
  <2> HIDE DEF y, z
  <2>3. /\ f[j] \in EntrySet /\ f[j].slot = s /\ f[j].pos = z /\ f[j].tok = p[m + j]
        /\ f[j].out = y
    BY <2>1, <2>2 DEF EntrySet
  <2> QED
    BY <2>3 DEF y, z
<1>6. f \in Seq(EntrySet) /\ Len(f) = l
  <2>1. f = [j \in 1 .. l |-> f[j]]
    BY <1>3, <1>4
  <2>2. f \in [1 .. l -> EntrySet]
    BY <1>5, <2>1
  <2>3. f \in Seq(EntrySet)
    BY <1>2, <2>2, SeqDef
  <2>4. DOMAIN f = 1 .. l /\ DOMAIN f = 1 .. Len(f) /\ Len(f) \in Nat
    BY <2>2, <2>3, LenProperties
  <2> HIDE DEF l
  <2> QED
    BY <1>2, <2>3, <2>4
<1> HIDE DEF l
<1>7. /\ w \in Seq(EntrySet) /\ Len(w) = Len(b) + Len(f)
      /\ \A j \in 1 .. Len(b) + Len(f) : w[j] = IF j <= Len(b) THEN b[j] ELSE f[j - Len(b)]
  BY ONLY <1>6, b \in Seq(EntrySet), ConcatProperties
<1> HIDE DEF w
<1>8. \A j \in 1 .. Len(b) : w[j] = b[j]
  BY <1>1, <1>2, <1>6, <1>7
<1>9. ASSUME NEW j \in 1 .. l PROVE w[Len(b) + j] = f[j]
  <2>1. Len(b) + j \in 1 .. Len(b) + Len(f) /\ ~(Len(b) + j <= Len(b)) /\ (Len(b) + j) - Len(b) = j
    BY <1>1, <1>2, <1>6
  <2> QED
    BY <1>7, <2>1
<1>10. ASSUME NEW j \in Len(b) + 1 .. Len(w) PROVE w[j].slot = s
  <2>1. j - Len(b) \in 1 .. l /\ Len(b) + (j - Len(b)) = j
    BY <1>1, <1>2, <1>6, <1>7
  <2> QED
    BY <1>5, <1>9, <2>1, SMTT(30)
<1>11. Joined(b, w, s)
  BY <1>1, <1>2, <1>6, <1>7, <1>8, <1>10 DEF Joined
<1> QED
  BY <1>5, <1>6, <1>7, <1>9, <1>11 DEF Feeds, w, f, l

(* The cells of a sequence up to position m are kept.                      *)
KeptBelow(c, d, s, m) ==
  /\ Mine(d, s) = {i \in Mine(c, s) : c[i].pos < m}
  /\ \A i \in Mine(d, s) : d[i] = c[i]

(* The entries of w for s hold the tokens of t from position m on, from    *)
(* entry n + 1 on.                                                         *)
Holds(w, s, t, m, n) ==
  /\ Len(t) \in Nat /\ m <= Len(t)
  /\ Todo(w, 0, s) = n + 1 .. n + (Len(t) - m)
  /\ \A j \in 1 .. Len(t) - m : w[n + j].pos = m + j - 1 /\ w[n + j].tok = t[m + j]

LEMMA FeedAgrees ==
  ASSUME NEW c \in CellMaps, NEW d, NEW s \in Slots, NEW m \in Nat, NEW n \in Nat, NEW q, NEW t,
         NEW b, NEW w, Todo(b, 0, s) = {}, KeptBelow(c, d, s, m), Holds(w, s, t, m, n),
         m = 0 \/ Agrees(c, s, q, b, 0), Len(q) \in Nat, m <= Len(q),
         \A j \in 1 .. m : t[j] = q[j]
  PROVE  Agrees(d, s, t, w, 0)
<1> DEFINE A == Mine(c, s)  B == Mine(d, s)  l == Len(t)  J == Todo(w, 0, s)
<1>1. \A i \in A : c[i].pos \in Nat
  BY MineIs, Sizes
<1>2. B = {i \in A : c[i].pos < m} /\ \A i \in B : d[i] = c[i]
  BY DEF KeptBelow
<1>3. l \in Nat /\ m <= l /\ J = n + 1 .. n + (l - m)
      /\ \A j \in 1 .. l - m : w[n + j].pos = m + j - 1 /\ w[n + j].tok = t[m + j]
  BY DEF Holds
<1>4. m = 0 \/ (/\ \A i \in A : c[i].pos < Len(q) /\ c[i].tok = q[c[i].pos + 1]
                /\ \A p \in 0 .. Len(q) - 1 : \E i \in A : c[i].pos = p
                /\ \A i, k \in A : c[i].pos = c[k].pos => i = k)
  BY DEF Agrees
<1> HIDE DEF A, B, l, J
<1>5. ASSUME NEW j \in J
      PROVE  /\ w[j].pos \in Nat /\ w[j].pos = m + (j - n) - 1 /\ m <= w[j].pos /\ w[j].pos < l
             /\ w[j].tok = t[w[j].pos + 1]
  <2>1. j - n \in 1 .. l - m /\ n + (j - n) = j
    BY <1>3
  <2>2. w[j].pos = m + (j - n) - 1 /\ w[j].tok = t[m + (j - n)]
    BY <1>3, <2>1
  <2>3. m + (j - n) = (m + (j - n) - 1) + 1
    BY <2>1
  <2> QED
    BY <1>3, <2>1, <2>2, <2>3
<1>6. ASSUME NEW i \in B
      PROVE  /\ i \in A /\ d[i].pos = c[i].pos /\ d[i].pos \in Nat /\ d[i].pos < m /\ m # 0
             /\ d[i].tok = t[d[i].pos + 1] /\ d[i].pos < l
  <2>1. i \in A /\ d[i] = c[i] /\ c[i].pos \in Nat /\ c[i].pos < m /\ m # 0
    BY <1>1, <1>2
  <2>2. c[i].tok = q[c[i].pos + 1]
    BY <1>4, <2>1
  <2>3. c[i].pos + 1 \in 1 .. m
    BY <2>1
  <2> QED
    BY <1>3, <2>1, <2>2, <2>3, SMTT(30)
<1>7. ASSUME NEW p \in 0 .. l - 1
      PROVE  (\E i \in B : d[i].pos = p) \/ (\E j \in J : w[j].pos = p)
  <2>1. CASE p < m
    <3>1. p \in 0 .. Len(q) - 1 /\ m # 0
      BY <2>1
    <3>2. PICK i \in A : c[i].pos = p
      BY <1>4, <3>1
    <3>3. i \in B
      BY <1>2, <2>1, <3>2
    <3> QED
      BY <1>6, <3>2, <3>3
  <2>2. CASE ~(p < m)
    <3>1. p - m + 1 \in 1 .. l - m /\ n + (p - m + 1) \in J /\ m + (p - m + 1) - 1 = p
      BY <1>3, <2>2
    <3> QED
      BY <1>3, <3>1
  <2> QED
    BY <2>1, <2>2
<1>8. \A i, k \in B : d[i].pos = d[k].pos => i = k
  BY <1>4, <1>6
<1>9. \A j, k \in J : w[j].pos = w[k].pos => j = k
  BY <1>3, <1>5
<1>10. \A i \in B, j \in J : d[i].pos # w[j].pos
  BY <1>5, <1>6
<1> QED
  BY <1>5, <1>6, <1>7, <1>8, <1>9, <1>10 DEF Agrees, B, J, l

LEMMA AddPromptOK ==
  ASSUME SlotInv, AddPrompt
  PROVE  SlotInv'
<1> DEFINE s == turn
           p == task[s].prompt
           q == tokens[s]
           m == IF state[s] = "started" THEN Past(s) ELSE Len(q)
           n == Min({Len(p), m + Max({0, NBatch - Len(batch)})})
           c == SeqRm(cells, s, m, NCtx + 1)
           t == Fed(q, p, m, n)
           w == batch \o Feed(s, p, m, n)
<1>1. /\ pc = "prompts" /\ state[s] \in {"started", "prompt"}
      /\ cells' = c /\ tokens' = [tokens EXCEPT ![s] = t] /\ batch' = w
      /\ state' = [state EXCEPT ![s] = IF n = Len(p) THEN "done" ELSE "prompt"]
      /\ used' = (IF n > m THEN used \cup {s} ELSE used)
      /\ suspect' = (IF m = 0 THEN suspect \ {s} ELSE suspect)
      /\ (pc' = "decode" /\ turn' = 0) \/ GoTo("prompts", "decode")
      /\ UNCHANGED <<task, sampled, map, saved, at, nbatch>>
  BY DEF AddPrompt, Waits, Fed, Feed
<1>2. s \in Slots /\ s \in Nat /\ at = 0 /\ SlotsTyped /\ cells \in CellMaps /\ batch \in Seq(EntrySet)
  BY <1>1, Sizes DEF SlotInv, LoopTyped, Batches, SlotsTyped
<1>3. /\ turn' \in Slots
      /\ (pc' = "prompts" /\ turn' = s + 1) \/ pc' = "decode"
  BY <1>1, <1>2, GoToIs, Sizes
<1>4. q \in Seq(Tok) /\ Len(q) \in Nat
  BY <1>2, LenProperties DEF SlotsTyped
<1>5. Len(batch) \in Nat
  BY <1>2, LenProperties
<1>6. p \in Prompts /\ p \in Seq(Tok) /\ Len(p) \in Nat /\ Len(p) < NCtx
  <2>1. task[s] # NoTask
    BY <1>1, <1>2 DEF SlotsTyped
  <2>2. p \in Prompts
    BY <1>2, <2>1 DEF SlotsTyped
  <2> QED
    BY <2>2, PromptIs
<1>7. m \in Nat /\ m < Len(p) /\ m <= Len(q)
  <2>1. CASE state[s] = "started"
    BY <1>2, <2>1, PastIs
  <2>2. CASE state[s] = "prompt"
    BY <1>2, <1>4, <2>2 DEF SlotInv, Lengths
  <2> QED
    BY <1>1, <2>1, <2>2
<1>8. /\ \A j \in 1 .. Len(batch) :
           /\ batch[j].slot \in Slots /\ batch[j].slot # s /\ batch[j].slot \in Nat
           /\ state[batch[j].slot] \in {"prompt", "done", "generating"}
           /\ tokens[batch[j].slot] # <<>>
           /\ batch[j].out => state[batch[j].slot] # "prompt"
           /\ state[batch[j].slot] = "generating" \/ batch[j].slot < s
      /\ \A j, k \in 1 .. Len(batch) : j < k /\ batch[j].out => batch[k].slot # batch[j].slot
  <2>1. \A j \in 1 .. Len(batch) : batch[j] \in EntrySet
    BY <1>2, ElementOfSeq
  <2>2. 0 + 1 = 1
    OBVIOUS
  <2>3. /\ \A j \in 1 .. Len(batch) :
             /\ state[batch[j].slot] \in {"prompt", "done", "generating"}
             /\ tokens[batch[j].slot] # <<>>
             /\ batch[j].out => state[batch[j].slot] # "prompt"
             /\ state[batch[j].slot] = "generating" \/ batch[j].slot < s
        /\ \A j, k \in 1 .. Len(batch) : j < k /\ batch[j].out => batch[k].slot # batch[j].slot
    BY <1>1, <1>2, <2>2 DEF SlotInv, Batches
  <2>4. ASSUME NEW j \in 1 .. Len(batch)
        PROVE  batch[j].slot \in Slots /\ batch[j].slot # s /\ batch[j].slot \in Nat
    <3>1. batch[j].slot \in Slots /\ batch[j].slot \in Nat
      BY <2>1, Sizes DEF EntrySet
    <3>2. ~(s < s)
      BY <1>2
    <3> QED
      BY <1>1, <2>3, <3>1, <3>2
  <2> QED
    BY <2>3, <2>4
<1>9. q = tokens[s] /\ p = task[s].prompt /\ s = turn
  OBVIOUS
<1>10. n \in Nat /\ m <= n /\ n <= Len(p)
  <2> DEFINE v == NBatch - Len(batch)
  <2>1. v \in Int
    BY <1>5, Sizes
  <2>2. Max({0, v}) = IF 0 >= v THEN 0 ELSE v
    BY <2>1, MaxOfTwo
  <2>3. n = Min({Len(p), m + Max({0, v})})
    OBVIOUS
  <2> HIDE DEF v, m, p, n
  <2> DEFINE u == m + Max({0, v})
  <2>4. u \in Nat /\ m <= u
    BY <1>7, <2>1, <2>2
  <2>5. n = Min({Len(p), u})
    BY <2>3
  <2> HIDE DEF u
  <2>6. n = IF Len(p) <= u THEN Len(p) ELSE u
    BY <1>6, <2>4, <2>5, MinOfTwo
  <2> QED
    BY <1>6, <1>7, <2>4, <2>6
<1> HIDE DEF s, p, q, m, n
<1>11. /\ c \in CellMaps
       /\ \A r \in Slots : r # s => SameFor(cells, c, r)
       /\ \A i \in Cells : c[i].seqs \subseteq cells[i].seqs
       /\ KeptBelow(cells, c, s, m)
  <2>1. m \in Int /\ NCtx + 1 \in Int
    BY <1>7, Sizes
  <2>2. /\ c \in CellMaps
        /\ Mine(c, s) = {i \in Mine(cells, s) : cells[i].pos \notin m .. (NCtx + 1) - 1}
        /\ \A i \in Mine(c, s) : c[i] = cells[i]
        /\ \A r \in Slots : r # s => SameFor(cells, c, r)
        /\ \A i \in Cells : c[i].seqs \subseteq cells[i].seqs
    BY <1>2, <2>1, SeqRmIs
  <2>3. \A i \in Mine(cells, s) : cells[i].pos \in 0 .. NCtx
    BY <1>2, MineIs
  <2> HIDE DEF c
  <2>4. \A x \in 0 .. NCtx : x \notin m .. (NCtx + 1) - 1 <=> x < m
    BY <1>7, Sizes
  <2>5. Mine(c, s) = {i \in Mine(cells, s) : cells[i].pos < m}
    BY <2>2, <2>3, <2>4
  <2> QED
    BY <2>2, <2>5 DEF KeptBelow
<1>12. t \in Seq(Tok) /\ Len(t) = n /\ \A j \in 1 .. n : t[j] = IF j <= m THEN q[j] ELSE p[j]
  BY <1>4, <1>6, <1>7, <1>10, FedIs
<1>13. /\ w \in Seq(EntrySet) /\ Joined(batch, w, s) /\ Len(w) = Len(batch) + (n - m)
       /\ \A j \in 1 .. n - m :
            /\ w[Len(batch) + j].slot = s /\ w[Len(batch) + j].pos = m + j - 1
            /\ w[Len(batch) + j].tok = p[m + j]
            /\ w[Len(batch) + j].out => m + j = Len(p)
  <2>1. n < NCtx
    BY <1>6, <1>10, Sizes
  <2>2. Feeds(batch, w, s, p, m, n)
    BY <1>2, <1>6, <1>7, <1>10, <2>1, FeedIs
  <2> QED
    BY <2>2 DEF Feeds
<1> HIDE DEF c, t, w
<1>14. /\ tokens' \in [Slots -> Seq(Tok)] /\ tokens'[s] = t
       /\ \A r \in Slots : r # s => tokens'[r] = tokens[r]
       /\ state'[s] = (IF n = Len(p) THEN "done" ELSE "prompt")
       /\ \A r \in Slots : r # s => state'[r] = state[r]
       /\ state' \in [Slots -> {"idle", "started", "prompt", "done", "generating"}]
  BY <1>1, <1>2, <1>12 DEF SlotsTyped
<1>15. SlotsTyped'
  <2>1. used' \subseteq Slots /\ suspect' \subseteq Slots
    BY <1>1, <1>2 DEF SlotsTyped
  <2>2. \A r \in Slots : state'[r] = "idle" <=> task'[r] = NoTask
    BY <1>1, <1>2, <1>14 DEF SlotsTyped
  <2> QED
    BY <1>1, <1>2, <1>11, <1>14, <2>1, <2>2, SMTT(30) DEF SlotsTyped
<1>16. LoopTyped'
  <2>1. Len(w) \in Nat
    BY <1>13 DEF Joined
  <2> QED
    BY <1>1, <1>2, <1>3, <1>13, <2>1 DEF SlotInv, LoopTyped
<1>17. Lengths'
  <2> SUFFICES ASSUME NEW r \in Slots
               PROVE  /\ state'[r] \in {"done", "generating"} => Len(tokens'[r]) < NCtx
                      /\ state'[r] = "prompt" => Len(tokens'[r]) < Len(task'[r].prompt)
    BY <1>3 DEF Lengths
  <2>1. CASE r = s
    BY <1>1, <1>6, <1>9, <1>10, <1>12, <1>14, <2>1, Sizes
  <2>2. CASE r # s
    BY <1>1, <1>14, <2>2 DEF SlotInv, Lengths
  <2> QED
    BY <2>1, <2>2
<1>18. NoneLeaks'
  <2>1. ASSUME t = <<>> PROVE Mine(c, s) = {}
    <3>1. n = 0
      BY <1>12, <2>1, EmptySeq, Zenon
    <3>2. m = 0
      BY <1>7, <1>10, <3>1
    <3>3. \A i \in Mine(cells, s) : cells[i].pos \in Nat
      BY <1>2, MineIs, Sizes
    <3> QED
      BY <1>11, <3>2, <3>3 DEF KeptBelow
  <2>2. ASSUME NEW r \in Slots, r # s, tokens[r] = <<>> PROVE Mine(c, r) = {}
    BY <1>11, <2>2 DEF SlotInv, NoneLeaks, SameFor
  <2> QED
    BY <1>1, <1>14, <2>1, <2>2 DEF NoneLeaks
<1>19. Unshared'
  <2> SUFFICES ASSUME Unified, CtxShift, "reuse" \notin Kinds, NEW i \in Cells,
                      NEW r \in cells'[i].seqs, NEW x \in cells'[i].seqs
               PROVE  r = x
    BY DEF Unshared
  <2>1. \A y, z \in cells[i].seqs : y = z
    BY DEF SlotInv, Unshared
  <2> QED
    BY <1>1, <1>11, <2>1
<1>20. Truth'
  <2> SUFFICES ASSUME Exact, NEW r \in Slots, r \notin suspect'
               PROVE  Agrees(c, r, tokens'[r], w, 0)
    BY <1>1, <1>2 DEF Truth
  <2>1. CASE r = s
    <3>1. m = 0 \/ Agrees(cells, s, q, batch, 0)
      BY <1>1, <1>2, <1>9, <2>1 DEF SlotInv, Truth
    <3>2. Todo(batch, 0, s) = {}
      <4>1. \A j \in Todo(batch, 0, s) : j \in 1 .. Len(batch) /\ batch[j].slot = s
        BY <1>2, TodoIs
      <4> QED
        BY <1>8, <4>1
    <3>3. Holds(w, s, t, m, Len(batch))
      <4>1. Todo(w, 0, s) = Len(batch) + 1 .. Len(batch) + (n - m)
        <5>1. Todo(w, 0, s) = Todo(batch, 0, s) \cup (Len(batch) + 1 .. Len(w))
          BY <1>13, JoinedTodo
        <5> QED
          BY <1>13, <3>2, <5>1
      <4>2. ASSUME NEW j \in 1 .. n - m
            PROVE  w[Len(batch) + j].pos = m + j - 1 /\ w[Len(batch) + j].tok = t[m + j]
        <5>1. w[Len(batch) + j].pos = m + j - 1 /\ w[Len(batch) + j].tok = p[m + j]
          BY <1>13
        <5>2. m + j \in 1 .. n /\ ~(m + j <= m)
          BY <1>7, <1>10
        <5> QED
          BY <1>12, <5>1, <5>2
      <4> QED
        BY <1>7, <1>10, <1>12, <4>1, <4>2 DEF Holds
    <3>4. \A j \in 1 .. m : t[j] = q[j]
      BY <1>7, <1>10, <1>12
    <3>5. Agrees(c, s, t, w, 0)
      BY <1>2, <1>4, <1>5, <1>7, <1>11, <3>1, <3>2, <3>3, <3>4, FeedAgrees
    <3> QED
      BY <1>14, <2>1, <3>5
  <2>2. CASE r # s
    <3>1. r \notin suspect
      BY <1>1, <2>2
    <3>2. Agrees(cells, r, tokens[r], batch, 0)
      BY <1>2, <3>1 DEF SlotInv, Truth
    <3> QED
      BY <1>11, <1>13, <1>14, <2>2, <3>2, AgreesJoined
  <2> QED
    BY <2>1, <2>2
<1>21. ASSUME NEW j \in Len(batch) + 1 .. Len(w)
       PROVE  /\ w[j].slot = s /\ t # <<>> /\ w[j].out => j = Len(w) /\ n = Len(p)
              /\ w[j].slot = s /\ t # <<>>
  <2>1. j - Len(batch) \in 1 .. n - m /\ Len(batch) + (j - Len(batch)) = j
    BY <1>5, <1>7, <1>10, <1>13
  <2>2. w[j].slot = s /\ (w[j].out => m + (j - Len(batch)) = Len(p))
    BY <1>13, <2>1
  <2>3. n # 0
    BY <1>7, <1>10, <2>1
  <2>4. t # <<>>
    BY <1>12, <2>3, EmptySeq, Zenon
  <2>5. m + (j - Len(batch)) = Len(p) => j = Len(w) /\ n = Len(p)
    BY <1>5, <1>6, <1>7, <1>10, <1>13, <2>1
  <2> QED
    BY <2>2, <2>4, <2>5
<1>22. \A j \in 1 .. Len(batch) : w[j] = batch[j]
  BY <1>13 DEF Joined
<1>23. \A j \in 1 .. Len(w) : j \in 1 .. Len(batch) \/ j \in Len(batch) + 1 .. Len(w)
  BY <1>5
<1>24. Batches'
  <2>1. ASSUME NEW j \in 1 .. Len(w)
        PROVE  /\ state'[w[j].slot] \in {"prompt", "done", "generating"}
               /\ tokens'[w[j].slot] # <<>>
               /\ w[j].out => state'[w[j].slot] # "prompt"
               /\ pc' = "prompts" => state'[w[j].slot] = "generating" \/ w[j].slot < turn'
    <3>1. CASE j \in 1 .. Len(batch)
      <4>1. pc' = "prompts" /\ batch[j].slot < s => batch[j].slot < turn'
        BY <1>2, <1>3, <1>8, <3>1
      <4>2. w[j] = batch[j]
        BY <1>22, <3>1
      <4> DEFINE r == batch[j].slot
      <4>3. /\ state[r] \in {"prompt", "done", "generating"} /\ tokens[r] # <<>>
            /\ batch[j].out => state[r] # "prompt"
            /\ state[r] = "generating" \/ r < s
            /\ r \in Slots /\ r # s
        BY <1>8, <3>1
      <4>4. pc' = "prompts" /\ r < s => r < turn'
        BY <4>1
      <4>5. w[j].slot = r /\ (w[j].out <=> batch[j].out)
        BY <4>2
      <4> HIDE DEF r
      <4>6. state'[r] = state[r] /\ tokens'[r] = tokens[r]
        BY <1>14, <4>3
      <4> QED
        BY <4>3, <4>4, <4>5, <4>6
    <3>2. CASE j \in Len(batch) + 1 .. Len(w)
      <4>1. w[j].slot = s /\ t # <<>> /\ (w[j].out => n = Len(p))
        BY <1>21, <3>2
      <4>2. pc' = "prompts" => s < turn'
        BY <1>2, <1>3
      <4> QED
        BY <1>14, <4>1, <4>2
    <3> QED
      BY <1>23, <3>1, <3>2
  <2>2. ASSUME NEW j \in 1 .. Len(w), NEW k \in 1 .. Len(w), j < k, w[j].out
        PROVE  w[k].slot # w[j].slot
    <3>1. j \in 1 .. Len(batch)
      <4>1. j # Len(w)
        BY <2>2
      <4> QED
        BY <1>21, <1>23, <2>2, <4>1
    <3>2. CASE k \in 1 .. Len(batch)
      BY <1>8, <1>22, <2>2, <3>1, <3>2
    <3>3. CASE k \in Len(batch) + 1 .. Len(w)
      BY <1>8, <1>21, <1>22, <3>1, <3>3
    <3> QED
      BY <1>23, <3>2, <3>3
  <2>3. batch' = w /\ at' = 0 /\ pc' \in {"prompts", "decode"} /\ 0 + 1 = 1
    BY <1>1, <1>2, <1>3
  <2> QED
    BY <2>1, <2>2, <2>3 DEF Batches
<1> QED
  BY <1>15, <1>16, <1>17, <1>18, <1>19, <1>20, <1>24, SMTT(30) DEF SlotInv

LEMMA SkipPromptOK ==
  ASSUME SlotInv, SkipPrompt
  PROVE  SlotInv'
<1>1. /\ pc = "prompts"
      /\ (pc' = "decode" /\ turn' = 0) \/ GoTo("prompts", "decode")
      /\ UNCHANGED <<cells, tokens, state, task, sampled, map, used, saved, suspect,
                     batched, batch, at, nbatch>>
  BY DEF SkipPrompt
<1>2. turn \in Slots /\ batch \in Seq(EntrySet) /\ at = 0
  BY <1>1 DEF SlotInv, LoopTyped, Batches
<1>3. turn' \in Slots /\ ((pc' = "prompts" /\ turn' = turn + 1) \/ pc' = "decode")
  BY <1>1, <1>2, GoToIs, Sizes
<1>4. SlotsTyped' /\ NoneLeaks' /\ Unshared' /\ Truth'
  BY <1>1 DEF SlotInv, SlotsTyped, NoneLeaks, Unshared, Truth
<1>5. LoopTyped'
  BY <1>1, <1>3 DEF SlotInv, LoopTyped
<1>6. Lengths'
  BY <1>1, <1>3 DEF SlotInv, Lengths
<1>7. Batches'
  <2>1. 0 + 1 = 1 /\ \A j \in 1 .. Len(batch) : batch[j] \in EntrySet
    BY <1>2, ElementOfSeq
  <2>2. ASSUME NEW j \in 1 .. Len(batch)
        PROVE  batch[j].slot < turn /\ pc' = "prompts" => batch[j].slot < turn'
    <3>1. batch[j].slot \in Nat /\ turn \in Nat
      BY <1>2, <2>1, Sizes DEF EntrySet
    <3> QED
      BY <1>3, <3>1
  <2>3. /\ \A j \in 1 .. Len(batch) :
             /\ state[batch[j].slot] \in {"prompt", "done", "generating"}
             /\ tokens[batch[j].slot] # <<>>
             /\ batch[j].out => state[batch[j].slot] # "prompt"
             /\ state[batch[j].slot] = "generating" \/ batch[j].slot < turn
        /\ \A j, k \in 1 .. Len(batch) : j < k /\ batch[j].out => batch[k].slot # batch[j].slot
    BY <1>1, <1>2, <2>1 DEF SlotInv, Batches
  <2>4. batch' = batch /\ at' = 0 /\ state' = state /\ tokens' = tokens
        /\ pc' \in {"prompts", "decode"}
    BY <1>1, <1>2, <1>3
  <2> QED
    BY <2>1, <2>2, <2>3, <2>4 DEF Batches
<1> QED
  BY <1>4, <1>5, <1>6, <1>7 DEF SlotInv

LEMMA FinishUpdateOK ==
  ASSUME SlotInv, FinishUpdate
  PROVE  SlotInv'
<1>1. /\ pc = "decode" /\ at = Len(batch)
      /\ pc' = "tasks" /\ turn' = 0 /\ batch' = <<>> /\ at' = 0
      /\ UNCHANGED <<cells, tokens, state, task, sampled, map, used, saved, suspect, nbatch>>
  BY DEF FinishUpdate
<1>2. Len(batch) \in Nat /\ Len(batch') = 0 /\ <<>> \in Seq(EntrySet)
  <2>1. batch \in Seq(EntrySet)
    BY DEF SlotInv, LoopTyped
  <2>2. Len(batch') = 0
    BY <1>1, EmptySeq, Zenon
  <2> QED
    BY <2>1, <2>2, LenProperties, EmptySeq
<1>3. SlotsTyped' /\ NoneLeaks' /\ Unshared'
  BY <1>1 DEF SlotInv, SlotsTyped, NoneLeaks, Unshared
<1>4. LoopTyped'
  BY <1>1, <1>2, Sizes DEF SlotInv, LoopTyped
<1>5. Lengths'
  BY <1>1 DEF SlotInv, Lengths
<1>6. Batches'
  <2>1. 0 + 1 .. 0 = {} /\ 1 .. 0 = {}
    OBVIOUS
  <2> QED
    BY <1>1, <1>2, <2>1 DEF Batches
<1>7. Truth'
  <2> SUFFICES ASSUME Exact, NEW r \in Slots, r \notin suspect
               PROVE  Agrees(cells, r, tokens[r], <<>>, 0)
    BY <1>1 DEF Truth
  <2>1. Agrees(cells, r, tokens[r], batch, at)
    BY DEF SlotInv, Truth
  <2>2. Todo(batch, at, r) = {}
    <3>1. at + 1 .. Len(batch) = {}
      BY <1>1, <1>2
    <3> QED
      BY <3>1 DEF Todo
  <2>3. Todo(<<>>, 0, r) = {}
    BY NoneTodo
  <2>4. SameFor(cells, cells, r)
    BY SameIsSame
  <2> QED
    BY <2>1, <2>2, <2>3, <2>4, AgreesSame
<1> QED
  BY <1>3, <1>4, <1>5, <1>6, <1>7 DEF SlotInv

LEMMA HalveOK ==
  ASSUME SlotInv, Halve
  PROVE  SlotInv'
<1>1. /\ nbatch > 1 /\ nbatch' = nbatch \div 2
      /\ UNCHANGED <<cells, tokens, state, task, sampled, map, used, saved, suspect, pc, turn,
                     batched, batch, at>>
  BY DEF Halve
<1>2. nbatch' \in 1 .. NBatch
  <2>1. nbatch \in Nat /\ nbatch > 1 /\ nbatch <= NBatch /\ NBatch \in Nat
    BY <1>1, Sizes DEF SlotInv, LoopTyped
  <2>2. nbatch \div 2 \in Nat /\ nbatch \div 2 >= 1 /\ nbatch \div 2 <= nbatch
    BY <2>1
  <2> QED
    BY <1>1, <2>1, <2>2
<1>3. SlotsTyped' /\ NoneLeaks' /\ Unshared' /\ Truth' /\ Lengths' /\ Batches'
  BY <1>1 DEF SlotInv, SlotsTyped, NoneLeaks, Unshared, Truth, Lengths, Batches
<1>4. LoopTyped'
  BY <1>1, <1>2 DEF SlotInv, LoopTyped
<1> QED
  BY <1>3, <1>4 DEF SlotInv

LEMMA StutterOK ==
  ASSUME SlotInv, UNCHANGED vars
  PROVE  SlotInv'
<1>1. SlotsTyped' /\ NoneLeaks' /\ Unshared' /\ Truth'
  BY DEF vars, updateVars, SlotInv, SlotsTyped, NoneLeaks, Unshared, Truth
<1>2. LoopTyped' /\ Lengths' /\ Batches'
  BY DEF vars, updateVars, SlotInv, LoopTyped, Lengths, Batches
<1> QED
  BY <1>1, <1>2 DEF SlotInv

-----------------------------------------------------------------------------
(* Decoding. *)

(* A slot that still has entries in the batch is not idle.                 *)
LEMMA TodoBusy ==
  ASSUME SlotInv, NEW s \in Slots, state[s] = "idle" \/ tokens[s] = <<>>
  PROVE  Todo(batch, at, s) = {}
<1>1. \A j \in at + 1 .. Len(batch) :
        /\ state[batch[j].slot] \in {"prompt", "done", "generating"}
        /\ tokens[batch[j].slot] # <<>>
  BY DEF SlotInv, Batches
<1> QED
  BY <1>1 DEF Todo

LEMMA PurgeOK ==
  ASSUME SlotInv, Purge
  PROVE  SlotInv'
<1> DEFINE s == Min(Purgeable)
<1>1. /\ Purgeable # {} /\ cells' = SeqClear(cells, s) /\ tokens' = [tokens EXCEPT ![s] = <<>>]
      /\ suspect' = suspect \ {s}
      /\ UNCHANGED <<state, task, sampled, map, used, saved, pc, turn, batched, batch, at, nbatch>>
  BY DEF Purge, updateVars
<1>2. s \in Slots /\ state[s] = "idle"
  <2>1. Purgeable \subseteq Nat
    BY Sizes DEF Purgeable, Idle
  <2>2. s \in Purgeable
    BY <1>1, <2>1, MinIs
  <2> QED
    BY <2>2 DEF Purgeable, Idle, Busy
<1>3. SlotsTyped /\ cells \in CellMaps
  BY DEF SlotInv, SlotsTyped
<1> HIDE DEF s
<1>4. /\ cells' \in CellMaps /\ Mine(cells', s) = {}
      /\ \A r \in Slots : r # s => SameFor(cells, cells', r)
      /\ \A i \in Cells : cells'[i].seqs \subseteq cells[i].seqs
  BY <1>1, <1>2, <1>3, SeqClearIs
<1>5. /\ tokens' \in [Slots -> Seq(Tok)] /\ tokens'[s] = <<>>
      /\ \A r \in Slots : r # s => tokens'[r] = tokens[r]
  <2>1. <<>> \in Seq(Tok)
    BY EmptySeq
  <2> QED
    BY <1>1, <1>2, <1>3, <2>1 DEF SlotsTyped
<1>6. SlotsTyped'
  BY <1>1, <1>3, <1>4, <1>5 DEF SlotsTyped
<1>7. LoopTyped'
  BY <1>1 DEF SlotInv, LoopTyped
<1>8. Lengths'
  BY <1>1, <1>2, <1>5 DEF SlotInv, Lengths
<1>9. Batches'
  <2>1. batch \in Seq(EntrySet) /\ at \in Nat
    BY DEF SlotInv, LoopTyped
  <2>2. Len(batch) \in Nat /\ \A j \in 1 .. Len(batch) : batch[j] \in EntrySet
    BY <2>1, LenProperties, ElementOfSeq
  <2>3. ASSUME NEW j \in at + 1 .. Len(batch)
        PROVE  tokens'[batch[j].slot] = tokens[batch[j].slot]
    <3>1. batch[j].slot \in Slots
      BY <2>1, <2>2 DEF EntrySet
    <3>2. state[batch[j].slot] \in {"prompt", "done", "generating"}
      BY DEF SlotInv, Batches
    <3> QED
      BY <1>2, <1>5, <3>1, <3>2
  <2> QED
    BY <1>1, <2>3 DEF SlotInv, Batches
<1>10. NoneLeaks'
  BY <1>2, <1>4, <1>5 DEF SlotInv, NoneLeaks, SameFor
<1>11. Unshared'
  <2> SUFFICES ASSUME Unified, CtxShift, "reuse" \notin Kinds, NEW i \in Cells,
                      NEW r \in cells'[i].seqs, NEW x \in cells'[i].seqs
               PROVE  r = x
    BY DEF Unshared
  <2>1. \A y, z \in cells[i].seqs : y = z
    BY DEF SlotInv, Unshared
  <2> QED
    BY <1>4, <2>1
<1>12. Truth'
  <2> SUFFICES ASSUME Exact, NEW r \in Slots, r \notin suspect'
               PROVE  Agrees(cells', r, tokens'[r], batch, at)
    BY <1>1 DEF Truth
  <2>1. CASE r = s
    <3>1. Todo(batch, at, s) = {}
      BY <1>2, TodoBusy
    <3>2. Agrees(cells', s, <<>>, batch, at)
      BY <1>4, <3>1, NothingAgrees
    <3> QED
      BY <1>5, <2>1, <3>2, Zenon
  <2>2. CASE r # s
    <3>1. Agrees(cells, r, tokens[r], batch, at)
      BY <1>1, <2>2 DEF SlotInv, Truth
    <3>2. Agrees(cells', r, tokens[r], batch, at)
      BY <1>4, <2>2, <3>1, AgreesSame
    <3> QED
      BY <1>5, <2>2, <3>2
  <2> QED
    BY <2>1, <2>2
<1> QED
  BY <1>6, <1>7, <1>8, <1>9, <1>10, <1>11, <1>12 DEF SlotInv

LEMMA PlacedCell ==
  ASSUME NEW c, NEW e, NEW k, NEW f, NEW d, Placed(c, e, k, f, d), NEW j \in 1 .. k
  PROVE  /\ d[f[j]].pos = e[j].pos /\ d[f[j]].tok = e[j].tok /\ d[f[j]].seqs = {e[j].slot}
         /\ f[j] \in Cells /\ f[j] \in CellsOf(e[j].slot) /\ c[f[j]].seqs = {}
<1>1. f[j] \in Cells /\ f[j] \in Free(c, e[j].slot) /\ d[f[j]] = CellOf(e[j])
  BY DEF Placed
<1>2. f[j] \in CellsOf(e[j].slot) /\ c[f[j]].seqs = {}
  BY <1>1 DEF Free
<1>3. d[f[j]].pos = e[j].pos /\ d[f[j]].tok = e[j].tok /\ d[f[j]].seqs = {e[j].slot}
  BY <1>1 DEF CellOf
<1> QED
  BY <1>1, <1>2, <1>3

LEMMA PlacedSame ==
  ASSUME NEW c, NEW e, NEW k, NEW f, NEW d, Placed(c, e, k, f, d), NEW r \in Slots,
         \A j \in 1 .. k : e[j].slot # r
  PROVE  SameFor(c, d, r)
<1>1. ASSUME NEW i \in Cells
      PROVE  /\ Has(d, i, r) <=> Has(c, i, r)
             /\ Has(c, i, r) => d[i].pos = c[i].pos /\ d[i].tok = c[i].tok
  <2>1. CASE \E j \in 1 .. k : f[j] = i
    <3>1. PICK j \in 1 .. k : f[j] = i
      BY <2>1
    <3>2. c[i].seqs = {} /\ d[i].seqs = {e[j].slot}
      BY <3>1, PlacedCell
    <3> QED
      BY <3>2 DEF Has
  <2>2. CASE \A j \in 1 .. k : f[j] # i
    <3>1. d[i] = c[i]
      BY <2>2 DEF Placed
    <3> QED
      BY <3>1 DEF Has
  <2> QED
    BY <2>1, <2>2
<1> QED
  BY <1>1 DEF SameFor, Mine

LEMMA PlacedUnshared ==
  ASSUME NEW c, NEW e, NEW k, NEW f, NEW d, Placed(c, e, k, f, d), NEW i \in Cells,
         \A r, s \in c[i].seqs : r = s
  PROVE  \A r, s \in d[i].seqs : r = s
<1>1. CASE \E j \in 1 .. k : f[j] = i
  <2>1. PICK j \in 1 .. k : f[j] = i
    BY <1>1
  <2>2. d[i].seqs = {e[j].slot}
    BY <2>1, PlacedCell
  <2> QED
    BY <2>2
<1>2. CASE \A j \in 1 .. k : f[j] # i
  BY <1>2 DEF Placed
<1> QED
  BY <1>1, <1>2

(* e are the first k entries of b after the n-th.                          *)
Part(b, n, e, k) == \A j \in 1 .. k : e[j] = b[n + j]

(* A token that was decoded is in a cell and no more in the batch.         *)
LEMMA PlacedAgrees ==
  ASSUME NEW c \in CellMaps, NEW b \in Seq(EntrySet), NEW n \in Nat, NEW k \in Nat, n + k <= Len(b),
         NEW e, Part(b, n, e, k), NEW f, NEW d, Placed(c, e, k, f, d),
         NEW r \in Slots, NEW q, Agrees(c, r, q, b, n)
  PROVE  Agrees(d, r, q, b, n + k)
<1> DEFINE A == Mine(c, r)
           B == Mine(d, r)
           T == Todo(b, n, r)
           U == Todo(b, n + k, r)
           new == {j \in 1 .. k : e[j].slot = r}
<1>1. Len(b) \in Nat
  BY LenProperties
<1>2. /\ \A i \in A : c[i].pos < Len(q) /\ c[i].tok = q[c[i].pos + 1]
      /\ \A j \in T : b[j].pos < Len(q) /\ b[j].tok = q[b[j].pos + 1]
      /\ \A p \in 0 .. Len(q) - 1 : (\E i \in A : c[i].pos = p) \/ (\E j \in T : b[j].pos = p)
      /\ \A i, l \in A : c[i].pos = c[l].pos => i = l
      /\ \A j, l \in T : b[j].pos = b[l].pos => j = l
      /\ \A i \in A, j \in T : c[i].pos # b[j].pos
  BY DEF Agrees
<1>3. /\ f \in [1 .. k -> Cells]
      /\ \A j, l \in 1 .. k : f[j] = f[l] => j = l
      /\ \A j \in 1 .. k : f[j] \in Free(c, e[j].slot) /\ d[f[j]] = CellOf(e[j])
      /\ \A i \in Cells : (\A j \in 1 .. k : f[j] # i) => d[i] = c[i]
  BY DEF Placed
<1>4. /\ \A j \in T : j \in U \/ j - n \in new
      /\ \A j \in U : j \in T /\ j > n + k
      /\ \A j \in new : n + j \in T /\ e[j] = b[n + j]
      /\ \A j \in new : j \in Nat /\ j <= k
  <2>1. \A j \in T : j \in U \/ j - n \in new
    <3> SUFFICES ASSUME NEW j \in T, j \notin U PROVE j - n \in new
      OBVIOUS
    <3>1. j \in n + 1 .. Len(b) /\ b[j].slot = r
      BY DEF Todo
    <3>2. ~(j \in n + k + 1 .. Len(b))
      BY <3>1 DEF Todo
    <3>3. j - n \in 1 .. k /\ n + (j - n) = j
      BY <1>1, <3>1, <3>2
    <3> QED
      BY <3>1, <3>3 DEF Part
  <2>2. \A j \in U : j \in T /\ j > n + k
    BY <1>1 DEF Todo
  <2>3. \A j \in new : n + j \in T /\ e[j] = b[n + j]
    BY <1>1 DEF Todo, Part
  <2> QED
    BY <2>1, <2>2, <2>3
<1>5. \A i \in Cells : i \in A <=> i \in CellsOf(r) /\ r \in c[i].seqs
  BY DEF Mine, Has
<1>6. \A i \in Cells : i \in B <=> i \in CellsOf(r) /\ r \in d[i].seqs
  BY DEF Mine, Has
<1>7. A \subseteq Cells /\ B \subseteq Cells
  BY DEF Mine
<1>8. ASSUME NEW j \in 1 .. k
      PROVE  /\ d[f[j]].pos = e[j].pos /\ d[f[j]].tok = e[j].tok /\ d[f[j]].seqs = {e[j].slot}
             /\ f[j] \in Cells /\ f[j] \in CellsOf(e[j].slot) /\ c[f[j]].seqs = {}
  BY PlacedCell
<1> HIDE DEF A, B, T, U
<1>9. \A i \in A : i \in B /\ d[i] = c[i]
  <2> SUFFICES ASSUME NEW i \in A PROVE i \in B /\ d[i] = c[i]
    OBVIOUS
  <2>1. i \in Cells /\ c[i].seqs # {}
    BY <1>5, <1>7
  <2>2. \A j \in 1 .. k : f[j] # i
    BY <1>8, <2>1
  <2> QED
    BY <1>3, <1>5, <1>6, <2>1, <2>2
<1>10. ASSUME NEW i \in B, i \notin A PROVE \E j \in new : i = f[j]
  <2>1. i \in Cells /\ d[i] # c[i]
    BY <1>5, <1>6, <1>7, <1>10
  <2>2. PICK j \in 1 .. k : f[j] = i
    BY <1>3, <2>1
  <2>3. e[j].slot = r
    BY <1>6, <1>8, <2>1, <2>2
  <2> QED
    BY <2>2, <2>3
<1>11. ASSUME NEW j \in new
       PROVE  /\ f[j] \in B /\ f[j] \notin A
              /\ d[f[j]].pos = b[n + j].pos /\ d[f[j]].tok = b[n + j].tok
  <2>1. j \in 1 .. k /\ e[j].slot = r /\ e[j] = b[n + j]
    BY <1>4
  <2>2. f[j] \in Cells /\ f[j] \in CellsOf(r) /\ d[f[j]].seqs = {r} /\ c[f[j]].seqs = {}
    BY <1>8, <2>1
  <2> QED
    BY <1>5, <1>6, <1>8, <2>1, <2>2
<1>12. new \subseteq 1 .. k
  OBVIOUS
<1> HIDE DEF new
<1>13. ASSUME NEW i \in B PROVE d[i].pos < Len(q) /\ d[i].tok = q[d[i].pos + 1]
  <2>1. CASE i \in A
    BY <1>2, <1>9, <2>1
  <2>2. CASE i \notin A
    <3>1. PICK j \in new : i = f[j]
      BY <1>10, <2>2
    <3>2. n + j \in T /\ d[i].pos = b[n + j].pos /\ d[i].tok = b[n + j].tok
      BY <1>4, <1>11, <3>1
    <3> QED
      BY <1>2, <3>2
  <2> QED
    BY <2>1, <2>2
<1>14. \A j \in U : b[j].pos < Len(q) /\ b[j].tok = q[b[j].pos + 1]
  BY <1>2, <1>4
<1>15. ASSUME NEW p \in 0 .. Len(q) - 1
       PROVE  (\E i \in B : d[i].pos = p) \/ (\E j \in U : b[j].pos = p)
  <2>1. CASE \E i \in A : c[i].pos = p
    BY <1>9, <2>1
  <2>2. CASE \E j \in T : b[j].pos = p
    <3>1. PICK j \in T : b[j].pos = p
      BY <2>2
    <3>2. CASE j \in U
      BY <3>1, <3>2
    <3>3. CASE j - n \in new
      <4>1. j \in Nat /\ n + (j - n) = j
        BY <1>1 DEF T, Todo
      <4>2. f[j - n] \in B /\ d[f[j - n]].pos = p
        BY <1>11, <3>1, <3>3, <4>1
      <4> QED
        BY <4>2
    <3> QED
      BY <1>4, <3>2, <3>3
  <2> QED
    BY <1>2, <2>1, <2>2
<1>16. ASSUME NEW i \in B, NEW l \in B, d[i].pos = d[l].pos PROVE i = l
  <2>1. CASE i \in A /\ l \in A
    BY <1>2, <1>9, <1>16, <2>1
  <2>2. CASE i \in A /\ l \notin A
    <3>1. PICK j \in new : l = f[j]
      BY <1>10, <2>2
    <3> QED
      BY <1>2, <1>4, <1>9, <1>11, <1>16, <2>2, <3>1
  <2>3. CASE i \notin A /\ l \in A
    <3>1. PICK j \in new : i = f[j]
      BY <1>10, <2>3
    <3> QED
      BY <1>2, <1>4, <1>9, <1>11, <1>16, <2>3, <3>1
  <2>4. CASE i \notin A /\ l \notin A
    <3>1. PICK j \in new : i = f[j]
      BY <1>10, <2>4
    <3>2. PICK g \in new : l = f[g]
      BY <1>10, <2>4
    <3>3. n + j = n + g
      BY <1>2, <1>4, <1>11, <1>16, <3>1, <3>2
    <3> QED
      BY <1>4, <3>1, <3>2, <3>3
  <2> QED
    BY <2>1, <2>2, <2>3, <2>4
<1>17. \A j, l \in U : b[j].pos = b[l].pos => j = l
  BY <1>2, <1>4
<1>18. ASSUME NEW i \in B, NEW j \in U PROVE d[i].pos # b[j].pos
  <2>1. CASE i \in A
    BY <1>2, <1>4, <1>9, <2>1
  <2>2. CASE i \notin A
    <3>1. PICK g \in new : i = f[g]
      BY <1>10, <2>2
    <3>2. n + g \in T /\ j \in T /\ n + g # j
      BY <1>4, <3>1
    <3> QED
      BY <1>2, <1>11, <3>1, <3>2
  <2> QED
    BY <2>1, <2>2
<1> QED
  BY <1>13, <1>14, <1>15, <1>16, <1>17, <1>18 DEF Agrees, B, U

LEMMA ViewIs ==
  ASSUME SlotInv, Decoding
  PROVE  /\ at \in Nat /\ batch \in Seq(EntrySet) /\ Len(batch) \in Nat
         /\ View \in Seq(EntrySet) /\ Len(View) \in Nat /\ at + Len(View) <= Len(batch)
         /\ Part(batch, at, View, Len(View))
<1> DEFINE n == at + nbatch
           m == Min({n, Len(batch)})
           a == at + 1
<1>1. batch \in Seq(EntrySet) /\ at \in Nat /\ nbatch \in Nat /\ nbatch >= 1 /\ at < Len(batch)
  BY DEF SlotInv, LoopTyped, Decoding
<1>2. Len(batch) \in Nat /\ \A j \in 1 .. Len(batch) : batch[j] \in EntrySet
  BY <1>1, LenProperties, ElementOfSeq
<1>3. n \in Nat /\ n > at
  BY <1>1
<1>4. View = SubSeq(batch, a, m)
  BY DEF View
<1> HIDE DEF n
<1>5. m = IF n <= Len(batch) THEN n ELSE Len(batch)
  BY <1>2, <1>3, MinOfTwo
<1> HIDE DEF m
<1>6. m \in Int /\ at < m /\ m <= Len(batch) /\ a \in Int /\ a = at + 1
  BY <1>1, <1>2, <1>3, <1>5
<1> HIDE DEF a
<1>7. \A j \in a .. m : batch[j] \in EntrySet
  BY <1>1, <1>2, <1>6
<1>8. /\ SubSeq(batch, a, m) \in Seq(EntrySet)
      /\ Len(SubSeq(batch, a, m)) = IF a <= m THEN m - a + 1 ELSE 0
      /\ \A j \in 1 .. m - a + 1 : SubSeq(batch, a, m)[j] = batch[a + j - 1]
  BY <1>6, <1>7, SubSeqProperties
<1>9. View \in Seq(EntrySet) /\ Len(View) = m - at
      /\ \A j \in 1 .. m - a + 1 : View[j] = batch[a + j - 1]
  BY <1>1, <1>4, <1>6, <1>8
<1>10. ASSUME NEW j \in 1 .. Len(View) PROVE View[j] = batch[at + j]
  <2>1. j \in 1 .. m - a + 1 /\ a + j - 1 = at + j
    BY <1>1, <1>6, <1>9
  <2> QED
    BY <1>9, <2>1
<1>11. Len(View) \in Nat /\ at + Len(View) <= Len(batch)
  BY <1>1, <1>2, <1>6, <1>9
<1> QED
  BY <1>1, <1>2, <1>9, <1>10, <1>11 DEF Part

LEMMA PrefixIs ==
  ASSUME NEW v \in Seq(EntrySet), HasRoom(v), NEW n \in 0 .. Len(v) - 1
  PROVE  /\ SubSeq(v, 1, n) \in Seq(EntrySet) /\ Len(SubSeq(v, 1, n)) = n
         /\ \A j \in 1 .. n : SubSeq(v, 1, n)[j] = v[j]
         /\ HasRoom(SubSeq(v, 1, n))
<1> DEFINE e == SubSeq(v, 1, n)
<1>1. Len(v) \in Nat /\ DOMAIN v = 1 .. Len(v) /\ \A j \in 1 .. Len(v) : v[j] \in EntrySet
  BY LenProperties, ElementOfSeq
<1>2. n \in Nat /\ \A j \in 1 .. n : j \in 1 .. Len(v)
  BY <1>1
<1>3. e \in Seq(EntrySet) /\ Len(e) = n /\ \A j \in 1 .. n : e[j] = v[j]
  <2>1. \A j \in 1 .. n : v[j] \in EntrySet
    BY <1>1, <1>2
  <2>2. /\ e \in Seq(EntrySet) /\ Len(e) = IF 1 <= n THEN n - 1 + 1 ELSE 0
        /\ \A j \in 1 .. n - 1 + 1 : e[j] = v[1 + j - 1]
    BY <1>2, <2>1, SubSeqProperties
  <2> HIDE DEF e
  <2>3. \A j \in 1 .. n : j \in 1 .. n - 1 + 1 /\ 1 + j - 1 = j
    BY <1>2
  <2> QED
    BY <1>2, <2>2, <2>3
<1>4. DOMAIN e = 1 .. n
  BY <1>3, LenProperties
<1> HIDE DEF e
<1>5. ASSUME NEW s \in Slots, NEW X
      PROVE  Cardinality({j \in DOMAIN e : e[j].slot \in X})
               <= Cardinality({j \in DOMAIN v : v[j].slot \in X})
  <2> DEFINE E == {j \in DOMAIN e : e[j].slot \in X}
             V == {j \in DOMAIN v : v[j].slot \in X}
  <2>1. E \in SUBSET V
    BY <1>1, <1>2, <1>3, <1>4
  <2>2. V \in SUBSET (1 .. Len(v)) /\ IsFiniteSet(1 .. Len(v))
    BY <1>1, FS_Interval
  <2> HIDE DEF E, V
  <2>3. IsFiniteSet(V)
    BY <2>2, FS_Subset
  <2>4. Cardinality(E) <= Cardinality(V)
    BY <2>1, <2>3, FS_Subset
  <2> QED
    BY <2>4 DEF E, V
<1>6. HasRoom(e)
  <2> SUFFICES ASSUME NEW s \in Slots
               PROVE  Cardinality({j \in DOMAIN e : e[j].slot \in (IF Unified THEN Slots ELSE {s})})
                        <= Cardinality(Free(cells, s))
    BY DEF HasRoom
  <2> DEFINE X == IF Unified THEN Slots ELSE {s}
             E == {j \in DOMAIN e : e[j].slot \in X}
             V == {j \in DOMAIN v : v[j].slot \in X}
             F == Free(cells, s)
  <2>1. Cardinality(V) <= Cardinality(F)
    BY DEF HasRoom
  <2>2. Cardinality(E) <= Cardinality(V)
    BY <1>5
  <2>3. IsFiniteSet(V) /\ IsFiniteSet(E) /\ IsFiniteSet(F)
    <3>1. V \in SUBSET (1 .. Len(v)) /\ IsFiniteSet(1 .. Len(v))
      BY <1>1, FS_Interval
    <3>2. E \in SUBSET (1 .. n) /\ IsFiniteSet(1 .. n)
      BY <1>2, <1>4, FS_Interval
    <3>3. F \in SUBSET Cells
      BY CellsOfIs DEF Free
    <3> HIDE DEF E, V, F
    <3> QED
      BY <3>1, <3>2, <3>3, CellsOfIs, FS_Subset
  <2>4. Cardinality(V) \in Nat /\ Cardinality(E) \in Nat /\ Cardinality(F) \in Nat
    BY <2>3, FS_CardinalityType
  <2> HIDE DEF E, V, F
  <2>5. Cardinality(E) <= Cardinality(F)
    BY <2>1, <2>2, <2>4
  <2> QED
    BY <2>5 DEF E, F
<1> QED
  BY <1>3, <1>6 DEF e

(* What the cells are after the first n entries of the batch that are to   *)
(* be decoded have been put into them.                                     *)
LEMMA PutPart ==
  ASSUME SlotInv, Decoding, NEW e \in Seq(EntrySet), HasRoom(e), at + Len(e) <= Len(batch),
         Part(batch, at, e, Len(e))
  PROVE  LET d == Put(cells, e)
         IN  /\ d \in CellMaps
             /\ \A r \in Slots : Todo(batch, at, r) = {} => SameFor(cells, d, r)
             /\ Unified /\ CtxShift /\ "reuse" \notin Kinds
                  => \A i \in Cells : \A r, s \in d[i].seqs : r = s
             /\ \A r \in Slots : \A q : Agrees(cells, r, q, batch, at)
                  => Agrees(d, r, q, batch, at + Len(e))
<1> DEFINE d == Put(cells, e)
           k == Len(e)
<1>1. cells \in CellMaps /\ k \in Nat /\ at \in Nat /\ batch \in Seq(EntrySet) /\ Len(batch) \in Nat
  BY LenProperties, ViewIs DEF SlotInv, SlotsTyped
<1>2. d \in CellMaps /\ \E f : Placed(cells, e, k, f, d)
  BY <1>1, PutIs
<1>3. PICK f : Placed(cells, e, k, f, d)
  BY <1>2
<1> HIDE DEF d
<1>4. ASSUME NEW r \in Slots, Todo(batch, at, r) = {} PROVE SameFor(cells, d, r)
  <2>1. ASSUME NEW j \in 1 .. k PROVE e[j].slot # r
    <3>1. at + j \in at + 1 .. Len(batch) /\ e[j] = batch[at + j]
      BY <1>1 DEF Part
    <3> QED
      BY <1>4, <3>1 DEF Todo
  <2> HIDE DEF k
  <2> QED
    BY <1>3, <2>1, PlacedSame
<1>5. ASSUME Unified, CtxShift, "reuse" \notin Kinds, NEW i \in Cells
      PROVE  \A r, s \in d[i].seqs : r = s
  <2>1. \A r, s \in cells[i].seqs : r = s
    BY <1>5 DEF SlotInv, Unshared
  <2> QED
    BY <1>3, <2>1, PlacedUnshared
<1>6. ASSUME NEW r \in Slots, NEW q, Agrees(cells, r, q, batch, at)
      PROVE  Agrees(d, r, q, batch, at + k)
  <2> HIDE DEF k
  <2>1. at + k <= Len(batch) /\ Part(batch, at, e, k)
    BY DEF k
  <2> QED
    BY <1>1, <1>3, <1>6, <2>1, PlacedAgrees
<1> QED
  BY <1>2, <1>4, <1>5, <1>6 DEF d

LEMMA GiveUpOK ==
  ASSUME SlotInv, GiveUp, cells' \in CellMaps,
         \A r \in Slots : Todo(batch, at, r) = {} => SameFor(cells, cells', r),
         Unified /\ CtxShift /\ "reuse" \notin Kinds
           => \A i \in Cells : \A r, s \in cells'[i].seqs : r = s
  PROVE  SlotInv'
<1>1. /\ Release(Busy) /\ pc' = "tasks" /\ turn' = 0 /\ batch' = <<>> /\ at' = 0
      /\ nbatch' = NBatch /\ suspect' = suspect \cup Busy
      /\ UNCHANGED <<tokens, sampled, map, used, saved>>
  BY DEF GiveUp
<1>2. SlotsTyped
  BY DEF SlotInv
<1>3. \A r \in Slots : state'[r] = "idle" /\ (r \notin Busy => state[r] = "idle")
  BY <1>1, <1>2, ReleaseIs DEF Busy
<1>4. SlotsTyped'
  <2>1. suspect' \subseteq Slots
    BY <1>1, <1>2 DEF SlotsTyped, Busy
  <2>2. /\ state' \in [Slots -> {"idle", "started", "prompt", "done", "generating"}]
        /\ task' \in [Slots -> {NoTask} \cup [kind : Kinds, prompt : Prompts]]
        /\ \A r \in Slots : state'[r] = "idle" <=> task'[r] = NoTask
    BY <1>1, <1>2, ReleaseIs
  <2> QED
    BY <1>1, <1>2, <1>3, <2>1, <2>2 DEF SlotsTyped
<1>5. Len(batch') = 0 /\ <<>> \in Seq(EntrySet)
  <2>1. Len(batch') = 0
    BY <1>1, EmptySeq, Zenon
  <2> QED
    BY <2>1, EmptySeq
<1>6. LoopTyped'
  BY <1>1, <1>5, Sizes DEF LoopTyped
<1>7. Lengths'
  BY <1>3 DEF Lengths
<1>8. Batches'
  <2>1. 0 + 1 .. 0 = {} /\ 1 .. 0 = {}
    OBVIOUS
  <2> QED
    BY <1>1, <1>5, <2>1 DEF Batches
<1>9. NoneLeaks'
  <2> SUFFICES ASSUME NEW r \in Slots, tokens[r] = <<>> PROVE Mine(cells', r) = {}
    BY <1>1 DEF NoneLeaks
  <2>1. Todo(batch, at, r) = {}
    BY TodoBusy
  <2> QED
    BY <2>1 DEF SlotInv, NoneLeaks, SameFor
<1>10. Unshared'
  BY DEF Unshared
<1>11. Truth'
  <2> SUFFICES ASSUME Exact, NEW r \in Slots, r \notin suspect'
               PROVE  Agrees(cells', r, tokens[r], <<>>, 0)
    BY <1>1 DEF Truth
  <2>1. r \notin suspect /\ state[r] = "idle"
    BY <1>1, <1>3
  <2>2. Agrees(cells, r, tokens[r], batch, at)
    BY <2>1 DEF SlotInv, Truth
  <2>3. Todo(batch, at, r) = {} /\ Todo(<<>>, 0, r) = {}
    BY <2>1, TodoBusy, NoneTodo
  <2>4. SameFor(cells, cells', r)
    BY <2>3
  <2> QED
    BY <2>2, <2>3, <2>4, AgreesSame
<1> QED
  BY <1>4, <1>6, <1>7, <1>8, <1>9, <1>10, <1>11 DEF SlotInv

LEMMA FailuresOK ==
  ASSUME SlotInv, Invalid \/ ComputeFails \/ OutOfRoom
  PROVE  SlotInv'
<1>1. CASE Invalid \/ OutOfRoom
  <2>1. GiveUp /\ cells' = cells
    BY <1>1 DEF Invalid, OutOfRoom
  <2>2. cells' \in CellMaps /\ \A r \in Slots : SameFor(cells, cells', r)
    BY <2>1, SameIsSame DEF SlotInv, SlotsTyped
  <2>3. Unified /\ CtxShift /\ "reuse" \notin Kinds
          => \A i \in Cells : \A r, s \in cells'[i].seqs : r = s
    BY <2>1 DEF SlotInv, Unshared
  <2> QED
    BY <2>1, <2>2, <2>3, GiveUpOK
<1>2. CASE ComputeFails
  <2>1. PICK n \in 0 .. Len(View) - 1 : cells' = Put(cells, SubSeq(View, 1, n))
    BY <1>2 DEF ComputeFails
  <2>2. Decoding /\ HasRoom(View) /\ GiveUp
    BY <1>2 DEF ComputeFails
  <2> DEFINE e == SubSeq(View, 1, n)
  <2>3. /\ at \in Nat /\ View \in Seq(EntrySet) /\ Len(View) \in Nat
        /\ at + Len(View) <= Len(batch) /\ Part(batch, at, View, Len(View)) /\ Len(batch) \in Nat
    BY <2>2, ViewIs
  <2>4. e \in Seq(EntrySet) /\ Len(e) = n /\ (\A j \in 1 .. n : e[j] = View[j]) /\ HasRoom(e)
    BY <2>2, <2>3, PrefixIs
  <2>5. cells' = Put(cells, e)
    BY <2>1
  <2> HIDE DEF e
  <2>6. at + Len(e) <= Len(batch) /\ Part(batch, at, e, Len(e))
    <3>1. n \in Nat /\ n <= Len(View) /\ Len(e) = n
      BY <2>3, <2>4
    <3>2. \A j \in 1 .. n : e[j] = View[j] /\ j \in 1 .. Len(View)
      BY <2>3, <2>4, <3>1
    <3>3. \A j \in 1 .. n : e[j] = batch[at + j]
      BY <2>3, <3>2 DEF Part
    <3>4. at + n <= Len(batch)
      BY <2>3, <3>1
    <3> QED
      BY <3>1, <3>3, <3>4 DEF Part
  <2>7. /\ cells' \in CellMaps
        /\ \A r \in Slots : Todo(batch, at, r) = {} => SameFor(cells, cells', r)
        /\ Unified /\ CtxShift /\ "reuse" \notin Kinds
             => \A i \in Cells : \A r, s \in cells'[i].seqs : r = s
    BY <2>2, <2>4, <2>5, <2>6, PutPart
  <2> QED
    BY <2>2, <2>7, GiveUpOK
<1> QED
  BY <1>1, <1>2

(* The slots whose last token is in the view.                              *)
Sampling == {View[j].slot : j \in {i \in DOMAIN View : View[i].out}}

LEMMA SamplingIs ==
  ASSUME SlotInv, Decoding
  PROVE  /\ Sampling \subseteq Slots
         /\ \A s \in Sampling : state[s] \in {"done", "generating"} /\ Todo(batch, at, s) # {}
         /\ \A s \in Sampling : Todo(batch, at + Len(View), s) = {}
<1>1. /\ at \in Nat /\ View \in Seq(EntrySet) /\ Len(View) \in Nat /\ Len(batch) \in Nat
      /\ at + Len(View) <= Len(batch) /\ Part(batch, at, View, Len(View)) /\ batch \in Seq(EntrySet)
  BY ViewIs
<1>2. DOMAIN View = 1 .. Len(View) /\ \A j \in 1 .. Len(batch) : batch[j] \in EntrySet
  BY <1>1, LenProperties, ElementOfSeq
<1>3. ASSUME NEW s \in Sampling
      PROVE  /\ s \in Slots /\ state[s] \in {"done", "generating"} /\ Todo(batch, at, s) # {}
             /\ Todo(batch, at + Len(View), s) = {}
  <2>1. PICK j \in 1 .. Len(View) : View[j].out /\ s = View[j].slot
    BY <1>2 DEF Sampling
  <2> DEFINE k == at + j
  <2>2. k \in at + 1 .. Len(batch) /\ k \in 1 .. Len(batch) /\ batch[k] = View[j]
        /\ k \in Nat /\ k <= at + Len(View)
    BY <1>1 DEF Part
  <2> HIDE DEF k
  <2>3. s \in Slots
    BY <1>2, <2>1, <2>2 DEF EntrySet
  <2>4. state[s] \in {"done", "generating"}
    BY <2>1, <2>2 DEF SlotInv, Batches
  <2>5. k \in Todo(batch, at, s)
    BY <2>1, <2>2 DEF Todo
  <2>6. ASSUME NEW l \in Todo(batch, at + Len(View), s) PROVE FALSE
    <3>1. l \in 1 .. Len(batch) /\ k < l /\ batch[l].slot = s
      BY <1>1, <2>2 DEF Todo
    <3> QED
      BY <2>1, <2>2, <3>1 DEF SlotInv, Batches
  <2> QED
    BY <2>3, <2>4, <2>5, <2>6
<1> QED
  BY <1>3

LEMMA DecodeOK ==
  ASSUME SlotInv, Decode
  PROVE  SlotInv'
<1> DEFINE S == Sampling
           l == Len(View)
<1>1. /\ Decoding /\ HasRoom(View) /\ cells' = Put(cells, View) /\ at' = at + l /\ nbatch' = NBatch
      /\ UNCHANGED <<tokens, used, saved, suspect, pc, turn, batched, batch>>
  BY DEF Decode
<1>2. PICK t \in [S -> Gen], stop \in SUBSET S :
        /\ sampled' = [s \in Slots |-> IF s \in S \ stop THEN t[s] ELSE
                                        IF s \in S THEN NoTok ELSE sampled[s]]
        /\ map' = [s \in Slots |-> IF s \in S THEN Remembered(s, t[s]) ELSE map[s]]
        /\ state' = [s \in Slots |-> IF s \in stop THEN "idle" ELSE
                                      IF s \in S THEN "generating" ELSE state[s]]
        /\ task' = [s \in Slots |-> IF s \in stop THEN NoTask ELSE task[s]]
  BY DEF Decode, Sampling
<1>3. /\ S \subseteq Slots
      /\ \A s \in S : state[s] \in {"done", "generating"} /\ Todo(batch, at, s) # {}
      /\ \A s \in S : Todo(batch, at + l, s) = {}
  BY <1>1, SamplingIs
<1>4. /\ at \in Nat /\ View \in Seq(EntrySet) /\ l \in Nat /\ Len(batch) \in Nat
      /\ at + l <= Len(batch) /\ Part(batch, at, View, l)
  BY <1>1, ViewIs
<1>5. /\ cells' \in CellMaps
      /\ \A r \in Slots : Todo(batch, at, r) = {} => SameFor(cells, cells', r)
      /\ Unified /\ CtxShift /\ "reuse" \notin Kinds
           => \A i \in Cells : \A r, s \in cells'[i].seqs : r = s
      /\ \A r \in Slots : \A q : Agrees(cells, r, q, batch, at)
           => Agrees(cells', r, q, batch, at + l)
  BY <1>1, <1>4, PutPart
<1> HIDE DEF S, l
<1>6. SlotsTyped
  BY DEF SlotInv
<1>7. ASSUME NEW s \in Slots
      PROVE  /\ s \in stop => s \in S /\ state'[s] = "idle" /\ task'[s] = NoTask
             /\ s \in S \ stop => state'[s] = "generating" /\ task'[s] = task[s]
             /\ s \notin S => state'[s] = state[s] /\ task'[s] = task[s] /\ sampled'[s] = sampled[s]
             /\ s \in S \ stop => sampled'[s] \in Gen
             /\ sampled'[s] \in Gen \cup {NoTok}
  <2>1. sampled[s] \in Gen \cup {NoTok} /\ (s \in S => t[s] \in Gen)
    BY <1>6 DEF SlotsTyped
  <2> QED
    BY <1>2, <2>1
<1>8. map' \in [Slots -> Seq(Gen)]
  <2>1. ASSUME NEW s \in Slots PROVE map'[s] \in Seq(Gen)
    <3>1. map[s] \in Seq(Gen)
      BY <1>6 DEF SlotsTyped
    <3>2. CASE s \in S
      <4>1. t[s] \in Gen
        BY <3>2
      <4>2. Append(map[s], t[s]) \in Seq(Gen)
        BY <3>1, <4>1, AppendProperties
      <4>3. map'[s] = Remembered(s, t[s])
        BY <1>2, <3>2
      <4> QED
        BY <3>1, <4>2, <4>3 DEF Remembered
    <3>3. CASE s \notin S
      BY <1>2, <3>1, <3>3
    <3> QED
      BY <3>2, <3>3
  <2> QED
    BY <1>2, <2>1
<1>9. SlotsTyped'
  <2>1. state' \in [Slots -> {"idle", "started", "prompt", "done", "generating"}]
    BY <1>2, <1>6 DEF SlotsTyped
  <2>2. task' \in [Slots -> {NoTask} \cup [kind : Kinds, prompt : Prompts]]
    BY <1>2, <1>6 DEF SlotsTyped
  <2>3. sampled' \in [Slots -> Gen \cup {NoTok}]
    BY <1>2, <1>7
  <2>4. ASSUME NEW s \in Slots
        PROVE  /\ state'[s] = "idle" <=> task'[s] = NoTask
               /\ state'[s] = "generating" => sampled'[s] \in Gen
    <3>1. CASE s \in stop
      BY <1>7, <3>1
    <3>2. CASE s \in S \ stop
      BY <1>3, <1>6, <1>7, <3>2 DEF SlotsTyped
    <3>3. CASE s \notin S
      BY <1>6, <1>7, <3>3 DEF SlotsTyped
    <3> QED
      BY <3>1, <3>2, <3>3
  <2> QED
    BY <1>1, <1>5, <1>6, <1>8, <2>1, <2>2, <2>3, <2>4 DEF SlotsTyped
<1>10. LoopTyped'
  <2>1. at' \in 0 .. Len(batch) /\ nbatch' \in 1 .. NBatch
    BY <1>1, <1>4, Sizes DEF l
  <2> QED
    BY <1>1, <2>1 DEF SlotInv, LoopTyped
<1>11. Lengths'
  <2> SUFFICES ASSUME NEW s \in Slots
               PROVE  /\ state'[s] \in {"done", "generating"} => Len(tokens[s]) < NCtx
                      /\ state'[s] = "prompt" => Len(tokens[s]) < Len(task'[s].prompt)
    BY <1>1 DEF Lengths, Decoding
  <2>1. /\ state[s] \in {"done", "generating"} => Len(tokens[s]) < NCtx
        /\ state[s] = "prompt" => Len(tokens[s]) < Len(task[s].prompt)
    BY DEF SlotInv, Lengths
  <2> QED
    BY <1>3, <1>7, <2>1
<1>12. Batches'
  <2>1. batch \in Seq(EntrySet)
    BY DEF SlotInv, LoopTyped
  <2>2. ASSUME NEW j \in (at + l) + 1 .. Len(batch)
        PROVE  /\ state'[batch[j].slot] \in {"prompt", "done", "generating"}
               /\ tokens[batch[j].slot] # <<>>
               /\ batch[j].out => state'[batch[j].slot] # "prompt"
    <3>1. j \in at + 1 .. Len(batch) /\ j \in 1 .. Len(batch)
      BY <1>4
    <3>2. batch[j].slot \in Slots
      <4>1. batch[j] \in EntrySet
        BY <2>1, <3>1, ElementOfSeq
      <4> QED
        BY <4>1 DEF EntrySet
    <3>3. j \in Todo(batch, at + l, batch[j].slot)
      BY DEF Todo
    <3>4. batch[j].slot \notin S
      BY <1>3, <3>3
    <3>5. /\ state[batch[j].slot] \in {"prompt", "done", "generating"}
          /\ tokens[batch[j].slot] # <<>>
          /\ batch[j].out => state[batch[j].slot] # "prompt"
      BY <3>1 DEF SlotInv, Batches
    <3> QED
      BY <1>7, <3>2, <3>4, <3>5
  <2>3. \A j, k \in 1 .. Len(batch) : j < k /\ batch[j].out => batch[k].slot # batch[j].slot
    BY DEF SlotInv, Batches
  <2>4. pc' = "decode" /\ batch' = batch /\ tokens' = tokens /\ at' = at + l
    BY <1>1 DEF Decoding, l
  <2> QED
    BY <2>2, <2>3, <2>4 DEF Batches
<1>13. NoneLeaks'
  <2> SUFFICES ASSUME NEW r \in Slots, tokens[r] = <<>> PROVE Mine(cells', r) = {}
    BY <1>1 DEF NoneLeaks
  <2>1. Todo(batch, at, r) = {}
    BY TodoBusy
  <2> QED
    BY <1>5, <2>1 DEF SlotInv, NoneLeaks, SameFor
<1>14. Unshared'
  BY <1>5 DEF Unshared
<1>15. Truth'
  <2> SUFFICES ASSUME Exact, NEW r \in Slots, r \notin suspect
               PROVE  Agrees(cells', r, tokens[r], batch, at + l)
    BY <1>1 DEF Truth, l
  <2>1. Agrees(cells, r, tokens[r], batch, at)
    BY DEF SlotInv, Truth
  <2> QED
    BY <1>5, <2>1
<1> QED
  BY <1>9, <1>10, <1>11, <1>12, <1>13, <1>14, <1>15 DEF SlotInv

LEMMA NextOK == SlotInv /\ [Next]_vars => SlotInv'
<1> SUFFICES ASSUME SlotInv, [Next]_vars PROVE SlotInv'
  OBVIOUS
<1>1. CASE Tasks
  BY <1>1, TasksOK
<1>2. CASE StartUpdate
  BY <1>2, StartUpdateOK
<1>3. CASE ShiftSlot
  BY <1>3, ShiftSlotOK
<1>4. CASE AddSampled
  BY <1>4, AddSampledOK
<1>5. CASE AddPrompt
  BY <1>5, AddPromptOK
<1>6. CASE SkipPrompt
  BY <1>6, SkipPromptOK
<1>7. CASE AbortPrompt
  BY <1>7, AbortOK DEF AbortPrompt
<1>8. CASE Decode
  BY <1>8, DecodeOK
<1>9. CASE Invalid \/ ComputeFails \/ OutOfRoom
  BY <1>9, FailuresOK
<1>10. CASE Purge
  BY <1>10, PurgeOK
<1>11. CASE Halve
  BY <1>11, HalveOK
<1>12. CASE FinishUpdate
  BY <1>12, FinishUpdateOK
<1>13. CASE UNCHANGED vars
  BY <1>13, StutterOK
<1> QED
  BY <1>1, <1>2, <1>3, <1>4, <1>5, <1>6, <1>7, <1>8, <1>9, <1>10, <1>11, <1>12, <1>13 DEF Next

-----------------------------------------------------------------------------
(* The properties. *)

LEMMA AlwaysInv == Spec => []SlotInv
BY InitOK, NextOK, PTL DEF Spec

(* Every variable of the slots, their cache and the update loop keeps its  *)
(* type: positions stay below n_ctx, a cell without a sequence is empty,   *)
(* and a slot has a task exactly while it is not idle.                     *)
THEOREM WellTyped == Spec => []TypeOK
BY AlwaysInv, TypedOK, PTL

(* An idle slot that remembers no token holds no cell, in any order of     *)
(* requests, branches, cancels, erasures, purges and failures: purging     *)
(* what is remembered gives back every cell.                               *)
THEOREM NothingLeaks == Spec => []NoLeak
BY AlwaysInv, NotLeaking, PTL

(* Where no shift moves shared cells, a slot's tokens are, one by one and  *)
(* at their positions, what its sequence holds and what is still to be     *)
(* decoded, unless a branch or a failure made its memory untrue.           *)
THEOREM KVIsRemembered ==
  ASSUME Exact
  PROVE  Spec => []KVMatchesTokens
<1>1. SlotInv => KVMatchesTokens
  BY TruthMatches
<1> QED
  BY <1>1, AlwaysInv, PTL

(* Slots that rest keep what they hold.                                    *)
Rests(s) == state[s] = "idle" /\ state'[s] = "idle" /\ tokens'[s] = tokens[s]
RestKept == \A s \in Slots : Rests(s) => SameFor(cells, cells', s)

LEMMA RestTasks ==
  ASSUME SlotInv, Tasks
  PROVE  RestKept
<1>1. ASSUME NEW s \in Slots, NEW p \in Prompts, Complete(s, p)
      PROVE  RestKept
  <2>1. state'[s] = "started"
    BY <1>1, StartsIs DEF Complete
  <2>2. CASE ~Saves(s, p, Similar(Idle, p) = {})
    BY <1>1, <2>2, SameIsSame DEF Complete, RestKept
  <2>3. CASE Saves(s, p, Similar(Idle, p) = {})
    <3>1. Swap(s, p) /\ tokens[s] # <<>> /\ MaxSaved > 0 /\ pc = "tasks"
      BY <1>1, <2>3, Sizes DEF Complete, Saves, Starts
    <3>2. \A r \in Slots : r # s => SameFor(cells, cells', r)
      BY <3>1, SwapIs
    <3> QED
      BY <2>1, <3>2 DEF RestKept, Rests
  <2> QED
    BY <2>2, <2>3
<1>2. ASSUME NEW s \in Slots, NEW p \in Prompts, CompleteOn(s, p)
      PROVE  RestKept
  BY <1>2, SameIsSame DEF CompleteOn, RestKept
<1>3. ASSUME NEW s \in Slots, NEW q \in Slots, NEW p \in Prompts,
             NEW from \in 0 .. NCtx, NEW to \in 0 .. NCtx, BranchReuse(s, q, p, from, to)
      PROVE  RestKept
  <2>1. Starts(s, "reuse", p) /\ cells \in CellMaps
        /\ cells' = IF Unified THEN SeqCp(cells, q, s, from, to) ELSE CopyStream(cells, q, s)
    BY <1>3 DEF BranchReuse, SlotInv, SlotsTyped
  <2>2. state'[s] = "started"
    BY <2>1, StartsIs
  <2>3. \A r \in Slots : r # s => SameFor(cells, cells', r)
    <3>1. CASE Unified
      BY <2>1, <3>1, SeqCpIs
    <3>2. CASE ~Unified
      BY <2>1, <3>2, CopyStreamIs
    <3> QED
      BY <3>1, <3>2
  <2> QED
    BY <2>2, <2>3 DEF RestKept, Rests
<1>4. ASSUME NEW s \in Slots, NEW q \in Slots, NEW p \in Prompts,
             NEW from \in 0 .. NCtx, NEW to \in 0 .. NCtx, BranchAborts(s, q, p, from, to)
      PROVE  RestKept
  BY <1>4, SameIsSame DEF BranchAborts, Abort, RestKept
<1>5. ASSUME NEW s \in Slots, NEW q \in Slots, NEW p \in Prompts,
             NEW from \in 0 .. NCtx, NEW to \in 0 .. NCtx, BranchFresh(s, q, p, from, to)
      PROVE  RestKept
  <2>1. Starts(s, "fresh", p) /\ cells' = SeqClear(cells, s) /\ cells \in CellMaps
    BY <1>5 DEF BranchFresh, SlotInv, SlotsTyped
  <2>2. state'[s] = "started"
    BY <2>1, StartsIs
  <2>3. \A r \in Slots : r # s => SameFor(cells, cells', r)
    BY <2>1, SeqClearIs
  <2> QED
    BY <2>2, <2>3 DEF RestKept, Rests
<1>6. ASSUME NEW s \in Slots, Cancel(s)
      PROVE  RestKept
  BY <1>6, SameIsSame DEF Cancel, RestKept
<1>7. ASSUME NEW s \in Slots, Erase(s)
      PROVE  RestKept
  <2>1. /\ cells' = SeqClear(cells, s) /\ tokens' = [tokens EXCEPT ![s] = <<>>]
        /\ cells \in CellMaps /\ tokens \in [Slots -> Seq(Tok)]
    BY <1>7 DEF Erase, SlotInv, SlotsTyped
  <2>2. Mine(cells', s) = {} /\ \A r \in Slots : r # s => SameFor(cells, cells', r)
    BY <2>1, SeqClearIs
  <2>3. tokens'[s] = <<>>
    BY <2>1
  <2>4. ASSUME Rests(s) PROVE SameFor(cells, cells', s)
    <3>1. Mine(cells, s) = {}
      BY <2>3, <2>4 DEF Rests, SlotInv, NoneLeaks
    <3> QED
      BY <2>2, <3>1 DEF SameFor
  <2> QED
    BY <2>2, <2>4 DEF RestKept
<1> QED
  BY <1>1, <1>2, <1>3, <1>4, <1>5, <1>6, <1>7 DEF Tasks, ParentReady

LEMMA RestShift ==
  ASSUME SlotInv, Exact, ShiftSlot
  PROVE  RestKept
<1>1. CASE Full(turn) /\ CtxShift
  <2> DEFINE k == Keep(turn)  d == Discard(turn)  n == Len(tokens[turn])
  <2>1. cells' = Shifted(cells, turn, k, d, n)
    BY <1>1 DEF ShiftSlot, Shifted
  <2>2. turn \in Slots /\ cells \in CellMaps
    BY DEF SlotInv, SlotsTyped, LoopTyped
  <2>3. k \in Nat /\ d \in Nat /\ n \in Nat
    BY <1>1, <2>2, KeepIs
  <2> HIDE DEF k, d, n
  <2>4. \A r \in Slots :
          /\ r # turn
          /\ \A i \in Cells : Unified => turn \notin cells[i].seqs \/ r \notin cells[i].seqs
          => SameFor(cells, cells', r)
    BY <2>1, <2>2, <2>3, ShiftedIs
  <2>5. Unified => \A i \in Cells : \A r, s \in cells[i].seqs : r = s
    BY <1>1 DEF Exact, SlotInv, Unshared
  <2>6. state[turn] # "idle"
    BY <1>1 DEF Full
  <2>7. ASSUME NEW r \in Slots, Rests(r) PROVE SameFor(cells, cells', r)
    <3>1. r # turn
      BY <2>6, <2>7 DEF Rests
    <3>2. \A i \in Cells : Unified => turn \notin cells[i].seqs \/ r \notin cells[i].seqs
      BY <2>5, <3>1
    <3> QED
      BY <2>4, <3>1, <3>2
  <2> QED
    BY <2>7 DEF RestKept
<1>2. CASE ~(Full(turn) /\ CtxShift)
  <2>1. cells' = cells
    <3>1. CASE Full(turn) /\ ~CtxShift
      BY <3>1 DEF ShiftSlot
    <3>2. CASE ~Full(turn)
      BY <3>2 DEF ShiftSlot
    <3> QED
      BY <1>2, <3>1, <3>2
  <2> QED
    BY <2>1, SameIsSame DEF RestKept
<1> QED
  BY <1>1, <1>2

LEMMA RestPrompt ==
  ASSUME SlotInv, AddPrompt
  PROVE  RestKept
<1> DEFINE m == IF state[turn] = "started" THEN Past(turn) ELSE Len(tokens[turn])
<1>1. state[turn] \in {"started", "prompt"} /\ cells' = SeqRm(cells, turn, m, NCtx + 1)
  BY DEF AddPrompt, Waits
<1>2. turn \in Slots /\ cells \in CellMaps /\ tokens[turn] \in Seq(Tok)
  BY DEF SlotInv, SlotsTyped, LoopTyped
<1>3. m \in Int
  <2>1. CASE state[turn] = "started"
    BY <1>2, <2>1, PastIs
  <2>2. CASE state[turn] # "started"
    BY <1>2, <2>2, LenProperties
  <2> QED
    BY <2>1, <2>2
<1> HIDE DEF m
<1>4. NCtx + 1 \in Int
  BY Sizes
<1>5. \A r \in Slots : r # turn => SameFor(cells, cells', r)
  BY <1>1, <1>2, <1>3, <1>4, SeqRmIs
<1> QED
  BY <1>1, <1>5, SMTT(30) DEF RestKept, Rests

LEMMA RestDecode ==
  ASSUME SlotInv, Decode \/ ComputeFails
  PROVE  RestKept
<1>1. \A r \in Slots : Todo(batch, at, r) = {} => SameFor(cells, cells', r)
  <2>1. CASE Decode
    <3>1. Decoding /\ HasRoom(View) /\ cells' = Put(cells, View)
      BY <2>1 DEF Decode
    <3> QED
      BY <3>1, ViewIs, PutPart
  <2>2. CASE ComputeFails
    <3>1. PICK n \in 0 .. Len(View) - 1 : cells' = Put(cells, SubSeq(View, 1, n))
      BY <2>2 DEF ComputeFails
    <3>2. Decoding /\ HasRoom(View)
      BY <2>2 DEF ComputeFails
    <3> DEFINE e == SubSeq(View, 1, n)
    <3>3. /\ at \in Nat /\ View \in Seq(EntrySet) /\ Len(View) \in Nat
          /\ at + Len(View) <= Len(batch) /\ Part(batch, at, View, Len(View)) /\ Len(batch) \in Nat
      BY <3>2, ViewIs
    <3>4. e \in Seq(EntrySet) /\ Len(e) = n /\ (\A j \in 1 .. n : e[j] = View[j]) /\ HasRoom(e)
      BY <3>2, <3>3, PrefixIs
    <3>5. cells' = Put(cells, e)
      BY <3>1
    <3> HIDE DEF e
    <3>6. n \in Nat /\ n <= Len(View) /\ at + Len(e) <= Len(batch)
      BY <3>3, <3>4
    <3>7. \A j \in 1 .. n : e[j] = batch[at + j]
      <4>1. \A j \in 1 .. n : e[j] = View[j] /\ j \in 1 .. Len(View)
        BY <3>3, <3>4, <3>6
      <4> QED
        BY <3>3, <4>1 DEF Part
    <3>8. Part(batch, at, e, Len(e))
      BY <3>4, <3>6, <3>7 DEF Part
    <3> QED
      BY <3>2, <3>4, <3>5, <3>6, <3>8, PutPart
  <2> QED
    BY <2>1, <2>2
<1>2. \A r \in Slots : state[r] = "idle" => Todo(batch, at, r) = {}
  BY TodoBusy
<1> QED
  BY <1>1, <1>2 DEF RestKept, Rests

LEMMA RestPurge ==
  ASSUME SlotInv, Purge
  PROVE  RestKept
<1> DEFINE s == Min(Purgeable)
<1>1. /\ Purgeable # {} /\ cells' = SeqClear(cells, s) /\ tokens' = [tokens EXCEPT ![s] = <<>>]
      /\ cells \in CellMaps /\ tokens \in [Slots -> Seq(Tok)]
  BY DEF Purge, SlotInv, SlotsTyped
<1>2. s \in Slots /\ tokens[s] # <<>>
  <2>1. Purgeable \subseteq Nat
    BY Sizes DEF Purgeable, Idle
  <2>2. s \in Purgeable
    BY <1>1, <2>1, MinIs
  <2> QED
    BY <2>2 DEF Purgeable, Idle
<1> HIDE DEF s
<1>3. tokens'[s] = <<>>
  BY <1>1, <1>2
<1>4. \A r \in Slots : r # s => SameFor(cells, cells', r)
  BY <1>1, <1>2, SeqClearIs
<1> QED
  BY <1>2, <1>3, <1>4 DEF RestKept, Rests

LEMMA RestOK == SlotInv /\ Exact /\ [Next]_vars => RestKept
<1> SUFFICES ASSUME SlotInv, Exact, [Next]_vars PROVE RestKept
  OBVIOUS
<1>1. CASE Tasks
  BY <1>1, RestTasks
<1>2. CASE ShiftSlot
  BY <1>2, RestShift
<1>3. CASE AddPrompt
  BY <1>3, RestPrompt
<1>4. CASE Decode \/ ComputeFails
  BY <1>4, RestDecode
<1>5. CASE Purge
  BY <1>5, RestPurge
<1>6. CASE \/ StartUpdate \/ AddSampled \/ SkipPrompt \/ AbortPrompt \/ Invalid \/ Halve
           \/ OutOfRoom \/ FinishUpdate \/ UNCHANGED vars
  <2>1. cells' = cells
    BY <1>6 DEF StartUpdate, AddSampled, SkipPrompt, AbortPrompt, Abort, Invalid, Halve,
                OutOfRoom, FinishUpdate, vars
  <2> QED
    BY <2>1, SameIsSame DEF RestKept
<1> QED
  BY <1>1, <1>2, <1>3, <1>4, <1>5, <1>6 DEF Next

(* Where no shift moves shared cells, a step leaves the sequence of an     *)
(* idle slot alone unless it also changes the slot's tokens: neither the   *)
(* work for other slots nor a purge, a copy or a failure loses what an     *)
(* idle slot will reuse.                                                   *)
THEOREM IdleKept ==
  ASSUME Exact
  PROVE  Spec => IdleUntouched
<1>1. SlotInv /\ [Next]_vars
        => [\A s \in Slots : state[s] = "idle" /\ state'[s] = "idle" /\ tokens'[s] = tokens[s]
              => Held(s)' = Held(s)]_vars
  <2> SUFFICES ASSUME SlotInv, [Next]_vars, NEW s \in Slots,
                      state[s] = "idle", state'[s] = "idle", tokens'[s] = tokens[s]
               PROVE  Held(s)' = Held(s)
    OBVIOUS
  <2>1. SameFor(cells, cells', s)
    BY RestOK DEF RestKept, Rests
  <2>2. /\ Held(s) = {<<cells[i].pos, cells[i].tok>> : i \in Mine(cells, s)}
        /\ Held(s)' = {<<cells'[i].pos, cells'[i].tok>> : i \in Mine(cells', s)}
    BY DEF Held, Mine, Has, CellsOf, Cells
  <2> DEFINE A == Mine(cells, s)
  <2>3. Mine(cells', s) = A /\ \A i \in A : cells'[i].pos = cells[i].pos /\ cells'[i].tok = cells[i].tok
    BY <2>1 DEF SameFor
  <2> HIDE DEF A
  <2>4. {<<cells'[i].pos, cells'[i].tok>> : i \in A} = {<<cells[i].pos, cells[i].tok>> : i \in A}
    BY <2>3
  <2> QED
    BY <2>2, <2>3, <2>4 DEF A
<1> QED
  BY <1>1, AlwaysInv, PTL DEF Spec, IdleUntouched
=============================================================================

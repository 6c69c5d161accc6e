--------------------------- MODULE SlotTextProofs ---------------------------
(***************************************************************************)
(* Proofs about SlotText, for any tokens, stop words, limits and drafts:   *)
(* what is streamed is the text, no stop word is in it, nothing but what   *)
(* has to be is held back, the limits hold, and ranges are in order.       *)
(***************************************************************************)
EXTENDS SlotText, SequenceTheorems, WellFoundedInduction, TLAPS

(* A set of numbers has a least element.                                   *)
LEMMA LeastNat ==
  ASSUME NEW T, T \subseteq Nat, T # {}
  PROVE  \E x \in T : \A y \in T : x <= y
<1> DEFINE R == OpToRel(<, Nat)
<1>1. IsWellFoundedOn(R, Nat)
  BY NatLessThanWellFounded
<1>2. \A x, y \in Nat : x < y => <<x, y>> \in R
  BY DEF OpToRel
<1> HIDE DEF R
<1>3. PICK x \in T : \A y \in T : <<y, x>> \notin R
  BY <1>1, WFMin
<1>4. ASSUME NEW y \in T PROVE x <= y
  <2>1. x \in Nat /\ y \in Nat /\ <<y, x>> \notin R
    BY <1>3
  <2>2. ~(y < x)
    BY <1>2, <2>1
  <2> QED
    BY <2>1, <2>2
<1> QED
  BY <1>4

LEMMA MinIs ==
  ASSUME NEW T, T \subseteq Nat, T # {}
  PROVE  Min(T) \in T /\ \A y \in T : Min(T) <= y
<1>1. \E x \in T : \A y \in T : x <= y
  BY LeastNat
<1> QED
  BY <1>1 DEF Min

LEMMA MinOfTwo ==
  ASSUME NEW a \in Nat, NEW b \in Nat
  PROVE  Min({a, b}) = IF a <= b THEN a ELSE b
<1> DEFINE T == {a, b}
<1>1. T \subseteq Nat /\ T # {}
  OBVIOUS
<1>2. Min(T) \in T /\ \A y \in T : Min(T) <= y
  BY <1>1, MinIs
<1> QED
  BY <1>2

LEMMA MaxOfZero ==
  ASSUME NEW a \in Int
  PROVE  Max({0, a}) = IF a <= 0 THEN 0 ELSE a
<1>1. \E x \in {0, a} : \A y \in {0, a} : x >= y
  OBVIOUS
<1>2. Max({0, a}) \in {0, a} /\ \A y \in {0, a} : Max({0, a}) >= y
  BY <1>1 DEF Max
<1> QED
  BY <1>2
-----------------------------------------------------------------------------
(* Texts, by their characters.                                             *)
Text == Seq(Chars)

LEMMA TextsAre ==
  /\ \A t \in Tokens : t \in Text
  /\ \A w \in StopWords : w \in Text /\ Len(w) \in Nat \ {0} /\ w[Len(w)] # Lead
<1>1. \A t \in Tokens : t \in Text
  BY TextAssumption DEF Text
<1>2. ASSUME NEW w \in StopWords PROVE w \in Text /\ Len(w) \in Nat \ {0} /\ w[Len(w)] # Lead
  <2>1. w \in Text /\ w # <<>> /\ ~CutOff(w)
    BY TextAssumption, StopsAssumption DEF Text
  <2>2. Len(w) \in Nat /\ Len(w) # 0
    BY <2>1, EmptySeq, LenProperties DEF Text
  <2> QED
    BY <2>1, <2>2 DEF CutOff, Last
<1> QED
  BY <1>1, <1>2

(* Word w stands in the text at offset p. *)
At(text, w, p) == p + Len(w) <= Len(text) /\ \A k \in 1..Len(w) : text[p + k] = w[k]

LEMMA OccursIs ==
  ASSUME NEW text \in Text, NEW w \in Text, NEW from \in Nat, NEW p \in Int
  PROVE  p \in Occurs(text, w, from) <=> from <= p /\ At(text, w, p)
<1>1. Len(text) \in Nat /\ Len(w) \in Nat
  BY LenProperties DEF Text
<1>2. p \in Occurs(text, w, from)
        <=> from <= p /\ p <= Len(text) - Len(w) /\ SubSeq(text, p + 1, p + Len(w)) = w
  BY <1>1 DEF Occurs
<1>3. ASSUME from <= p, p <= Len(text) - Len(w)
      PROVE  SubSeq(text, p + 1, p + Len(w)) = w <=> \A k \in 1..Len(w) : text[p + k] = w[k]
  <2> DEFINE z == SubSeq(text, p + 1, p + Len(w))
  <2>1. p + 1 \in 1..Len(text) + 1 /\ p + Len(w) \in p..Len(text)
    BY <1>1, <1>3
  <2>2. z \in Seq(Chars) /\ Len(z) = Len(w) /\ \A k \in 1..Len(w) : z[k] = text[p + k]
    BY <1>1, <1>3, <2>1, SubSeqProperties DEF Text
  <2> HIDE DEF z
  <2>3. z = w <=> \A k \in 1..Len(w) : z[k] = w[k]
    BY <2>2, SeqEqual, <1>1 DEF Text
  <2>4. z = w <=> \A k \in 1..Len(w) : text[p + k] = w[k]
    BY <2>2, <2>3
  <2> QED
    BY <2>4 DEF z
<1> QED
  BY <1>1, <1>2, <1>3 DEF At

LEMMA FromIs ==
  ASSUME NEW text \in Text, NEW p \in Nat
  PROVE  /\ From(text, p) \in Text
         /\ p <= Len(text) => Len(From(text, p)) = Len(text) - p
         /\ p >= Len(text) => From(text, p) = <<>>
         /\ \A k \in 1..(Len(text) - p) : From(text, p)[k] = text[p + k]
<1>1. Len(text) \in Nat
  BY LenProperties DEF Text
<1>2. CASE p < Len(text)
  BY <1>1, <1>2, SubSeqProperties DEF Text, From
<1>3. CASE p >= Len(text)
  <2>1. p + 1 > Len(text)
    BY <1>1, <1>3
  <2>2. From(text, p) = <<>>
    BY <1>1, <2>1, SubSeqEmpty DEF From, Text
  <2>3. Len(From(text, p)) = 0 /\ From(text, p) \in Text
    BY <2>2, EmptySeq DEF Text
  <2> QED
    BY <1>1, <1>3, <2>2, <2>3
<1> QED
  BY <1>1, <1>2, <1>3

(* The first characters of b are those of a. *)
Begins(a, b) == Len(a) <= Len(b) /\ \A k \in 1..Len(a) : a[k] = b[k]

LEMMA IsPrefixIs ==
  ASSUME NEW a \in Text, NEW b \in Text
  PROVE  IsPrefix(a, b) <=> Begins(a, b)
<1>1. Len(a) \in Nat /\ Len(b) \in Nat
  BY LenProperties DEF Text
<1>2. ASSUME Len(a) <= Len(b)
      PROVE  SubSeq(a, 1, Len(a)) = SubSeq(b, 1, Len(a)) <=> \A k \in 1..Len(a) : a[k] = b[k]
  <2> DEFINE x == SubSeq(a, 1, Len(a))
             y == SubSeq(b, 1, Len(a))
  <2>1. /\ x \in Seq(Chars) /\ Len(x) = Len(a) /\ \A k \in 1..Len(a) : x[k] = a[k]
        /\ y \in Seq(Chars) /\ Len(y) = Len(a) /\ \A k \in 1..Len(a) : y[k] = b[k]
    BY <1>1, <1>2, SubSeqProperties DEF Text
  <2> HIDE DEF x, y
  <2>2. x = y <=> \A k \in 1..Len(a) : x[k] = y[k]
    BY <1>1, <2>1, SeqEqual
  <2>3. x = y <=> \A k \in 1..Len(a) : a[k] = b[k]
    BY <2>1, <2>2
  <2> QED
    BY <2>3 DEF x, y
<1> QED
  BY <1>1, <1>2 DEF IsPrefix, Begins

LEMMA JoinedIs ==
  ASSUME NEW a \in Text, NEW b \in Text
  PROVE  /\ a \o b \in Text /\ Len(a \o b) = Len(a) + Len(b)
         /\ \A k \in 1..Len(a) : (a \o b)[k] = a[k]
         /\ \A k \in 1..Len(b) : (a \o b)[Len(a) + k] = b[k]
<1>1. Len(a) \in Nat /\ Len(b) \in Nat
  BY LenProperties DEF Text
<1>2. a \o b \in Seq(Chars) /\ Len(a \o b) = Len(a) + Len(b)
  BY ConcatProperties DEF Text
<1>3. \A k \in 1..Len(a) + Len(b) : (a \o b)[k] = IF k <= Len(a) THEN a[k] ELSE b[k - Len(a)]
  BY ConcatProperties DEF Text
<1>4. ASSUME NEW k \in 1..Len(b) PROVE (a \o b)[Len(a) + k] = b[k]
  <2>1. Len(a) + k \in 1..Len(a) + Len(b) /\ ~(Len(a) + k <= Len(a)) /\ (Len(a) + k) - Len(a) = k
    BY <1>1
  <2> QED
    BY <1>3, <2>1
<1> QED
  BY <1>1, <1>2, <1>3, <1>4 DEF Text
-----------------------------------------------------------------------------
(* The text with a token.                                                  *)
StopsAt(full, n, last) == FullStops(From(full, n), last)

(* A stop word is found if it ends in the last token, or just before it.   *)
LEMMA StopsAre ==
  ASSUME NEW full \in Text, NEW n \in 0..Len(full), NEW last \in Nat
  PROVE  /\ StopsAt(full, n, last) \subseteq Nat
         /\ \A q \in Nat : q \in StopsAt(full, n, last)
              <=> \E w \in StopWords : At(full, w, n + q) /\ n + q + Len(w) + last >= Len(full)
<1> DEFINE test == From(full, n)
           low(w) == Len(test) - (Len(w) + last)
<1>1. Len(full) \in Nat /\ n \in Nat /\ n <= Len(full)
  BY LenProperties DEF Text
<1>2. /\ test \in Text /\ Len(test) = Len(full) - n
      /\ \A k \in 1..(Len(full) - n) : test[k] = full[n + k]
  BY <1>1, FromIs
<1> HIDE DEF test
<1>3. ASSUME NEW w \in StopWords, NEW q \in Int
      PROVE  q \in Occurs(test, w, Max({0, low(w)}))
               <=> q >= 0 /\ At(full, w, n + q) /\ n + q + Len(w) + last >= Len(full)
  <2>1. w \in Text /\ Len(w) \in Nat
    BY TextsAre
  <2>2. low(w) \in Int
    BY <1>1, <1>2, <2>1
  <2>3. Max({0, low(w)}) \in Nat /\ (q >= Max({0, low(w)}) <=> q >= 0 /\ q >= low(w))
    BY <2>2, MaxOfZero
  <2>4. q \in Occurs(test, w, Max({0, low(w)})) <=> q >= Max({0, low(w)}) /\ At(test, w, q)
    BY <1>2, <2>1, <2>3, OccursIs
  <2>5. ASSUME q >= 0 PROVE At(test, w, q) <=> At(full, w, n + q)
    <3>1. q + Len(w) <= Len(test) <=> (n + q) + Len(w) <= Len(full)
      BY <1>1, <1>2, <2>1
    <3>2. ASSUME q + Len(w) <= Len(test), NEW k \in 1..Len(w) PROVE test[q + k] = full[(n + q) + k]
      <4>1. q + k \in 1..(Len(full) - n) /\ n + (q + k) = (n + q) + k
        BY <1>1, <1>2, <2>1, <2>5, <3>2
      <4> QED
        BY <1>2, <4>1
    <3> QED
      BY <3>1, <3>2 DEF At
  <2>6. q >= low(w) <=> n + q + Len(w) + last >= Len(full)
    BY <1>1, <1>2, <2>1
  <2> QED
    BY <2>3, <2>4, <2>5, <2>6
<1>4. StopsAt(full, n, last) = UNION {Occurs(test, w, Max({0, low(w)})) : w \in StopWords}
  BY DEF StopsAt, FullStops, test
<1>5. \A q : q \in StopsAt(full, n, last) <=> \E w \in StopWords : q \in Occurs(test, w, Max({0, low(w)}))
  BY <1>4
<1>6. ASSUME NEW q \in StopsAt(full, n, last) PROVE q \in Int
  <2>1. PICK w \in StopWords : q \in Occurs(test, w, Max({0, low(w)}))
    BY <1>5
  <2>2. Len(w) \in Nat /\ Len(test) \in Nat /\ Max({0, low(w)}) \in Nat
    BY <1>1, <1>2, TextsAre, MaxOfZero
  <2> QED
    BY <2>1, <2>2 DEF Occurs
<1>7. ASSUME NEW q \in Int
      PROVE  q \in StopsAt(full, n, last)
               <=> q >= 0 /\ \E w \in StopWords : At(full, w, n + q) /\ n + q + Len(w) + last >= Len(full)
  BY <1>3, <1>5
<1>8. StopsAt(full, n, last) \subseteq Nat
  BY <1>6, <1>7
<1> QED
  BY <1>7, <1>8

(* What extending the text by a token comes to: all of it is held back, or *)
(* all of it is sent, or a stop word ends it.                              *)
Unsent(full, n) == From(full, n)

Held(s, tok, e) ==
  /\ e.text = s.text \o tok /\ e.piece = <<>> /\ e.word = FALSE
  /\ \/ CutOff(e.text)
     \/ tok # Eog /\ PartialStops(Unsent(e.text, s.nSent)) # {}

Streams(s, tok, e) ==
  /\ e.text = s.text \o tok /\ e.piece = From(e.text, s.nSent) /\ e.word = FALSE
  /\ tok = Eog \/ PartialStops(Unsent(e.text, s.nSent)) = {}

Stops(s, tok, e) ==
  LET full  == s.text \o tok
      stops == StopsAt(full, s.nSent, Len(tok))
      m     == s.nSent + Min(stops)
  IN  /\ e.word = TRUE /\ stops # {} /\ m \in s.nSent..Len(full)
      /\ e.text = SubSeq(full, 1, m) /\ e.piece = From(e.text, s.nSent)

Extends(s, tok, e) ==
  /\ e.text \in Text /\ e.piece \in Text /\ e.shown \in Text
  /\ Held(s, tok, e) \/ Streams(s, tok, e) \/ Stops(s, tok, e)
  /\ CutOff(s.text \o tok) \/ e.word
       \/ StopsAt(s.text \o tok, s.nSent, Len(tok)) = {}

LEMMA ExtendIs ==
  ASSUME NEW s, s.text \in Text, s.nSent \in 0..Len(s.text), NEW tok \in Tokens
  PROVE  Extends(s, tok, Extend(s, tok))
<1> DEFINE full  == s.text \o tok
           n     == s.nSent
           pos   == Min({n, Len(full)})
           stops == FullStops(From(full, pos), Len(tok))
           text  == IF stops = {} THEN full ELSE SubSeq(full, 1, pos + Min(stops))
           piece == IF stops # {} \/ tok = Eog \/ PartialStops(From(full, pos)) = {}
                    THEN From(text, n) ELSE <<>>
           e     == Extend(s, tok)
<1>1. /\ tok \in Text /\ Len(tok) \in Nat /\ Len(s.text) \in Nat /\ n \in Nat /\ n <= Len(s.text)
      /\ full \in Text /\ Len(full) = Len(s.text) + Len(tok)
  BY TextsAre, JoinedIs, LenProperties DEF Text
<1>2. pos = n /\ n \in 0..Len(full) /\ Len(full) \in Nat /\ n <= Len(full)
  BY <1>1, MinOfTwo
<1>3. stops = StopsAt(full, n, Len(tok))
  BY <1>2 DEF StopsAt
<1>4. e = IF CutOff(full)
          THEN [text |-> full, piece |-> <<>>, shown |-> tok, word |-> FALSE]
          ELSE [text |-> text, piece |-> piece, shown |-> piece, word |-> stops # {}]
  BY DEF Extend, Extended
<1>5. <<>> \in Text /\ From(full, n) \in Text
  BY <1>1, <1>2, FromIs, EmptySeq DEF Text
<1> HIDE DEF e, full
<1>6. CASE CutOff(full)
  <2>1. e.text = full /\ e.piece = <<>> /\ e.shown = tok /\ e.word = FALSE
    BY <1>4, <1>6
  <2>2. Held(s, tok, e)
    BY <2>1, <1>6 DEF Held, full
  <2> QED
    BY <1>1, <1>5, <1>6, <2>1, <2>2 DEF Extends, full, e
<1>7. CASE ~CutOff(full) /\ stops = {}
  <2>1. e.text = full /\ e.piece = piece /\ e.shown = piece /\ e.word = FALSE
    BY <1>4, <1>7
  <2>2. piece = IF tok = Eog \/ PartialStops(From(full, n)) = {} THEN From(full, n) ELSE <<>>
    BY <1>2, <1>7
  <2> HIDE DEF piece, stops
  <2>3. Held(s, tok, e) \/ Streams(s, tok, e)
    BY <2>1, <2>2 DEF Held, Streams, full, Unsent
  <2>4. piece \in Text
    BY <1>5, <2>2
  <2> QED
    BY <1>1, <1>3, <1>7, <2>1, <2>3, <2>4 DEF Extends, full, e
<1>8. CASE ~CutOff(full) /\ stops # {}
  <2> DEFINE m == n + Min(stops)
  <2>1. e.text = SubSeq(full, 1, m) /\ e.piece = From(e.text, n) /\ e.shown = e.piece /\ e.word = TRUE
    BY <1>2, <1>4, <1>8
  <2>2. stops \subseteq Nat
    BY <1>1, <1>2, <1>3, StopsAre, ZenonT(60)
  <2> HIDE DEF stops
  <2>3. Min(stops) \in stops /\ Min(stops) \in Nat
    BY <1>8, <2>2, MinIs
  <2>4. PICK w \in StopWords : At(full, w, n + Min(stops))
    BY <1>1, <1>2, <1>3, <2>3, StopsAre
  <2>5. m \in n..Len(full)
    BY <1>1, <1>2, <2>3, <2>4, TextsAre DEF At
  <2>6. e.text \in Text
    <3>1. \A i \in 1..m : full[i] \in Chars
      BY <1>1, <1>2, <2>5, ElementOfSeq DEF Text
    <3> QED
      BY <2>1, <2>5, <3>1, SubSeqProperties, <1>2 DEF Text
  <2>7. e.piece \in Text
    BY <1>1, <2>1, <2>6, FromIs
  <2>8. Stops(s, tok, e)
    BY <1>3, <1>8, <2>1, <2>5 DEF Stops, full
  <2> QED
    BY <2>1, <2>6, <2>7, <2>8 DEF Extends, e
<1> QED
  BY <1>6, <1>7, <1>8
-----------------------------------------------------------------------------
(* What is sent is the beginning of the text.                              *)
LEMMA RestSent ==
  ASSUME NEW sent \in Text, NEW text \in Text, Begins(sent, text)
  PROVE  /\ Begins(sent \o From(text, Len(sent)), text)
         /\ Len(From(text, Len(sent))) = Len(text) - Len(sent)
<1> DEFINE n == Len(sent)
           r == From(text, n)
<1>1. n \in Nat /\ Len(text) \in Nat /\ n <= Len(text) /\ \A k \in 1..n : sent[k] = text[k]
  BY LenProperties DEF Text, Begins
<1>2. r \in Text /\ Len(r) = Len(text) - n /\ \A k \in 1..(Len(text) - n) : r[k] = text[n + k]
  BY <1>1, FromIs
<1> HIDE DEF r
<1>3. /\ Len(sent \o r) = Len(text)
      /\ \A k \in 1..n : (sent \o r)[k] = sent[k]
      /\ \A k \in 1..Len(r) : (sent \o r)[n + k] = r[k]
  BY <1>1, <1>2, JoinedIs
<1>4. ASSUME NEW k \in 1..Len(text) PROVE (sent \o r)[k] = text[k]
  <2>1. CASE k <= n
    BY <1>1, <1>3, <2>1
  <2>2. CASE k > n
    <3>1. k - n \in 1..Len(r) /\ k = n + (k - n)
      BY <1>1, <1>2, <2>2
    <3>2. PICK j \in 1..Len(r) : k = n + j
      BY <3>1
    <3>3. r[j] = text[n + j] /\ (sent \o r)[n + j] = r[j]
      BY <1>2, <1>3
    <3> QED
      BY <3>2, <3>3
  <2>3. k <= n \/ k > n
    BY <1>1
  <2> QED
    BY <2>1, <2>2, <2>3
<1> QED
  BY <1>1, <1>2, <1>3, <1>4 DEF Begins, r

LEMMA BeginsFirst ==
  ASSUME NEW sent \in Text, NEW text \in Text, NEW m \in Len(sent)..Len(text), Begins(sent, text)
  PROVE  /\ SubSeq(text, 1, m) \in Text /\ Len(SubSeq(text, 1, m)) = m
         /\ \A k \in 1..m : SubSeq(text, 1, m)[k] = text[k]
         /\ Begins(sent, SubSeq(text, 1, m))
<1> DEFINE z == SubSeq(text, 1, m)
<1>1. Len(sent) \in Nat /\ Len(text) \in Nat /\ m \in Nat /\ Len(sent) <= m /\ m <= Len(text)
  BY LenProperties DEF Text
<1>2. \A i \in 1..m : text[i] \in Chars
  BY <1>1, ElementOfSeq DEF Text
<1>3. z \in Text /\ Len(z) = m /\ \A k \in 1..m : z[k] = text[k]
  BY <1>1, <1>2, SubSeqProperties DEF Text
<1> HIDE DEF z
<1>4. Begins(sent, z)
  BY <1>1, <1>3 DEF Begins
<1> QED
  BY <1>3, <1>4 DEF z

LEMMA BeginsLonger ==
  ASSUME NEW a \in Text, NEW b \in Text, NEW c \in Text, Begins(a, b)
  PROVE  Begins(a, b \o c)
<1>1. Len(a) \in Nat /\ Len(b) \in Nat /\ Len(c) \in Nat
  BY LenProperties DEF Text
<1>2. Len(b \o c) = Len(b) + Len(c) /\ \A k \in 1..Len(b) : (b \o c)[k] = b[k]
  BY JoinedIs
<1> QED
  BY <1>1, <1>2 DEF Begins

LEMMA SentGrows ==
  ASSUME NEW s, s.text \in Text, s.sent \in Text, s.nSent = Len(s.sent), Begins(s.sent, s.text),
         NEW tok \in Tokens, NEW e, Extends(s, tok, e)
  PROVE  /\ s.sent \o e.piece \in Text /\ Len(s.sent \o e.piece) = s.nSent + Len(e.piece)
         /\ Begins(s.sent \o e.piece, e.text)
         /\ e.piece = <<>> \/ s.nSent + Len(e.piece) = Len(e.text)
<1> DEFINE full == s.text \o tok
<1>1. tok \in Text /\ e.text \in Text /\ e.piece \in Text
  BY TextsAre DEF Extends
<1>2. full \in Text /\ Begins(s.sent, full) /\ Len(s.sent) \in Nat /\ Len(full) \in Nat
  BY <1>1, JoinedIs, BeginsLonger, LenProperties DEF Text
<1> HIDE DEF full
<1>3. s.sent \o e.piece \in Text /\ Len(s.sent \o e.piece) = s.nSent + Len(e.piece)
  BY <1>1, JoinedIs
<1>4. CASE Held(s, tok, e)
  <2>1. e.text = full /\ e.piece = <<>>
    BY <1>4 DEF Held, full
  <2>2. s.sent \o e.piece = s.sent
    BY <2>1, ConcatEmptySeq DEF Text
  <2> QED
    BY <1>2, <1>3, <2>1, <2>2
<1>5. ASSUME Begins(s.sent, e.text), e.piece = From(e.text, s.nSent)
      PROVE  Begins(s.sent \o e.piece, e.text) /\ s.nSent + Len(e.piece) = Len(e.text)
  <2>1. Len(e.piece) = Len(e.text) - Len(s.sent) /\ Begins(s.sent \o e.piece, e.text)
    BY <1>1, <1>5, RestSent
  <2>2. Len(e.text) \in Nat
    BY <1>1, LenProperties DEF Text
  <2> QED
    BY <1>2, <2>1, <2>2
<1>6. CASE Streams(s, tok, e)
  BY <1>2, <1>3, <1>5, <1>6 DEF Streams, full
<1>7. CASE Stops(s, tok, e)
  <2>1. PICK m \in s.nSent..Len(full) : e.text = SubSeq(full, 1, m) /\ e.piece = From(e.text, s.nSent)
    BY <1>7 DEF Stops, full
  <2>2. Begins(s.sent, e.text)
    BY <1>2, <2>1, BeginsFirst
  <2> QED
    BY <1>3, <1>5, <2>1, <2>2
<1> QED
  BY <1>4, <1>6, <1>7 DEF Extends
-----------------------------------------------------------------------------
(* No stop word is in a text, and none can begin before offset n of it.    *)
Begun(text, w, p) ==
  Len(text) - p <= Len(w) /\ \A k \in 1..(Len(text) - p) : text[p + k] = w[k]

Searched(text, n) ==
  /\ \A w \in StopWords, p \in Nat : ~At(text, w, p)
  /\ \A w \in StopWords, p \in Nat : p < n => ~Begun(text, w, p)

(* A stop word that comes with a token begins in what was not sent, and    *)
(* ends in the token.                                                      *)
LEMMA NewStop ==
  ASSUME NEW text \in Text, NEW tok \in Text, NEW n \in 0..Len(text), Searched(text, n),
         NEW w \in StopWords, NEW p \in Nat, At(text \o tok, w, p)
  PROVE  p >= n /\ p + Len(w) > Len(text)
<1>1. Len(text) \in Nat /\ Len(tok) \in Nat /\ Len(w) \in Nat \ {0}
  BY TextsAre, LenProperties DEF Text
<1>2. \A k \in 1..Len(text) : (text \o tok)[k] = text[k]
  BY JoinedIs
<1>3. \A k \in 1..Len(w) : (text \o tok)[p + k] = w[k]
  BY DEF At
<1>4. ASSUME p + Len(w) <= Len(text) PROVE FALSE
  <2>1. \A k \in 1..Len(w) : p + k \in 1..Len(text)
    BY <1>1, <1>4
  <2>2. At(text, w, p)
    BY <1>2, <1>3, <1>4, <2>1 DEF At
  <2> QED
    BY <2>2 DEF Searched
<1>5. ASSUME p < n, p + Len(w) > Len(text) PROVE FALSE
  <2>1. \A k \in 1..(Len(text) - p) : p + k \in 1..Len(text) /\ k \in 1..Len(w)
    BY <1>1, <1>5
  <2>2. Len(text) - p <= Len(w)
    BY <1>1, <1>5
  <2>3. Begun(text, w, p)
    BY <1>2, <1>3, <2>1, <2>2 DEF Begun
  <2> QED
    BY <1>5, <2>3 DEF Searched
<1> QED
  BY <1>1, <1>4, <1>5

(* A token that only brings the beginning of a character brings no stop    *)
(* word, and what other tokens bring is found.                             *)
LEMMA NoneUnfound ==
  ASSUME NEW s, s.text \in Text, s.nSent \in 0..Len(s.text), Searched(s.text, s.nSent),
         NEW tok \in Tokens, ~Mixed(tok), NEW e, Extends(s, tok, e), e.word = FALSE,
         NEW w \in StopWords, NEW p \in Nat
  PROVE  ~At(s.text \o tok, w, p)
<1> SUFFICES ASSUME At(s.text \o tok, w, p) PROVE FALSE
  OBVIOUS
<1> DEFINE full == s.text \o tok
           n    == s.nSent
<1>1. /\ tok \in Text /\ Len(s.text) \in Nat /\ Len(tok) \in Nat
      /\ n \in Nat /\ Len(w) \in Nat \ {0} /\ w[Len(w)] # Lead
  BY TextsAre, LenProperties DEF Text
<1>2. /\ full \in Text /\ Len(full) = Len(s.text) + Len(tok)
      /\ \A k \in 1..Len(tok) : full[Len(s.text) + k] = tok[k]
  BY <1>1, JoinedIs
<1>3. p >= n /\ p + Len(w) > Len(s.text)
  BY <1>1, NewStop
<1>4. p + Len(w) <= Len(full) /\ \A k \in 1..Len(w) : full[p + k] = w[k]
  BY DEF At
<1>5. At(full, w, p)
  OBVIOUS
<1> HIDE DEF full
<1>6. CASE CutOff(full)
  <2>1. Len(tok) > 0
    BY <1>1, <1>2, <1>3, <1>4
  <2>2. tok[Len(tok)] = full[Len(full)]
    BY <1>1, <1>2, <2>1
  <2>3. full[Len(full)] = Lead
    BY <1>6 DEF CutOff, Last
  <2>4. CutOff(tok)
    BY <2>1, <2>2, <2>3, EmptySeq DEF CutOff, Last
  <2>5. Len(tok) = 1
    <3>1. ~(Len(tok) > 1)
      BY <2>4 DEF Mixed
    <3>2. Len(tok) \in Nat
      BY <1>1
    <3>3. \A x \in Nat : x > 0 /\ ~(x > 1) => x = 1
      OBVIOUS
    <3> QED
      BY <2>1, <3>1, <3>2, <3>3
  <2>6. p + Len(w) = Len(full) /\ Len(w) \in 1..Len(w)
    BY <1>1, <1>2, <1>3, <1>4, <2>5, SMTT(30)
  <2>7. full[Len(full)] = w[Len(w)]
    BY <1>4, <2>6
  <2> QED
    BY <1>1, <2>3, <2>7
<1>7. CASE StopsAt(full, n, Len(tok)) = {}
  <2>1. n \in 0..Len(full) /\ p - n \in Nat /\ n + (p - n) = p
    BY <1>1, <1>2, <1>3, SMTT(30)
  <2>2. p + Len(w) + Len(tok) >= Len(full)
    BY <1>1, <1>2, <1>3
  <2>3. PICK q \in Nat : n + q = p
    BY <2>1
  <2>4. At(full, w, n + q) /\ n + q + Len(w) + Len(tok) >= Len(full)
    BY <1>5, <2>2, <2>3
  <2>5. q \in StopsAt(full, n, Len(tok))
    BY <1>1, <1>2, <2>1, <2>4, StopsAre
  <2> QED
    BY <1>7, <2>5
<1> QED
  BY <1>6, <1>7 DEF Extends, full

(* A stop word that begins before what was not sent, or in what a token    *)
(* lets be sent, does not go on.                                           *)
LEMMA NoneBegun ==
  ASSUME NEW s, s.text \in Text, s.nSent \in 0..Len(s.text), Searched(s.text, s.nSent),
         NEW tok \in Tokens, tok # Eog, NEW e, Extends(s, tok, e), e.word = FALSE,
         NEW w \in StopWords, NEW p \in Nat, p < s.nSent + Len(e.piece)
  PROVE  ~Begun(s.text \o tok, w, p)
<1> SUFFICES ASSUME Begun(s.text \o tok, w, p) PROVE FALSE
  OBVIOUS
<1> DEFINE full == s.text \o tok
           n    == s.nSent
<1>1. /\ tok \in Text /\ Len(s.text) \in Nat /\ Len(tok) \in Nat
      /\ n \in Nat /\ w \in Text /\ Len(w) \in Nat
  BY TextsAre, LenProperties DEF Text
<1>2. /\ full \in Text /\ Len(full) = Len(s.text) + Len(tok)
      /\ \A k \in 1..Len(s.text) : full[k] = s.text[k]
  BY <1>1, JoinedIs
<1>3. Len(full) - p <= Len(w) /\ \A k \in 1..(Len(full) - p) : full[p + k] = w[k]
  BY DEF Begun
<1> HIDE DEF full
<1>4. CASE p < n
  <2>1. \A k \in 1..(Len(s.text) - p) : p + k \in 1..Len(s.text) /\ k \in 1..(Len(full) - p)
    BY <1>1, <1>2
  <2>2. Len(s.text) - p <= Len(w)
    BY <1>1, <1>2, <1>3
  <2>3. Begun(s.text, w, p)
    BY <1>2, <1>3, <2>1, <2>2 DEF Begun
  <2> QED
    BY <1>4, <2>3 DEF Searched
<1>5. CASE p >= n
  <2>1. Streams(s, tok, e)
    <3>1. ~Held(s, tok, e)
      <4> SUFFICES ASSUME Held(s, tok, e) PROVE FALSE
        OBVIOUS
      <4>1. Len(e.piece) = 0
        BY EmptySeq DEF Held
      <4> QED
        BY <1>1, <1>5, <4>1
    <3> QED
      BY <3>1 DEF Extends, Stops
  <2> DEFINE r == From(full, n)
  <2>2. e.piece = r /\ PartialStops(r) = {}
    BY <2>1 DEF Streams, Unsent, full
  <2>3. n <= Len(full)
    BY <1>1, <1>2
  <2>4. r \in Text /\ Len(r) = Len(full) - n /\ \A k \in 1..(Len(full) - n) : r[k] = full[n + k]
    BY <1>1, <1>2, <2>3, FromIs
  <2> HIDE DEF r
  <2>5. PICK q \in 0..(Len(r) - 1) : p = n + q
    <3>1. p - n \in 0..(Len(r) - 1) /\ p = n + (p - n)
      BY <1>1, <1>2, <1>5, <2>2, <2>4, SMTT(30)
    <3> QED
      BY <3>1
  <2>6. /\ From(r, q) \in Text /\ Len(From(r, q)) = Len(full) - p
        /\ \A k \in 1..(Len(full) - p) : From(r, q)[k] = r[q + k]
    <3>1. q \in Nat /\ q <= Len(r) /\ Len(r) \in Nat /\ Len(r) - q = Len(full) - p
      BY <1>1, <1>2, <2>3, <2>4, <2>5, SMTT(30)
    <3>2. /\ From(r, q) \in Text /\ Len(From(r, q)) = Len(r) - q
          /\ \A k \in 1..(Len(r) - q) : From(r, q)[k] = r[q + k]
      BY <2>4, <3>1, FromIs
    <3> QED
      BY <3>1, <3>2
  <2>7. ASSUME NEW k \in 1..(Len(full) - p) PROVE From(r, q)[k] = w[k]
    <3>1. q + k \in 1..(Len(full) - n) /\ n + (q + k) = p + k
      <4>1. Len(full) \in Nat /\ n \in Nat /\ q \in Nat /\ p = n + q /\ k <= Len(full) - p /\ k \in Nat /\ k > 0
        BY <1>1, <1>2, <2>4, <2>5
      <4> HIDE DEF n
      <4> QED
        BY <4>1
    <3>2. r[q + k] = full[p + k]
      BY <2>4, <3>1
    <3> QED
      BY <1>3, <2>6, <3>2
  <2>8. IsPrefix(From(r, q), w)
    BY <1>1, <1>3, <2>6, <2>7, IsPrefixIs DEF Begins
  <2> QED
    BY <2>2, <2>5, <2>8 DEF PartialStops
<1> QED
  BY <1>1, <1>4, <1>5

(* The text that a stop word ends has none.                                *)
LEMMA NoneBefore ==
  ASSUME NEW s, s.text \in Text, s.nSent \in 0..Len(s.text), Searched(s.text, s.nSent),
         NEW tok \in Tokens, NEW e, Extends(s, tok, e), e.word = TRUE,
         NEW w \in StopWords, NEW p \in Nat
  PROVE  ~At(e.text, w, p)
<1> SUFFICES ASSUME At(e.text, w, p) PROVE FALSE
  OBVIOUS
<1> DEFINE full == s.text \o tok
           n    == s.nSent
           stops == StopsAt(full, n, Len(tok))
           m    == n + Min(stops)
<1>1. /\ tok \in Text /\ Len(s.text) \in Nat /\ Len(tok) \in Nat
      /\ n \in Nat /\ w \in Text /\ Len(w) \in Nat \ {0}
  BY TextsAre, LenProperties DEF Text
<1>2. full \in Text /\ Len(full) = Len(s.text) + Len(tok) /\ n \in 0..Len(full)
  BY <1>1, JoinedIs
<1>3. stops # {} /\ m \in n..Len(full) /\ e.text = SubSeq(full, 1, m)
  BY DEF Extends, Held, Streams, Stops
<1>4. stops \subseteq Nat
  BY <1>1, <1>2, StopsAre
<1> HIDE DEF full
<1>5. Min(stops) \in Nat /\ \A q \in stops : Min(stops) <= q
  BY <1>3, <1>4, MinIs
<1>6. Len(e.text) = m /\ \A k \in 1..m : e.text[k] = full[k]
  <2>1. \A i \in 1..m : full[i] \in Chars
    BY <1>1, <1>2, <1>3, ElementOfSeq DEF Text
  <2> QED
    BY <1>1, <1>2, <1>3, <2>1, SubSeqProperties
<1> HIDE DEF m, stops
<1>7. p + Len(w) <= m /\ m <= Len(full) /\ \A k \in 1..Len(w) : e.text[p + k] = w[k]
  BY <1>3, <1>6, <1>2, <1>1 DEF At
<1>8. At(full, w, p)
  <2>1. \A k \in 1..Len(w) : p + k \in 1..m
    BY <1>1, <1>2, <1>3, <1>7
  <2>2. p + Len(w) <= Len(full)
    BY <1>1, <1>2, <1>3, <1>7
  <2> QED
    BY <1>6, <1>7, <2>1, <2>2 DEF At
<1>9. p >= n /\ p + Len(w) > Len(s.text)
  BY <1>1, <1>8, NewStop DEF full
<1>10. PICK q \in Nat : n + q = p
  <2>1. p - n \in Nat /\ n + (p - n) = p
    BY <1>1, <1>9
  <2> QED
    BY <2>1
<1>11. q \in stops
  <2>1. At(full, w, n + q) /\ n + q + Len(w) + Len(tok) >= Len(full)
    BY <1>1, <1>2, <1>8, <1>9, <1>10, SMTT(30)
  <2> QED
    BY <1>1, <1>2, <2>1, StopsAre DEF stops
<1>12. m <= p
  BY <1>1, <1>5, <1>10, <1>11 DEF m
<1>13. m \in Nat
  BY <1>1, <1>5 DEF m
<1> QED
  BY <1>1, <1>7, <1>12, <1>13
-----------------------------------------------------------------------------
(* The slot, and the limits.                                               *)
Slot ==
  [map : Seq([text : Tokens, pos : Int]), first : Nat, text : Text, nSent : Nat, sent : Text,
   hasNewLine : BOOLEAN, lastNl : Nat, stop : {"none", "word", "limit", "eos"},
   next : BOOLEAN, decoded : Nat, used : Nat, running : BOOLEAN]

Counters(x, r) ==
  /\ r.map = x.map /\ r.first = x.first /\ r.nSent = x.nSent /\ r.sent = x.sent
  /\ r.used = x.used /\ r.decoded = x.decoded /\ r.running = x.running

(* A limit ends the generation, or not; the text is left alone.            *)
Goes(x, r) == \/ r.next = x.next /\ r.stop = x.stop
              \/ r.next = FALSE /\ r.stop = "limit"

Bounds(x, r) ==
  /\ r \in Slot /\ Counters(x, r) /\ Goes(x, r)
  /\ r.text = x.text /\ r.lastNl = x.lastNl

LEMMA LimitedIs ==
  ASSUME NEW x \in Slot
  PROVE  /\ Limited(x) \in Slot /\ Counters(x, Limited(x))
         /\ Limited(x).next = FALSE /\ Limited(x).stop = "limit"
         /\ Limited(x).text = x.text /\ Limited(x).lastNl = x.lastNl
         /\ Limited(x).hasNewLine = x.hasNewLine
BY DEF Slot, Limited, Counters

LEMMA ContextIs ==
  ASSUME NEW x \in Slot
  PROVE  Bounds(x, CheckContext(x)) /\ (CheckContext(x).next => x.used + 1 < NCtx)
<1>1. x.used \in Nat /\ NCtx \in Nat
  BY SizesAssumption DEF Slot
<1>2. Counters(x, x)
  BY DEF Counters
<1>3. CASE x.used + 1 >= NCtx
  BY <1>3, LimitedIs DEF CheckContext, Bounds, Goes
<1>4. CASE x.used + 1 < NCtx
  <2>1. CheckContext(x) = x
    BY <1>1, <1>4 DEF CheckContext
  <2> QED
    BY <1>2, <1>4, <2>1 DEF Bounds, Goes
<1> QED
  BY <1>1, <1>3, <1>4

LEMMA BudgetIs ==
  ASSUME NEW x \in Slot
  PROVE  Bounds(x, CheckBudget(x)) /\ (CheckBudget(x).next => x.decoded < NPredict)
<1>1. x.decoded \in Nat /\ NPredict \in Nat /\ x.next \in BOOLEAN
  BY SizesAssumption DEF Slot
<1>2. Counters(x, x)
  BY DEF Counters
<1>3. CASE x.next /\ NPredict - x.decoded <= 0
  BY <1>3, LimitedIs DEF CheckBudget, Bounds, Goes
<1>4. CASE ~(x.next /\ NPredict - x.decoded <= 0)
  <2>1. CheckBudget(x) = x
    BY <1>4 DEF CheckBudget
  <2>2. x.next => x.decoded < NPredict
    BY <1>1, <1>4
  <2> QED
    BY <1>2, <2>1, <2>2 DEF Bounds, Goes
<1> QED
  BY <1>3, <1>4

LEMMA NewLineIs ==
  ASSUME NEW x \in Slot, NEW shown, NEW late
  PROVE  Bounds(x, CheckNewLine(x, shown, late))
<1> DEFINE n == [x EXCEPT !.hasNewLine = TRUE]
<1>1. n \in Slot /\ Counters(x, n) /\ n.next = x.next /\ n.stop = x.stop
      /\ n.text = x.text /\ n.lastNl = x.lastNl
  BY DEF Slot, Counters
<1>2. Counters(x, x)
  BY DEF Counters
<1>3. CheckNewLine(x, shown, late) \in {x, n, Limited(n)}
  BY DEF CheckNewLine
<1> HIDE DEF n
<1>4. Bounds(x, x) /\ Bounds(x, n)
  BY <1>1, <1>2 DEF Bounds, Goes
<1>5. Bounds(x, Limited(n))
  BY <1>1, LimitedIs DEF Bounds, Goes, Counters
<1> QED
  BY <1>3, <1>4, <1>5

LEMMA EogIs ==
  ASSUME NEW x \in Slot, NEW tok
  PROVE  LET r == CheckEog(x, tok)
         IN  /\ r \in Slot /\ Counters(x, r) /\ r.text = x.text /\ r.lastNl = x.lastNl
             /\ tok # Eog => r.next = x.next /\ r.stop = x.stop
             /\ tok = Eog => r.next = FALSE /\ r.stop = "eos"
BY DEF CheckEog, Slot, Counters

(* The line is cut where its first word stands.                            *)
Cuts(x, r) ==
  /\ NIndent > 0 /\ r.stop = "limit" /\ r.next = FALSE
  /\ Begins(r.text, x.text) /\ Len(r.text) < r.lastNl + NIndent
  /\ \A i \in (r.lastNl + 1)..Len(r.text) : r.text[i] = Blank

LEMMA IndentIs ==
  ASSUME NEW x \in Slot
  PROVE  LET r == CheckIndent(x)
         IN  /\ r \in Slot /\ Counters(x, r) /\ Goes(x, r)
             /\ r.text = x.text \/ Cuts(x, r)
             /\ x.lastNl <= Len(x.text) => r.lastNl <= Len(r.text) \/ r.next = FALSE
<1> DEFINE words == Words(x.text, x.lastNl)
           cut   == [Limited(x) EXCEPT !.text = SubSeq(@, 1, Min(Words(@, x.lastNl)) - 1)]
           c     == IF Unindented(x) THEN cut ELSE x
           lines == Occurs(c.text, <<Line>>, c.lastNl)
           moved == [c EXCEPT !.lastNl = Min(lines) + 1]
           r     == CheckIndent(x)
<1>1. x.text \in Text /\ x.lastNl \in Nat /\ Len(x.text) \in Nat /\ NIndent \in Nat
  BY SizesAssumption, LenProperties DEF Slot, Text
<1>2. words \subseteq Nat /\ \A i \in words : i \in 1..Len(x.text) /\ i > x.lastNl /\ x.text[i] # Blank
  BY <1>1 DEF Words
<1>3. r = IF ~x.hasNewLine \/ NIndent = 0 \/ lines = {} THEN c ELSE moved
  BY DEF CheckIndent
<1> HIDE DEF words
<1>4. ASSUME Unindented(x)
      PROVE  /\ cut \in Slot /\ Counters(x, cut) /\ Cuts(x, cut) /\ cut.lastNl = x.lastNl
             /\ cut.next = FALSE /\ cut.stop = "limit"
             /\ \A i \in (x.lastNl + 1)..Len(cut.text) : cut.text[i] = Blank
  <2> DEFINE m == Min(words) - 1
             z == SubSeq(x.text, 1, m)
  <2>1. words # {} /\ Min(words) - 1 - x.lastNl < NIndent /\ NIndent > 0
    BY <1>4 DEF Unindented, words
  <2>2. Min(words) \in words /\ \A i \in words : Min(words) <= i
    BY <1>2, <2>1, MinIs
  <2>11. PICK v \in Nat : Min(words) = v
    BY <1>2, <2>2
  <2>12. v \in 1..Len(x.text) /\ v > x.lastNl /\ v - 1 - x.lastNl < NIndent /\ m = v - 1
    BY <1>2, <2>1, <2>2, <2>11
  <2>3. m \in 0..Len(x.text) /\ m >= x.lastNl /\ m < x.lastNl + NIndent
    <3>1. v - 1 \in 0..Len(x.text) /\ v - 1 >= x.lastNl /\ v - 1 < x.lastNl + NIndent
      BY <1>1, <2>12
    <3> QED
      BY <2>12, <3>1
  <2>4. \A i \in 1..m : x.text[i] \in Chars
    BY <1>1, <2>3, ElementOfSeq DEF Text
  <2>5. z \in Text /\ Len(z) = m /\ \A i \in 1..m : z[i] = x.text[i]
    BY <1>1, <2>3, <2>4, SubSeqProperties DEF Text
  <2>6. cut = [Limited(x) EXCEPT !.text = z]
    <3>1. Limited(x).text = x.text
      BY LimitedIs
    <3> QED
      BY <3>1 DEF words
  <2>7. ASSUME NEW i \in (x.lastNl + 1)..m PROVE x.text[i] = Blank
    <3>0. i \in (x.lastNl + 1)..(v - 1)
      BY <2>12
    <3>1. i \in 1..Len(x.text) /\ i > x.lastNl /\ ~(v <= i)
      BY <1>1, <2>12, <3>0
    <3>2. i \notin words
      BY <2>2, <2>11, <3>1
    <3> QED
      BY <1>1, <3>1, <3>2 DEF words, Words
  <2> HIDE DEF z, m, cut
  <2>8. /\ cut \in Slot /\ Counters(x, cut) /\ cut.text = z /\ cut.lastNl = x.lastNl
        /\ cut.next = FALSE /\ cut.stop = "limit"
    BY <2>5, <2>6, LimitedIs DEF Slot, Counters
  <2>9. Begins(z, x.text)
    BY <1>1, <2>3, <2>5 DEF Begins
  <2>10. \A i \in (x.lastNl + 1)..Len(z) : z[i] = Blank
    BY <1>1, <2>3, <2>5, <2>7
  <2> QED
    BY <2>1, <2>3, <2>5, <2>8, <2>9, <2>10 DEF Cuts
<1> HIDE DEF cut
<1>5. /\ c \in Slot /\ Counters(x, c) /\ Goes(x, c) /\ c.lastNl = x.lastNl
      /\ c.text = x.text \/ Cuts(x, c)
      /\ c = x \/ (c.next = FALSE /\ \A i \in (c.lastNl + 1)..Len(c.text) : c.text[i] = Blank)
  BY <1>4 DEF Goes, Counters
<1> HIDE DEF c
<1>6. c.text \in Text /\ Len(c.text) \in Nat /\ c.lastNl \in Nat
  BY <1>1, <1>5, LenProperties DEF Slot, Text
<1>7. ASSUME NEW p \in lines
      PROVE  p \in Nat /\ p >= c.lastNl /\ p + 1 <= Len(c.text) /\ c.text[p + 1] = Line
  <2> DEFINE w == <<Line>>
  <2>1. Len(w) = 1 /\ w[1] = Line
    OBVIOUS
  <2> HIDE DEF w
  <2>2. p \in c.lastNl..(Len(c.text) - 1) /\ SubSeq(c.text, p + 1, p + 1) = w
    BY <1>7, <2>1 DEF Occurs, w
  <2>3. p \in Nat /\ p >= c.lastNl /\ p + 1 <= Len(c.text)
    BY <1>6, <2>2
  <2>4. c.text[p + 1] \in Chars
    BY <1>6, <2>3, ElementOfSeq DEF Text
  <2>5. SubSeq(c.text, p + 1, p + 1)[1] = c.text[p + 1]
    <3>1. p + 1 \in Int /\ \A i \in (p + 1)..(p + 1) : c.text[i] \in Chars
      BY <2>3, <2>4
    <3>2. \A i \in 1..((p + 1) - (p + 1) + 1) : SubSeq(c.text, p + 1, p + 1)[i] = c.text[(p + 1) + i - 1]
      BY <3>1, SubSeqProperties
    <3>3. 1 \in 1..((p + 1) - (p + 1) + 1) /\ (p + 1) + 1 - 1 = p + 1
      BY <2>3
    <3> QED
      BY <3>2, <3>3
  <2> QED
    BY <2>1, <2>2, <2>3, <2>5
<1> HIDE DEF lines
<1>8. CASE r = c
  BY <1>5, <1>8 DEF Cuts
<1>9. CASE lines # {} /\ r = moved
  <2>1. Min(lines) \in lines
    BY <1>7, <1>9, MinIs
  <2>2. Min(lines) \in Nat /\ Min(lines) + 1 <= Len(c.text) /\ Min(lines) >= c.lastNl
        /\ c.text[Min(lines) + 1] = Line
    BY <1>7, <2>1
  <2>3. c = x
    <3>1. Min(lines) + 1 \in (c.lastNl + 1)..Len(c.text) /\ Line # Blank
      BY <1>6, <2>2 DEF Line, Blank
    <3> QED
      BY <1>5, <2>2, <3>1
  <2>4. /\ moved \in Slot /\ Counters(x, moved) /\ Goes(x, moved)
        /\ moved.text = x.text /\ moved.lastNl = Min(lines) + 1
    BY <2>2, <2>3, SMTT(30) DEF Slot, Counters, Goes
  <2> QED
    BY <1>9, <2>2, <2>3, <2>4
<1> QED
  BY <1>3, <1>8, <1>9

LEMMA LimitsAre ==
  ASSUME NEW x \in Slot, NEW shown, NEW late, NEW tok
  PROVE  LET r == CheckEog(CheckNewLine(CheckIndent(CheckBudget(CheckContext(x))), shown, late), tok)
         IN  /\ r \in Slot /\ Counters(x, r)
             /\ r.next => /\ x.next /\ r.stop = x.stop /\ tok # Eog /\ r.text = x.text
                          /\ x.used + 1 < NCtx /\ x.decoded < NPredict
                          /\ x.lastNl <= Len(x.text) => r.lastNl <= Len(r.text)
             /\ tok # Eog => r.stop \in {x.stop, "limit"}
             /\ r.text = x.text \/ (LineCut(r) /\ Begins(r.text, x.text))
<1> DEFINE c == CheckContext(x)
           b == CheckBudget(c)
           i == CheckIndent(b)
           l == CheckNewLine(i, shown, late)
           r == CheckEog(l, tok)
<1>1. c \in Slot /\ Bounds(x, c) /\ (c.next => x.used + 1 < NCtx)
  BY ContextIs DEF Bounds
<1> HIDE DEF c
<1>2. b \in Slot /\ Bounds(c, b) /\ (b.next => c.decoded < NPredict)
  BY <1>1, BudgetIs DEF Bounds
<1> HIDE DEF b
<1>3. /\ i \in Slot /\ Counters(b, i) /\ Goes(b, i)
      /\ i.text = b.text \/ Cuts(b, i)
      /\ b.lastNl <= Len(b.text) => i.lastNl <= Len(i.text) \/ i.next = FALSE
  BY <1>2, IndentIs
<1> HIDE DEF i
<1>4. l \in Slot /\ Bounds(i, l)
  BY <1>3, NewLineIs DEF Bounds
<1> HIDE DEF l
<1>5. /\ r \in Slot /\ Counters(l, r) /\ r.text = l.text /\ r.lastNl = l.lastNl
      /\ tok # Eog => r.next = l.next /\ r.stop = l.stop
      /\ tok = Eog => r.next = FALSE /\ r.stop = "eos"
  BY <1>4, EogIs
<1> HIDE DEF r
<1>6. Counters(x, r)
  BY <1>1, <1>2, <1>3, <1>4, <1>5 DEF Counters, Bounds
<1>7. ASSUME r.next
      PROVE  /\ x.next /\ r.stop = x.stop /\ tok # Eog /\ r.text = x.text
             /\ x.used + 1 < NCtx /\ x.decoded < NPredict
             /\ x.lastNl <= Len(x.text) => r.lastNl <= Len(r.text)
  <2>1. tok # Eog /\ l.next /\ r.stop = l.stop
    BY <1>5, <1>7
  <2>2. i.next /\ l.stop = i.stop /\ l.text = i.text /\ l.lastNl = i.lastNl
    BY <1>4, <2>1 DEF Bounds, Goes
  <2>3. b.next /\ i.stop = b.stop /\ i.text = b.text
    BY <1>3, <2>2 DEF Goes, Cuts
  <2>4. c.next /\ b.stop = c.stop /\ b.text = c.text /\ b.lastNl = c.lastNl /\ c.decoded < NPredict
    BY <1>2, <2>3 DEF Bounds, Goes
  <2>5. x.next /\ c.stop = x.stop /\ c.text = x.text /\ c.lastNl = x.lastNl
        /\ x.used + 1 < NCtx /\ c.decoded = x.decoded
    BY <1>1, <2>4 DEF Bounds, Goes, Counters
  <2>6. x.lastNl <= Len(x.text) => i.lastNl <= Len(i.text)
    BY <1>3, <2>2, <2>4, <2>5
  <2> QED
    BY <1>5, <2>1, <2>2, <2>3, <2>4, <2>5, <2>6
<1>8. tok # Eog => r.stop \in {x.stop, "limit"}
  BY <1>1, <1>2, <1>3, <1>4, <1>5 DEF Bounds, Goes
<1>9. r.text = x.text \/ (LineCut(r) /\ Begins(r.text, x.text))
  <2>1. b.text = x.text
    BY <1>1, <1>2 DEF Bounds
  <2>2. r.text = i.text /\ r.lastNl = i.lastNl
    BY <1>4, <1>5 DEF Bounds
  <2>3. CASE Cuts(b, i)
    <3>1. l.stop = "limit"
      BY <1>4, <2>3 DEF Bounds, Goes, Cuts
    <3>2. r.stop # "none"
      BY <1>5, <3>1
    <3> QED
      BY <2>1, <2>2, <2>3, <3>2 DEF Cuts, LineCut
  <2> QED
    BY <1>3, <2>1, <2>2, <2>3
<1> QED
  BY <1>5, <1>6, <1>7, <1>8, <1>9 DEF r, l, i, b, c
-----------------------------------------------------------------------------
(* What process_token keeps.                                               *)
Unmixed(s) == \A i \in (s.first + 1)..Len(s.map) : ~Mixed(s.map[i].text)

Ready(s) ==
  /\ s.stop = "none" /\ Begins(s.sent, s.text) /\ s.lastNl <= Len(s.text)
  /\ Unmixed(s) => Searched(s.text, s.nSent)

HeldBack(s) ==
  From(s.text, s.nSent) # <<>> =>
    \/ CutOff(s.text)
    \/ PartialStops(From(s.text, s.nSent)) # {} /\ s.stop \notin {"word", "eos"}
    \/ LineCut(s)

Streamed(s) ==
  /\ s.nSent = Len(s.sent)
  /\ Begins(s.sent, s.text) \/ (NIndent > 0 /\ s.stop # "none" /\ Begins(s.text, s.sent))

Clean(s) == Unmixed(s) => \A w \in StopWords, p \in Nat : ~At(s.sent, w, p)

Kept(s) ==
  /\ s \in Slot /\ s.first <= Len(s.map)
  /\ Streamed(s) /\ Clean(s) /\ HeldBack(s)
  /\ s.next => Ready(s)

LEMMA BothBegin ==
  ASSUME NEW a \in Text, NEW b \in Text, NEW c, Begins(a, c), Begins(b, c)
  PROVE  Begins(a, b) \/ Begins(b, a)
<1>1. Len(a) \in Nat /\ Len(b) \in Nat
  BY LenProperties DEF Text
<1>2. CASE Len(a) <= Len(b)
  BY <1>1, <1>2 DEF Begins
<1>3. CASE Len(b) <= Len(a)
  BY <1>1, <1>3 DEF Begins
<1> QED
  BY <1>1, <1>2, <1>3

LEMMA AtLonger ==
  ASSUME NEW a \in Text, NEW b \in Text, Begins(a, b), NEW w \in StopWords, NEW p \in Nat, At(a, w, p)
  PROVE  At(b, w, p)
<1>1. Len(a) \in Nat /\ Len(b) \in Nat /\ Len(w) \in Nat
  BY TextsAre, LenProperties DEF Text
<1>2. \A k \in 1..Len(w) : p + k \in 1..Len(a)
  BY <1>1 DEF At
<1> QED
  BY <1>1, <1>2 DEF At, Begins

(* The slot after its text was extended, before the limits.                *)
Taken(s, tok, e) ==
  [s EXCEPT !.map = Append(@, Entry(s, tok)), !.text = e.text,
            !.nSent = @ + Len(e.piece), !.sent = @ \o e.piece,
            !.stop = IF e.word THEN "word" ELSE @, !.next = ~e.word]

LEMMA TakenIs ==
  ASSUME NEW s, Kept(s), s.next, NEW tok \in Tokens, NEW e, Extends(s, tok, e)
  PROVE  LET t == Taken(s, tok, e)
         IN  /\ t \in Slot /\ t.first = s.first /\ t.first <= Len(t.map)
             /\ Len(t.map) = Len(s.map) + 1
             /\ t.used = s.used /\ t.decoded = s.decoded /\ t.running = s.running
             /\ t.nSent = Len(t.sent) /\ Begins(t.sent, t.text)
             /\ t.text = e.text /\ t.nSent = s.nSent + Len(e.piece)
             /\ t.stop = (IF e.word THEN "word" ELSE "none") /\ t.next = ~e.word
             /\ e.word = FALSE => t.lastNl <= Len(t.text)
             /\ Unmixed(t) => Unmixed(s) /\ ~Mixed(tok)
<1> DEFINE t == Taken(s, tok, e)
           entry == Entry(s, tok)
<1>1. /\ s \in Slot /\ s.first \in Nat /\ s.first <= Len(s.map) /\ s.stop = "none"
      /\ s.nSent = Len(s.sent) /\ s.sent \in Text /\ s.text \in Text /\ s.nSent \in Nat
      /\ Begins(s.sent, s.text) /\ s.lastNl <= Len(s.text) /\ s.lastNl \in Nat
      /\ s.map \in Seq([text : Tokens, pos : Int])
  BY DEF Kept, Ready, Streamed, Slot
<1>2. /\ tok \in Text /\ Len(tok) \in Nat /\ Len(s.text) \in Nat
      /\ e.text \in Text /\ e.piece \in Text /\ e.word \in BOOLEAN /\ Len(e.piece) \in Nat
  BY <1>1, TextsAre, LenProperties DEF Text, Extends, Held, Streams, Stops
<1>3. entry \in [text : Tokens, pos : Int] /\ entry.text = tok
  BY <1>2 DEF Entry
<1> HIDE DEF entry
<1>4. /\ Append(s.map, entry) \in Seq([text : Tokens, pos : Int])
      /\ Len(Append(s.map, entry)) = Len(s.map) + 1 /\ Len(s.map) \in Nat
      /\ \A i \in 1..Len(s.map) : Append(s.map, entry)[i] = s.map[i]
      /\ Append(s.map, entry)[Len(s.map) + 1] = entry
  BY <1>1, <1>3, AppendProperties, LenProperties
<1>5. /\ s.sent \o e.piece \in Text /\ Len(s.sent \o e.piece) = s.nSent + Len(e.piece)
      /\ Begins(s.sent \o e.piece, e.text)
  BY <1>1, SentGrows
<1>6. t = [s EXCEPT !.map = Append(@, entry), !.text = e.text,
                    !.nSent = @ + Len(e.piece), !.sent = @ \o e.piece,
                    !.stop = IF e.word THEN "word" ELSE @, !.next = ~e.word]
  BY DEF Taken, entry
<1> HIDE DEF t
<1>7. /\ t \in Slot /\ t.first = s.first /\ t.map = Append(s.map, entry)
      /\ t.used = s.used /\ t.decoded = s.decoded /\ t.running = s.running
      /\ t.sent = s.sent \o e.piece /\ t.nSent = s.nSent + Len(e.piece) /\ t.text = e.text
      /\ t.stop = (IF e.word THEN "word" ELSE "none") /\ t.next = ~e.word
      /\ t.lastNl = s.lastNl
  <2> DEFINE map   == Append(s.map, entry)
             count == s.nSent + Len(e.piece)
             sent  == s.sent \o e.piece
             stop  == IF e.word THEN "word" ELSE s.stop
             next  == ~e.word
  <2>1. /\ count \in Nat /\ next \in BOOLEAN /\ stop \in {"none", "word", "limit", "eos"}
        /\ s \in Slot /\ e.text \in Text
    <3>1. s.nSent \in Nat /\ Len(e.piece) \in Nat /\ s \in Slot /\ e.text \in Text
      BY <1>1, <1>2
    <3>2. count \in Nat
      BY <3>1
    <3>3. stop \in {"none", "word", "limit", "eos"}
      BY <1>1
    <3>4. next \in BOOLEAN
      BY Zenon
    <3> QED
      BY <3>1, <3>2, <3>3, <3>4
  <2>2. t = [s EXCEPT !.map = map, !.text = e.text, !.nSent = count, !.sent = sent,
                      !.stop = stop, !.next = next]
    BY <1>6
  <2>3. stop = IF e.word THEN "word" ELSE "none"
    BY <1>1
  <2>4. map \in Seq([text : Tokens, pos : Int]) /\ sent \in Text
    BY <1>4, <1>5
  <2> HIDE DEF map, count, sent, stop, next
  <2>5. /\ t \in Slot /\ t.first = s.first /\ t.map = map
        /\ t.used = s.used /\ t.decoded = s.decoded /\ t.running = s.running
        /\ t.sent = sent /\ t.nSent = count /\ t.text = e.text
        /\ t.stop = stop /\ t.next = next /\ t.lastNl = s.lastNl
    BY <2>1, <2>2, <2>4 DEF Slot
  <2> QED
    BY <2>3, <2>5 DEF map, count, sent, next
<1>8. ASSUME e.word = FALSE PROVE t.lastNl <= Len(t.text)
  <2>1. e.text = s.text \o tok
    BY <1>8 DEF Extends, Held, Streams, Stops
  <2>2. Len(e.text) = Len(s.text) + Len(tok)
    BY <1>1, <1>2, <2>1, JoinedIs
  <2> QED
    BY <1>1, <1>2, <1>7, <2>2
<1>9. ASSUME Unmixed(t) PROVE Unmixed(s) /\ ~Mixed(tok)
  <2>1. \A i \in (s.first + 1)..(Len(s.map) + 1) : ~Mixed(Append(s.map, entry)[i].text)
    BY <1>4, <1>7, <1>9 DEF Unmixed
  <2>2. \A i \in (s.first + 1)..Len(s.map) : i \in 1..Len(s.map) /\ i \in (s.first + 1)..(Len(s.map) + 1)
    BY <1>1, <1>4
  <2>3. Len(s.map) + 1 \in (s.first + 1)..(Len(s.map) + 1)
    BY <1>1, <1>4
  <2>4. Unmixed(s)
    BY <1>4, <2>1, <2>2 DEF Unmixed
  <2> QED
    BY <1>3, <1>4, <2>1, <2>3, <2>4
<1>10. t.first <= Len(t.map) /\ Len(t.map) = Len(s.map) + 1
  BY <1>1, <1>4, <1>7
<1> QED
  BY <1>5, <1>7, <1>8, <1>9, <1>10 DEF t

LEMMA ProcessIs ==
  ASSUME NEW s, Kept(s), s.next, NEW tok \in Tokens, NEW late
  PROVE  LET r == process_token(s, tok, late)
         IN  /\ Kept(r) /\ r.first = s.first /\ Len(r.map) = Len(s.map) + 1
             /\ r.used = s.used /\ r.decoded = s.decoded /\ r.running = s.running
             /\ r.next => s.used + 1 < NCtx /\ s.decoded < NPredict
<1> DEFINE e == Extend(s, tok)
           t == Taken(s, tok, e)
           r == process_token(s, tok, late)
           n == s.nSent
<1>1. /\ s \in Slot /\ s.text \in Text /\ s.sent \in Text /\ n = Len(s.sent)
      /\ Begins(s.sent, s.text) /\ n \in 0..Len(s.text) /\ Len(s.text) \in Nat
      /\ Unmixed(s) => Searched(s.text, n)
  BY LenProperties DEF Kept, Ready, Streamed, Slot, Text, Begins
<1>2. Extends(s, tok, e)
  BY <1>1, ExtendIs
<1>3. r = CheckEog(CheckNewLine(CheckIndent(CheckBudget(CheckContext(t))), e.shown, late), tok)
  BY DEF process_token, Taken
<1> HIDE DEF e
<1>4. /\ t \in Slot /\ t.first = s.first /\ t.first <= Len(t.map)
      /\ Len(t.map) = Len(s.map) + 1
      /\ t.used = s.used /\ t.decoded = s.decoded /\ t.running = s.running
      /\ t.nSent = Len(t.sent) /\ Begins(t.sent, t.text)
      /\ t.text = e.text /\ t.nSent = n + Len(e.piece)
      /\ t.stop = (IF e.word THEN "word" ELSE "none") /\ t.next = ~e.word
      /\ e.word = FALSE => t.lastNl <= Len(t.text)
      /\ Unmixed(t) => Unmixed(s) /\ ~Mixed(tok)
  BY <1>2, TakenIs
<1> HIDE DEF t, r
<1>5. /\ r \in Slot /\ Counters(t, r)
      /\ r.next => /\ t.next /\ r.stop = t.stop /\ tok # Eog /\ r.text = t.text
                   /\ t.used + 1 < NCtx /\ t.decoded < NPredict
                   /\ t.lastNl <= Len(t.text) => r.lastNl <= Len(r.text)
      /\ tok # Eog => r.stop \in {t.stop, "limit"}
      /\ r.text = t.text \/ (LineCut(r) /\ Begins(r.text, t.text))
  BY <1>3, <1>4, LimitsAre
<1>6. /\ t.text \in Text /\ t.sent \in Text /\ r.text \in Text /\ r.sent = t.sent
      /\ r.nSent = t.nSent /\ r.map = t.map /\ r.first = t.first
  BY <1>4, <1>5 DEF Slot, Counters
<1>7. Streamed(r)
  <2>1. CASE r.text = t.text
    BY <1>4, <1>6, <2>1 DEF Streamed
  <2>2. CASE LineCut(r) /\ Begins(r.text, t.text)
    <3>1. Begins(r.text, r.sent) \/ Begins(r.sent, r.text)
      BY <1>4, <1>6, <2>2, BothBegin
    <3> QED
      BY <1>4, <1>6, <2>2, <3>1 DEF Streamed, LineCut
  <2> QED
    BY <1>5, <2>1, <2>2
<1>8. e.word \in BOOLEAN /\ (e.word = FALSE => e.text = s.text \o tok)
  BY <1>2 DEF Extends, Held, Streams, Stops
<1>9. Unmixed(r) => Unmixed(s) /\ ~Mixed(tok)
  BY <1>4, <1>6 DEF Unmixed
<1>10. ASSUME Unmixed(r), NEW w \in StopWords, NEW p \in Nat PROVE ~At(t.text, w, p)
  <2>1. CASE e.word
    BY <1>1, <1>2, <1>4, <1>9, <1>10, <2>1, NoneBefore
  <2>2. CASE e.word = FALSE
    BY <1>1, <1>2, <1>4, <1>8, <1>9, <1>10, <2>2, NoneUnfound
  <2> QED
    BY <1>8, <2>1, <2>2
<1>11. Clean(r)
  BY <1>4, <1>6, <1>10, AtLonger DEF Clean
<1>12. HeldBack(r)
  <2>1. CASE LineCut(r)
    BY <2>1 DEF HeldBack
  <2>2. CASE r.text = e.text /\ Held(s, tok, e)
    <3>1. t.nSent = n /\ r.nSent = n
      <4>1. Len(e.piece) = 0 /\ n \in Nat
        BY <1>1, <2>2, EmptySeq DEF Held
      <4> QED
        BY <1>4, <1>6, <4>1
    <3>2. tok # Eog => r.stop \in {"none", "limit"}
      BY <1>4, <1>5, <2>2 DEF Held
    <3> QED
      BY <2>2, <3>1, <3>2 DEF HeldBack, Held, Unsent
  <2>3. CASE r.text = e.text /\ ~Held(s, tok, e)
    <3>1. e.piece = <<>> \/ t.nSent = Len(e.text)
      BY <1>1, <1>2, <1>4, SentGrows
    <3>2. e.piece = From(e.text, n)
      BY <1>2, <2>3 DEF Extends, Streams, Stops
    <3>3. ASSUME e.piece = <<>> PROVE From(r.text, r.nSent) = <<>>
      <4>1. Len(e.piece) = 0
        BY <3>3, EmptySeq
      <4>2. r.nSent = n
        BY <1>1, <1>4, <1>6, <4>1
      <4> QED
        BY <2>3, <3>2, <3>3, <4>2
    <3>4. ASSUME t.nSent = Len(e.text) PROVE From(r.text, r.nSent) = <<>>
      <4>1. r.text \in Text /\ r.nSent \in Nat /\ r.nSent = Len(r.text)
        BY <1>5, <1>6, <2>3, <3>4 DEF Slot
      <4> QED
        BY <4>1, FromIs
    <3> QED
      BY <3>1, <3>3, <3>4 DEF HeldBack
  <2> QED
    BY <1>4, <1>5, <2>1, <2>2, <2>3
<1>13. ASSUME r.next PROVE Ready(r)
  <2>1. t.next /\ e.word = FALSE /\ tok # Eog /\ r.text = t.text /\ r.stop = "none"
    BY <1>4, <1>5, <1>8, <1>13
  <2>2. r.lastNl <= Len(r.text)
    BY <1>4, <1>5, <1>13, <2>1
  <2>3. ASSUME Unmixed(r), NEW w \in StopWords, NEW p \in Nat, p < r.nSent
        PROVE  ~Begun(r.text, w, p)
    BY <1>1, <1>2, <1>4, <1>6, <1>8, <1>9, <2>1, <2>3, NoneBegun
  <2>4. Unmixed(r) => Searched(r.text, r.nSent)
    BY <1>10, <2>1, <2>3 DEF Searched
  <2> QED
    BY <1>4, <1>6, <2>1, <2>2, <2>4 DEF Ready
<1>14. Kept(r)
  BY <1>4, <1>5, <1>6, <1>7, <1>11, <1>12, <1>13 DEF Kept
<1> QED
  BY <1>4, <1>5, <1>6, <1>14 DEF Counters, r
-----------------------------------------------------------------------------
(* Accepted tokens: the recursive function has a value, and what holds of  *)
(* the slot after each of them.                                            *)
Credited(s, n) == [s EXCEPT !.used = @ + n, !.decoded = @ + n]

Given(x, tok, late) == IF x.next THEN process_token(x, tok, late) ELSE x

Chain(g, s, ids, late, n) ==
  g = [k \in 0..n |-> IF k = 0 THEN Credited(s, Len(ids)) ELSE Given(g[k - 1], ids[k], late)]

LEMMA ChainExists ==
  ASSUME NEW s, NEW ids, NEW late, NEW n \in Nat
  PROVE  \E g : Chain(g, s, ids, late, n)
<1> DEFINE Has(m) == \E g : Chain(g, s, ids, late, m)
           Bad == {m \in Nat : ~Has(m)}
<1>1. Has(0)
  <2> DEFINE g == [k \in 0..0 |-> Credited(s, Len(ids))]
  <2>1. \A k \in 0..0 : k = 0
    OBVIOUS
  <2>2. g = [k \in 0..0 |-> IF k = 0 THEN Credited(s, Len(ids)) ELSE Given(g[k - 1], ids[k], late)]
    BY <2>1
  <2> QED
    BY <2>2 DEF Chain
<1>2. ASSUME NEW m \in Nat, m # 0, Has(m - 1) PROVE Has(m)
  <2>1. PICK g : Chain(g, s, ids, late, m - 1)
    BY <1>2
  <2> DEFINE h == [k \in 0..m |-> IF k = m THEN Given(g[m - 1], ids[m], late) ELSE g[k]]
  <2>2. ASSUME NEW k \in 0..m
        PROVE  h[k] = IF k = 0 THEN Credited(s, Len(ids)) ELSE Given(h[k - 1], ids[k], late)
    <3>1. CASE k = m
      <4>1. m - 1 \in 0..m /\ m - 1 # m
        BY <1>2
      <4>2. h[m - 1] = g[m - 1] /\ h[m] = Given(g[m - 1], ids[m], late)
        BY <4>1
      <4> QED
        BY <1>2, <3>1, <4>2
    <3>2. CASE k # m
      <4>1. k \in 0..(m - 1) /\ h[k] = g[k]
        BY <3>2
      <4>2. g[k] = IF k = 0 THEN Credited(s, Len(ids)) ELSE Given(g[k - 1], ids[k], late)
        BY <2>1, <4>1 DEF Chain
      <4>3. k # 0 => h[k - 1] = g[k - 1]
        BY <3>2, <4>1
      <4> QED
        BY <4>1, <4>2, <4>3
    <3> QED
      BY <3>1, <3>2
  <2>3. h = [k \in 0..m |-> h[k]]
    OBVIOUS
  <2> HIDE DEF h
  <2>4. h = [k \in 0..m |-> IF k = 0 THEN Credited(s, Len(ids)) ELSE Given(h[k - 1], ids[k], late)]
    BY <2>2, <2>3
  <2> QED
    BY <2>4 DEF Chain
<1>3. ASSUME Bad # {} PROVE FALSE
  <2>1. PICK m \in Bad : \A y \in Bad : m <= y
    BY <1>3, LeastNat
  <2> HIDE DEF Has
  <2>2. m \in Nat /\ m # 0 /\ ~Has(m)
    BY <1>1, <2>1
  <2>3. m - 1 \in Nat /\ m - 1 \notin Bad
    BY <2>1, <2>2
  <2> QED
    BY <1>2, <2>2, <2>3
<1> QED
  BY <1>3

LEMMA HandedIs ==
  ASSUME NEW s, NEW ids \in Seq(Tokens), NEW late
  PROVE  LET h == Handed(s, ids, late)
         IN  /\ h[0] = Credited(s, Len(ids))
             /\ \A k \in 1..Len(ids) : h[k] = Given(h[k - 1], ids[k], late)
<1> DEFINE h == Handed(s, ids, late)
<1>1. Len(ids) \in Nat
  BY LenProperties
<1>2. PICK g : Chain(g, s, ids, late, Len(ids))
  BY <1>1, ChainExists
<1>3. h = CHOOSE f : f = [k \in 0..Len(ids) |->
             IF k = 0 THEN Credited(s, Len(ids)) ELSE Given(f[k - 1], ids[k], late)]
  BY Zenon DEF Handed, Credited, Given
<1>4. Chain(h, s, ids, late, Len(ids))
  BY <1>2, <1>3 DEF Chain
<1> HIDE DEF h
<1>5. 0 \in 0..Len(ids) /\ \A k \in 1..Len(ids) : k \in 0..Len(ids) /\ k # 0
  BY <1>1
<1> QED
  BY <1>4, <1>5 DEF Chain, h

(* The counters have other values, or the slot goes on or not.             *)
SameText(a, c) ==
  /\ c \in Slot /\ c.map = a.map /\ c.first = a.first /\ c.text = a.text /\ c.nSent = a.nSent
  /\ c.sent = a.sent /\ c.lastNl = a.lastNl /\ c.stop = a.stop /\ c.next = a.next

LEMMA SameTextIs ==
  ASSUME NEW s, Kept(s), NEW c, SameText(s, c)
  PROVE  Kept(c)
<1>1. Unmixed(c) <=> Unmixed(s)
  BY DEF Unmixed, SameText
<1>2. Streamed(c) /\ Clean(c) /\ HeldBack(c) /\ c.first <= Len(c.map)
  BY <1>1 DEF Kept, Streamed, Clean, HeldBack, LineCut, SameText
<1>3. c.next => Ready(c)
  BY <1>1 DEF Kept, Ready, SameText
<1> QED
  BY <1>2, <1>3 DEF Kept, SameText

LEMMA CreditedIs ==
  ASSUME NEW s, Kept(s), NEW n \in Nat, NEW c, c = Credited(s, n)
  PROVE  /\ Kept(c) /\ c.map = s.map /\ c.first = s.first /\ c.running = s.running
         /\ c.next = s.next /\ c.used = s.used + n /\ c.decoded = s.decoded + n
<1> DEFINE u == s.used + n
           d == s.decoded + n
<1>1. u \in Nat /\ d \in Nat
  BY DEF Kept, Slot
<1>2. c = [s EXCEPT !.used = u, !.decoded = d]
  BY DEF Credited
<1> HIDE DEF u, d
<1>3. SameText(s, c) /\ c.running = s.running /\ c.used = u /\ c.decoded = d
  BY <1>1, <1>2 DEF Kept, Slot, SameText
<1> QED
  BY <1>3, SameTextIs DEF SameText, u, d

LEMMA RunningIs ==
  ASSUME NEW s, Kept(s), NEW b \in BOOLEAN, NEW c, c = [s EXCEPT !.running = b]
  PROVE  /\ Kept(c) /\ c.map = s.map /\ c.first = s.first /\ c.next = s.next
         /\ c.used = s.used /\ c.decoded = s.decoded /\ c.running = b
<1>1. SameText(s, c) /\ c.running = b /\ c.used = s.used /\ c.decoded = s.decoded
  BY DEF Kept, Slot, SameText
<1> QED
  BY <1>1, SameTextIs DEF SameText

(* After k of the accepted tokens.                                         *)
Along(s, ids, k, r) ==
  /\ Kept(r) /\ r.first = s.first /\ r.running = s.running
  /\ r.used = s.used + Len(ids) /\ r.decoded = s.decoded + Len(ids)
  /\ Len(r.map) <= Len(s.map) + k
  /\ r.next => s.next /\ (k > 0 => r.used + 1 < NCtx /\ r.decoded < NPredict)

LEMMA HandedKeeps ==
  ASSUME NEW s, Kept(s), NEW ids \in Seq(Tokens), NEW late
  PROVE  Along(s, ids, Len(ids), Accept(s, ids, late))
<1> DEFINE h == Handed(s, ids, late)
           Bad == {k \in 0..Len(ids) : ~Along(s, ids, k, h[k])}
<1>1. Len(ids) \in Nat /\ \A k \in 1..Len(ids) : ids[k] \in Tokens
  BY LenProperties, ElementOfSeq
<1>2. /\ h[0] = Credited(s, Len(ids))
      /\ \A k \in 1..Len(ids) : h[k] = Given(h[k - 1], ids[k], late)
  BY HandedIs
<1>3. \A x : Kept(x) => Len(x.map) \in Nat /\ x.used \in Nat /\ x.decoded \in Nat
  BY LenProperties DEF Kept, Slot
<1> HIDE DEF h
<1>4. Along(s, ids, 0, h[0])
  <2>1. LET c == h[0]
        IN  /\ Kept(c) /\ c.map = s.map /\ c.first = s.first /\ c.running = s.running
            /\ c.next = s.next /\ c.used = s.used + Len(ids) /\ c.decoded = s.decoded + Len(ids)
    BY <1>1, <1>2, CreditedIs
  <2>2. Len(s.map) \in Nat
    BY <1>3
  <2> QED
    BY <2>1, <2>2 DEF Along
<1>5. ASSUME NEW k \in 1..Len(ids), Along(s, ids, k - 1, h[k - 1])
      PROVE  Along(s, ids, k, h[k])
  <2> DEFINE x == h[k - 1]
  <2>1. /\ Kept(x) /\ x.first = s.first /\ x.running = s.running
        /\ x.used = s.used + Len(ids) /\ x.decoded = s.decoded + Len(ids)
        /\ Len(x.map) <= Len(s.map) + (k - 1) /\ (x.next => s.next)
    BY <1>5 DEF Along
  <2>2. h[k] = Given(x, ids[k], late)
    BY <1>2
  <2> HIDE DEF x
  <2>3. Len(x.map) \in Nat /\ Len(s.map) \in Nat /\ k \in Nat
    BY <1>1, <1>3, <2>1
  <2>4. CASE x.next
    <3> DEFINE r == process_token(x, ids[k], late)
    <3>1. /\ Kept(r) /\ r.first = x.first /\ Len(r.map) = Len(x.map) + 1
          /\ r.used = x.used /\ r.decoded = x.decoded /\ r.running = x.running
          /\ r.next => x.used + 1 < NCtx /\ x.decoded < NPredict
      BY <1>1, <2>1, <2>4, ProcessIs
    <3>2. h[k] = r
      BY <2>2, <2>4 DEF Given
    <3> HIDE DEF r
    <3>3. Len(r.map) <= Len(s.map) + k
      BY <2>1, <2>3, <3>1
    <3> QED
      BY <2>1, <2>4, <3>1, <3>2, <3>3 DEF Along
  <2>5. CASE ~x.next
    <3>1. h[k] = x
      BY <2>2, <2>5 DEF Given
    <3>2. Len(x.map) <= Len(s.map) + k
      BY <2>1, <2>3
    <3> QED
      BY <2>1, <2>5, <3>1, <3>2 DEF Along
  <2> QED
    BY <2>4, <2>5
<1>6. Bad = {}
  <2> SUFFICES ASSUME Bad # {} PROVE FALSE
    OBVIOUS
  <2>1. PICK k \in Bad : \A y \in Bad : k <= y
    <3>1. Bad \subseteq Nat
      BY <1>1
    <3> HIDE DEF Bad
    <3> QED
      BY <3>1, LeastNat
  <2>2. k \in 1..Len(ids)
    BY <1>1, <1>4, <2>1
  <2>3. k - 1 \in 0..Len(ids) /\ ~(k <= k - 1)
    BY <1>1, <2>2
  <2>4. Along(s, ids, k - 1, h[k - 1])
    BY <2>1, <2>3
  <2> QED
    BY <1>5, <2>1, <2>2, <2>4
<1>7. Len(ids) \in 0..Len(ids)
  BY <1>1
<1> QED
  BY <1>6, <1>7 DEF Accept, h

(* What is drafted fits into the context and the budget.                   *)
LEMMA MinOfThree ==
  ASSUME NEW a \in Int, NEW b \in Int, NEW c \in Int
  PROVE  LET m == Min({a, b, c}) IN m \in Int /\ m <= a /\ m <= b /\ m <= c
<1> DEFINE T == {a, b, c}
<1>1. \E x \in T : \A y \in T : x <= y
  OBVIOUS
<1>2. Min(T) \in T /\ \A y \in T : Min(T) <= y
  BY <1>1 DEF Min
<1> QED
  BY <1>2

LEMMA AcceptedFit ==
  ASSUME NEW s \in Slot, NEW ids \in Accepted(s)
  PROVE  /\ ids \in Seq(Tokens) /\ Len(ids) \in Nat
         /\ Len(ids) > 0 => /\ s.used + Len(ids) < NCtx
                            /\ s.decoded + Len(ids) <= NPredict
<1>1. /\ s.used \in Nat /\ s.decoded \in Nat /\ NCtx \in Nat /\ NPredict \in Nat
      /\ DraftMax \in Nat /\ MaxMap \in Nat /\ Len(s.map) \in Nat
  BY SizesAssumption, LenProperties DEF Slot
<1>2. CASE ids = <<>>
  BY <1>2, EmptySeq
<1>3. CASE ids # <<>>
  <2> DEFINE d == DraftRoom(s)
             m == MaxMap - Len(s.map)
  <2>1. PICK n \in 1..Min({d + 1, m}) : ids \in [1..n -> Tokens]
    BY <1>3 DEF Accepted
  <2>2. d \in Int /\ d <= NCtx - s.used - 2 /\ d <= NPredict - s.decoded - 1
    <3> DEFINE a == NCtx - s.used - 2
               b == NPredict - s.decoded - 1
    <3>1. DraftMax \in Int /\ a \in Int /\ b \in Int
      BY <1>1
    <3>2. d = Min({DraftMax, a, b})
      BY DEF DraftRoom
    <3> HIDE DEF a, b, d
    <3>3. d \in Int /\ d <= a /\ d <= b
      BY <3>1, <3>2, MinOfThree
    <3> QED
      BY <3>3 DEF a, b
  <2> HIDE DEF d
  <2>3. d + 1 \in Int /\ m \in Int
    BY <1>1, <2>2
  <2> HIDE DEF m
  <2>4. Min({d + 1, m}) \in Int /\ Min({d + 1, m}) <= d + 1
    <3>1. LET k == Min({d + 1, m, m}) IN k \in Int /\ k <= d + 1
      BY <2>3, MinOfThree
    <3>2. {d + 1, m, m} = {d + 1, m}
      OBVIOUS
    <3> QED
      BY <3>1, <3>2
  <2>5. n \in Nat /\ n > 0 /\ n <= d + 1
    BY <2>1, <2>2, <2>4
  <2>6. ids \in Seq(Tokens) /\ Len(ids) = n
    BY <2>1, <2>5, LenProperties
  <2>7. s.used + n < NCtx /\ s.decoded + n <= NPredict
    BY <1>1, <2>2, <2>5, SMTT(30)
  <2> QED
    BY <2>5, <2>6, <2>7
<1> QED
  BY <1>2, <1>3
-----------------------------------------------------------------------------
(* The inductive invariant: the slot keeps what process_token keeps, and   *)
(* while it runs another token fits into the context and the budget.       *)
Limits(s) ==
  /\ s.used < NCtx /\ s.decoded <= NPredict /\ Len(s.map) <= s.first + s.decoded
  /\ s.running => /\ s.next /\ s.decoded < NPredict
                  /\ s.decoded # 0 => s.used + 1 < NCtx

TextInv == Kept(slot) /\ Limits(slot)

LEMMA FreshKept ==
  ASSUME NEW map \in Seq([text : Tokens, pos : Int]), NEW n \in 0..(NCtx - 1), NEW b \in BOOLEAN,
         NEW r, r = [map |-> map, first |-> Len(map), text |-> <<>>, nSent |-> 0, sent |-> <<>>,
                     hasNewLine |-> FALSE, lastNl |-> 0, stop |-> "none", next |-> TRUE,
                     decoded |-> 0, used |-> n, running |-> b]
  PROVE  Kept(r) /\ Limits(r)
<1> DEFINE none == <<>>
<1>1. NCtx \in Nat \ {0} /\ NPredict \in Nat \ {0} /\ Len(map) \in Nat /\ n \in Nat /\ n < NCtx
  BY SizesAssumption, LenProperties
<1>2. none \in Text /\ Len(none) = 0
  BY EmptySeq DEF Text
<1>3. r = [map |-> map, first |-> Len(map), text |-> none, nSent |-> 0, sent |-> none,
           hasNewLine |-> FALSE, lastNl |-> 0, stop |-> "none", next |-> TRUE, decoded |-> 0,
           used |-> n, running |-> b]
  OBVIOUS
<1> HIDE DEF none
<1>4. /\ r \in Slot /\ r.map = map /\ r.first = Len(map) /\ r.text = none /\ r.nSent = 0
      /\ r.sent = none /\ r.lastNl = 0 /\ r.stop = "none" /\ r.next = TRUE /\ r.decoded = 0
      /\ r.used = n /\ r.running = b
  BY <1>1, <1>2, <1>3 DEF Slot
<1>5. \A w \in StopWords, p \in Nat : ~At(none, w, p)
  BY <1>2, TextsAre DEF At
<1>6. Begins(none, none)
  BY <1>2 DEF Begins
<1>7. Searched(none, 0)
  BY <1>5 DEF Searched
<1>8. From(none, 0) = <<>>
  BY <1>2, FromIs
<1>9. Streamed(r) /\ Clean(r) /\ HeldBack(r)
  BY <1>2, <1>4, <1>5, <1>6, <1>8 DEF Streamed, Clean, HeldBack
<1>10. Ready(r)
  BY <1>2, <1>4, <1>6, <1>7 DEF Ready
<1>11. Limits(r)
  BY <1>1, <1>4 DEF Limits
<1> QED
  BY <1>1, <1>4, <1>9, <1>10, <1>11 DEF Kept

LEMMA InitText == Init => TextInv
<1> SUFFICES ASSUME Init PROVE TextInv
  OBVIOUS
<1>1. <<>> \in Seq([text : Tokens, pos : Int])
  BY EmptySeq
<1>2. 0 \in 0..(NCtx - 1)
  BY SizesAssumption
<1>3. slot = [map |-> <<>>, first |-> Len(<<>>), text |-> <<>>, nSent |-> 0, sent |-> <<>>,
              hasNewLine |-> FALSE, lastNl |-> 0, stop |-> "none", next |-> TRUE,
              decoded |-> 0, used |-> 0, running |-> FALSE]
  BY DEF Init, Reset
<1> QED
  BY <1>1, <1>2, <1>3, FreshKept DEF TextInv

LEMMA NextText == TextInv /\ [Next]_vars => TextInv'
<1> SUFFICES ASSUME TextInv, [Next]_vars PROVE TextInv'
  OBVIOUS
<1>1. CASE Launch
  <2>1. PICK map \in {slot.map, <<>>}, n \in NPrompts : slot' = Reset(map, n)
    BY <1>1 DEF Launch
  <2>2. map \in Seq([text : Tokens, pos : Int]) /\ n \in 0..(NCtx - 1)
    <3>1. slot.map \in Seq([text : Tokens, pos : Int]) /\ <<>> \in Seq([text : Tokens, pos : Int])
      BY EmptySeq DEF TextInv, Kept, Slot
    <3>2. n \in 0..(NCtx - 1)
      BY SizesAssumption
    <3>3. map \in Seq([text : Tokens, pos : Int])
      BY <3>1, Zenon
    <3> QED
      BY <3>2, <3>3
  <2>3. Reset(map, n) = [map |-> map, first |-> Len(map), text |-> <<>>, nSent |-> 0,
                         sent |-> <<>>, hasNewLine |-> FALSE, lastNl |-> 0, stop |-> "none",
                         next |-> TRUE, decoded |-> 0, used |-> n, running |-> TRUE]
    BY DEF Reset
  <2>4. Kept(Reset(map, n)) /\ Limits(Reset(map, n))
    BY <2>2, <2>3, FreshKept
  <2> QED
    BY <2>1, <2>4 DEF TextInv
<1>2. CASE Decode
  <2>1. PICK o : o = slot
    OBVIOUS
  <2> DEFINE u == IF o.decoded = 0 THEN o.used ELSE o.used + 1
             d == o.decoded + 1
             x == [o EXCEPT !.used = u, !.decoded = d]
  <2>2. PICK tok \in Tokens, late \in BOOLEAN :
          \E ids \in Accepted(process_token(x, tok, late)) :
            LET t == Accept(process_token(x, tok, late), ids, late)
            IN  slot' = [t EXCEPT !.running = t.next]
    <3>1. x = [slot EXCEPT !.used = IF slot.decoded = 0 THEN slot.used ELSE slot.used + 1,
                           !.decoded = slot.decoded + 1]
      BY <2>1
    <3>2. \A b \in (IF TimeLimit THEN BOOLEAN ELSE {FALSE}) : b \in BOOLEAN
      OBVIOUS
    <3> DEFINE y == [slot EXCEPT !.used = IF slot.decoded = 0 THEN slot.used ELSE slot.used + 1,
                                 !.decoded = slot.decoded + 1]
    <3>3. PICK tok \in Tokens, late \in (IF TimeLimit THEN BOOLEAN ELSE {FALSE}) :
            LET s == process_token(y, tok, late)
            IN  \E ids \in Accepted(s) :
                  LET t == Accept(s, ids, late) IN slot' = [t EXCEPT !.running = t.next]
      BY <1>2, Zenon DEF Decode
    <3>4. x = y
      BY <3>1
    <3> HIDE DEF x, y
    <3>5. LET s == process_token(x, tok, late)
          IN  \E ids \in Accepted(s) :
                LET t == Accept(s, ids, late) IN slot' = [t EXCEPT !.running = t.next]
      BY <3>3, <3>4
    <3> QED
      BY <3>2, <3>5
  <2> DEFINE s == process_token(x, tok, late)
  <2>3. PICK ids \in Accepted(s) :
          LET t == Accept(s, ids, late) IN slot' = [t EXCEPT !.running = t.next]
    BY <2>2
  <2> DEFINE t == Accept(s, ids, late)
             r == [t EXCEPT !.running = t.next]
  <2>4. Kept(o) /\ Limits(o) /\ o.running
    BY <1>2, <2>1 DEF TextInv, Decode
  <2>5. /\ o \in Slot /\ o.next /\ o.used \in Nat /\ o.decoded \in Nat /\ o.decoded < NPredict
        /\ o.used < NCtx /\ (o.decoded # 0 => o.used + 1 < NCtx)
        /\ Len(o.map) <= o.first + o.decoded /\ Len(o.map) \in Nat /\ o.first \in Nat
        /\ NCtx \in Nat /\ NPredict \in Nat
    BY <2>4, SizesAssumption, LenProperties DEF Kept, Slot, Limits
  <2>6. u \in Nat /\ d \in Nat /\ u < NCtx /\ d <= NPredict /\ Len(o.map) + 1 <= o.first + d
    BY <2>5, SMTT(30)
  <2> HIDE DEF u, d
  <2>7. Kept(x) /\ x.next /\ x.map = o.map /\ x.first = o.first /\ x.used = u /\ x.decoded = d
    <3>1. u \in Nat /\ d \in Nat /\ o.next
      BY <2>5, <2>6
    <3>2. x = [o EXCEPT !.used = u, !.decoded = d]
      OBVIOUS
    <3> HIDE DEF x
    <3>3. SameText(o, x) /\ x.used = u /\ x.decoded = d
      BY <2>5, <3>1, <3>2 DEF Slot, SameText
    <3> QED
      BY <2>4, <3>1, <3>3, SameTextIs DEF SameText
  <2> HIDE DEF x, s
  <2>8. /\ Kept(s) /\ s.first = o.first /\ Len(s.map) = Len(o.map) + 1
        /\ s.used = u /\ s.decoded = d /\ (s.next => u + 1 < NCtx /\ d < NPredict)
    BY <2>7, ProcessIs DEF s
  <2>9. /\ ids \in Seq(Tokens) /\ Len(ids) \in Nat
        /\ Len(ids) > 0 => u + Len(ids) < NCtx /\ d + Len(ids) <= NPredict
    BY <2>8, AcceptedFit DEF Kept
  <2>10. Along(s, ids, Len(ids), t)
    BY <2>8, <2>9, HandedKeeps
  <2> HIDE DEF t
  <2>11. /\ Kept(t) /\ t.first = o.first /\ t.used = u + Len(ids) /\ t.decoded = d + Len(ids)
         /\ Len(t.map) <= Len(s.map) + Len(ids)
         /\ t.next => s.next /\ (Len(ids) > 0 => t.used + 1 < NCtx /\ t.decoded < NPredict)
    BY <2>8, <2>10 DEF Along
  <2>12. Len(t.map) \in Nat /\ t.next \in BOOLEAN
    BY <2>11, LenProperties DEF Kept, Slot
  <2>13. t.used < NCtx /\ t.decoded <= NPredict /\ Len(t.map) <= t.first + t.decoded
    <3>1. CASE Len(ids) = 0
      BY <2>5, <2>6, <2>8, <2>9, <2>11, <2>12, <3>1
    <3>2. CASE Len(ids) > 0
      BY <2>5, <2>6, <2>8, <2>9, <2>11, <2>12, <3>2, SMTT(30)
    <3> QED
      BY <2>9, <3>1, <3>2
  <2>14. t.next => t.used + 1 < NCtx /\ t.decoded < NPredict
    <3>1. CASE Len(ids) = 0
      BY <2>6, <2>8, <2>11, <3>1
    <3>2. CASE Len(ids) > 0
      BY <2>11, <3>2
    <3> QED
      BY <2>9, <3>1, <3>2
  <2>15. /\ Kept(r) /\ r.next = t.next /\ r.map = t.map /\ r.first = t.first
         /\ r.used = t.used /\ r.decoded = t.decoded /\ r.running = t.next
    <3>1. r = [t EXCEPT !.running = t.next]
      OBVIOUS
    <3> HIDE DEF r
    <3> QED
      BY <2>11, <2>12, <3>1, RunningIs
  <2> HIDE DEF r
  <2>16. Kept(r) /\ Limits(r)
    BY <2>13, <2>14, <2>15 DEF Limits
  <2> QED
    BY <2>3, <2>16 DEF TextInv, r, t
<1>3. CASE UNCHANGED vars
  BY <1>3 DEF TextInv, vars
<1> QED
  BY <1>1, <1>2, <1>3 DEF Next

(* The invariant holds in every state.                                     *)
THEOREM AlwaysKept == Spec => []TextInv
BY InitText, NextText, PTL DEF Spec

(* The fields of the slot have their types: positions, counters, and the   *)
(* line that the indentation of the next is checked against.               *)
THEOREM WellTyped == Spec => []TypeOK
<1>1. TextInv => TypeOK
  <2> SUFFICES ASSUME TextInv PROVE TypeOK
    OBVIOUS
  <2>1. slot \in Slot /\ slot.first <= Len(slot.map) /\ (slot.next => slot.lastNl <= Len(slot.text))
    BY DEF TextInv, Kept, Ready
  <2>2. /\ slot.first \in Nat /\ slot.lastNl \in Nat /\ Len(slot.map) \in Nat /\ Len(slot.text) \in Nat
        /\ slot.map \in Seq([text : Tokens, pos : Int])
        /\ slot.stop \in {"none", "word", "limit", "eos"} /\ slot.decoded \in Nat /\ slot.used \in Nat
    BY <2>1, LenProperties DEF Slot, Text
  <2>3. slot.next \in BOOLEAN /\ slot.running \in BOOLEAN /\ slot.hasNewLine \in BOOLEAN
    BY <2>1 DEF Slot
  <2>4. \A i \in DOMAIN slot.map : slot.map[i] \in [text : Tokens, pos : Int]
    BY <2>2, ElementOfSeq, LenProperties
  <2>5. \A i \in DOMAIN slot.map : slot.map[i].text \in Tokens /\ slot.map[i].pos \in Int
    BY <2>4
  <2>6. slot.first \in 0..Len(slot.map) /\ (slot.lastNl \in 0..Len(slot.text) \/ ~slot.next)
    BY <2>1, <2>2
  <2> QED
    BY <2>2, <2>3, <2>5, <2>6 DEF TypeOK
<1> QED
  BY <1>1, AlwaysKept, PTL

(* What the client was sent is the beginning of the generated text: no     *)
(* character is sent twice, left out or taken back, for any tokens and     *)
(* stop words; only a line that is cut was sent before it is cut.          *)
THEOREM StreamedOnce == Spec => []StreamedIsText
<1>1. TextInv => StreamedIsText
  <2> SUFFICES ASSUME TextInv PROVE StreamedIsText
    OBVIOUS
  <2>1. Streamed(slot) /\ slot.text \in Text /\ slot.sent \in Text
    BY DEF TextInv, Kept, Slot
  <2> QED
    BY <2>1, IsPrefixIs DEF Streamed, StreamedIsText
<1> QED
  BY <1>1, AlwaysKept, PTL

(* The entries from an offset on.                                          *)
LEMMA SuffixIs ==
  ASSUME NEW S, NEW m \in Seq(S), NEW f \in 0..Len(m)
  PROVE  LET a == SubSeq(m, f + 1, Len(m))
         IN  /\ a \in Seq(S) /\ Len(a) = Len(m) - f
             /\ \A k \in 1..(Len(m) - f) : a[k] = m[f + k]
<1> DEFINE a == SubSeq(m, f + 1, Len(m))
<1>1. PICK n \in Nat : n = Len(m)
  BY LenProperties
<1>2. f \in Nat /\ f <= n /\ f + 1 \in Int
  BY <1>1
<1>3. \A i \in (f + 1)..n : i \in 1..Len(m)
  BY <1>1, <1>2
<1>4. \A i \in (f + 1)..n : m[i] \in S
  BY <1>3, ElementOfSeq
<1>5. /\ SubSeq(m, f + 1, n) \in Seq(S)
      /\ Len(SubSeq(m, f + 1, n)) = IF f + 1 <= n THEN n - (f + 1) + 1 ELSE 0
      /\ \A i \in 1..(n - (f + 1) + 1) : SubSeq(m, f + 1, n)[i] = m[(f + 1) + i - 1]
  BY <1>1, <1>2, <1>4, SubSeqProperties
<1>6. n - (f + 1) + 1 = n - f /\ (~(f + 1 <= n) => n - f = 0)
  BY <1>1, <1>2
<1>7. ASSUME NEW k \in 1..(n - f) PROVE (f + 1) + k - 1 = f + k
  BY <1>2
<1> QED
  BY <1>1, <1>5, <1>6, <1>7

LEMMA NowhereIs ==
  ASSUME NEW text \in Text, NEW w \in Text, \A p \in Nat : ~At(text, w, p)
  PROVE  Occurs(text, w, 0) = {}
<1> SUFFICES ASSUME NEW p \in Occurs(text, w, 0) PROVE FALSE
  OBVIOUS
<1>1. Len(text) \in Nat /\ Len(w) \in Nat
  BY LenProperties DEF Text
<1>2. p \in Nat
  BY <1>1 DEF Occurs
<1> QED
  BY <1>2, OccursIs

(* No stop word is in what the client was sent, however the tokens split   *)
(* it, if no token of the answer has text before a cut-off character.      *)
THEOREM NoStopWords == Spec => []StopWordsKept
<1>1. TextInv => StopWordsKept
  <2> SUFFICES ASSUME TextInv, \A i \in DOMAIN Answer : ~Mixed(Answer[i].text),
                      NEW w \in StopWords
               PROVE  Occurs(slot.sent, w, 0) = {}
    BY DEF StopWordsKept
  <2>1. PICK s : s = slot
    OBVIOUS
  <2>2. /\ s \in Slot /\ s.first \in Nat /\ s.first <= Len(s.map) /\ s.sent \in Text
        /\ s.map \in Seq([text : Tokens, pos : Int]) /\ Len(s.map) \in Nat /\ Clean(s)
    BY <2>1, LenProperties DEF TextInv, Kept, Slot
  <2>3. PICK a : a = SubSeq(s.map, s.first + 1, Len(s.map))
    OBVIOUS
  <2>4. \A i \in DOMAIN a : ~Mixed(a[i].text)
    BY <2>1, <2>3 DEF Answer
  <2>5. ASSUME NEW i \in (s.first + 1)..Len(s.map) PROVE ~Mixed(s.map[i].text)
    <3>1. PICK k \in 1..(Len(s.map) - s.first) : i = s.first + k
      <4>1. i - s.first \in 1..(Len(s.map) - s.first) /\ i = s.first + (i - s.first)
        BY <2>2
      <4> QED
        BY <4>1
    <3>2. s.first \in 0..Len(s.map)
      BY <2>2
    <3>3. Len(a) = Len(s.map) - s.first /\ \A j \in 1..(Len(s.map) - s.first) : a[j] = s.map[s.first + j]
      BY <2>2, <2>3, <3>2, SuffixIs
    <3>4. k \in DOMAIN a
      <4>1. a \in Seq([text : Tokens, pos : Int])
        BY <2>2, <2>3, <3>2, SuffixIs
      <4> QED
        BY <3>1, <3>3, <4>1, LenProperties
    <3> QED
      BY <2>4, <3>1, <3>3, <3>4
  <2>6. \A p \in Nat : ~At(s.sent, w, p)
    BY <2>2, <2>5 DEF Clean, Unmixed
  <2> QED
    <3>1. w \in Text /\ s.sent \in Text
      BY <2>2, TextsAre
    <3>2. Occurs(s.sent, w, 0) = {}
      BY <2>6, <3>1, NowhereIs
    <3> QED
      BY <2>1, <3>2
<1> QED
  BY <1>1, AlwaysKept, PTL

(* What the client has not been sent has to be held back: it may become a  *)
(* stop word or a character, or belongs to a line that was cut.            *)
THEOREM HeldBackOnly == Spec => []OnlyHeldBack
<1>1. TextInv => OnlyHeldBack
  BY DEF TextInv, Kept, HeldBack, OnlyHeldBack
<1> QED
  BY <1>1, AlwaysKept, PTL

(* The budget and the context hold for any draft: the cells that a slot    *)
(* uses stay below n_ctx, and no answer has more than n_predict tokens.    *)
THEOREM LimitsHold == Spec => []WithinLimits
<1>1. TextInv => WithinLimits
  <2> SUFFICES ASSUME TextInv PROVE WithinLimits
    OBVIOUS
  <2>1. PICK s : s = slot
    OBVIOUS
  <2>2. /\ s.first \in Nat /\ s.first <= Len(s.map) /\ Len(s.map) \in Nat /\ s.decoded \in Nat
        /\ s.map \in Seq([text : Tokens, pos : Int])
        /\ s.used < NCtx /\ s.decoded <= NPredict /\ Len(s.map) <= s.first + s.decoded
    BY <2>1, LenProperties DEF TextInv, Kept, Slot, Limits
  <2>3. s.first \in 0..Len(s.map) /\ Len(s.map) - s.first <= s.decoded
    BY <2>2
  <2>4. Len(SubSeq(s.map, s.first + 1, Len(s.map))) = Len(s.map) - s.first
    BY <2>2, <2>3, SuffixIs
  <2> QED
    BY <2>1, <2>2, <2>3, <2>4 DEF WithinLimits, Answer
<1> QED
  BY <1>1, AlwaysKept, PTL
-----------------------------------------------------------------------------
(* The text of the token map, and the range of an excerpt.                 *)
Flat(g, seqs, n) == g = [i \in 1..n |-> IF i = 1 THEN seqs[i] ELSE g[i - 1] \o seqs[i]]

LEMMA FlatExists ==
  ASSUME NEW seqs, NEW n \in Nat
  PROVE  \E g : Flat(g, seqs, n)
<1> DEFINE Has(m) == \E g : Flat(g, seqs, m)
           Bad == {m \in Nat : ~Has(m)}
<1>1. Has(0)
  <2> DEFINE g == [i \in 1..0 |-> 0]
  <2>1. 1..0 = {}
    OBVIOUS
  <2>2. g = [i \in 1..0 |-> IF i = 1 THEN seqs[i] ELSE g[i - 1] \o seqs[i]]
    BY <2>1
  <2> QED
    BY <2>2 DEF Flat
<1>2. ASSUME NEW m \in Nat, m # 0, Has(m - 1) PROVE Has(m)
  <2>1. PICK g : Flat(g, seqs, m - 1)
    BY <1>2
  <2> DEFINE h == [i \in 1..m |-> IF i # m THEN g[i] ELSE IF m = 1 THEN seqs[m]
                                 ELSE g[m - 1] \o seqs[m]]
  <2>2. ASSUME NEW i \in 1..m
        PROVE  h[i] = IF i = 1 THEN seqs[i] ELSE h[i - 1] \o seqs[i]
    <3>1. CASE i = m
      <4>1. m # 1 => m - 1 \in 1..m /\ m - 1 # m
        BY <1>2
      <4>2. m # 1 => h[m - 1] = g[m - 1]
        BY <4>1
      <4> QED
        BY <1>2, <3>1, <4>2
    <3>2. CASE i # m
      <4>1. i \in 1..(m - 1) /\ h[i] = g[i]
        BY <3>2
      <4>2. g[i] = IF i = 1 THEN seqs[i] ELSE g[i - 1] \o seqs[i]
        BY <2>1, <4>1 DEF Flat
      <4>3. i # 1 => h[i - 1] = g[i - 1]
        BY <3>2, <4>1
      <4> QED
        BY <4>1, <4>2, <4>3
    <3> QED
      BY <3>1, <3>2
  <2>3. h = [i \in 1..m |-> h[i]]
    OBVIOUS
  <2> HIDE DEF h
  <2>4. h = [i \in 1..m |-> IF i = 1 THEN seqs[i] ELSE h[i - 1] \o seqs[i]]
    BY <2>2, <2>3
  <2> QED
    BY <2>4 DEF Flat
<1>3. ASSUME Bad # {} PROVE FALSE
  <2>1. PICK m \in Bad : \A y \in Bad : m <= y
    BY <1>3, LeastNat
  <2> HIDE DEF Has
  <2>2. m \in Nat /\ m # 0 /\ ~Has(m)
    BY <1>1, <2>1
  <2>3. m - 1 \in Nat /\ m - 1 \notin Bad
    BY <2>1, <2>2
  <2> QED
    BY <1>2, <2>2, <2>3
<1> QED
  BY <1>3

LEMMA FlattenIs ==
  ASSUME NEW seqs \in Seq(Text)
  PROVE  FlattenSeq(seqs) \in Text
<1> DEFINE n == Len(seqs)
           f == CHOOSE g : g = [i \in 1..n |-> IF i = 1 THEN seqs[i] ELSE g[i - 1] \o seqs[i]]
           Bad == {i \in 1..n : f[i] \notin Text}
<1>1. n \in Nat /\ \A i \in 1..n : seqs[i] \in Text
  BY LenProperties, ElementOfSeq
<1>2. FlattenSeq(seqs) = IF n = 0 THEN seqs ELSE f[n]
  BY Zenon DEF FlattenSeq
<1>3. n = 0 => seqs = <<>>
  BY EmptySeq
<1> HIDE DEF n
<1>4. PICK g : Flat(g, seqs, n)
  BY <1>1, FlatExists
<1>5. Flat(f, seqs, n)
  BY <1>4 DEF Flat
<1> HIDE DEF f
<1>6. \A i \in 1..n : f[i] = IF i = 1 THEN seqs[i] ELSE f[i - 1] \o seqs[i]
  BY <1>5 DEF Flat
<1>7. Bad = {}
  <2> SUFFICES ASSUME Bad # {} PROVE FALSE
    OBVIOUS
  <2>1. Bad \subseteq Nat
    BY <1>1
  <2>2. PICK i \in Bad : \A y \in Bad : i <= y
    <3> HIDE DEF Bad
    <3> QED
      BY <2>1, LeastNat
  <2>3. i \in 1..n /\ f[i] \notin Text
    BY <2>2
  <2>4. CASE i = 1
    BY <1>1, <1>6, <2>3, <2>4
  <2>5. CASE i # 1
    <3>1. i - 1 \in 1..n /\ ~(i <= i - 1)
      BY <1>1, <2>3, <2>5
    <3>2. f[i - 1] \in Text
      BY <2>2, <3>1
    <3>3. f[i] = f[i - 1] \o seqs[i]
      BY <1>6, <2>3, <2>5
    <3>4. seqs[i] \in Text
      BY <1>1, <2>3
    <3> QED
      BY <2>3, <3>2, <3>3, <3>4, JoinedIs
  <2> QED
    BY <2>4, <2>5
<1>8. CASE n = 0
  BY <1>2, <1>3, <1>8, EmptySeq DEF Text
<1>9. CASE n # 0
  <2>1. n \in 1..n
    BY <1>1, <1>9
  <2> QED
    BY <1>2, <1>7, <1>9, <2>1
<1> QED
  BY <1>8, <1>9

LEMMA RangeIs ==
  ASSUME NEW map \in Seq([text : Tokens, pos : Int]), NEW e \in Text, e # <<>>
  PROVE  LET r == find_token_range(map, e)
         IN  r.start # -1 => 0 <= r.start /\ r.start < r.end /\ r.end <= Len(map)
<1> DEFINE found  == Occurs(MapText(map), e, 0)
           f      == Min(found)
           behind == {i \in DOMAIN map : map[i].pos >= Min(found) + Len(e)}
           last   == IF behind = {} THEN Len(map) ELSE Min(behind)
           starts == Spanning(map, Min(found), last)
           start  == IF starts = {} THEN -1 ELSE Min(starts) - 1
           end    == IF behind # {} THEN last - 1 ELSE IF start # -1 THEN Len(map) ELSE -1
           r      == find_token_range(map, e)
<1>1. r = IF found = {} THEN [start |-> -1, end |-> -1] ELSE [start |-> start, end |-> end]
  BY DEF find_token_range
<1>2. Len(map) \in Nat /\ DOMAIN map = 1..Len(map) /\ Len(e) \in Nat /\ Len(e) # 0
      /\ \A i \in 1..Len(map) : map[i].pos \in Int /\ map[i].text \in Tokens
  <2>1. \A i \in 1..Len(map) : map[i] \in [text : Tokens, pos : Int]
    BY ElementOfSeq
  <2> QED
    BY <2>1, LenProperties, EmptySeq DEF Text
<1>3. MapText(map) \in Text
  <2> DEFINE seqs == [i \in 1..Len(map) |-> map[i].text]
  <2>1. \A i \in 1..Len(map) : map[i].text \in Text
    BY <1>2, TextsAre
  <2>2. seqs \in Seq(Text)
    BY <1>2, <2>1
  <2> HIDE DEF seqs
  <2>3. FlattenSeq(seqs) \in Text
    BY <2>2, FlattenIs
  <2> QED
    BY <2>3 DEF MapText, seqs
<1>4. found \subseteq Nat
  <2>1. Len(MapText(map)) \in Nat
    BY <1>3, LenProperties DEF Text
  <2> QED
    BY <1>2, <2>1 DEF Occurs
<1> HIDE DEF r, found, start, end
<1> SUFFICES ASSUME found # {}, start # -1
             PROVE  0 <= start /\ start < end /\ end <= Len(map)
  <2>1. (found = {} => r.start = -1) /\ (found # {} => r.start = start /\ r.end = end)
    BY <1>1
  <2>2. r.start # -1 => 0 <= r.start /\ r.start < r.end /\ r.end <= Len(map)
    BY <2>1
  <2> QED
    BY <2>2 DEF r
<1>5. f \in Nat
  BY <1>4, MinIs
<1>6. behind \subseteq 1..Len(map) /\ \A i \in behind : map[i].pos >= f + Len(e)
  BY <1>2
<1>7. \A i \in behind : map[i].pos > f /\ map[i].pos >= 0
  BY <1>2, <1>5, <1>6
<1> HIDE DEF f, behind
<1>8. last \in Nat /\ last <= Len(map) /\ (behind # {} => last \in behind /\ last >= 1)
  <2>1. CASE behind = {}
    BY <1>2, <2>1
  <2>2. CASE behind # {}
    <3>1. behind \subseteq Nat
      BY <1>2, <1>6
    <3>2. PICK v : v = Min(behind)
      OBVIOUS
    <3>3. v \in behind /\ last = v
      BY <2>2, <3>1, <3>2, MinIs
    <3>4. v \in Nat /\ v <= Len(map) /\ v >= 1
      <4>1. v \in 1..Len(map)
        BY <1>6, <3>3
      <4> HIDE DEF last, starts
      <4> QED
        BY <1>2, <4>1
    <3> QED
      BY <3>3, <3>4
  <2> QED
    BY <2>1, <2>2
<1> HIDE DEF last
<1>9. starts \subseteq 1..last /\ \A i \in starts : AsSize(map[i].pos) <= f
  BY DEF Spanning, Position, f
<1>10. behind # {} => last \notin starts
  BY <1>5, <1>7, <1>8, <1>9, <1>2, <1>6 DEF AsSize
<1> HIDE DEF starts
<1>11. starts # {} /\ starts \subseteq Nat
  BY <1>8, <1>9 DEF start
<1>12. PICK k : k = Min(starts)
  OBVIOUS
<1>13. k \in starts /\ k \in Nat /\ k >= 1 /\ k <= last /\ start = k - 1
  <2>1. k \in starts
    BY <1>11, <1>12, MinIs
  <2>2. k \in Nat /\ k >= 1 /\ k <= last
    BY <1>8, <1>9, <2>1
  <2>3. start = k - 1
    BY <1>11, <1>12 DEF start
  <2> QED
    BY <2>1, <2>2, <2>3
<1>14. CASE behind = {}
  <2>1. end = Len(map) /\ last = Len(map)
    BY <1>14 DEF last, end
  <2> QED
    BY <1>2, <1>13, <2>1
<1>15. CASE behind # {}
  <2>1. end = last - 1 /\ k # last
    BY <1>10, <1>13, <1>15 DEF end
  <2> QED
    BY <1>2, <1>8, <1>13, <2>1
<1> QED
  BY <1>14, <1>15

(* The range that a branch gets for an excerpt of the answer lies in the   *)
(* token map and is not inverted, whatever the positions in the map are.   *)
THEOREM RangesInOrder == Spec => []RangeOrdered
<1>1. TextInv => RangeOrdered
  <2> SUFFICES ASSUME TextInv, NEW e \in Excerpts(slot.text)
               PROVE  LET r == find_token_range(slot.map, e)
                      IN  r.start # -1 => 0 <= r.start /\ r.start < r.end /\ r.end <= Len(slot.map)
    BY DEF RangeOrdered
  <2>1. slot.map \in Seq([text : Tokens, pos : Int]) /\ slot.text \in Text
    BY DEF TextInv, Kept, Slot
  <2>2. PICK t \in Text : t = slot.text
    BY <2>1
  <2>3. PICK i \in 1..Len(t), j \in 1..Len(t) : e = SubSeq(t, i, j) /\ e # <<>>
    BY <2>2 DEF Excerpts
  <2>4. e \in Text
    <3>1. Len(t) \in Nat
      BY LenProperties DEF Text
    <3>2. \A k \in i..j : t[k] \in Chars
      <4>1. \A k \in i..j : k \in 1..Len(t)
        BY <3>1
      <4> QED
        BY <4>1, ElementOfSeq DEF Text
    <3> QED
      BY <2>3, <3>1, <3>2, SubSeqProperties DEF Text
  <2> QED
    BY <2>1, <2>3, <2>4, RangeIs
<1> QED
  BY <1>1, AlwaysKept, PTL
=============================================================================

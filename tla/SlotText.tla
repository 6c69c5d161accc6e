------------------------------- MODULE SlotText -------------------------------
(***************************************************************************)
(* What a slot makes of the tokens it samples (process_token and the end   *)
(* of update_slots in backend/tools/server/server.cpp): the generated      *)
(* text, the pieces of it that are streamed, the stop words that are held  *)
(* back and cut off, the limits that end it, accepted drafts, and the      *)
(* token map in which a branch finds the tokens of an excerpt.             *)
(*                                                                         *)
(* A text is a sequence of characters and a token is its text; the token   *)
(* that ends a generation has none.  A character of more than one byte is  *)
(* the pair Lead, Trail, which tokens may separate.  Offsets count from 0, *)
(* as in the code.                                                         *)
(***************************************************************************)
EXTENDS Integers, Sequences, SequencesExt, FiniteSets, FiniteSetsExt

CONSTANTS
  Tokens,       \* the tokens a model may sample
  StopWords,    \* params.antiprompt
  NPredict,     \* params.n_predict
  NCtx,         \* the slot's n_ctx, without context shift
  NPrompts,     \* the numbers of tokens that prompts have
  NIndent,      \* params.n_indent
  TimeLimit,    \* params.t_max_predict_ms is set
  DraftMax,     \* params.speculative.n_max
  MaxMap        \* bound: tokens in the token map

Lead  == "L"
Trail == "C"
Line  == "n"
Blank == " "

ASSUME SizesAssumption ==
  /\ NPredict \in Nat \ {0} /\ NIndent \in Nat /\ DraftMax \in Nat /\ MaxMap \in Nat
  /\ NCtx \in Nat \ {0} /\ NPrompts \subseteq 1..(NCtx - 1)
  /\ TimeLimit \in BOOLEAN

VARIABLE
  slot          \* the fields of server_slot that these functions work on, the
                \* text the client was sent, and where this answer's map begins

vars == slot

Eog == <<>>
CutOff(text) == text # <<>> /\ Last(text) = Lead          \* validate_utf8

(* Tokens and stop words are texts; a stop word, which comes from a JSON   *)
(* request, is not empty and does not end in the middle of a character.    *)
Chars == UNION {ToSet(t) : t \in Tokens \cup StopWords}

ASSUME TextAssumption == Tokens \subseteq Seq(Chars) /\ StopWords \subseteq Seq(Chars)
ASSUME StopsAssumption == \A w \in StopWords : w # <<>> /\ ~CutOff(w)

(* From offset p on. *)
From(text, p) == SubSeq(text, p + 1, Len(text))

(* Where a word occurs in a text at or after an offset. *)
Occurs(text, word, from) ==
  {p \in from..(Len(text) - Len(word)) : SubSeq(text, p + 1, p + Len(word)) = word}

(* server_slot::reset for a prompt of n tokens; the token map stays. *)
Reset(map, n) ==
  [map |-> map, first |-> Len(map), text |-> <<>>, nSent |-> 0, sent |-> <<>>, hasNewLine |-> FALSE,
   lastNl |-> 0, stop |-> "none", next |-> TRUE, decoded |-> 0, used |-> n,
   running |-> TRUE]

Init == slot = [Reset(<<>>, 0) EXCEPT !.running = FALSE]
-----------------------------------------------------------------------------
(* Mutant of FullStops: a stop word must end where the token ends. *)
FullStopsAtEnd(test, last) ==
  UNION {Occurs(test, w, Max({0, Len(test) - Len(w)})) : w \in StopWords}

(* find_stopping_strings for whole words: only what can end in the last    *)
(* token is searched, as the rest was searched before.                     *)
FullStops(test, last) ==
  UNION {Occurs(test, w, Max({0, Len(test) - (Len(w) + last)})) : w \in StopWords}

(* string_find_partial_stop: ends of a text that begin a stop word. *)
PartialStops(test) ==
  {p \in 0..(Len(test) - 1) : \E w \in StopWords : IsPrefix(From(test, p), w)}

(* The generated text with a token, and the piece of it that is sent when  *)
(* `free` says that nothing must be held back.  While the last character   *)
(* is cut off nothing is sent; a stop word ends the text.                  *)
Extended(s, tok, free, Piece(_)) ==
  LET full  == s.text \o tok
      pos   == Min({s.nSent, Len(full)})
      stops == FullStops(From(full, pos), Len(tok))
      text  == IF stops = {} THEN full ELSE SubSeq(full, 1, pos + Min(stops))
      piece == IF stops # {} \/ free \/ PartialStops(From(full, pos)) = {}
               THEN Piece(text) ELSE <<>>
  IN  IF CutOff(full)
      THEN [text |-> full, piece |-> <<>>, shown |-> tok, word |-> FALSE]
      ELSE [text |-> text, piece |-> piece, shown |-> piece, word |-> stops # {}]

(* Mutant of Extend: a token is sent without what was held back before it. *)
ExtendSendsToken(s, tok) == Extended(s, tok, tok = Eog, LAMBDA text : tok)

(* Mutant of Extend: the last token is held back like any other. *)
ExtendHoldsAtEnd(s, tok) == Extended(s, tok, FALSE, LAMBDA text : From(text, s.nSent))

(* A possible beginning of a stop word is held back, unless this is the    *)
(* last token; then all that was not sent is.                              *)
Extend(s, tok) == Extended(s, tok, tok = Eog, LAMBDA text : From(text, s.nSent))

(* The end of the line before, where the indentation of this one begins. *)
Words(text, pos) == {i \in (pos + 1)..Len(text) : text[i] # Blank}

(* The line is not indented enough and is cut. *)
Unindented(s) ==
  /\ s.hasNewLine /\ NIndent > 0 /\ s.lastNl > 0
  /\ Words(s.text, s.lastNl) # {}
  /\ Min(Words(s.text, s.lastNl)) - 1 - s.lastNl < NIndent

Limited(s) == [s EXCEPT !.stop = "limit", !.next = FALSE]

CheckContext(s) == IF s.used + 1 >= NCtx THEN Limited(s) ELSE s
CheckBudget(s)  == IF s.next /\ NPredict - s.decoded <= 0 THEN Limited(s) ELSE s
CheckIndent(s) ==
  LET c     == IF Unindented(s)
               THEN [Limited(s) EXCEPT
                      !.text = SubSeq(@, 1, Min(Words(@, s.lastNl)) - 1)]
               ELSE s
      lines == Occurs(c.text, <<Line>>, c.lastNl)
  IN  IF ~s.hasNewLine \/ NIndent = 0 \/ lines = {} THEN c
      ELSE [c EXCEPT !.lastNl = Min(lines) + 1]
CheckNewLine(s, shown, late) ==
  IF Line \notin ToSet(shown) THEN s
  ELSE LET n == [s EXCEPT !.hasNewLine = TRUE]
       IN  IF TimeLimit /\ late THEN Limited(n) ELSE n
CheckEog(s, tok) ==
  IF tok = Eog THEN [s EXCEPT !.stop = "eos", !.next = FALSE] ELSE s

(* The entry of a token in the token map; its text is not yet a part of    *)
(* the generated text.                                                     *)
Entry(s, tok) == [text |-> tok, pos |-> Len(s.text) - Len(tok)]

(* process_token. *)
process_token(s, tok, late) ==
  LET e == Extend(s, tok)
      t == [s EXCEPT !.map = Append(@, Entry(s, tok)), !.text = e.text,
                     !.nSent = @ + Len(e.piece), !.sent = @ \o e.piece,
                     !.stop = IF e.word THEN "word" ELSE @, !.next = ~e.word]
  IN  CheckEog(CheckNewLine(CheckIndent(CheckBudget(CheckContext(t))), e.shown, late), tok)
-----------------------------------------------------------------------------
(* Mutant of Launch: the position of the last line is not reset. *)
LaunchKeepsLine ==
  /\ ~slot.running /\ Len(slot.map) < MaxMap
  /\ \E map \in {slot.map, <<>>}, n \in NPrompts :
       slot' = [Reset(map, n) EXCEPT !.lastNl = slot.lastNl]

(* A task is launched on the slot, as a branch with a fresh context or not. *)
Launch ==
  /\ ~slot.running
  /\ Len(slot.map) < MaxMap                                \* bound MaxMap
  /\ \E map \in {slot.map, <<>>}, n \in NPrompts : slot' = Reset(map, n)

(* Mutant of DraftRoom: one more token is drafted than the context holds. *)
DraftRoomOneMore(s) == Min({DraftMax, NCtx - s.used - 1, NPredict - s.decoded - 1})

(* What the current state of the slot leaves room to draft. *)
DraftRoom(s) == Min({DraftMax, NCtx - s.used - 2, NPredict - s.decoded - 1})

(* The tokens that may be accepted after a token: as many of a draft as    *)
(* agree, and one that is sampled.  Without a draft model there are none.  *)
(* The token map has room for all of them (bound MaxMap).                  *)
Accepted(s) ==
  IF DraftMax = 0 \/ ~s.next \/ DraftRoom(s) < 0 THEN {<<>>}
  ELSE UNION {[1..n -> Tokens] : n \in 1..Min({DraftRoom(s) + 1, MaxMap - Len(s.map)})}

(* The accepted tokens are counted and kept at once, and handed out one by *)
(* one until one of them is the last: the slot after k of them.            *)
Handed(s, ids, late) ==
  LET after[k \in 0..Len(ids)] ==
        IF k = 0 THEN [s EXCEPT !.used = @ + Len(ids), !.decoded = @ + Len(ids)]
        ELSE IF after[k - 1].next THEN process_token(after[k - 1], ids[k], late)
        ELSE after[k - 1]
  IN  after

Accept(s, ids, late) == Handed(s, ids, late)[Len(ids)]

(* A batch is decoded, with the last token of the slot in it if its prompt *)
(* is done; a token is sampled, a draft may follow, and the slot goes on   *)
(* or sends its final result and is released.                              *)
Decode ==
  /\ slot.running
  /\ Len(slot.map) < MaxMap                                \* bound MaxMap
  /\ \E tok \in Tokens, late \in (IF TimeLimit THEN BOOLEAN ELSE {FALSE}) :
       LET s == process_token(
                  [slot EXCEPT !.used = IF slot.decoded = 0 THEN @ ELSE @ + 1,
                               !.decoded = @ + 1], tok, late)
       IN  \E ids \in Accepted(s) :
             LET t == Accept(s, ids, late)
             IN  slot' = [t EXCEPT !.running = t.next]

Next == Launch \/ Decode

Spec == Init /\ [][Next]_vars
-----------------------------------------------------------------------------
(* Offsets are compared as size_t: a negative one is larger than all.      *)
AsSize(p) == IF p < 0 THEN 1000 ELSE p

MapText(map) == FlattenSeq([i \in 1..Len(map) |-> map[i].text])

Position(map, i) == AsSize(map[i].pos)

(* The tokens up to the k-th that span offset pos by the positions. *)
Spanning(map, pos, k) ==
  {i \in 1..k : /\ Position(map, i) <= pos
                /\ pos < IF i < Len(map) THEN Position(map, i + 1) ELSE Len(MapText(map))}

(* Mutant of find_token_range: the search goes on behind the end. *)
find_token_range_on(map, excerpt) ==
  LET found  == Occurs(MapText(map), excerpt, 0)
      behind == {i \in DOMAIN map : map[i].pos >= Min(found) + Len(excerpt)}
      starts == Spanning(map, Min(found), Len(map))
      start  == IF starts = {} THEN -1 ELSE Min(starts) - 1
  IN  IF found = {} THEN [start |-> -1, end |-> -1]
      ELSE [start |-> start, end |-> IF behind # {} THEN Min(behind) - 1 ELSE Len(map)]

(* find_token_range: the tokens of the first occurrence of an excerpt in   *)
(* all the text of the map, from the first that spans its start by the     *)
(* positions, to the one behind the last, where the search stops.          *)
find_token_range(map, excerpt) ==
  LET found  == Occurs(MapText(map), excerpt, 0)
      behind == {i \in DOMAIN map : map[i].pos >= Min(found) + Len(excerpt)}
      last   == IF behind = {} THEN Len(map) ELSE Min(behind)
      starts == Spanning(map, Min(found), last)
      start  == IF starts = {} THEN -1 ELSE Min(starts) - 1
  IN  IF found = {} THEN [start |-> -1, end |-> -1]
      ELSE [start |-> start,
            end |-> IF behind # {} THEN last - 1 ELSE IF start # -1 THEN Len(map) ELSE -1]

Excerpts(text) ==
  {SubSeq(text, i, j) : i \in 1..Len(text), j \in 1..Len(text)} \ {<<>>}
-----------------------------------------------------------------------------
TypeOK ==
  /\ \A i \in DOMAIN slot.map : slot.map[i].text \in Tokens /\ slot.map[i].pos \in Int
  /\ slot.first \in 0..Len(slot.map)
  /\ slot.lastNl \in 0..Len(slot.text) \/ ~slot.next
  /\ slot.stop \in {"none", "word", "limit", "eos"}
  /\ slot.next \in BOOLEAN /\ slot.running \in BOOLEAN /\ slot.hasNewLine \in BOOLEAN
  /\ slot.decoded \in Nat /\ slot.used \in Nat

(* What was streamed is the beginning of the generated text, and n_sent_text *)
(* its length: nothing is sent twice, skipped, or taken back.  Only the line *)
(* that is cut for its indentation was sent before it is cut.                *)
StreamedIsText ==
  /\ slot.nSent = Len(slot.sent)
  /\ \/ IsPrefix(slot.sent, slot.text)
     \/ NIndent > 0 /\ slot.stop # "none" /\ IsPrefix(slot.text, slot.sent)

(* The tokens of this answer. *)
Answer == SubSeq(slot.map, slot.first + 1, Len(slot.map))

(* A token that ends in a cut-off character but has other text before it.  *)
Mixed(tok) == CutOff(tok) /\ Len(tok) > 1

(* No stop word is streamed, however it is spread over tokens and drafts.  *)
(* The search trusts that the text before the last token was searched: a   *)
(* token that ends in the middle of a character may hide one.              *)
StopWordsKept ==
  (\A i \in DOMAIN Answer : ~Mixed(Answer[i].text)) =>
    \A w \in StopWords : Occurs(slot.sent, w, 0) = {}

(* The last line was cut because it is not indented enough.                *)
LineCut(s) ==
  /\ NIndent > 0 /\ s.stop # "none" /\ Len(s.text) < s.lastNl + NIndent
  /\ \A i \in (s.lastNl + 1)..Len(s.text) : s.text[i] = Blank

(* What is not streamed is only what must be held back: the text ends in a *)
(* cut-off character or in the beginning of a stop word, and after a stop  *)
(* word or the end of the generation nothing but a cut-off character is.   *)
(* Where a line is cut, what came with its first word and is left of it    *)
(* is not streamed either.                                                 *)
OnlyHeldBack ==
  LET rest == From(slot.text, slot.nSent)
  IN  rest # <<>> =>
        \/ CutOff(slot.text)
        \/ PartialStops(rest) # {} /\ slot.stop \notin {"word", "eos"}
        \/ LineCut(slot)

(* Whatever is drafted and accepted, the tokens of an answer stay within   *)
(* the budget and the slot within its context.                             *)
WithinLimits ==
  /\ slot.used < NCtx
  /\ slot.decoded <= NPredict
  /\ Len(Answer) <= slot.decoded

(* The range of any excerpt of the answer lies in the token map and is not *)
(* inverted, though the positions of several answers follow each other.    *)
RangeOrdered ==
  \A e \in Excerpts(slot.text) :
    LET r == find_token_range(slot.map, e)
    IN  r.start # -1 => 0 <= r.start /\ r.start < r.end /\ r.end <= Len(slot.map)
=============================================================================

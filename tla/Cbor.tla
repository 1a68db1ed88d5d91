------------------------------- MODULE Cbor -------------------------------
(***************************************************************************)
(* The CBOR codec (cbor/decode.c, cbor/encode.c): the item decoder with    *)
(* its frame array and pending tag chain, the sink that builds the shared  *)
(* tree, sequences of items, and the encoder with its sizing pass, its     *)
(* canonical map preparations and its write pass. Inputs are byte          *)
(* sequences. Heads keep two of the four argument widths (one and two      *)
(* bytes; the two-byte one plays the widest, so IntMax plays INT64_MAX).   *)
(* A float is a whole number held in one, two or three payload bytes, as   *)
(* half, single and double nest; the arithmetic of halves is a part of its *)
(* own, with scaled exponent and mantissa widths.                          *)
(***************************************************************************)
EXTENDS Integers, Sequences, FiniteSets, SequencesExt, Utf8

CONSTANTS
  MaxDepth,      \* YEP_DOM_MAX_DEPTH
  MaxLinks,      \* YEP_CBOR_TAG_MAX_LINKS
  MaxTokens,     \* tokens of a one-item input
  MaxSeqTokens,  \* tokens of a sequence input
  MaxPairs,      \* pairs of an authored mapping
  HalfExp, HalfMan, DoubleExp, DoubleMan, \* field widths of the two float formats
  Edges          \* the inputs on which the code departs from its own ledger, by name

VARIABLES part, text
vars == <<part, text>>

IntMax == 32767
Indef == -1
Break == 255
NotDecimal == -1

\* Words of the representation ledger and the decimal renderer cbor_u64dec.
Undefined == <<117, 110, 100, 101, 102, 105, 110, 101, 100>>
SimpleOpen == <<115, 105, 109, 112, 108, 101, 40>>
TRUEtext == <<116, 114, 117, 101>>
FALSEtext == <<102, 97, 108, 115, 101>>
NULLtext == <<110, 117, 108, 108>>

RECURSIVE cbor_u64dec(_)
cbor_u64dec(v) == IF v < 10 THEN <<48 + v>> ELSE Append(cbor_u64dec(v \div 10), 48 + (v % 10))

SimpleText(v) == SimpleOpen \o cbor_u64dec(v) \o <<41>>

IntText(v) == IF v < 0 THEN <<45>> \o cbor_u64dec(-v) ELSE cbor_u64dec(v)

\* The shortest text of a float: the printer of emit/float, one text per value.
FloatText(v) == <<70, v>>

Node(kind, id, val, tag, kids) == [kind |-> kind, id |-> id, val |-> val, tag |-> tag, kids |-> kids]

BigEndian(s) == FoldLeft(LAMBDA a, b : 256 * a + b, 0, s)

-----------------------------------------------------------------------------
(* decode.c: the walk.  c is the decoder: position, frames, pending tags,  *)
(* and what the sink was handed.                                           *)

Fresh(room) ==
  [i |-> 1, depth |-> 0, tags |-> <<>>, status |-> "ok", cut |-> FALSE, room |-> room,
   frame |-> [d \in 1..MaxDepth |-> [rem |-> 0, consumed |-> 0, is_map |-> FALSE]],
   out |-> <<>>]

Fail(c, status) == [st |-> 0, c |-> [c EXCEPT !.status = status]]
Reject(c) == Fail(c, "parse")
CutShort(c) == Fail([c EXCEPT !.cut = TRUE], "parse")
Left(p, c) == Len(p) - c.i + 1

cbor_arg(p, c, ai, strict) ==
  LET n == ai - 23
      v == BigEndian(SubSeq(p, c.i, c.i + n - 1))
      d == [c EXCEPT !.i = @ + n]
  IN  CASE ai >= 26 -> [ok |-> FALSE, r |-> Reject(c)]
        [] ai < 24 -> [ok |-> TRUE, v |-> ai, c |-> c]
        [] ai \in 24..25 /\ Left(p, c) < n -> [ok |-> FALSE, r |-> CutShort(c)]
        [] OTHER -> IF strict /\ v < (IF n = 1 THEN 24 ELSE 256)
                      THEN [ok |-> FALSE, r |-> Reject(d)]
                      ELSE [ok |-> TRUE, v |-> v, c |-> d]

\* One sink call; cbor_take_tag hands over and clears the pending chain.
Deliver(c, kind, id, val) ==
  LET d == [c EXCEPT !.tags = <<>>]
  IN  IF c.room = 0 THEN Fail(d, "memory")
      ELSE [st |-> 1, c |-> [d EXCEPT !.room = @ - 1, !.out = Append(@,
              [kind |-> kind, id |-> id, val |-> val, tag |-> c.tags])]]

cbor_text_node(c, t, id) == Deliver(c, "scalar", id, t)
cbor_span_node(c, s) == Deliver(c, "scalar", "str", s)
cbor_int_node(c, negative, mag) ==
  Deliver(c, "scalar", "int", (IF negative THEN <<45>> ELSE <<>>) \o cbor_u64dec(mag))
cbor_float_node(c, v) == Deliver(c, "scalar", "float", FloatText(v))

\* mutant
cbor_open_KeepsParity(c, is_map, rem) ==
  IF c.depth >= MaxDepth THEN Fail(c, "depth")
  ELSE LET r == Deliver(c, IF is_map THEN "map" ELSE "seq", "str", <<>>)
           d == c.depth + 1
       IN  IF r.st = 0 THEN r
           ELSE [r EXCEPT !.c.depth = d,
                          !.c.frame[d] = [@ EXCEPT !.rem = rem, !.is_map = is_map]]

cbor_open(c, is_map, rem) ==
  IF c.depth >= MaxDepth THEN Fail(c, "depth")
  ELSE LET r == Deliver(c, IF is_map THEN "map" ELSE "seq", "str", <<>>)
           d == c.depth + 1
       IN  IF r.st = 0 THEN r
           ELSE [r EXCEPT !.c.depth = d,
                          !.c.frame[d] = [rem |-> rem, consumed |-> 0, is_map |-> is_map]]

cbor_note_tag(c, tag) ==
  IF Len(c.tags) >= MaxLinks THEN Reject(c)
  ELSE [st |-> 2, c |-> [c EXCEPT !.tags = Append(@, tag)]]

RECURSIVE IndefChunks(_, _, _, _, _)
IndefChunks(p, c, is_text, strict, acc) ==
  LET ib == p[c.i]
      d == [c EXCEPT !.i = @ + 1]
      next(a, chunk) ==
        IF a.v > Left(p, a.c) THEN CutShort(a.c)
        ELSE IF is_text /\ ~Utf8Valid(chunk) THEN Fail(a.c, "encoding")
        ELSE IndefChunks(p, [a.c EXCEPT !.i = @ + a.v], is_text, strict, acc \o chunk)
      sized(a) == IF ~a.ok THEN a.r ELSE next(a, SubSeq(p, a.c.i, a.c.i + a.v - 1))
  IN  CASE c.i > Len(p) -> CutShort(c)
        [] c.i <= Len(p) /\ ib = Break -> cbor_span_node(d, acc)
        [] c.i <= Len(p) /\ ib # Break /\ (ib \div 32 # (IF is_text THEN 3 ELSE 2) \/ ib % 32 = 31) -> Reject(d)
        [] OTHER -> sized(cbor_arg(p, d, ib % 32, strict))

cbor_indef_string(p, c, is_text, strict) == IndefChunks(p, c, is_text, strict, <<>>)

Hex(b) == LET d(x) == IF x < 10 THEN 48 + x ELSE 87 + x IN <<d(b \div 16), d(b % 16)>>

\* Keys that are scalars but not strings: their diagnostic text, lenient mode only
\* (mt 8 is a float).
cbor_key_diag(c, mt, v, bytes) ==
  CASE mt = 0 -> cbor_text_node(c, cbor_u64dec(v), "str")
    [] mt = 1 -> cbor_text_node(c, <<45>> \o cbor_u64dec(v), "str")
    [] mt = 2 -> cbor_text_node(c, <<104, 39>> \o FlattenSeq([k \in 1..Len(bytes) |-> Hex(bytes[k])])
                                   \o <<39>>, "str")
    [] mt = 7 -> cbor_text_node(c, CASE v = 20 -> FALSEtext [] v = 21 -> TRUEtext [] v = 22 -> NULLtext
                                     [] v = 23 -> Undefined [] OTHER -> SimpleText(v), "str")
    [] mt = 8 -> cbor_float_node(c, v)

KeySlot(c) == c.depth > 0 /\ c.frame[c.depth].is_map /\ c.frame[c.depth].consumed % 2 = 0

\* A float payload of n bytes, two's complement.
FloatOf(s) == LET v == BigEndian(s) IN IF s[1] >= 128 THEN v - 256^Len(s) ELSE v

cbor_simple_or_float(p, c, ai, strict, key) ==
  LET one == [c EXCEPT !.i = @ + 1]
      n == ai - 24
      wide == [c EXCEPT !.i = @ + n]
      dv == FloatOf(SubSeq(p, c.i, c.i + n - 1))
  IN  CASE ai \in 20..23 /\ key -> cbor_key_diag(c, 7, ai, <<>>)
        [] ai = 20 /\ ~key -> cbor_text_node(c, FALSEtext, "bool")
        [] ai = 21 /\ ~key -> cbor_text_node(c, TRUEtext, "bool")
        [] ai = 22 /\ ~key -> cbor_text_node(c, NULLtext, "null")
        [] ai = 23 /\ ~key -> cbor_text_node(c, Undefined, "str")
        [] ai = 24 -> IF Left(p, c) < 1 THEN CutShort(c)
                      ELSE IF p[c.i] < 32 THEN Reject(one)
                      ELSE IF key THEN cbor_key_diag(one, 7, p[c.i], <<>>)
                      ELSE cbor_text_node(one, SimpleText(p[c.i]), "str")
        [] ai \in 25..27 -> IF Left(p, c) < n THEN CutShort(c)
                            ELSE IF key /\ strict THEN Reject(wide)
                            ELSE IF key THEN cbor_key_diag(wide, 8, dv, <<>>)
                            ELSE cbor_float_node(wide, dv)
        [] ai < 20 -> IF key THEN cbor_key_diag(c, 7, ai, <<>>) ELSE cbor_text_node(c, SimpleText(ai), "str")
        [] ai > 27 -> Reject(c)

\* An item whose head told its argument a.v.
cbor_argued_item(p, a, mt, strict, key) ==
  LET v == a.v
      span == SubSeq(p, a.c.i, a.c.i + v - 1)
      past(r) == [r EXCEPT !.c.i = a.c.i + v]
  IN  CASE mt \in {0, 1} ->
             IF key /\ strict THEN Reject(a.c)
             ELSE IF key THEN cbor_key_diag(a.c, mt, v, <<>>)
             ELSE IF v <= IntMax + mt THEN cbor_int_node(a.c, mt = 1, v + mt)
             ELSE cbor_float_node(a.c, IF mt = 1 THEN -(v + 1) ELSE v)
        [] mt \in {2, 3} ->
             IF v > Left(p, a.c) THEN CutShort(a.c)
             ELSE IF mt = 3 /\ ~Utf8Valid(span) THEN Fail(a.c, "encoding")
             ELSE IF key /\ mt = 2 /\ strict THEN Reject(a.c)
             ELSE IF key /\ mt = 2 THEN past(cbor_key_diag(a.c, 2, v, span))
             ELSE past(cbor_span_node(a.c, span))
        [] mt = 4 ->
             IF key THEN Reject(a.c)
             ELSE IF v > Left(p, a.c) THEN CutShort(a.c)
             ELSE cbor_open(a.c, FALSE, v)
        [] mt = 5 ->
             IF key THEN Reject(a.c)
             ELSE IF v > Left(p, a.c) \div 2 THEN CutShort(a.c)
             ELSE cbor_open(a.c, TRUE, v * 2)
        [] mt = 6 -> cbor_note_tag(a.c, v)

cbor_item(p, c, strict) ==
  LET mt == p[c.i] \div 32
      ai == p[c.i] % 32
      c1 == [c EXCEPT !.i = @ + 1]
      key == KeySlot(c)
      argued(a) == IF a.ok THEN cbor_argued_item(p, a, mt, strict, key) ELSE a.r
  IN  IF c.i > Len(p) THEN CutShort(c)
      ELSE CASE ai = 31 /\ mt \in {2, 3} ->
                  IF key THEN Reject(c1) ELSE cbor_indef_string(p, c1, mt = 3, strict)
             [] ai = 31 /\ mt \in {4, 5} ->
                  IF key THEN Reject(c1) ELSE cbor_open(c1, mt = 5, Indef)
             [] ai = 31 /\ mt \in {0, 1, 6, 7} -> Reject(c1)
             [] ai # 31 /\ mt = 7 -> cbor_simple_or_float(p, c1, ai, strict, key)
             [] ai # 31 /\ mt # 7 -> argued(cbor_arg(p, c1, ai, strict))

CloseFrame(c) ==
  IF c.room = 0 THEN Fail(c, "memory")
  ELSE [st |-> 1, c |-> [c EXCEPT !.room = @ - 1, !.depth = @ - 1,
          !.out = Append(@, [kind |-> "close", id |-> "str", val |-> <<>>, tag |-> <<>>])]]

RECURSIVE DecodeLoop(_, _, _, _)
DecodeLoop(p, c, strict, done_top) ==
  LET d == c.depth
      fr == c.frame[d]
      atBreak == d > 0 /\ fr.rem = Indef /\ c.i <= Len(p) /\ p[c.i] = Break
      closed(r) == IF r.st = 0 THEN r.c ELSE DecodeLoop(p, r.c, strict, done_top)
      landed(e) == [e EXCEPT !.frame[d].consumed = @ + 1, !.frame[d].rem = IF @ = Indef THEN @ ELSE @ - 1]
      taken(r) == IF r.st = 0 THEN r.c
                  ELSE IF r.st = 2 THEN DecodeLoop(p, r.c, strict, done_top)
                  ELSE DecodeLoop(p, IF d = 0 THEN r.c ELSE landed(r.c), strict, TRUE)
  IN  IF d = 0 /\ done_top THEN c
      ELSE IF atBreak /\ fr.is_map /\ fr.consumed % 2 = 1 THEN Reject(c).c
      ELSE IF d > 0 /\ (fr.rem = 0 \/ atBreak) THEN closed(CloseFrame(IF atBreak THEN [c EXCEPT !.i = @ + 1] ELSE c))
      ELSE taken(cbor_item(p, c, strict))

\* consumed tells whether the caller steps on: only then may bytes follow the item.
yep_cbor_decode_gen(p, strict, consumed, room) ==
  LET ended(c) == IF c.status = "ok" /\ c.i <= Len(p) /\ ~consumed THEN Reject(c).c ELSE c
  IN  ended(DecodeLoop(p, Fresh(room), strict, FALSE))

\* The DOM sink: calls become nodes placed under the innermost open collection.
dom_place(stack, n) ==
  IF stack = <<>> THEN <<n>>
  ELSE [stack EXCEPT ![Len(stack)].kids = Append(@, n)]

dom_sink(s, e) ==
  LET n == Node(e.kind, e.id, e.val, e.tag, <<>>)
  IN  CASE e.kind = "scalar" -> IF s.stack = <<>> THEN [s EXCEPT !.root = <<n>>]
                                ELSE [s EXCEPT !.stack = dom_place(@, n)]
        [] e.kind \in {"seq", "map"} -> [s EXCEPT !.stack = Append(@, n)]
        [] e.kind = "close" -> IF Len(s.stack) = 1 THEN [stack |-> <<>>, root |-> s.stack]
                               ELSE [s EXCEPT !.stack = dom_place(Front(@), Last(@))]

yep_cbor_decode_dom(p, strict, consumed) ==
  LET root(c) == IF c.status = "ok" THEN FoldLeft(dom_sink, [stack |-> <<>>, root |-> <<>>], c.out).root ELSE <<>>
      answer(c) == [status |-> c.status, cut |-> c.cut, used |-> c.i - 1, root |-> root(c)]
  IN  answer(yep_cbor_decode_gen(p, strict, consumed, 2 * Len(p) + 2))

yeptris_cbor_decode(p, strict) == yep_cbor_decode_dom(p, strict, FALSE)

RECURSIVE SequenceFrom(_, _, _, _, _)
SequenceFrom(p, at, strict, stopAt, docs) ==
  LET taken(r) ==
        IF r.status # "ok" THEN [status |-> "parse", docs |-> docs, count |-> Len(docs)]
        ELSE IF Len(docs) + 1 = stopAt     \* the callback aborts; it keeps its item
          THEN [status |-> "ok", docs |-> docs \o r.root, count |-> Len(docs)]
        ELSE SequenceFrom(p, at + r.used, strict, stopAt, docs \o r.root)
  IN  IF at >= Len(p) THEN [status |-> "ok", docs |-> docs, count |-> Len(docs)]
      ELSE taken(yep_cbor_decode_dom(SubSeq(p, at + 1, Len(p)), strict, TRUE))

yeptris_cbor_decode_sequence(p, strict, stopAt) == SequenceFrom(p, 0, strict, stopAt, <<>>)

-----------------------------------------------------------------------------
(* encode.c.  An order pass sizes the item and prepares every mapping of a *)
(* canonical encoding; the write pass takes the preparations by a cursor.  *)

yep_cbor_arg_bytes(v) == IF v < 24 THEN 1 ELSE IF v <= 255 THEN 2 ELSE 3

yep_cbor_put_head(mt, v) ==
  CASE yep_cbor_arg_bytes(v) = 1 -> <<32 * mt + v>>
    [] yep_cbor_arg_bytes(v) = 2 -> <<32 * mt + 24, v>>
    [] yep_cbor_arg_bytes(v) = 3 -> <<32 * mt + 25, v \div 256, v % 256>>

yep_cbor_float_width(v) ==
  IF v \in -128..127 THEN 1 ELSE IF v \in -32768..32767 THEN 2 ELSE 3

yep_cbor_put_float(v, width) ==
  LET u == v % 256^width
  IN  <<224 + 24 + width>> \o [k \in 1..width |-> (u \div 256^(width - k)) % 256]

\* cbor_scalar_number: the text of a number back to an argument or a float.
DigitsValue(s) == FoldLeft(LAMBDA a, b : 10 * a + (b - 48), 0, s)
IsNumber(s) == LET t == IF s # <<>> /\ s[1] = 45 THEN SubSeq(s, 2, Len(s)) ELSE s
               IN  t # <<>> /\ (\A k \in 1..Len(t) : t[k] \in 48..57) /\ (Len(t) > 1 => t[1] # 48)
cbor_scalar_number(s) ==
  LET neg == s[1] = 45
      v == DigitsValue(IF neg THEN SubSeq(s, 2, Len(s)) ELSE s)
      integer(x) == IF x > IntMax \/ x < -IntMax - 1 THEN [ok |-> TRUE, mt |-> 7, v |-> x]
                    ELSE [ok |-> TRUE, mt |-> IF x < 0 THEN 1 ELSE 0, v |-> IF x < 0 THEN -(x + 1) ELSE x]
  IN  IF s # <<>> /\ s[1] = 70 THEN [ok |-> TRUE, mt |-> 7, v |-> IF Len(s) = 2 THEN s[2] ELSE v]
      ELSE IF ~IsNumber(s) THEN [ok |-> FALSE]
      ELSE integer(IF neg THEN -v ELSE v)

cbor_bool_value(s) == s # <<>> /\ s[1] \in {116, 84, 121, 89, 111, 79}

yep_cbor_simple_of(s) ==
  LET mid == SubSeq(s, 8, Len(s) - 1)
      v == DigitsValue(mid)
  IN  IF s = Undefined THEN 23
      ELSE IF /\ Len(s) > 9 /\ SubSeq(s, 1, 7) = SimpleOpen /\ s[Len(s)] = 41
              /\ \A k \in 1..Len(mid) : mid[k] \in 48..57
              /\ v <= 255 /\ v \notin 24..31
        THEN v ELSE -1

\* The chain text back to tag numbers; a link that is no decimal, or one too many, is refused.
cbor_tag_chain(n) == [ok |-> Len(n.tag) <= MaxLinks /\ \A k \in 1..Len(n.tag) : n.tag[k] # NotDecimal,
                      links |-> n.tag]

TagHeads(tags) == FlattenSeq([k \in 1..Len(tags) |-> yep_cbor_put_head(6, tags[k])])

PutSimple(v) == IF v < 24 THEN <<224 + v>> ELSE <<248, v>>
PutString(s) == yep_cbor_put_head(IF Utf8Valid(s) THEN 3 ELSE 2, Len(s)) \o s
PutNumber(x) == IF x.mt = 7 THEN yep_cbor_put_float(x.v, yep_cbor_float_width(x.v))
                ELSE yep_cbor_put_head(x.mt, x.v)
PutText(n) == IF n.tag = <<>> /\ yep_cbor_simple_of(n.val) >= 0 THEN PutSimple(yep_cbor_simple_of(n.val))
              ELSE PutString(n.val)

\* The sort key of a pair: <<>> when the key has no encoding.
cbor_encode_key(n) ==
  LET number(x) == IF x.ok THEN TagHeads(n.tag) \o PutNumber(x) ELSE <<>>
  IN  IF ~cbor_tag_chain(n).ok THEN <<>>
      ELSE IF n.id \in {"int", "float"} THEN number(cbor_scalar_number(n.val))
      ELSE TagHeads(n.tag) \o PutText(n)

\* memcmp over the common length, then the shorter one.
KeyBefore(a, b) ==
  \/ \E k \in 1..Len(a) : /\ k <= Len(b) /\ a[k] < b[k]
                          /\ \A j \in 1..(k-1) : a[j] = b[j]
  \/ Len(a) < Len(b) /\ a = SubSeq(b, 1, Len(a))

Pairs(n) == Len(n.kids) \div 2

\* The insertion sort: the next pair moves past every later key, so equal keys keep their order.
InsertPair(keys, order, cur) ==
  LET after == {j \in 1..Len(order) : \A k \in j..Len(order) : KeyBefore(keys[cur], keys[order[k]])}
      at == IF after = {} THEN Len(order) + 1 ELSE CHOOSE j \in after : \A k \in after : j <= k
  IN  SubSeq(order, 1, at - 1) \o <<cur>> \o SubSeq(order, at, Len(order))

cbor_canon_prepare(n) ==
  LET order(keys) == FoldLeft(LAMBDA o, k : InsertPair(keys, o, k), <<>>, [k \in 1..Pairs(n) |-> k])
      prepared(keys) == [ok |-> \A k \in 1..Pairs(n) : keys[k] # <<>>,
                         prep |-> [child |-> n.kids, order |-> order(keys)]]
  IN  prepared([k \in 1..Pairs(n) |-> cbor_encode_key(n.kids[2 * k - 1])])

EmitOrder(prep) ==
  FlattenSeq([k \in 1..Len(prep.order) |-> <<prep.child[2 * prep.order[k] - 1], prep.child[2 * prep.order[k]]>>])

Sized(ok, size, preps) == [ok |-> ok, size |-> size, preps |-> preps]
Refused == Sized(FALSE, 0, <<>>)

\* mutant
cbor_size_scalar_TagBlind(n) ==
  LET tags == Len(TagHeads(n.tag))
      number(x) == IF ~x.ok THEN Refused
                   ELSE Sized(TRUE, tags + (IF x.mt = 7 THEN 1 + yep_cbor_float_width(x.v)
                                            ELSE yep_cbor_arg_bytes(x.v)), <<>>)
      string(simple) == IF simple >= 0
                          THEN Sized(TRUE, tags + (IF simple < 24 THEN 1 ELSE 2), <<>>)
                          ELSE Sized(TRUE, tags + yep_cbor_arg_bytes(Len(n.val)) + Len(n.val), <<>>)
  IN  IF ~cbor_tag_chain(n).ok THEN Refused
      ELSE CASE n.id \in {"int", "float"} -> number(cbor_scalar_number(n.val))
             [] n.id \in {"bool", "null"} -> Sized(TRUE, tags + 1, <<>>)
             [] n.id = "str" -> string(yep_cbor_simple_of(n.val))

cbor_size_scalar(n) ==
  LET tags == Len(TagHeads(n.tag))
      number(x) == IF ~x.ok THEN Refused
                   ELSE Sized(TRUE, tags + (IF x.mt = 7 THEN 1 + yep_cbor_float_width(x.v)
                                            ELSE yep_cbor_arg_bytes(x.v)), <<>>)
      string(simple) == IF n.tag = <<>> /\ simple >= 0
                          THEN Sized(TRUE, tags + (IF simple < 24 THEN 1 ELSE 2), <<>>)
                          ELSE Sized(TRUE, tags + yep_cbor_arg_bytes(Len(n.val)) + Len(n.val), <<>>)
  IN  IF ~cbor_tag_chain(n).ok THEN Refused
      ELSE CASE n.id \in {"int", "float"} -> number(cbor_scalar_number(n.val))
             [] n.id \in {"bool", "null"} -> Sized(TRUE, tags + 1, <<>>)
             [] n.id = "str" -> string(yep_cbor_simple_of(n.val))

RECURSIVE cbor_size_item(_, _)

cbor_size_item(n, canonical) ==
  LET plus(s, t) == IF t.ok THEN Sized(TRUE, s.size + t.size, s.preps \o t.preps) ELSE Refused
      add(s, kid) == IF s.ok THEN plus(s, cbor_size_item(kid, canonical)) ELSE s
      tags == Len(TagHeads(n.tag))
      all(count, preps, kids) == FoldLeft(add, Sized(TRUE, tags + yep_cbor_arg_bytes(count), preps), kids)
      ordered(canon) == IF canon.ok THEN all(Pairs(n), <<canon.prep>>, EmitOrder(canon.prep)) ELSE Refused
  IN  IF n.kind = "scalar" THEN cbor_size_scalar(n)
      ELSE IF ~cbor_tag_chain(n).ok \/ n.kind = "alias" THEN Refused
      ELSE IF n.kind = "seq" THEN all(Len(n.kids), <<>>, n.kids)
      ELSE IF ~canonical THEN all(Pairs(n), <<>>, n.kids)
      ELSE ordered(cbor_canon_prepare(n))

cbor_write_scalar(n) ==
  CASE n.id \in {"int", "float"} -> PutNumber(cbor_scalar_number(n.val))
    [] n.id = "bool" -> <<IF cbor_bool_value(n.val) THEN 245 ELSE 244>>
    [] n.id = "null" -> <<246>>
    [] n.id = "str" -> PutText(n)

\* w: bytes so far and the cursor into the preparations.
RECURSIVE cbor_write_item(_, _, _)
cbor_write_item(w, n, preps) ==
  LET each(x, kid) == cbor_write_item(x, kid, preps)
      head(v) == [w EXCEPT !.out = @ \o TagHeads(n.tag) \o v]
      open == head(yep_cbor_put_head(5, Pairs(n)))
  IN  CASE n.kind = "scalar" -> head(cbor_write_scalar(n))
        [] n.kind = "seq" -> FoldLeft(each, head(yep_cbor_put_head(4, Len(n.kids))), n.kids)
        [] n.kind = "map" ->
             IF w.next <= Len(preps)
               THEN FoldLeft(each, [open EXCEPT !.next = @ + 1], EmitOrder(preps[w.next]))
               ELSE FoldLeft(each, open, n.kids)

\* cap is what the caller's buffer holds; wrote is FALSE when it only learns the size.
cbor_run(n, canonical, cap) ==
  LET written(s, out) == [status |-> IF Len(out) = s.size THEN "ok" ELSE "internal", size |-> s.size, wrote |-> TRUE, out |-> out]
      sized(s) ==
        IF ~s.ok THEN [status |-> "unsupported", size |-> 0, wrote |-> FALSE, out |-> <<>>]
        ELSE IF cap < s.size THEN [status |-> "ok", size |-> s.size, wrote |-> FALSE, out |-> <<>>]
        ELSE written(s, cbor_write_item([out |-> <<>>, next |-> 1], n, s.preps).out)
  IN  sized(cbor_size_item(n, canonical))

yeptris_cbor_encode_into(n, canonical, cap) ==
  LET answer(r) == IF r.status # "ok" THEN [size |-> 0, out |-> <<>>] ELSE [size |-> r.size, out |-> r.out]
  IN  answer(cbor_run(n, canonical, cap))

\* <<>> stands for the NULL answer.
yeptris_cbor_encode(n, canonical) ==
  LET filled(need, r) == IF r.size # need THEN <<>> ELSE r.out
      sized(need) == IF need = 0 THEN <<>> ELSE filled(need, yeptris_cbor_encode_into(n, canonical, need))
  IN  sized(yeptris_cbor_encode_into(n, canonical, -1).size)

yeptris_cbor_encode_sequence(docs, canonical) ==
  LET written(size, one) ==
        IF \A k \in 1..Len(docs) : size[k].status = "ok" /\ one[k].status = "ok" /\ one[k].wrote
          THEN FlattenSeq([k \in 1..Len(docs) |-> one[k].out]) ELSE <<>>
      sized(size) == written(size, [k \in 1..Len(docs) |-> cbor_run(docs[k], canonical, size[k].size)])
  IN  sized([k \in 1..Len(docs) |-> cbor_run(docs[k], canonical, -1)])

-----------------------------------------------------------------------------
(* The half-precision kernel, with scaled field widths.  A value is a sign *)
(* and a magnitude counted in units of the smallest double.                *)

Bias(e) == 2^(e - 1) - 1
\* the magnitude of a double's fields, and of a half's as cbor_h2d and cbor_half compute it,
\* in units of 2^-(Bias(DoubleExp) + DoubleMan)
DoubleMag(exp, man) == IF exp = 0 THEN 2 * man ELSE (man + 2^DoubleMan) * 2^exp
HalfUnit == 2^(Bias(DoubleExp) - Bias(HalfExp) + 1 + DoubleMan - HalfMan)

cbor_h2d(h) ==
  LET exp == h.exp
  IN  IF exp = 0 THEN h.man * HalfUnit ELSE (h.man + 2^HalfMan) * HalfUnit * 2^(exp - 1)

HalfInf == [exp |-> 2^HalfExp - 1, man |-> 0]
HalfZero == [exp |-> 0, man |-> 0]

cbor_d2h(exp, man) ==
  LET e2 == exp - Bias(DoubleExp) + Bias(HalfExp)
      drop == DoubleMan - HalfMan
      top == 2^HalfMan
      up(m, n, sh) ==   \* m = n >> sh, rounded to even by the bits dropped
        (n \div 2^(sh - 1)) % 2 = 1 /\ (n % 2^(sh - 1) # 0 \/ m % 2 = 1)
      m1 == man \div 2^drop
      n1 == IF up(m1, man, drop) THEN m1 + 1 ELSE m1
      full == man + 2^DoubleMan
      sh == drop + 1 - e2
      m2 == full \div 2^sh
      n2 == IF up(m2, full, sh) THEN m2 + 1 ELSE m2
  IN  IF e2 >= 2^HalfExp - 1 THEN HalfInf
      ELSE IF e2 > 0
        THEN IF n1 # top THEN [exp |-> e2, man |-> n1]
             ELSE IF e2 + 1 >= 2^HalfExp - 1 THEN HalfInf ELSE [exp |-> e2 + 1, man |-> 0]
      ELSE IF e2 < -HalfMan THEN HalfZero
      ELSE IF n2 = top THEN [exp |-> 1, man |-> 0] ELSE [exp |-> 0, man |-> n2]

FitsHalf(exp, man) ==
  LET h == cbor_d2h(exp, man) IN h # HalfInf /\ cbor_h2d(h) = DoubleMag(exp, man)

-----------------------------------------------------------------------------
(* What the wire format says (RFC 8949) with the ledger of decode.c's      *)
(* header: one recursive reading of the same bytes.                        *)

NoItem == [ok |-> FALSE]
Item(next, tree) == [ok |-> TRUE, next |-> next, tree |-> tree]

RefArg(p, i, strict) ==
  LET ai == p[i] % 32
      n == IF ai < 24 THEN 0 ELSE ai - 23
      v == IF n = 0 THEN ai ELSE BigEndian(SubSeq(p, i + 1, i + n))
  IN  IF ai > 25 \/ i + n > Len(p) \/ (strict /\ n > 0 /\ yep_cbor_arg_bytes(v) # n + 1)
        THEN NoItem ELSE [ok |-> TRUE, v |-> v, next |-> i + 1 + n]

RECURSIVE RefChunks(_, _, _, _, _)
RefChunks(p, i, mt, strict, acc) ==
  LET next(a, s) == IF a.next + a.v - 1 > Len(p) \/ (mt = 3 /\ ~Utf8Valid(s)) THEN NoItem
                    ELSE RefChunks(p, a.next + a.v, mt, strict, acc \o s)
      sized(a) == IF a.ok THEN next(a, SubSeq(p, a.next, a.next + a.v - 1)) ELSE NoItem
  IN  IF i > Len(p) THEN NoItem
      ELSE IF p[i] = Break THEN [ok |-> TRUE, val |-> acc, next |-> i + 1]
      ELSE IF p[i] \div 32 # mt THEN NoItem
      ELSE sized(RefArg(p, i, strict))

\* The node of a scalar: its kind of item, its number or its bytes, in a key or a value place.
RefScalar(mt, v, s, tag, key) ==
  LET str(t) == Node("scalar", "str", t, tag, <<>>)
      word == CASE v = 20 -> FALSEtext [] v = 21 -> TRUEtext [] v = 22 -> NULLtext
                [] v = 23 -> Undefined [] OTHER -> SimpleText(v)
      id == CASE v \in {20, 21} -> "bool" [] v = 22 -> "null" [] OTHER -> "str"
  IN  CASE mt \in {0, 1} /\ key -> str(IntText(IF mt = 0 THEN v ELSE -1 - v))
        [] mt = 0 /\ ~key -> IF v <= IntMax THEN Node("scalar", "int", IntText(v), tag, <<>>)
                             ELSE Node("scalar", "float", FloatText(v), tag, <<>>)
        [] mt = 1 /\ ~key -> IF v <= IntMax THEN Node("scalar", "int", IntText(-1 - v), tag, <<>>)
                             ELSE Node("scalar", "float", FloatText(-1 - v), tag, <<>>)
        [] mt = 2 /\ key -> str(<<104, 39>> \o FlattenSeq([k \in 1..Len(s) |-> Hex(s[k])]) \o <<39>>)
        [] mt = 2 /\ ~key -> str(s)
        [] mt = 3 -> str(s)
        [] mt = 7 -> Node("scalar", IF key THEN "str" ELSE id, word, tag, <<>>)
        [] mt = 8 -> Node("scalar", "float", FloatText(v), tag, <<>>)

RECURSIVE RefItem(_, _, _, _, _, _), RefKids(_, _, _, _, _, _, _)

\* The item at i whose head told its argument a.
RefSized(p, i, a, strict, depth, key, tag) ==
  LET mt == p[i] \div 32
      string(s) == IF a.next + a.v - 1 > Len(p) \/ (mt = 3 /\ ~Utf8Valid(s)) THEN NoItem
                   ELSE Item(a.next + a.v, RefScalar(mt, 0, s, tag, key))
  IN  IF ~a.ok THEN NoItem
      ELSE IF mt = 6
        THEN IF Len(tag) >= MaxLinks THEN NoItem
             ELSE RefItem(p, a.next, strict, depth, key, Append(tag, a.v))
      ELSE IF key /\ strict /\ mt # 3 THEN NoItem
      ELSE IF mt \in {0, 1} THEN Item(a.next, RefScalar(mt, a.v, <<>>, tag, key))
      ELSE string(SubSeq(p, a.next, a.next + a.v - 1))

RefSimple(p, i, strict, key, tag) ==
  LET ai == p[i] % 32
      w == ai - 24
  IN  IF key /\ strict THEN NoItem
      ELSE IF ai < 24 THEN Item(i + 1, RefScalar(7, ai, <<>>, tag, key))
      ELSE IF ai = 24 /\ i < Len(p) /\ p[i + 1] >= 32 THEN Item(i + 2, RefScalar(7, p[i + 1], <<>>, tag, key))
      ELSE IF ai \in 25..27 /\ i + w <= Len(p)
        THEN Item(i + 1 + w, RefScalar(8, FloatOf(SubSeq(p, i + 1, i + w)), <<>>, tag, key))
      ELSE NoItem

RefItem(p, i, strict, depth, key, tag) ==
  LET mt == p[i] \div 32
      open == p[i] % 32 = 31
      begin(a) == IF open THEN [ok |-> TRUE, v |-> Indef, next |-> i + 1] ELSE a
      node(kids) == IF kids.ok THEN Item(kids.next, Node(IF mt = 5 THEN "map" ELSE "seq", "str", <<>>, tag, kids.seq))
                    ELSE NoItem
      collection(a) == IF key \/ depth >= MaxDepth \/ ~a.ok THEN NoItem
                       ELSE node(RefKids(p, a.next, strict, depth, mt = 5, IF mt = 5 /\ ~open THEN 2 * a.v ELSE a.v, <<>>))
      chunks(ch) == IF key \/ ~ch.ok THEN NoItem ELSE Item(ch.next, RefScalar(3, 0, ch.val, tag, FALSE))
  IN  IF i > Len(p) THEN NoItem
      ELSE IF mt \in {4, 5} THEN collection(begin(RefArg(p, i, strict)))
      ELSE IF mt = 7 THEN RefSimple(p, i, strict, key, tag)
      ELSE IF mt \in {2, 3} /\ open THEN chunks(RefChunks(p, i + 1, mt, strict, <<>>))
      ELSE RefSized(p, i, RefArg(p, i, strict), strict, depth, key, tag)

RefKids(p, i, strict, depth, is_map, left, seq) ==
  LET next(r) == IF ~r.ok THEN NoItem
                 ELSE RefKids(p, r.next, strict, depth, is_map, IF left = Indef THEN left ELSE left - 1,
                              Append(seq, r.tree))
  IN  IF left = 0 THEN [ok |-> TRUE, next |-> i, seq |-> seq]
      ELSE IF left = Indef /\ i <= Len(p) /\ p[i] = Break
        THEN IF is_map /\ Len(seq) % 2 = 1 THEN NoItem ELSE [ok |-> TRUE, next |-> i + 1, seq |-> seq]
      ELSE next(RefItem(p, i, strict, depth + 1, is_map /\ Len(seq) % 2 = 0, <<>>))

RefOne(p, strict) == RefItem(p, 1, strict, 0, FALSE, <<>>)

RECURSIVE RefSequence(_, _, _)
RefSequence(p, i, strict) ==
  LET from(r) == IF r.ok THEN <<r.tree>> \o RefSequence(p, r.next, strict) ELSE <<>>
  IN  IF i > Len(p) THEN <<>> ELSE from(RefItem(p, i, strict, 0, FALSE, <<>>))

-----------------------------------------------------------------------------
(* The inputs.  text is a sequence of tokens (byte strings) or, for the    *)
(* authored trees and the doubles, the value itself.                       *)

Wide == {<<0>>, <<32>>, <<24, 24>>, <<24, 5>>, <<25, 128, 0>>, <<65, 1>>, <<65, 130>>, <<97, 97>>, <<97, 130>>,
         <<98, 97>>, <<24>>, <<95>>, <<127>>, <<128>>, <<129>>, <<130>>, <<159>>, <<161>>, <<191>>, <<193>>,
         <<216, 24>>, <<245>>, <<246>>, <<247>>, <<229>>, <<248, 32>>, <<248, 8>>, <<249, 5>>, <<250, 0, 5>>,
         <<28>>, <<255>>}
Narrow == {<<1>>, <<97, 97>>, <<97, 98>>, <<249, 5>>, <<129>>, <<130>>, <<161>>, <<162>>, <<191>>, <<255>>}
Short == {<<0>>, <<97, 97>>, <<129>>, <<162>>, <<159>>, <<193>>, <<255>>, <<249, 5>>, <<248>>, <<25, 127, 255>>}
EdgeTokens == IF "below_int_min" \in Edges THEN {<<57, 128, 0>>} ELSE {}
Tokens(k) == CASE k = "item" -> Wide \cup EdgeTokens [] k = "deep" -> Narrow [] k = "stream" -> Short

MaxLen(k) == CASE k = "item" -> MaxTokens [] k = "deep" -> 2 * MaxTokens [] k = "stream" -> MaxSeqTokens

bytes == FlattenSeq(text)

Has(T) == \E k \in 1..Len(text) : text[k] \in T
\* The inputs the ledger speaks of; each exception is one the code is known to read otherwise.
Ledger(strict) ==
  /\ strict /\ Has({<<161>>, <<162>>, <<191>>}) /\ Has({<<245>>, <<246>>, <<247>>, <<229>>, <<248, 32>>})
       => "simple_key" \in Edges
  /\ Has({<<161>>, <<162>>, <<191>>}) /\ Has({<<32>>, <<248, 32>>}) => "negative_key" \in Edges
  /\ (\E k \in 1..(Len(text) - 1) : text[k] \in {<<193>>, <<216, 24>>} /\ text[k + 1] = <<255>>)
       => "tag_before_break" \in Edges

Scalar(id, val) == Node("scalar", id, val, <<>>, <<>>)
KeyScalars ==
  {Scalar("str", v) : v \in {<<>>, <<97>>, <<97, 97>>, Undefined, SimpleText(40), SimpleText(28)}}
    \cup {Scalar("int", v) : v \in {IntText(5), IntText(-3), IntText(300)}}
    \cup {Scalar("float", FloatText(1000)), [Scalar("str", <<97>>) EXCEPT !.tag = <<7>>]}
    \cup (IF "bool_key" \in Edges THEN {Scalar("bool", TRUEtext)} ELSE {})
Foreign == {Node("alias", "str", <<>>, <<>>, <<>>), Scalar("int", <<48, 120, 49>>),
            [Scalar("str", <<97>>) EXCEPT !.tag = <<NotDecimal>>],
            [Scalar("str", <<97>>) EXCEPT !.tag = [k \in 1..(MaxLinks + 1) |-> 1]]}
Reversed == Node("map", "str", <<>>, <<>>, <<Scalar("str", <<98>>), Scalar("null", NULLtext),
                                             Scalar("str", <<97>>), Scalar("bool", TRUEtext)>>)
Single == Node("map", "str", <<>>, <<>>, <<Scalar("str", <<99>>), Scalar("int", <<49>>)>>)
\* The values of a pair, by the pairs before it.
Values(pairs) == {Scalar("int", <<48>>), Single} \cup (IF pairs = 0 THEN {Reversed} \cup Foreign ELSE {})

Doubles == (0..(2^DoubleExp - 2)) \X (0..(2^DoubleMan - 1))

Init == \/ part \in {"item", "deep", "stream"} /\ text = <<>>
        \/ part = "tree" /\ text = <<Node("map", "str", <<>>, <<>>, <<>>)>>
        \/ part = "half" /\ \E d \in Doubles : text = <<d[1], d[2]>>

\* An input grows while the decoder still runs out of bytes (a sequence always may).
Extend == /\ part \in {"item", "deep", "stream"} /\ Len(text) < MaxLen(part)
          /\ text # <<>> /\ part # "stream" => yeptris_cbor_decode(bytes, FALSE).cut
          /\ \E t \in Tokens(part) : text' = Append(text, t)
          /\ UNCHANGED part

\* A mapping grows pair by pair; one that already holds what CBOR cannot carry stops at two.
AddPair == /\ part = "tree" /\ Pairs(text[1]) < MaxPairs
           /\ Pairs(text[1]) >= 2 => text[1].kids[2] \notin Foreign
           /\ \E k \in KeyScalars, v \in Values(Pairs(text[1])) :
                text' = [text EXCEPT ![1].kids = @ \o <<k, v>>]
           /\ UNCHANGED part

Next == Extend \/ AddPair
Spec == Init /\ [][Next]_vars

-----------------------------------------------------------------------------
(* Properties.                                                             *)

Modes == {TRUE, FALSE}

\* decode.c: the iterative walk with its reused frames, parity counters and early overrun
\* checks accepts exactly the well-formed items of the ledger and builds the tree a direct
\* reading of the bytes gives.
DecodesAsWritten ==
  LET Reads(r, w) == IF w.ok /\ w.next = Len(bytes) + 1 THEN r.status = "ok" /\ r.root = <<w.tree>>
                     ELSE r.status # "ok"
  IN  part \in {"item", "deep"} =>
        \A strict \in Modes : Ledger(strict) => Reads(yeptris_cbor_decode(bytes, strict), RefOne(bytes, strict))

\* decode.c, yep_cbor_decode_sax: a callback that refuses ends the walk at once with
\* ERROR_MEMORY, and what was delivered before is a prefix of the full delivery.
RefusalEndsWalk ==
  LET Cut(c, out) == c.status = "memory" /\ c.out = out
      Walk(all) == \A room \in 0..(Len(all) - 1) :
                     Cut(yep_cbor_decode_gen(bytes, FALSE, FALSE, room), SubSeq(all, 1, room))
  IN  part = "deep" => Walk(yep_cbor_decode_gen(bytes, FALSE, FALSE, 100).out)

\* decode.c, yeptris_cbor_decode_sequence: the items handed over are those found at successive
\* positions up to the first ill-formed one; an aborting callback keeps its item uncounted.
SequenceDelivers ==
  LET Delivers(full, ref) ==
        /\ full.docs = ref /\ full.count = Len(ref)
        /\ full.status = "ok" =>
             yeptris_cbor_decode_sequence(yeptris_cbor_encode_sequence(ref, FALSE), FALSE, 0) = full
        /\ \A n \in 1..Len(ref) : yeptris_cbor_decode_sequence(bytes, FALSE, n) =
             [status |-> "ok", docs |-> SubSeq(ref, 1, n), count |-> n - 1]
  IN  part = "stream" /\ Ledger(FALSE) =>
        Delivers(yeptris_cbor_decode_sequence(bytes, FALSE, 0), RefSequence(bytes, 1, FALSE))

\* The trees an encoder meets here: what the decoder accepted, and trees of other fronts.
Trees == IF part = "tree" THEN {text[1]}
         ELSE IF part \in {"item", "deep"} /\ Ledger(FALSE) THEN Range(yeptris_cbor_decode(bytes, FALSE).root)
         ELSE {}

RECURSIVE Encodable(_)
Encodable(n) == /\ n.kind # "alias" /\ Len(n.tag) <= MaxLinks /\ NotDecimal \notin Range(n.tag)
                /\ n.id = "int" => IsNumber(n.val)
                /\ \A k \in 1..Len(n.kids) : Encodable(n.kids[k])

\* encode.c: the sizing pass refuses exactly the trees CBOR cannot carry and otherwise
\* announces the bytes the write pass produces, in either order of the keys, so the
\* two-pass guard (ERROR_INTERNAL, whose answer is empty) never fires.
PassesAgree(n, canonical, out) ==
  LET Announces(s) == IF Encodable(n) THEN s.status = "ok" /\ s.size > 0 /\ Len(out) = s.size
                      ELSE s.status # "ok" /\ out = <<>>
  IN  Announces(cbor_run(n, canonical, -1))

\* What a tree reads as once its numbers and reserved words went through the wire format:
\* scalar keys that are no strings come back as diagnostic text.
RECURSIVE Reread(_, _)
Reread(n, key) ==
  IF n.kind = "scalar" THEN IF n.id \in {"int", "bool", "null"} /\ key THEN [n EXCEPT !.id = "str"] ELSE n
  ELSE [n EXCEPT !.kids = [k \in 1..Len(n.kids) |-> Reread(n.kids[k], n.kind = "map" /\ k % 2 = 1)]]

NegativeKeys(n) == \E k \in 1..Pairs(n) : n.kids[2*k-1].id = "int" /\ n.kids[2*k-1].val[1] = 45

\* encode.c / decode.c: what is encoded decodes to the same tree, tags and reserved
\* words included (the "stability" of the header).
RoundTrips(n, out) ==
  LET Same(r) == r.status = "ok" /\ r.root = <<Reread(n, FALSE)>>
  IN  "negative_key" \in Edges \/ ~NegativeKeys(n) => Same(yeptris_cbor_decode(out, FALSE))

\* Whether the keys of every mapping in the encoded item at i stand in bytewise order of
\* their full encoded items; next is the place after the item.
RECURSIVE SortedAt(_, _), SortedRun(_, _, _, _)
SortedAt(p, i) ==
  LET mt == p[i] \div 32
      a == RefArg(p, i, FALSE)
  IN  IF mt = 7 THEN [ok |-> TRUE, next |-> i + 1 + (IF p[i] % 32 < 24 THEN 0 ELSE IF p[i] % 32 = 24 THEN 1 ELSE (p[i] % 32) - 24)]
      ELSE IF mt = 6 THEN SortedAt(p, a.next)
      ELSE IF mt = 4 THEN SortedRun(p, a.next, a.v, <<>>)
      ELSE IF mt = 5 THEN SortedRun(p, a.next, 2 * a.v, <<0>>)
      ELSE [ok |-> TRUE, next |-> IF mt \in {2, 3} THEN a.next + a.v ELSE a.next]
SortedRun(p, i, left, last) ==   \* last: the previous key, <<>> in a sequence
  IF left = 0 THEN [ok |-> TRUE, next |-> i]
  ELSE LET r == SortedAt(p, i)
           item == SubSeq(p, i, r.next - 1)
           is_key == last # <<>> /\ left % 2 = 0
           rest == SortedRun(p, r.next, left - 1, IF is_key THEN <<0>> \o item ELSE last)
       IN  [ok |-> r.ok /\ rest.ok /\ (is_key => ~KeyBefore(<<0>> \o item, last)), next |-> rest.next]

\* A tree without the order of its pairs.
RECURSIVE Unordered(_)
Unordered(n) ==
  LET kids == [k \in 1..Len(n.kids) |-> Unordered(n.kids[k])]
      pair(k) == <<kids[2 * k - 1], kids[2 * k]>>
  IN  IF n.kind # "map" THEN [n EXCEPT !.kids = kids]
      ELSE [n EXCEPT !.kids = [x \in {pair(k) : k \in 1..Pairs(n)} |-> Cardinality({k \in 1..Pairs(n) : pair(k) = x})]]

\* encode.c, canonical mode: every mapping's keys stand in bytewise order of their encoded
\* items, nested mappings included, and every pair is still there.
CanonicalSorted(n, out) ==
  LET Kept(r) == /\ r.status = "ok"
                 /\ "negative_key" \in Edges \/ ~NegativeKeys(n) => Unordered(r.root[1]) = Unordered(Reread(n, FALSE))
  IN  SortedAt(out, 1).ok /\ Kept(yeptris_cbor_decode(out, FALSE))

\* encode.c: every tree of Trees, encoded in its own order and canonically.
EncodesRight ==
  LET Right(n, plain, sorted) ==
        /\ PassesAgree(n, FALSE, plain) /\ PassesAgree(n, TRUE, sorted)
        /\ Encodable(n) => RoundTrips(n, plain) /\ CanonicalSorted(n, sorted)
  IN  \A n \in Trees : Right(n, yeptris_cbor_encode(n, FALSE), yeptris_cbor_encode(n, TRUE))

\* encode.c, cbor_d2h and yep_cbor_float_width: the half is the nearest one, ties to even,
\* infinity from the overflow threshold on; and every half re-reads to itself.
RoundsToEven ==
  part = "half" =>
    LET x == DoubleMag(text[1], text[2])
        h == cbor_d2h(text[1], text[2])
        halves == (0..(2^HalfExp - 2)) \X (0..(2^HalfMan - 1))
        mag(q) == cbor_h2d([exp |-> q[1], man |-> q[2]])
        topmost == mag(<<2^HalfExp - 2, 2^HalfMan - 1>>)
        ulp == HalfUnit * 2^(2^HalfExp - 3)
        dist(a, b) == IF a < b THEN b - a ELSE a - b
    IN  IF 2 * (x - topmost) >= ulp THEN h = HalfInf
        ELSE /\ h # HalfInf
             /\ \A q \in halves : LET d == dist(mag(q), x) e == dist(cbor_h2d(h), x)
                                  IN  e < d \/ mag(q) = cbor_h2d(h) \/ (e = d /\ h.man % 2 = 0)
             /\ FitsHalf(text[1], text[2]) <=> \E q \in halves : mag(q) = x
=============================================================================

---------------------------- MODULE MarshalRead ----------------------------
(***************************************************************************)
(* The two readers of Ruby Marshal streams: marshal/to_json.c, which       *)
(* writes JSON text, and cbor/from_marshal.c, which writes one CBOR item.  *)
(* Both walk the bytes once, number the objects that may be linked to, and *)
(* copy or re-spell a linked object where a link stands. A 64-bit word is  *)
(* MaxLimbs 16-bit limbs; a float is its decimal text, its encoded form a  *)
(* marker and its value.                                                   *)
(***************************************************************************)
EXTENDS Integers, Sequences, FiniteSets, SequencesExt, Utf8

CONSTANTS
  MaxLimbs,   \* limbs of the widest integer either reader renders (4)
  MjDepth,    \* MJ_DEPTH_MAX
  CmDepth     \* CM_MAX_DEPTH
ASSUME ReadAssumption == MaxLimbs = 1 /\ MjDepth \in Nat \ {0} /\ CmDepth \in Nat \ {0}

\* The type bytes of the format.
NIL == 48
TRU == 84
FLS == 70
FIX == 105
BIG == 108
FLO == 102
STR == 34
IVAR == 73
SYM == 58
SYMLINK == 59
LINK == 64
ARR == 91
HASH == 123
PLUS == 43
MINUS == 45
Containers == {ARR, HASH}
Registering == {ARR, HASH, STR, FLO, BIG, IVAR}

WordMax == 2 ^ (16 * MaxLimbs - 1) - 1
Wrap(v) == LET u == v % (2 ^ (16 * MaxLimbs)) IN IF u > WordMax THEN u - 2 ^ (16 * MaxLimbs) ELSE u

RECURSIVE Digits(_)
Digits(v) == IF v < 10 THEN <<48 + v>> ELSE Append(Digits(v \div 10), 48 + (v % 10))
Decimal(v) == IF v < 0 THEN <<45>> \o Digits(-v) ELSE Digits(v)

Inf == <<105, 110, 102>>
Huge == <<57, 101, 57>>    \* "9e9" overflows here, as 1e999 does
Finite(s) == s \notin {Inf, Huge}
FloatValue(s) == s[1] - 48

cm_ascii_only(s) == \A k \in 1..Len(s) : s[k] < 128

RECURSIVE LittleEndian(_)
LittleEndian(s) == IF s = <<>> THEN 0 ELSE s[1] + 256 * LittleEndian(Tail(s))

-----------------------------------------------------------------------------
(* What the two cursors share: a byte, a long, a counted run of bytes.     *)
(* c.b and c.v are the byte and the number read last.                      *)

Next1(p, c) == IF c.at > Len(p) THEN [c EXCEPT !.ok = FALSE]
               ELSE [c EXCEPT !.b = p[c.at], !.at = @ + 1]

\* A zero byte, a small form, or a size form of k little-endian bytes (128 is never written).
LongAt(p, d) ==
  LET k == IF d.b <= 4 THEN d.b ELSE 256 - d.b
      raw == LittleEndian(SubSeq(p, d.at, d.at + k - 1))
  IN  IF ~d.ok THEN d
      ELSE IF d.b \in 5..127 THEN [d EXCEPT !.v = d.b - 5]
      ELSE IF d.b \in 129..250 THEN [d EXCEPT !.v = d.b - 251]
      ELSE IF d.b # 0 /\ d.at + k - 1 > Len(p) THEN [d EXCEPT !.ok = FALSE]
      ELSE [d EXCEPT !.at = @ + k, !.v = IF d.b <= 4 THEN raw ELSE raw - 256 ^ k]
LongFrom(p, c) == LongAt(p, Next1(p, c))

mj_byte(p, c) == Next1(p, c)
mj_long(p, c) == LongFrom(p, c)
cm_byte(p, c) == Next1(p, c)
cm_long(p, c) == LongFrom(p, c)

\* len bytes, which end in c.s; and a length with that many bytes.
cm_take(p, c, len) ==
  IF len < 0 \/ len > Len(p) - c.at + 1 THEN [c EXCEPT !.ok = FALSE]
  ELSE [c EXCEPT !.s = SubSeq(p, c.at, c.at + len - 1), !.at = @ + len]
CountedAt(p, d) == IF d.ok THEN cm_take(p, d, d.v) ELSE d
Counted(p, c) == CountedAt(p, LongFrom(p, c))

\* A sign and limbs; c.v is the magnitude.
LimbsAt(p, g, n, least, most) ==
  LET valued(s) == IF s.ok THEN [s EXCEPT !.v = LittleEndian(s.s), !.b = g.b] ELSE s
  IN  IF ~g.ok \/ g.b \notin {PLUS, MINUS} \/ ~n.ok \/ n.v < least \/ n.v > most THEN [n EXCEPT !.ok = FALSE]
      ELSE valued(cm_take(p, n, 2 * n.v))
SignedLimbs(p, g, least, most) == LimbsAt(p, g, LongFrom(p, g), least, most)
Limbs(p, c, least, most) == SignedLimbs(p, Next1(p, c), least, most)

-----------------------------------------------------------------------------
(* to_json.c.                                                              *)

Put(c, s) == IF c.ok THEN [c EXCEPT !.out = @ \o s] ELSE c
emit_dq_json(c, s) == Put(c, <<34>> \o s \o <<34>>)
mj_fail(c) == [c EXCEPT !.ok = FALSE]

mj_string_body(p, c, len) == LET text(d) == emit_dq_json(d, d.s) IN text(cm_take(p, c, len))

mj_symbol(p, c, emit) ==
  LET kept(d) == IF d.ok THEN [d EXCEPT !.syms = Append(@, d.s)] ELSE d
      text(d) == IF emit THEN emit_dq_json(d, d.s) ELSE d
  IN  text(kept(Counted(p, c)))

\* A symbol's number in the table, or a failure.
SymbolIndex(p, c) ==
  LET known(d) == IF d.ok /\ d.v \in 0..(Len(d.syms) - 1) THEN d ELSE mj_fail(d)
  IN  known(mj_long(p, c))

RECURSIVE mj_discard_value(_, _), mj_discard_value_inner(_, _), MjIvars(_, _, _), MjDiscardAll(_, _, _)
MjIvars(p, c, n) ==
  LET name(b) == IF ~b.ok THEN b
                 ELSE IF b.b = SYM THEN mj_symbol(p, b, FALSE)
                 ELSE IF b.b = SYMLINK THEN SymbolIndex(p, b)
                 ELSE mj_fail(b)
      value(d) == IF d.ok THEN mj_discard_value(p, d) ELSE d
  IN  IF ~c.ok \/ n <= 0 THEN c ELSE MjIvars(p, value(name(mj_byte(p, c))), n - 1)

mj_ivar_pairs(p, c) ==
  LET all(n) == MjIvars(p, n, n.v) IN IF c.ok THEN all(mj_long(p, c)) ELSE c

MjDiscardAll(p, c, n) == IF ~c.ok \/ n <= 0 THEN c ELSE MjDiscardAll(p, mj_discard_value(p, c), n - 1)

mj_discard_value_inner(p, c) ==
  LET all(n, t) == MjDiscardAll(p, n, IF t = ARR THEN n.v ELSE 2 * n.v)
      kind(t) ==
        IF ~t.ok \/ t.b \in {NIL, TRU, FLS} THEN t
        ELSE IF t.b \in {FIX, SYMLINK, LINK} THEN mj_long(p, t)
        ELSE IF t.b = BIG THEN Limbs(p, t, 0, Len(p))
        ELSE IF t.b \in {FLO, STR} THEN Counted(p, t)
        ELSE IF t.b = IVAR THEN mj_ivar_pairs(p, mj_discard_value(p, t))
        ELSE IF t.b = SYM THEN mj_symbol(p, t, FALSE)
        ELSE IF t.b \in Containers THEN all(mj_long(p, t), t.b)
        ELSE mj_fail(t)
  IN  kind(mj_byte(p, c))

\* The discard walk shares the depth budget and registers nothing.
mj_discard_value(p, c) ==
  IF c.depth >= MjDepth THEN mj_fail(c)
  ELSE [mj_discard_value_inner(p, [c EXCEPT !.depth = @ + 1]) EXCEPT !.depth = c.depth]

\* A span without length is one still being written: a cycle.
mj_emit_memo(c, o) ==
  IF o.len = 0 THEN mj_fail(c) ELSE Put(c, SubSeq(c.out, o.off + 1, o.off + o.len))

ObjectLink(p, c) ==
  LET object(d) == IF d.ok /\ d.v \in 0..(Len(d.objs) - 1) THEN mj_emit_memo(d, d.objs[d.v + 1]) ELSE mj_fail(d)
  IN  object(mj_long(p, c))

SymbolLink(p, c) == LET text(d) == emit_dq_json(d, d.syms[d.v + 1]) IN text(SymbolIndex(p, c))

MjRegister(c) == [c EXCEPT !.objs = Append(@, [off |-> Len(c.out), len |-> 0])]
MjClose(c, slot, start) == IF c.ok THEN [c EXCEPT !.objs[slot] = [off |-> start, len |-> Len(c.out) - start]] ELSE c

RECURSIVE mj_value(_, _, _), mj_value_inner(_, _, _), MjBody(_, _, _, _), MjMembers(_, _, _, _, _, _)

\* The key of a pair: a string, wrapped or not, a symbol, or a link.
MjKey(p, c, compact) ==
  LET text(n, k) == MjClose(mj_string_body(p, n, n.v), Len(k.objs) + 1, Len(k.out))
      kind(k) ==
        IF ~k.ok THEN k
        ELSE IF k.b = IVAR THEN mj_ivar_pairs(p, mj_value(p, k, compact))
        ELSE IF k.b = STR THEN text(mj_long(p, MjRegister(k)), k)
        ELSE IF k.b = SYM THEN mj_symbol(p, k, TRUE)
        ELSE IF k.b = SYMLINK THEN SymbolLink(p, k)
        ELSE IF k.b = LINK THEN ObjectLink(p, k)
        ELSE mj_fail(k)
  IN  kind(mj_byte(p, c))

\* n more items of an array or pairs of a hash, each but the first after a comma.
MjMembers(p, c, n, compact, t, first) ==
  LET gap == IF compact THEN <<>> ELSE <<32>>
      value(d) == IF d.ok THEN mj_value(p, IF t = ARR THEN d ELSE Put(d, <<58>> \o gap), compact) ELSE d
      key(d) == IF t = ARR THEN d ELSE MjKey(p, d, compact)
  IN  IF ~c.ok \/ n <= 0 THEN c
      ELSE MjMembers(p, value(key(IF first THEN c ELSE Put(c, <<44>> \o gap))), n - 1, compact, t, FALSE)

MjContainer(p, c, compact, t) ==
  LET all(n) == IF ~n.ok \/ n.v < 0 THEN mj_fail(n) ELSE MjMembers(p, Put(n, <<t>>), n.v, compact, t, TRUE)
  IN  Put(all(mj_long(p, c)), <<t + 2>>)

MjBody(p, c, compact, t) ==
  LET inner == mj_value(p, [c EXCEPT !.no_reg = TRUE], compact)
      fix(n) == Put(n, Decimal(n.v))
      big(d) == Put(d, Decimal(Wrap(IF d.b = MINUS THEN -d.v ELSE d.v)))
      float(d) == IF d.ok /\ ~Finite(d.s) THEN mj_fail(d) ELSE Put(d, Decimal(FloatValue(d.s)) \o <<46, 48>>)
      text(n) == mj_string_body(p, n, n.v)
  IN  IF t = NIL THEN Put(c, <<110, 117, 108, 108>>)
      ELSE IF t = TRU THEN Put(c, <<116, 114, 117, 101>>)
      ELSE IF t = FLS THEN Put(c, <<102, 97, 108, 115, 101>>)
      ELSE IF t = FIX THEN fix(mj_long(p, c))
      ELSE IF t = BIG THEN big(Limbs(p, c, 1, MaxLimbs))
      ELSE IF t = FLO THEN float(Counted(p, c))
      ELSE IF t = STR THEN text(mj_long(p, c))
      ELSE IF t = IVAR THEN mj_ivar_pairs(p, [inner EXCEPT !.no_reg = FALSE])
      ELSE IF t = SYM THEN mj_symbol(p, c, TRUE)
      ELSE IF t = SYMLINK THEN SymbolLink(p, c)
      ELSE IF t = LINK THEN ObjectLink(p, c)
      ELSE IF t \in Containers THEN MjContainer(p, c, compact, t)
      ELSE mj_fail(c)


\* A construct takes its slot at its first byte and its span once it is written; what a
\* wrapper holds takes none.
mj_value_inner(p, c, compact) ==
  LET reg(b) == ~c.no_reg /\ b.b \in Registering
      closed(r, b) == IF reg(b) THEN MjClose(r, Len(b.objs) + 1, Len(c.out)) ELSE r
      body(b) == IF b.ok THEN closed(MjBody(p, IF reg(b) THEN MjRegister(b) ELSE b, compact, b.b), b) ELSE b
  IN  body(mj_byte(p, [c EXCEPT !.no_reg = FALSE]))

mj_value(p, c, compact) ==
  IF c.depth >= MjDepth THEN mj_fail(c)
  ELSE [mj_value_inner(p, [c EXCEPT !.depth = @ + 1], compact) EXCEPT !.depth = c.depth]

yeptris_json_from_marshal(p, compact) ==
  LET answer(c) == [status |-> IF c.ok THEN "ok" ELSE "unsupported", out |-> c.out, next |-> c.at]
  IN  answer(mj_value(p, [at |-> 1, b |-> 0, v |-> 0, s |-> <<>>, ok |-> TRUE, syms |-> <<>>, objs |-> <<>>,
                          out |-> <<>>, no_reg |-> FALSE, depth |-> 0], compact))

-----------------------------------------------------------------------------
(* from_marshal.c.  out is the number of a buffer, 0 to consume only.      *)

Binary == 0
Utf8 == 1
UsAscii == 2
Named == 3

cm_fail(c) == [c EXCEPT !.ok = FALSE]
cm_put(c, out, s) == IF c.ok THEN [c EXCEPT !.bufs[out] = @ \o s] ELSE c
yep_cbor_put_head(mt, arg) == IF arg < 24 THEN <<32 * mt + arg>> ELSE IF arg < 256 THEN <<32 * mt + 24, arg>>
                              ELSE <<32 * mt + 25, arg \div 256, arg % 256>>
cm_head(c, out, mt, arg) == cm_put(c, out, yep_cbor_put_head(mt, arg))
cm_float(c, out, v) == cm_put(c, out, <<249, v>>)
cm_buf_new(c) == [c EXCEPT !.bufs = Append(@, <<>>)]

Undefined == <<117, 110, 100, 101, 102, 105, 110, 101, 100>>
cm_text(c, out, s) ==
  IF s = Undefined THEN cm_put(c, out, <<247>>)
  ELSE IF ~Utf8Valid(s) THEN cm_fail(c)
  ELSE cm_put(cm_head(c, out, 3, Len(s)), out, s)

cm_symbol_text(c, out, s) ==
  cm_put(cm_head(c, out, IF Utf8Valid(s) THEN 3 ELSE 2, Len(s) + 1), out, <<58>> \o s)

\* The verdict of the 1.1 resolver on the key texts used here.
Compat11(s) == IF s = <<>> THEN "null" ELSE IF s = <<121>> THEN "bool"
               ELSE IF \A k \in 1..Len(s) : s[k] \in 48..57 THEN "int" ELSE "str"

cm_key_bytes(c, out, s) ==
  IF ~Utf8Valid(s) THEN cm_put(cm_head(c, out, 2, Len(s)), out, s)
  ELSE IF Compat11(s) \in {"int", "float", "bool", "null"} THEN cm_fail(c)
  ELSE cm_text(c, out, s)

cm_value_bytes(c, out, s, enc) ==
  IF \/ enc = Utf8 /\ ~cm_ascii_only(s) /\ ~Utf8Valid(s)
     \/ enc \in {Binary, UsAscii} /\ ~cm_ascii_only(s)
     \/ enc = Named
    THEN cm_fail(c) ELSE cm_text(c, out, s)

Spelled(c, out, s, enc) == IF c.in_key THEN cm_key_bytes(c, out, s) ELSE cm_value_bytes(c, out, s, enc)

cm_symbol(p, c, out) ==
  LET kept(d) == IF d.ok THEN [d EXCEPT !.syms = Append(@, d.s)] ELSE d
      text(d) == IF d.ok /\ out # 0 THEN cm_symbol_text(d, out, d.s) ELSE d
  IN  text(kept(Counted(p, c)))

NotString == -1
cm_obj_register(c, out, kind) ==
  [c EXCEPT !.objs = Append(@, [buf |-> out, off |-> IF out = 0 THEN 0 ELSE Len(c.bufs[out]), len |-> 0,
                                kind |-> kind, str |-> <<>>, senc |-> NotString])]
Payload(c, slot, s, enc) == IF slot = 0 THEN c ELSE [c EXCEPT !.objs[slot].str = s, !.objs[slot].senc = enc]

\* A linked string is spelled anew by the law of the place it lands in; anything else is
\* copied from the buffer it was written to.
cm_emit_memo(c, o, out) ==
  IF out = 0 THEN c
  ELSE IF o.senc # NotString THEN Spelled(c, out, o.str, o.senc)
  ELSE IF o.buf = 0 \/ o.len = 0 \/ o.kind \in Containers THEN cm_fail(c)
  ELSE cm_put(c, out, SubSeq(c.bufs[o.buf], o.off + 1, o.off + o.len))

cm_key_lead_ok(b) == b \in {STR, IVAR, SYM, SYMLINK, LINK, FIX, BIG, FLO}

Ename == <<69>>
EncodingName == <<101>>    \* the eight letters of "encoding"

RECURSIVE cm_value(_, _, _), CmBody(_, _, _, _, _), CmIvars(_, _, _, _), CmItems(_, _, _, _), CmSkip(_, _, _), CmEntries(_, _, _, _)

\* c.enc is the encoding the pairs told, when the caller asks for it.
CmIvars(p, c, n, wants) ==
  LET linked(k) == IF k.ok /\ k.v \in 0..(Len(k.syms) - 1) THEN [k EXCEPT !.s = k.syms[k.v + 1]] ELSE cm_fail(k)
      name(b) == IF ~b.ok THEN b
                 ELSE IF b.b = SYM THEN cm_symbol(p, b, 0)
                 ELSE IF b.b = SYMLINK THEN linked(cm_long(p, b))
                 ELSE cm_fail(b)
      told(d) == IF ~d.ok \/ ~wants \/ d.s \notin {Ename, EncodingName} THEN d
                 ELSE IF d.at > Len(p) THEN cm_fail(d)
                 ELSE [d EXCEPT !.enc = IF d.s = EncodingName THEN Named
                                        ELSE IF p[d.at] = TRU THEN Utf8
                                        ELSE IF p[d.at] = FLS THEN UsAscii ELSE Named]
      value(d) == IF d.ok THEN [cm_value(p, d, 0) EXCEPT !.enc = d.enc] ELSE d
  IN  IF ~c.ok \/ n <= 0 THEN c ELSE CmIvars(p, value(told(name(cm_byte(p, c)))), n - 1, wants)

cm_ivar_pairs(p, c, wants) ==
  LET all(n) == IF ~n.ok \/ n.v < 0 THEN cm_fail(n) ELSE CmIvars(p, n, n.v, wants)
  IN  IF c.ok THEN all(cm_long(p, c)) ELSE c

cm_wrapped_string(p, c, out, slot) ==
  LET spelled(d, s) == IF out = 0 THEN d ELSE Spelled(d, out, s, d.enc)
      ended(i, s) == IF i.ok THEN spelled(Payload(i, slot, s, i.enc), s) ELSE i
      told(s) == ended(cm_ivar_pairs(p, [s EXCEPT !.enc = Binary], TRUE), s.s)
  IN  told(Counted(p, [c EXCEPT !.at = @ + 1]))

cm_map_key(p, c, out) == [cm_value(p, [c EXCEPT !.in_key = TRUE], out) EXCEPT !.in_key = c.in_key]

BytesBefore(a, b) ==
  \/ \E k \in 1..Len(a) : k <= Len(b) /\ a[k] < b[k] /\ \A j \in 1..(k - 1) : a[j] = b[j]
  \/ Len(a) < Len(b) /\ a = SubSeq(b, 1, Len(a))

\* One step of the insertion sort: pair goes before the pairs whose key is greater.
InsertPair(sorted, pair) ==
  LET k == Cardinality({i \in 1..Len(sorted) : ~BytesBefore(pair.key, sorted[i].key)})
  IN  SubSeq(sorted, 1, k) \o <<pair>> \o SubSeq(sorted, k + 1, Len(sorted))

\* n more pairs of a map, written to dst; c.pairs keeps the bytes of each.
CmEntries(p, c, dst, n) ==
  LET tail(from, to) == SubSeq(to.bufs[dst], Len(from.bufs[dst]) + 1, Len(to.bufs[dst]))
      noted(k, v) == IF v.ok THEN [v EXCEPT !.pairs = Append(c.pairs, [key |-> tail(c, k), all |-> tail(c, v)])] ELSE v
      value(k) == IF k.ok THEN noted(k, cm_value(p, k, dst)) ELSE k
      pair == IF c.at > Len(p) \/ ~cm_key_lead_ok(p[c.at]) THEN cm_fail(c) ELSE value(cm_map_key(p, c, dst))
  IN  IF ~c.ok \/ n <= 0 THEN c ELSE CmEntries(p, pair, dst, n - 1)

\* The pairs of a map: written in stream order, checked for equal keys, and in canonical
\* mode copied to out from a buffer of their own in the order of their keys.
CmPairs(p, c, out, n, canonical) ==
  LET scratch == canonical /\ n > 0
      c0 == IF scratch THEN cm_buf_new(c) ELSE c
      c1 == IF canonical THEN c0 ELSE cm_head(c0, out, 5, n)
      written(e, all) == cm_put(cm_head(e, out, 5, n), out, FlattenSeq([i \in 1..n |-> all[i].all]))
      done(d) ==
        IF ~d.ok THEN d
        ELSE IF \E i, j \in 1..n : i < j /\ d.pairs[i].key = d.pairs[j].key THEN cm_fail(d)
        ELSE LET e == [d EXCEPT !.depth = c.depth, !.pairs = c.pairs]
             IN  IF canonical THEN written(e, FoldLeft(InsertPair, <<>>, d.pairs)) ELSE e
  IN  done(CmEntries(p, [c1 EXCEPT !.depth = @ + 1, !.pairs = <<>>], IF scratch THEN Len(c.bufs) + 1 ELSE out, n))

CmInteger(c, out, negative, mag) ==
  IF negative
    THEN IF mag > WordMax + 1 THEN cm_float(c, out, -mag)
         ELSE IF mag = 0 THEN cm_head(c, out, 0, 0) ELSE cm_head(c, out, 1, mag - 1)
    ELSE IF mag > WordMax THEN cm_float(c, out, mag) ELSE cm_head(c, out, 0, mag)

\* n more items of an array, and n more pairs of a map that is only consumed.
CmItems(p, c, out, n) == IF ~c.ok \/ n <= 0 THEN c ELSE CmItems(p, cm_value(p, c, out), out, n - 1)
CmSkip(p, c, n) ==
  LET value(k) == IF k.ok THEN cm_value(p, k, 0) ELSE k
  IN  IF ~c.ok \/ n <= 0 THEN c ELSE CmSkip(p, value(cm_map_key(p, c, 0)), n - 1)

CmBody(p, c, out, t, slot) ==
  LET simple(b) == IF out # 0 THEN cm_put(c, out, <<b>>) ELSE c
      fix(n) == IF out # 0 THEN CmInteger(n, out, n.v < 0, IF n.v < 0 THEN -n.v ELSE n.v) ELSE n
      big(d) == IF out # 0 THEN CmInteger(d, out, d.b = MINUS, d.v) ELSE d
      string(d, s) == IF d.ok /\ out # 0 THEN Spelled(d, out, s, Binary) ELSE d
      text(s) == string(Payload(s, slot, s.s, Binary), s.s)
      float(d) == IF ~d.ok \/ out = 0 THEN d ELSE IF Finite(d.s) THEN cm_float(d, out, FloatValue(d.s)) ELSE cm_fail(d)
      symbol(n) == IF ~n.ok \/ n.v \notin 0..(Len(n.syms) - 1) THEN cm_fail(n)
                   ELSE IF out # 0 THEN cm_symbol_text(n, out, n.syms[n.v + 1]) ELSE n
      object(n) == IF ~n.ok \/ n.v \notin 0..(Len(n.objs) - 1) THEN cm_fail(n)
                   ELSE cm_emit_memo(n, n.objs[n.v + 1], out)
      nested(n) == [n EXCEPT !.depth = @ + 1]
      array(n) == IF ~n.ok \/ n.v < 0 THEN cm_fail(n)
                  ELSE [CmItems(p, nested(IF out # 0 THEN cm_head(n, out, 4, n.v) ELSE n), out, n.v)
                          EXCEPT !.depth = c.depth]
      hash(n) == IF ~n.ok \/ n.v < 0 THEN cm_fail(n)
                 ELSE IF out = 0 THEN [CmSkip(p, nested(n), n.v) EXCEPT !.depth = c.depth]
                 ELSE CmPairs(p, n, out, n.v, c.canonical)
      inner == cm_value(p, [c EXCEPT !.no_reg = TRUE], out)
  IN  IF t = NIL THEN simple(246)
      ELSE IF t = TRU THEN simple(245)
      ELSE IF t = FLS THEN simple(244)
      ELSE IF t = FIX THEN fix(cm_long(p, c))
      ELSE IF t = BIG THEN big(Limbs(p, c, 1, MaxLimbs))
      ELSE IF t = FLO THEN float(Counted(p, c))
      ELSE IF t = STR THEN text(Counted(p, c))
      ELSE IF t = IVAR
        THEN IF c.at <= Len(p) /\ p[c.at] = STR THEN cm_wrapped_string(p, c, out, slot)
             ELSE IF c.in_key THEN cm_fail(c)
             ELSE cm_ivar_pairs(p, [inner EXCEPT !.no_reg = FALSE], FALSE)
      ELSE IF t = SYM THEN cm_symbol(p, c, out)
      ELSE IF t = SYMLINK THEN symbol(cm_long(p, c))
      ELSE IF t = LINK THEN object(cm_long(p, c))
      ELSE IF t = ARR THEN array(cm_long(p, c))
      ELSE IF t = HASH THEN hash(cm_long(p, c))
      ELSE cm_fail(c)

cm_value(p, c, out) ==
  LET reg(b) == ~c.no_reg /\ b.b \in Registering
      kind(b) == IF b.b # IVAR THEN b.b ELSE IF b.at <= Len(p) THEN p[b.at] ELSE 0   \* the wrapper is transparent
      slot(b) == IF reg(b) THEN Len(b.objs) + 1 ELSE 0
      closed(r, at) == IF r.ok /\ at # 0 /\ out # 0 THEN [r EXCEPT !.objs[at].len = Len(r.bufs[out]) - r.objs[at].off] ELSE r
      body(b) == IF b.ok THEN closed(CmBody(p, IF reg(b) THEN cm_obj_register(b, out, kind(b)) ELSE b, out, b.b, slot(b)), slot(b))
                 ELSE b
  IN  IF c.depth >= CmDepth THEN cm_fail(c) ELSE body(cm_byte(p, [c EXCEPT !.no_reg = FALSE]))

yeptris_cbor_from_marshal(p, canonical) ==
  LET answer(c) == IF c.ok /\ c.at = Len(p) + 1 THEN [status |-> "ok", out |-> c.bufs[1]]
                   ELSE [status |-> "unsupported", out |-> <<>>]
  IN  answer(cm_value(p, [at |-> 1, b |-> 0, v |-> 0, s |-> <<>>, ok |-> TRUE, syms |-> <<>>, objs |-> <<>>,
                          bufs |-> <<<<>>>>, no_reg |-> FALSE, in_key |-> FALSE, depth |-> 0, enc |-> 0,
                          pairs |-> <<>>, canonical |-> canonical], 1))
=============================================================================

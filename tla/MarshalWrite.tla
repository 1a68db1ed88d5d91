---------------------------- MODULE MarshalWrite ----------------------------
(***************************************************************************)
(* From a document to a Marshal stream: events/values.c flattens the       *)
(* engine's events or a tree into typed value records, marshal.c checks    *)
(* and counts them and writes the stream. Streams here start after the two *)
(* header bytes. The sizing pass and the write pass are one walker run     *)
(* twice; it is modelled once, over the bytes it produces.                 *)
(***************************************************************************)
EXTENDS MarshalRead

CONSTANTS
  VMaxDepth,      \* YEP_V_MAX_DEPTH
  SmallMax,       \* 2^30: integers below it are written as fixnums
  MinBigDigits,   \* 18: shorter texts are never bignums
  MaxBigDigits,   \* 1300
  BigLimbs,       \* E_BIGNUM_LIMBS_MAX
  DupCap          \* first capacity of a duplicate-key table (16)
ASSUME WriteAssumption == /\ {VMaxDepth, SmallMax, MinBigDigits, MaxBigDigits, BigLimbs} \subseteq Nat \ {0}
                          /\ DupCap \in {2, 4, 8, 16}

-----------------------------------------------------------------------------
(* values.c.  An event is a record of the engine's event stream; a value   *)
(* record keeps the text itself in place of its span in the arena.         *)

NumberOf(s) ==
  LET neg == s # <<>> /\ s[1] = MINUS
      d == IF neg THEN SubSeq(s, 2, Len(s)) ELSE s
      v == FoldLeft(LAMBDA a, b : 10 * a + (b - 48), 0, d)
  IN  IF neg THEN -v ELSE v
yep_num_i64(s) == [ok |-> NumberOf(s) \in (-WordMax - 1)..WordMax, v |-> NumberOf(s)]
yep_num_f64(s) == [ok |-> s # <<120>>, v |-> IF s[1] = 46 THEN -1 ELSE FloatValue(s)]
yep_num_bool_ci(s) == IF s[1] \in {116, 121} THEN 1 ELSE 0

Value(kind) == [kind |-> kind, is_key |-> 0, b |-> 0, tag |-> "none", text |-> <<>>, p |-> 0]
NoValues == [vals |-> <<>>, depth |-> 0, key_pend |-> [d \in 1..VMaxDepth |-> 0],
             is_seq |-> [d \in 1..VMaxDepth |-> FALSE]]

yep_val_put(c, v) == [c EXCEPT !.vals = Append(@, v)]

\* yep_val_slot and yep_val_put: entries of a mapping alternate between key and value.
SlotAndPut(c, v) ==
  IF c.depth = 0 \/ c.depth > VMaxDepth \/ c.is_seq[c.depth] THEN yep_val_put(c, v)
  ELSE yep_val_put([c EXCEPT !.key_pend[c.depth] = 1 - @], [v EXCEPT !.is_key = 1 - c.key_pend[c.depth]])

anchor_entry(c, name) == yep_val_put(c, [Value("anchor") EXCEPT !.text = name])

val_scalar(c, tag, plain, s) ==
  LET v == [Value("str") EXCEPT !.tag = tag, !.text = s, !.b = IF plain THEN 1 ELSE 0]
      int == yep_num_i64(s)
      flo == yep_num_f64(s)
  IN  SlotAndPut(c, CASE tag = "null" -> [v EXCEPT !.kind = "null"]
                      [] tag = "bool" -> [v EXCEPT !.kind = "bool", !.b = yep_num_bool_ci(s)]
                      [] tag = "int" -> IF int.ok THEN [v EXCEPT !.kind = "int", !.p = int.v] ELSE v
                      [] tag = "float" -> IF flo.ok THEN [v EXCEPT !.kind = "float", !.p = flo.v] ELSE v
                      [] tag = "timestamp" -> [v EXCEPT !.kind = "timestamp"]
                      [] tag \in {"str", "binary"} -> v)

OpenFrame(c, seq) ==
  [c EXCEPT !.depth = @ + 1,
            !.key_pend = IF c.depth < VMaxDepth THEN [@ EXCEPT ![c.depth + 1] = 0] ELSE @,
            !.is_seq = IF c.depth < VMaxDepth THEN [@ EXCEPT ![c.depth + 1] = seq] ELSE @]

OpenRecord(seq, tag, explicit) ==
  [Value(IF seq THEN "seq_open" ELSE "map_open") EXCEPT !.tag = tag, !.text = explicit]

\* One event of the recorded stream.
TransformOne(c0, r) ==
  LET c == IF r.anchor # <<>> /\ r.ty # "alias" THEN anchor_entry(c0, r.anchor) ELSE c0
      open == OpenRecord(r.ty = "seq", r.id, r.explicit)
  IN  CASE r.ty = "doc" -> yep_val_put(c, Value("doc"))
        [] r.ty \in {"seq", "map"} -> OpenFrame(SlotAndPut(c, open), r.ty = "seq")
        [] r.ty = "end" -> [yep_val_put(c, Value("close")) EXCEPT !.depth = @ - 1]
        [] r.ty = "alias" -> SlotAndPut(c, [Value("alias") EXCEPT !.text = r.text])
        [] r.ty = "scalar" -> val_scalar(c, r.id, r.plain, r.text)

transform(events) == FoldLeft(TransformOne, NoValues, events).vals

RECURSIVE lin_node(_, _)

lin_node(c0, n) ==
  LET c == IF n.anchor # <<>> /\ n.ty # "alias" THEN anchor_entry(c0, n.anchor) ELSE c0
      v == OpenRecord(n.ty = "seq", n.id, n.explicit)
      kids == FoldLeft(lin_node, OpenFrame(SlotAndPut(c, v), n.ty = "seq"), n.kids)
      close == [v EXCEPT !.kind = "close", !.tag = "none", !.is_key = 0]
  IN  IF n.ty = "scalar" THEN val_scalar(c, n.id, n.plain, n.text)
      ELSE IF n.ty = "alias" THEN SlotAndPut(c, [Value("alias") EXCEPT !.text = n.text])
      ELSE [yep_val_put(kids, close) EXCEPT !.depth = @ - 1]

\* The tree route of the strict JSON lane: a DOC record before each root.
drain_json_route(roots) ==
  FoldLeft(LAMBDA c, n : lin_node(yep_val_put(c, Value("doc")), n), NoValues, roots).vals
yep_values_from_dom(n) == lin_node(NoValues, n).vals

-----------------------------------------------------------------------------
(* marshal.c: the checks before anything is written.                       *)

IsMerge(v) == v.is_key = 1 /\ v.text = <<60, 60>>
Rejected(vals) == \E i \in 1..Len(vals) :
  \/ vals[i].kind = "timestamp"
  \/ vals[i].kind = "str" /\ (vals[i].tag = "binary" \/ IsMerge(vals[i]))

Opens == {"seq_open", "map_open"}
\* A record is counted in the innermost open container: every entry of a sequence, the keys
\* of a mapping.
CountOne(c, v) ==
  LET top == Last(c.stack)
      credit == IF c.stack # <<>> /\ (~top.map \/ v.is_key = 1) THEN [c EXCEPT !.counts[top.at] = @ + 1] ELSE c
  IN  CASE v.kind \in Opens ->
             [credit EXCEPT !.counts = Append(@, 0),
                            !.stack = Append(@, [at |-> Len(c.counts) + 1, map |-> v.kind = "map_open"])]
        [] v.kind = "close" -> IF c.stack # <<>> THEN [c EXCEPT !.stack = Front(@)] ELSE c
        [] v.kind \in {"anchor", "doc"} -> c
        [] OTHER -> credit

Segments(vals) ==
  LET docs == SelectSeq([i \in 1..Len(vals) |-> i], LAMBDA i : vals[i].kind = "doc")
      n == Len(docs)
  IN  IF n = 0 THEN <<[from |-> 1, to |-> Len(vals) + 1]>>
      ELSE [k \in 1..n |-> [from |-> docs[k] + 1, to |-> IF k < n THEN docs[k + 1] ELSE Len(vals) + 1]]

pre_scan(vals) ==
  [ok |-> ~Rejected(vals), segs |-> Segments(vals),
   counts |-> FoldLeft(CountOne, [counts |-> <<>>, stack |-> <<>>], vals).counts]

\* The duplicate-key tables: open addressing, one table per open container.
Empty == [p |-> 0, text |-> <<>>, kind |-> "none", b |-> 0]
NewSet == [cap |-> 0, count |-> 0, slots |-> <<>>]
Spanned(k) == k.kind \in {"str", "timestamp", "alias", "anchor"}
dup_hash(k) == FoldLeft(LAMBDA a, b : a + b, k.p + k.b, IF Spanned(k) THEN k.text ELSE <<>>)
dup_eq(a, b) == a.kind = b.kind /\ a.b = b.b /\ a.p = b.p /\ (Spanned(a) => a.text = b.text)

\* The first place of the probe sequence of h where the slot is empty or one of hits.
Probe(slots, cap, h, hits) ==
  LET at(j) == ((h + j) % cap) + 1
      stops(j) == slots[at(j)].p = 0 \/ at(j) \in hits
  IN  at(CHOOSE j \in 0..(cap - 1) : stops(j) /\ \A i \in 0..(j - 1) : ~stops(i))

dup_set_grow(s) ==
  LET ncap == IF s.cap = 0 THEN DupCap ELSE 2 * s.cap
      move(ns, old) == IF old.p = 0 THEN ns
                       ELSE [ns EXCEPT ![Probe(ns, ncap, dup_hash(old), {})] = old]
  IN  [s EXCEPT !.cap = ncap, !.slots = FoldLeft(move, [k \in 1..ncap |-> Empty], s.slots)]

dup_set_insert(s0, k) ==
  LET s == IF (s0.count + 1) * 2 > s0.cap THEN dup_set_grow(s0) ELSE s0
      at == Probe(s.slots, s.cap, dup_hash(k), {j \in DOMAIN s.slots : dup_eq(s.slots[j], k)})
  IN  IF s.slots[at].p # 0 THEN [dup |-> TRUE, set |-> s]
      ELSE [dup |-> FALSE, set |-> [s EXCEPT !.slots[at] = k, !.count = @ + 1]]

\* A payload of 0 becomes 1, for 0 marks an empty slot.
DupKey(v) == [p |-> IF v.p = 0 THEN 1 ELSE v.p, text |-> v.text, kind |-> v.kind, b |-> v.b]

DupOne(c, v) ==
  LET top == Len(c.frames)
      r == dup_set_insert(c.frames[top], DupKey(v))
  IN  IF c.dup THEN c
      ELSE IF v.kind \in Opens THEN [c EXCEPT !.frames = Append(@, NewSet)]
      ELSE IF v.kind = "close" THEN IF top > 0 THEN [c EXCEPT !.frames = Front(@)] ELSE c
      ELSE IF v.is_key # 1 \/ top = 0 THEN c
      ELSE [c EXCEPT !.dup = r.dup, !.frames[top] = r.set]


strict_dup_scan(vals) == FoldLeft(DupOne, [frames |-> <<>>, dup |-> FALSE], vals).dup

-----------------------------------------------------------------------------
(* marshal.c: the walker E.  e.i is the cursor; ok is FALSE after a bail.  *)

RECURSIVE MagnitudeBytes(_), LittleBytes(_, _)
MagnitudeBytes(m) == IF m = 0 THEN 0 ELSE 1 + MagnitudeBytes(m \div 256)
LittleBytes(v, k) == IF k = 0 THEN <<>> ELSE <<v % 256>> \o LittleBytes(v \div 256, k - 1)

e_long(x) ==
  LET m == IF x < 0 THEN -x ELSE x
      k == MagnitudeBytes(m)
      byte(v) == IF v < 0 THEN 256 + v ELSE v
  IN  IF x = 0 THEN <<0>>
      ELSE IF m <= 122 THEN <<byte(IF x < 0 THEN -(m + 5) ELSE m + 5)>>
      ELSE <<byte(IF x < 0 THEN -k ELSE k)>> \o LittleBytes(IF x < 0 THEN 256 ^ k - m ELSE m, k)

e_put(e, s) == [e EXCEPT !.out = @ \o s]
Bail(e) == [e EXCEPT !.ok = FALSE]
Unregistered(e, s) == [e_put(e, s) EXCEPT !.last_was_reg = FALSE]
Registered(e, s) == [e_put(e, s) EXCEPT !.nreg = @ + 1, !.last_reg = e.nreg, !.last_was_reg = TRUE]

e_int(e, x) ==
  LET m == IF x < 0 THEN -x ELSE x
      limbs == (MagnitudeBytes(m) + 1) \div 2
  IN  Unregistered(e, IF m < SmallMax THEN <<FIX>> \o e_long(x)
                      ELSE <<BIG, IF x < 0 THEN MINUS ELSE PLUS>> \o e_long(limbs) \o LittleBytes(m, 2 * limbs))

e_str(e, s) == Registered(e, <<IVAR, STR>> \o e_long(Len(s)) \o s \o <<6, SYM, 6, 69, TRU>>)
e_sym(e, s) == Unregistered(e, <<SYM>> \o e_long(Len(s)) \o s)
FloatRepr(v) == IF v < 0 THEN Inf ELSE Digits(v)
e_float(e, v) == Registered(e, <<FLO>> \o e_long(Len(FloatRepr(v))) \o FloatRepr(v))
e_null(e) == Unregistered(e, <<NIL>>)
e_bool(e, b) == Unregistered(e, <<IF b = 1 THEN TRU ELSE FLS>>)

sym_scan(s) == Len(s) > 1 /\ s[1] = 58 /\ s[2] # 58

float_text_ok(s, compat) == ~compat \/ (s # <<>> /\ \E k \in 1..Len(s) : s[k] = 46 \/ s[k] = 58)

IsDigit(b) == b \in 48..57
psych_int_text(s) ==
  LET d == IF s # <<>> /\ s[1] \in {PLUS, MINUS} THEN SubSeq(s, 2, Len(s)) ELSE s
  IN  /\ d # <<>> /\ d[1] # 48
      /\ \A k \in 1..Len(d) : IsDigit(d[k]) \/ (d[k] \in {95, 44} /\ k < Len(d) /\ IsDigit(d[k + 1]))

\* One decimal digit into the limbs: times ten plus the digit, the carry making new limbs.
RECURSIVE Spill(_, _)
Spill(limbs, carry) ==
  IF carry = 0 \/ Len(limbs) >= BigLimbs THEN limbs ELSE Spill(Append(limbs, carry % 65536), carry \div 65536)
AddDigit(limbs, digit) ==
  LET step(a, x) == [out |-> Append(a.out, (x * 10 + a.carry) % 65536), carry |-> (x * 10 + a.carry) \div 65536]
      r == FoldLeft(step, [out |-> <<>>, carry |-> digit - 48], limbs)
  IN  Spill(r.out, r.carry)
RECURSIVE TrimLimbs(_)
TrimLimbs(l) == IF Len(l) > 1 /\ Last(l) = 0 THEN TrimLimbs(Front(l)) ELSE l

e_bignum_text(e, s) ==
  LET digits == SelectSeq(s, IsDigit)
      limbs == TrimLimbs(FoldLeft(AddDigit, <<0>>, digits))
  IN  Unregistered(e, <<BIG, IF s[1] = MINUS THEN MINUS ELSE PLUS>> \o e_long(Len(limbs))
                        \o FlattenSeq([k \in 1..Len(limbs) |-> LittleBytes(limbs[k], 2)]))

e_scalar(e, v) ==
  CASE v.kind = "null" -> e_null(e)
    [] v.kind = "bool" -> IF Len(v.text) = 1 THEN e_str(e, v.text) ELSE e_bool(e, v.b)
    [] v.kind = "int" -> e_int(e, v.p)
    [] v.kind = "float" -> IF float_text_ok(v.text, e.compat) THEN e_float(e, v.p) ELSE e_str(e, v.text)
    [] v.kind = "str" ->
         IF v.b = 1 /\ Len(v.text) < MaxBigDigits /\ Len(v.text) > MinBigDigits /\ psych_int_text(v.text)
           THEN e_bignum_text(e, v.text)
         ELSE IF v.b = 1 /\ sym_scan(v.text) THEN e_sym(e, SubSeq(v.text, 2, Len(v.text)))
         ELSE e_str(e, v.text)
    [] OTHER -> Bail(e)

anchor_find(e, name) ==
  LET hits == {k \in 1..Len(e.anchors) : e.anchors[k].name = name}
  IN  IF hits = {} THEN 0 ELSE CHOOSE k \in hits : \A j \in hits : k >= j

e_alias(e, v) ==
  LET k == anchor_find(e, v.text)
      a == e.anchors[k]
  IN  IF k = 0 THEN Bail(e)
      ELSE IF a.has_obj THEN Unregistered(e, <<LINK>> \o e_long(a.obj_id))
      ELSE e_scalar(e, a.scalar)

RECURSIVE e_value(_, _, _, _), Entries(_, _, _)
Entries(e, vals, end) ==
  IF ~e.ok \/ e.i >= end THEN Bail(e)
  ELSE IF vals[e.i].kind = "close" THEN e
  ELSE Entries(e_value(e, vals, e.i, end), vals, end)

e_body(e, vals, i, end) ==
  LET v == vals[i]
      id == e.nreg
      open == [e_put(e, <<IF v.kind = "seq_open" THEN ARR ELSE HASH>> \o e_long(e.counts[e.open_seq]))
                 EXCEPT !.nreg = @ + 1, !.open_seq = @ + 1, !.i = i + 1]
      all == Entries(open, vals, end)
  IN  IF v.kind \in Opens
        THEN IF ~all.ok THEN all ELSE [all EXCEPT !.last_reg = id, !.last_was_reg = TRUE, !.i = @ + 1]
      ELSE IF v.kind \in {"close", "doc"} THEN Bail(e)
      ELSE IF v.kind = "alias" THEN [e_alias(e, v) EXCEPT !.i = i + 1]
      ELSE [e_scalar(e, v) EXCEPT !.i = i + 1]

\* mutant
e_value_BindsNewest(e, vals, i, end) ==
  LET fresh == [name |-> vals[i].text, has_obj |-> FALSE, obj_id |-> 0, scalar |-> Value("doc")]
      r == e_value([e EXCEPT !.anchors = Append(@, fresh)], vals, i + 1, end)
      at == Len(r.anchors)
      bound == IF r.last_was_reg
                 THEN [r EXCEPT !.anchors[at].has_obj = TRUE, !.anchors[at].obj_id = r.last_reg]
                 ELSE [r EXCEPT !.anchors[at].scalar = vals[i + 1]]
  IN  IF vals[i].kind # "anchor" THEN e_body(e, vals, i, end)
      ELSE [(IF r.ok THEN bound ELSE r) EXCEPT !.last_was_reg = FALSE]

\* An anchor is bound once the value it decorates is complete; nested anchors come between.
e_value(e, vals, i, end) ==
  LET fresh == [name |-> vals[i].text, has_obj |-> FALSE, obj_id |-> 0, scalar |-> Value("doc")]
      at == Len(e.anchors) + 1
      r == e_value([e EXCEPT !.anchors = Append(@, fresh)], vals, i + 1, end)
      bound == IF r.last_was_reg
                 THEN [r EXCEPT !.anchors[at].has_obj = TRUE, !.anchors[at].obj_id = r.last_reg]
                 ELSE [r EXCEPT !.anchors[at].scalar = vals[i + 1]]
  IN  IF vals[i].kind # "anchor" THEN e_body(e, vals, i, end)
      ELSE [(IF r.ok THEN bound ELSE r) EXCEPT !.last_was_reg = FALSE]

e_init(compat, counts) ==
  [out |-> <<>>, i |-> 0, nreg |-> 0, last_reg |-> 0, last_was_reg |-> FALSE, anchors |-> <<>>,
   counts |-> counts, open_seq |-> 1, ok |-> TRUE, compat |-> compat]

\* mode: "node", "first_doc" or "all_docs".
run_pass(e, vals, mode, segs) ==
  LET one(x, s) == IF ~x.ok THEN x
                   ELSE IF s.from = s.to THEN e_null(x) ELSE e_value(x, vals, s.from, s.to)
      open == [e_put(e, <<ARR>> \o e_long(Len(segs))) EXCEPT !.nreg = @ + 1]
  IN  FoldLeft(one, IF mode = "all_docs" THEN open ELSE e, IF mode = "all_docs" THEN segs ELSE <<segs[1]>>)

marshal_records(vals, compat, mode) ==
  LET written(e) == IF e.ok THEN [status |-> "ok", out |-> e.out] ELSE [status |-> "unsupported", out |-> <<>>]
      pass(pre) == IF pre.ok THEN written(run_pass(e_init(compat, pre.counts), vals, mode, pre.segs))
                   ELSE [status |-> "unsupported", out |-> <<>>]
  IN  pass(pre_scan(vals))

yeptris_marshal(events, compat, mode) == marshal_records(transform(events), compat, mode)

RECURSIVE dom_subtree_tagged(_)
dom_subtree_tagged(n) == n.explicit # <<>> \/ \E k \in 1..Len(n.kids) : dom_subtree_tagged(n.kids[k])

yeptris_marshal_node_ex(n, strict, compat) ==
  LET vals == yep_values_from_dom(n)
  IN  IF dom_subtree_tagged(n) THEN [status |-> "unsupported", out |-> <<>>]
      ELSE IF strict /\ strict_dup_scan(vals) THEN [status |-> "parse", out |-> <<>>]
      ELSE marshal_records(vals, compat, "node")
=============================================================================

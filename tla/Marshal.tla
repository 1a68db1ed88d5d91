------------------------------ MODULE Marshal ------------------------------
(***************************************************************************)
(* The Marshal lane as a whole: documents written as Marshal streams       *)
(* (MarshalWrite), streams read back as JSON and CBOR (MarshalRead), both  *)
(* measured against what Ruby's own loader makes of a stream, as the       *)
(* headers of marshal.c, to_json.c and from_marshal.c state it.            *)
(***************************************************************************)
EXTENDS MarshalWrite

CONSTANTS
  MaxStream, MaxKeys,           \* tokens of a stream
  MaxGraph, MaxScalars, MaxDup, \* events of a document
  MaxLong,                      \* numbers written as longs
  Edges                         \* inputs on which the code departs from its own comments
ASSUME MarshalAssumption ==
  /\ {MaxStream, MaxKeys, MaxGraph, MaxScalars, MaxDup, MaxLong} \subseteq Nat
  /\ Edges \subseteq {"bignum_slot", "wide_bignum", "nonstring_key", "ivar_value", "int_keys_0_1",
                      "plain_and_quoted", "tagged_close", "wrapped_symbol"}

VARIABLES part, text
vars == <<part, text>>

-----------------------------------------------------------------------------
(* Ruby's loader: every array, hash, string, float and bignum takes the    *)
(* next link slot where it starts, wrapped or not, as a value of an        *)
(* instance variable like anywhere else; symbols and immediates take none. *)

Node(t, v, s, kids) == [t |-> t, v |-> v, s |-> s, kids |-> kids, id |-> 0, open |-> FALSE, gone |-> FALSE]
Pending == Node("pending", 0, <<>>, <<>>)

\* The encoding that instance variables tell: pairs of a name and a value node.
EncodingOf(pairs) ==
  FoldLeft(LAMBDA e, x : IF x.name = EncodingName THEN Named
                         ELSE IF x.name # Ename THEN e
                         ELSE IF x.val.t = "bool" THEN IF x.val.v = 1 THEN Utf8 ELSE UsAscii
                         ELSE Named, Binary, pairs)

Bad(st) == [st EXCEPT !.ok = FALSE, !.bad = TRUE]

RECURSIVE LoadValue(_, _), LoadMany(_, _, _), LoadIvars(_, _, _)
LoadMany(p, st, n) ==
  LET rest(r, more) == [st |-> more.st, seq |-> <<r.val>> \o more.seq]
      first(r) == IF r.ok THEN rest(r, LoadMany(p, r, n - 1)) ELSE [st |-> r, seq |-> <<>>]
  IN  IF n <= 0 THEN [st |-> st, seq |-> <<>>] ELSE first(LoadValue(p, st))

LoadIvars(p, st, n) ==
  LET linked(k) == IF ~k.ok THEN k ELSE IF k.v >= Len(k.syms) THEN Bad(k) ELSE [k EXCEPT !.s = k.syms[k.v + 1]]
      kept(s) == IF s.ok THEN [s EXCEPT !.syms = Append(@, s.s)] ELSE s
      name(b) == IF ~b.ok THEN b
                 ELSE IF b.b = SYM THEN kept(Counted(p, b))
                 ELSE IF b.b = SYMLINK THEN linked(LongFrom(p, b))
                 ELSE Bad(b)
      rest(s, r, more) == [st |-> more.st, seq |-> <<[name |-> s, val |-> r.val]>> \o more.seq]
      value(s, r) == IF r.ok THEN rest(s, r, LoadIvars(p, [r EXCEPT !.gone = st.gone], n - 1))
                     ELSE [st |-> r, seq |-> <<>>]
      first(d) == IF d.ok THEN value(d.s, LoadValue(p, [d EXCEPT !.gone = TRUE])) ELSE [st |-> d, seq |-> <<>>]
  IN  IF n <= 0 THEN [st |-> st, seq |-> <<>>] ELSE first(name(Next1(p, st)))

\* The value whose type byte t was read; id is the slot it took, 0 for none.
LoadBody(p, d, t, id, gone) ==
  LET done(e, m) == IF ~e.ok THEN e
                    ELSE [e EXCEPT !.val = m, !.objs = IF m.id = 0 THEN @ ELSE [@ EXCEPT ![m.id] = m]]
      made(e, ty, v, s, kids) == done(e, [Node(ty, v, s, kids) EXCEPT !.id = id, !.gone = gone])
      int(n) == made(n, "int", n.v, <<>>, <<>>)
      big(n) == made(n, "int", IF n.b = MINUS THEN -n.v ELSE n.v, <<>>, <<>>)
      blob(s, ty) == made(s, ty, Binary, s.s, <<>>)
      kept(s) == IF s.ok THEN [s EXCEPT !.syms = Append(@, s.s)] ELSE s
      symbol(n) == IF n.ok /\ n.v \notin 0..(Len(n.syms) - 1) THEN Bad(n) ELSE made(n, "sym", 0, n.syms[n.v + 1], <<>>)
      object(n) == IF n.ok /\ n.v \notin 0..(Len(n.objs) - 1) THEN Bad(n)
                   ELSE done(n, [Node("link", n.v, <<>>, <<>>) EXCEPT !.gone = gone, !.open = n.objs[n.v + 1] = Pending])
      items(many) == made(many.st, IF t = ARR THEN "arr" ELSE "hash", 0, <<>>, many.seq)
      wrapped(val, told) ==
        done(told.st, [Node("ivar", EncodingOf(told.seq), <<>>, <<val>> \o [k \in 1..Len(told.seq) |-> told.seq[k].val])
                         EXCEPT !.id = val.id, !.gone = gone])
      listed(val, n) == IF n.ok THEN wrapped(val, LoadIvars(p, n, n.v)) ELSE n
      ivars(inner) == IF inner.ok THEN listed(inner.val, LongFrom(p, inner)) ELSE inner
      counted(n) == IF n.ok THEN items(LoadMany(p, n, IF t = HASH THEN 2 * n.v ELSE n.v)) ELSE n
  IN  CASE t = NIL -> made(d, "nil", 0, <<>>, <<>>)
        [] t \in {TRU, FLS} -> made(d, "bool", IF t = TRU THEN 1 ELSE 0, <<>>, <<>>)
        [] t = FIX -> int(LongFrom(p, d))
        [] t = BIG -> big(Limbs(p, d, 1, 2))
        [] t \in {FLO, STR} -> blob(Counted(p, d), IF t = FLO THEN "float" ELSE "str")
        [] t = SYM -> blob(kept(Counted(p, d)), "sym")
        [] t = SYMLINK -> symbol(LongFrom(p, d))
        [] t = LINK -> object(LongFrom(p, d))
        [] t = IVAR -> ivars(LoadValue(p, d))
        [] t \in Containers -> counted(LongFrom(p, d))
        [] OTHER -> Bad(d)

LoadValue(p, st) ==
  LET slot(b) == IF b.b \in Registering \ {IVAR} THEN Len(b.objs) + 1 ELSE 0
      taken(b) == IF slot(b) = 0 THEN b ELSE [b EXCEPT !.objs = Append(@, Pending)]
      body(b) == IF b.ok THEN LoadBody(p, taken(b), b.b, slot(b), st.gone) ELSE b
  IN  body(Next1(p, st))

Load(p) == LoadValue(p, [at |-> 1, b |-> 0, v |-> 0, s |-> <<>>, ok |-> TRUE, bad |-> FALSE, syms |-> <<>>,
                         objs |-> <<>>, val |-> Pending, gone |-> FALSE])

-----------------------------------------------------------------------------
(* What the two readers owe for a loaded stream.                           *)

Inner(n) == IF n.t = "ivar" THEN n.kids[1] ELSE n
At(objs, n) == IF n.t = "link" THEN objs[n.v + 1] ELSE n
InWord(v) == v \in (-WordMax - 1)..WordMax
No == [ok |-> FALSE, s |-> <<>>]
Yes(s) == [ok |-> TRUE, s |-> s]
Quoted(s) == <<34>> \o s \o <<34>>

RECURSIVE MjFits(_, _)
MjFits(n, d) ==
  LET kids == 1..Len(n.kids)
      key(k) == n.kids[k].t = "ivar" => \A j \in 1..Len(n.kids[k].kids) : MjFits(n.kids[k].kids[j], d + 1)
  IN  /\ d < MjDepth
      /\ n.t \in {"arr", "ivar"} => \A k \in kids : MjFits(n.kids[k], d + 1)
      /\ n.t = "hash" => \A k \in kids : IF k % 2 = 1 THEN key(k) ELSE MjFits(n.kids[k], d + 1)

RECURSIVE JsonOf(_, _, _)
JsonOf(objs, n, compact) ==
  LET gap == IF compact THEN <<>> ELSE <<32>>
      kid(k) == JsonOf(objs, n.kids[k], compact)
      all(step) == \A k \in 1..Len(n.kids) : k % step = 0 => kid(k).ok
      Joined(parts) == FlattenSeq([k \in 1..Len(parts) |-> IF k = 1 THEN parts[k] ELSE <<44>> \o gap \o parts[k]])
      name(k) == Inner(At(objs, n.kids[k]))
      named(k) == ~n.kids[k].open /\ name(k).t \in {"str", "sym"}
      pairs == Len(n.kids) \div 2
  IN  CASE n.t = "nil" -> Yes(<<110, 117, 108, 108>>)
        [] n.t = "bool" -> Yes(IF n.v = 1 THEN <<116, 114, 117, 101>> ELSE <<102, 97, 108, 115, 101>>)
        [] n.t = "int" -> IF InWord(n.v) THEN Yes(Decimal(n.v)) ELSE No
        [] n.t = "float" -> IF Finite(n.s) THEN Yes(Decimal(FloatValue(n.s)) \o <<46, 48>>) ELSE No
        [] n.t \in {"str", "sym"} -> Yes(Quoted(n.s))
        [] n.t = "ivar" -> JsonOf(objs, n.kids[1], compact)
        [] n.t = "link" -> IF n.open THEN No ELSE JsonOf(objs, objs[n.v + 1], compact)
        [] n.t = "arr" -> IF ~all(1) THEN No
                          ELSE Yes(<<91>> \o Joined([k \in 1..Len(n.kids) |-> kid(k).s]) \o <<93>>)
        [] n.t = "hash" -> IF ~all(2) \/ \E k \in 1..pairs : ~named(2 * k - 1) THEN No
                           ELSE Yes(<<123>> \o Joined([k \in 1..pairs |->
                                  Quoted(name(2 * k - 1).s) \o <<58>> \o gap \o kid(2 * k).s]) \o <<125>>)

RECURSIVE CmFits(_, _)
CmFits(n, d) ==
  /\ d < CmDepth
  /\ \A k \in 1..Len(n.kids) : CmFits(n.kids[k], IF n.t = "ivar" THEN d ELSE d + 1)

\* The text the tree route stores for a key, by which it tells keys apart.
KeyText(n) == CASE n.t = "str" -> n.s [] n.t = "sym" -> <<58>> \o n.s
                [] n.t = "int" -> Decimal(n.v) [] OTHER -> n.s \o <<46>>

StringItem(s) == IF s = Undefined THEN Yes(<<247>>) ELSE Yes(yep_cbor_put_head(3, Len(s)) \o s)
StringOf(s, enc, key) ==
  IF key THEN IF ~Utf8Valid(s) THEN Yes(yep_cbor_put_head(2, Len(s)) \o s)
              ELSE IF Compat11(s) # "str" THEN No ELSE StringItem(s)
  ELSE IF (enc = Utf8 /\ Utf8Valid(s)) \/ (enc \in {Binary, UsAscii} /\ cm_ascii_only(s)) THEN StringItem(s)
  ELSE No
IntegerOf(v) == IF ~InWord(v) THEN <<249, v>>
                ELSE IF v < 0 THEN yep_cbor_put_head(1, -1 - v) ELSE yep_cbor_put_head(0, v)
Magnitude(v) == IF v < 0 THEN -v ELSE v

\* Pairs in the order of their encoded keys: the one with k smaller keys stands at k + 1.
Ordered(pairs) ==
  [k \in 1..Len(pairs) |-> CHOOSE x \in Range(pairs) :
     Cardinality({y \in Range(pairs) : BytesBefore(y.key, x.key)}) = k - 1]

RECURSIVE CborOf(_, _, _, _)
CborOf(objs, n, key, canonical) ==
  LET kid(k) == CborOf(objs, n.kids[k], FALSE, canonical)
      all == \A k \in 1..Len(n.kids) : kid(k).ok
      pairs == Len(n.kids) \div 2
      name(k) == CborOf(objs, n.kids[2 * k - 1], TRUE, canonical)
      txt(k) == KeyText(Inner(At(objs, n.kids[2 * k - 1])))
      stream == [k \in 1..pairs |-> [key |-> name(k).s, all |-> name(k).s \o kid(2 * k).s]]
      target == objs[n.v + 1]
  IN  CASE n.t \in {"nil", "bool"} -> IF key THEN No ELSE Yes(<<IF n.t = "nil" THEN 246 ELSE 244 + n.v>>)
        [] n.t = "int" -> IF Magnitude(n.v) >= 2 ^ (16 * MaxLimbs) THEN No ELSE Yes(IntegerOf(n.v))
        [] n.t = "float" -> IF Finite(n.s) THEN Yes(<<249, FloatValue(n.s)>>) ELSE No
        [] n.t = "str" -> StringOf(n.s, n.v, key)
        [] n.t = "sym" -> Yes(yep_cbor_put_head(IF Utf8Valid(n.s) THEN 3 ELSE 2, Len(n.s) + 1) \o <<58>> \o n.s)
        [] n.t = "ivar" -> IF n.kids[1].t = "str" THEN StringOf(n.kids[1].s, n.v, key)
                           ELSE IF key THEN No ELSE CborOf(objs, n.kids[1], FALSE, canonical)
        [] n.t = "link" -> IF n.open \/ Inner(target).t \in {"arr", "hash"} THEN No
                           ELSE IF target.gone /\ Inner(target).t # "str" THEN No
                           ELSE CborOf(objs, target, key, canonical)
        [] n.t = "arr" -> IF key \/ ~all THEN No
                          ELSE Yes(yep_cbor_put_head(4, Len(n.kids)) \o FlattenSeq([k \in 1..Len(n.kids) |-> kid(k).s]))
        [] n.t = "hash" ->
             IF \/ key \/ \E k \in 1..pairs : ~name(k).ok \/ ~kid(2 * k).ok
                \/ \E i, j \in 1..pairs : i < j /\ txt(i) = txt(j) THEN No
             ELSE Yes(yep_cbor_put_head(5, pairs) \o
                      FlattenSeq([k \in 1..pairs |-> (IF canonical THEN Ordered(stream) ELSE stream)[k].all]))

\* Every node of a loaded value, instance variables included.
RECURSIVE Nodes(_)
Nodes(n) == {n} \cup UNION {Nodes(n.kids[k]) : k \in 1..Len(n.kids)}

\* The exceptions to what the comments promise, by the edge that lets them in.
Symbols(ld) == (\E n \in Nodes(ld.val) : n.t = "ivar" /\ n.id = 0) => "wrapped_symbol" \in Edges
JsonLedger(ld) ==
  LET all == Nodes(ld.val)
      oddkey(n) == n.t = "hash" /\ \E k \in 1..Len(n.kids) :
        k % 2 = 1 /\ n.kids[k].t \in {"link", "ivar"} /\ Inner(At(ld.objs, n.kids[k])).t \notin {"str", "sym"}
  IN  /\ (\E n \in all : n.t = "int" /\ ~InWord(n.v)) => "wide_bignum" \in Edges
      /\ Symbols(ld)
      /\ (\E n \in all : oddkey(n)) => "nonstring_key" \in Edges
      /\ (\E n \in all : n.gone /\ n.id # 0) => "ivar_value" \in Edges

-----------------------------------------------------------------------------
(* What a document means to Ruby: the value its records stand for, aliases *)
(* of what the loader registers being links to it.                         *)

RECURSIVE TreeFrom(_, _)
TreeFrom(ev, i) ==   \* the node at i and the place after it
  LET r == ev[i]
      node(kids) == [ty |-> r.ty, anchor |-> r.anchor, id |-> r.id, plain |-> r.plain, explicit |-> r.explicit,
                     text |-> r.text, kids |-> kids]
      ends == CHOOSE e \in (i + 1)..Len(ev) : ev[e].ty = "end" /\
                 Cardinality({k \in i..e : ev[k].ty \in {"seq", "map"}}) = Cardinality({k \in i..e : ev[k].ty = "end"})
                 /\ \A f \in (i + 1)..(e - 1) : Cardinality({k \in i..f : ev[k].ty \in {"seq", "map"}}) >
                                               Cardinality({k \in i..f : ev[k].ty = "end"})
      RECURSIVE kids(_)
      kids(k) == IF k = ends THEN <<>> ELSE LET x == TreeFrom(ev, k) IN <<x.node>> \o kids(x.next)
  IN  IF r.ty \in {"seq", "map"} THEN [node |-> node(kids(i + 1)), next |-> ends + 1]
      ELSE [node |-> node(<<>>), next |-> i + 1]

Docs(ev) == SelectSeq([i \in 1..Len(ev) |-> i], LAMBDA i : ev[i].ty = "doc")
HasRoot(ev, i) == i < Len(ev) /\ ev[i + 1].ty # "doc"
Roots(ev) == LET ds == SelectSeq(Docs(ev), LAMBDA i : HasRoot(ev, i))
             IN  [k \in 1..Len(ds) |-> TreeFrom(ev, ds[k] + 1).node]

\* The scalar as Psych's scanner reads it.
Scalar(n, compat) ==
  LET s == n.text
      str == Node("str", Utf8, s, <<>>)
  IN  CASE n.id = "null" -> Node("nil", 0, <<>>, <<>>)
        [] n.id = "bool" -> IF Len(s) = 1 THEN str ELSE Node("bool", yep_num_bool_ci(s), <<>>, <<>>)
        [] n.id = "float" -> IF s = <<120>> \/ (compat /\ 46 \notin Range(s)) THEN str
                             ELSE Node("float", 0, IF s[1] = 46 THEN Inf ELSE <<s[1]>>, <<>>)
        [] OTHER ->
             IF \/ n.id = "int" /\ InWord(NumberOf(s))
                \/ n.plain /\ Len(s) > MinBigDigits /\ psych_int_text(s)
               THEN Node("int", NumberOf(SelectSeq(s, LAMBDA b : b \notin {95, 44})), <<>>, <<>>)
             ELSE IF n.plain /\ Len(s) > 1 /\ s[1] = 58 /\ s[2] # 58 THEN Node("sym", 0, SubSeq(s, 2, Len(s)), <<>>)
             ELSE str
Linkable(n) == n.t \in {"str", "float", "arr", "hash"}
TakesSlot(n) == Linkable(n) \/ (n.t = "int" /\ Magnitude(n.v) >= SmallMax)

\* st: slots taken, anchors bound (latest first), whether every alias resolved, the value.
RECURSIVE Denote(_, _, _)
Denote(st, n, compat) ==
  LET name(x, v) == IF n.anchor = <<>> THEN x
                    ELSE [x EXCEPT !.env = [k \in 1..Len(@) |-> IF @[k].at = Len(st.env) + 1 /\ @[k].name = n.anchor
                                                                 THEN [@[k] EXCEPT !.val = v] ELSE @[k]]]
      opened == IF n.anchor = <<>> THEN st.env
                ELSE <<[name |-> n.anchor, at |-> Len(st.env) + 1, val |-> Pending]>> \o st.env
      hits == SelectSeq(st.env, LAMBDA a : a.name = n.text)
      found == hits[1].val
      place(x, v) == LET m == IF TakesSlot(v) THEN [v EXCEPT !.id = x.slots + 1] ELSE v
                     IN  name([x EXCEPT !.slots = IF TakesSlot(v) THEN @ + 1 ELSE @, !.val = m], m)
      each(a, kid) == LET r == Denote(a.st, kid, compat) IN [st |-> r, seq |-> Append(a.seq, r.val)]
      inside == FoldLeft(each, [st |-> [st EXCEPT !.env = opened, !.slots = @ + 1], seq |-> <<>>], n.kids)
      made == [Node(IF n.ty = "seq" THEN "arr" ELSE "hash", 0, <<>>, inside.seq) EXCEPT !.id = st.slots + 1]
  IN  IF n.ty = "scalar" THEN place([st EXCEPT !.env = opened], Scalar(n, compat))
      ELSE IF n.ty = "alias"
        THEN IF hits = <<>> \/ found = Pending THEN [st EXCEPT !.ok = FALSE]
             ELSE IF Linkable(found) THEN [st EXCEPT !.val = Node("link", found.id, <<>>, <<>>)]
             ELSE place(st, found)
      ELSE name([inside.st EXCEPT !.val = made], made)

Start == [slots |-> 0, env |-> <<>>, ok |-> TRUE, val |-> Pending]

\* A loaded value in the same terms: wrappers gone, links named by slot.
RECURSIVE Unwrapped(_)
Unwrapped(n) ==
  IF n.t = "ivar" THEN [Unwrapped(n.kids[1]) EXCEPT !.id = n.id, !.v = IF n.kids[1].t = "str" THEN n.v ELSE @]
  ELSE IF n.t = "link" THEN [n EXCEPT !.v = @ + 1, !.open = FALSE]
  ELSE [n EXCEPT !.kids = [k \in 1..Len(n.kids) |-> Unwrapped(n.kids[k])]]

RECURSIVE Subtree(_)
Subtree(n) == {n} \cup UNION {Subtree(n.kids[k]) : k \in 1..Len(n.kids)}
Merge(n) == n.ty = "map" /\ \E k \in 1..Len(n.kids) :
  k % 2 = 1 /\ n.kids[k].ty = "scalar" /\ n.kids[k].text = <<60, 60>> /\ n.kids[k].id = "str"
Foreign(n) == \E x \in Subtree(n) : Merge(x) \/ (x.ty = "scalar" /\ x.id \in {"timestamp", "binary"})

-----------------------------------------------------------------------------
(* The inputs.                                                             *)

E1 == <<6, SYM, 6, 69, TRU>>       \* one variable: E is true
A == <<97>>
StreamTokens ==
  {<<FIX, 6>>, <<BIG, PLUS, 6, 7, 0>>, <<FLO, 6, 49>>, <<STR, 6, 97>>, <<IVAR, STR, 6, 97>> \o E1,
   <<IVAR, STR, 6, 98, 6, SYM, 6, 101, STR, 6, 120>>, <<SYM, 6, 97>>, <<SYMLINK, 0>>,
   <<LINK, 0>>, <<LINK, 6>>, <<LINK, 7>>, <<LINK, 8>>, <<ARR, 6>>, <<ARR, 7>>, <<ARR, 8>>, <<HASH, 6>>, <<IVAR>>, <<0>>}
KeyTokens ==
  {<<NIL>>, <<TRU>>, <<FIX, 6>>, <<FIX, 250>>, <<BIG, MINUS, 6, 255, 255>>, <<BIG, MINUS, 6, 0, 128>>,
   <<BIG, PLUS, 7, 1, 0, 1, 0>>, <<FLO, 6, 49>>, <<FLO, 8>> \o Inf, <<FLO, 8>> \o Huge,
   <<STR, 0>>, <<STR, 6, 49>>, <<STR, 6, 121>>, <<STR, 6, 200>>, <<STR, 6, 97>>, <<STR, 7, 58, 97>>, <<STR, 7, 98, 98>>,
   <<STR, 14>> \o Undefined, <<IVAR, STR, 7, 195, 169>> \o E1, <<IVAR, STR, 6, 200>> \o E1,
   <<IVAR, STR, 7, 195, 169, 6, SYM, 6, 69, FLS>>, <<SYM, 6, 97>>, <<SYM, 6, 200>>, <<SYMLINK, 0>>,
   <<LINK, 6>>, <<HASH, 6>>, <<HASH, 7>>, <<FLS>>}
StreamParts == {"stream", "keys"}
StreamToken(k) == IF k = "stream" THEN StreamTokens ELSE KeyTokens
StreamLen(k) == IF k = "stream" THEN MaxStream ELSE MaxKeys

Event(ty, anchor, id, plain, s) ==
  [ty |-> ty, anchor |-> anchor, id |-> id, plain |-> plain, explicit |-> <<>>, text |-> s]
X == <<120>>
Y == <<121>>
Five == Event("scalar", <<>>, "int", TRUE, <<53>>)
Wide == <<51, 51, 51, 51, 51>>     \* 33333, past the scaled word
Plain(s) == Event("scalar", <<>>, "str", TRUE, s)
Quote(s) == Event("scalar", <<>>, "str", FALSE, s)
Of(id, s) == Event("scalar", <<>>, id, TRUE, s)
Anchored(e, a) == [e EXCEPT !.anchor = a]
Alias(a) == Event("alias", <<>>, "none", FALSE, a)
SeqOpen == Event("seq", <<>>, "seq", FALSE, <<>>)
MapOpen == Event("map", <<>>, "map", FALSE, <<>>)
End == Event("end", <<>>, "none", FALSE, <<>>)
DocStart == Event("doc", <<>>, "none", FALSE, <<>>)

GraphEvents == {SeqOpen, Anchored(SeqOpen, X), MapOpen, Anchored(MapOpen, Y), End, Plain(A), Anchored(Plain(A), X),
                Anchored(Five, X), Anchored(Of("float", <<49, 46, 48>>), Y), Alias(X), Alias(Y), DocStart}
               \cup (IF "bignum_slot" \in Edges THEN {Of("int", Wide)} ELSE {})
ScalarEvents ==
  {Of("null", <<126>>), Of("bool", <<116, 114, 117, 101>>), Of("bool", <<121>>), Of("int", <<48>>), Of("int", <<45, 53>>),
   Of("int", <<50, 48, 48, 48, 48>>), Of("int", <<45, 51, 50, 55, 54, 56>>), Of("int", Wide), Of("int", <<45>> \o Wide),
   Of("int", <<49, 48, 48, 48, 48, 48, 48, 48>>), Plain(<<50, 95, 48, 48, 48, 44, 48>>), Plain(<<49, 95, 48, 48, 48, 95>>),
   Quote(Wide), Of("float", <<49, 46, 48>>), Of("float", <<50, 101, 48>>), Of("float", <<46, 105>>), Of("float", X),
   Plain(<<58, 97>>), Plain(<<58, 58, 97>>), Quote(<<58, 97>>), Quote(<<>>), Plain(<<60, 60>>), Of("timestamp", <<50>>),
   Of("binary", A), SeqOpen, MapOpen, End, DocStart}
  \cup (IF "tagged_close" \in Edges THEN {[SeqOpen EXCEPT !.explicit = <<33>>]} ELSE {})
DupEvents == {MapOpen, SeqOpen, End, Quote(A), Quote(<<98>>), Five}
             \cup (IF "int_keys_0_1" \in Edges THEN {Of("int", <<48>>), Of("int", <<49>>)} ELSE {})
             \cup (IF "plain_and_quoted" \in Edges THEN {Plain(A)} ELSE {})
EventParts == {"graph", "scalars", "dup"}
Events(k) == CASE k = "graph" -> GraphEvents [] k = "scalars" -> ScalarEvents [] k = "dup" -> DupEvents
EventLen(k) == CASE k = "graph" -> MaxGraph [] k = "scalars" -> MaxScalars [] k = "dup" -> MaxDup

\* The containers open at the end of the events, with the entries each has.
OpenAt(ev) ==
  LET bump(st) == IF st = <<>> THEN st ELSE [st EXCEPT ![Len(st)].n = @ + 1]
      step(st, r) == CASE r.ty \in {"seq", "map"} -> Append(bump(st), [map |-> r.ty = "map", n |-> 0])
                       [] r.ty = "end" -> Front(st)
                       [] r.ty = "doc" -> st
                       [] OTHER -> bump(st)
      after[k \in 0..Len(ev)] == IF k = 0 THEN <<>> ELSE step(after[k - 1], ev[k])
  IN  after[Len(ev)]

\* What the engine may deliver next, of the records of a part.
Following(ev, records) ==
  LET st == OpenAt(ev)
      doc == SubSeq(ev, Last(Docs(ev)), Len(ev))
      fits(r, open, anchors) ==
        CASE r.ty = "doc" -> open = <<>>
          [] r.ty = "end" -> open # <<>> /\ (Last(open).map => Last(open).n % 2 = 0)
          [] OTHER -> (open # <<>> \/ Len(doc) = 1) /\ (r.ty = "alias" => r.text \in anchors)
      those(open, anchors) == {r \in records : fits(r, open, anchors)}
  IN  those(st, {doc[k].anchor : k \in 1..Len(doc)})

Init == \/ part \in StreamParts /\ text = <<>>
        \/ part \in EventParts /\ text = <<DocStart>>
        \/ part = "long" /\ \E x \in -MaxLong..MaxLong : text = <<x>>

bytes == FlattenSeq(text)

MayGoOn(l, p) == ~l.bad /\ (l.ok => l.at = Len(p) + 1)

\* A stream grows while the loader runs out of bytes, then by one surplus token.
GrowStream == /\ part \in StreamParts /\ Len(text) < StreamLen(part)
              /\ text # <<>> => MayGoOn(Load(bytes), bytes)
              /\ \E t \in StreamToken(part) : text' = Append(text, t)
              /\ UNCHANGED part

GrowDocument == /\ part \in EventParts /\ Len(text) < EventLen(part)
                /\ \E r \in Following(text, Events(part)) : text' = Append(text, r)
                /\ UNCHANGED part

Next == GrowStream \/ GrowDocument
Spec == Init /\ [][Next]_vars

-----------------------------------------------------------------------------
(* Properties.                                                             *)

Flags == {TRUE, FALSE}
Whole == part \in EventParts /\ OpenAt(text) = <<>>
Emitted == IF ~Whole THEN {} ELSE {yeptris_marshal(text, c, m).out : c \in Flags, m \in {"first_doc", "all_docs"}}

\* to_json.c: for every stream the loader accepts, the reader writes the JSON text of the
\* loaded value, each link copying the object Ruby would put there, and refuses exactly what
\* JSON cannot say; a stream cut short is refused.
JsonAsLoaded ==
  LET Right(ld, r, want) ==
        IF ~ld.ok THEN ld.bad \/ r.status = "unsupported"
        ELSE IF want.ok /\ MjFits(ld.val, 0) THEN r.status = "ok" /\ r.out = want.s /\ r.next = ld.at
        ELSE r.status = "unsupported"
      Loaded(ld, p) ==
        (ld.ok => JsonLedger(ld)) => \A compact \in Flags :
          Right(ld, yeptris_json_from_marshal(p, compact), JsonOf(ld.objs, ld.val, compact))
  IN  part \in StreamParts \cup EventParts =>
        \A p \in (IF part \in StreamParts THEN {bytes} ELSE Emitted \ {<<>>}) : Loaded(Load(p), p)

\* from_marshal.c: the item written is the one the tree route of its parity ledger writes for
\* the loaded value (strings spelled by the place they land in, containers never linked,
\* equal keys refused, canonical order), and every other stream is refused.
CborAsLoaded ==
  LET Right(ld, r, want) ==
        IF ld.ok /\ ld.at = Len(bytes) + 1 /\ want.ok /\ CmFits(ld.val, 0)
          THEN r.status = "ok" /\ r.out = want.s
          ELSE ld.bad \/ r.status = "unsupported"
      Loaded(ld) ==
        (ld.ok => Symbols(ld)) =>
          \A canonical \in Flags :
            Right(ld, yeptris_cbor_from_marshal(bytes, canonical), CborOf(ld.objs, ld.val, FALSE, canonical))
  IN  part \in StreamParts => Loaded(Load(bytes))

\* marshal.c: a document written as a stream loads as the value it stands for: the same
\* objects shared where the document has aliases, counts that match, newest anchors; and
\* UNSUPPORTED answers exactly merge keys, timestamps, !binary and unfinished anchors.
EmittedLoads ==
  LET Right(r, ld, val) == /\ r.status = "ok" /\ ld.ok /\ ld.at = Len(r.out) + 1
                           /\ Unwrapped(ld.val) = val
      Loads(r, want) == IF want.ok THEN Right(r, Load(r.out), want.val) ELSE r.status = "unsupported"
      nil == Node("nil", 0, <<>>, <<>>)
      also(a, r) == [st |-> r, seq |-> Append(a.seq, r.val)]
      one(a, i, compat) == IF HasRoot(text, i) THEN also(a, Denote(a.st, TreeFrom(text, i + 1).node, compat))
                           ELSE [a EXCEPT !.seq = Append(@, nil)]
      array(a) == [ok |-> a.st.ok, val |-> [Node("arr", 0, <<>>, a.seq) EXCEPT !.id = 1]]
      meant(compat, mode) ==
        IF mode = "all_docs"
          THEN array(FoldLeft(LAMBDA a, i : one(a, i, compat), [st |-> [Start EXCEPT !.slots = 1], seq |-> <<>>], Docs(text)))
        ELSE IF HasRoot(text, 1) THEN Denote(Start, Roots(text)[1], compat)
        ELSE [Start EXCEPT !.val = nil]
      sound(want) == [ok |-> want.ok /\ \A n \in Range(Roots(text)) : ~Foreign(n), val |-> want.val]
  IN  Whole => \A compat \in Flags, mode \in {"all_docs", "first_doc"} :
        Loads(yeptris_marshal(text, compat, mode), sound(meant(compat, mode)))

\* values.c and marshal.c: the tree route and the event route give the same records, and a
\* node marshals as its document does; from inside a document only when no alias leaves it.
RoutesAgree ==
  LET Right(n, r, d) ==
        IF dom_subtree_tagged(n) \/ Foreign(n) \/ ~d.ok THEN r.status = "unsupported"
        ELSE r.status = "ok" /\ Unwrapped(Load(r.out).val) = d.val
      Node_ex(n, r, root) ==
        /\ Right(n, r, Denote(Start, n, FALSE))
        /\ n = root /\ ~dom_subtree_tagged(n) => r = yeptris_marshal(text, FALSE, "first_doc")
      Agrees(root) ==
        /\ transform(text) = drain_json_route(<<root>>)
        /\ \A n \in Subtree(root) : Node_ex(n, yeptris_marshal_node_ex(n, FALSE, FALSE), root)
  IN  Whole /\ Len(Docs(text)) = 1 /\ HasRoot(text, 1) => Agrees(Roots(text)[1])

\* marshal.c, strict_dup_scan: the strict mode refuses exactly the documents in which one
\* mapping has two equal keys, however keys of nested mappings compare and however often the
\* tables grow.
DupKeysExact ==
  part = "dup" /\ Whole /\ Len(text) > 1 =>
    LET root == Roots(text)[1]
        Twice(n) == n.ty = "map" /\ \E i, j \in 1..Len(n.kids) :
          /\ i < j /\ i % 2 = 1 /\ j % 2 = 1 /\ n.kids[i].ty = "scalar" /\ n.kids[j].ty = "scalar"
          /\ n.kids[i].id = n.kids[j].id /\ n.kids[i].text = n.kids[j].text
    IN  (yeptris_marshal_node_ex(root, TRUE, FALSE).status = "parse") <=> \E n \in Subtree(root) : Twice(n)

\* marshal.c, e_long against both inverses: what is written is read back, alone or at the
\* head of other bytes.
LongsRoundTrip ==
  part = "long" =>
    LET c == [at |-> 1, b |-> 0, v |-> 0, s |-> <<>>, ok |-> TRUE]
        p == e_long(text[1])
    IN  \A q \in {p, p \o <<7>>} : \A r \in {mj_long(q, c), cm_long(q, c)} :
          r.ok /\ r.v = text[1] /\ r.at = Len(p) + 1
=============================================================================

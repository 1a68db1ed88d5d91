------------------------------ MODULE Regexp ------------------------------
(***************************************************************************)
(* The pattern kernel of the schema validator (validate/regexp.c): the     *)
(* parser of the ECMA subset, the Thompson construction with its patched   *)
(* arrows, the machine that steps all threads over the subject with a ring *)
(* of pending positions and wrapping marks, and the table of retained      *)
(* programs. Patterns and subjects are byte sequences. The parse tree is a *)
(* nested value (the code's node array is only counted against its         *)
(* budget); the fragment's bitset is a set of arrows. Of the generated     *)
(* letter table the Latin-1 rows are kept and \p{digit} is left out.       *)
(***************************************************************************)
EXTENDS Integers, Sequences, FiniteSets, SequencesExt

CONSTANTS
  Wrap,          \* 256, what the marks keep of generation and position
  CacheMax,      \* RE_CACHE_MAX
  MaxCore,       \* length of the patterns of operators, atoms and assertions
  MaxBracket,    \* length of the bracket expressions
  MaxCount,      \* length of the patterns with a counted repetition
  MaxEscape,     \* length of the patterns with escapes
  MaxHistory     \* calls of the retained table
ASSUME WrapAssumption == Wrap \in Nat /\ Wrap >= 4

VARIABLES part, text, table
vars == <<part, text, table>>

NUL == 0
CTRLA == 1
TAB == 9
LF == 10
SP == 32
DOLLAR == 36
LPAR == 40
RPAR == 41
STAR == 42
PLUS == 43
COMMA == 44
DASH == 45
DOT == 46
ZERO == 48
ONE == 49
TWO == 50
COLON == 58
QM == 63
LB == 91
BSL == 92
RB == 93
CARET == 94
LA == 97
LBR == 123
BAR == 124
RBR == 125
CH == [b |-> 98, B |-> 66, c |-> 99, d |-> 100, D |-> 68, n |-> 110, p |-> 112, s |-> 115,
       S |-> 83, w |-> 119, W |-> 87, x |-> 120, t |-> 116, r |-> 114, f |-> 102, v |-> 118]
INF == 65535
Digits == ZERO..57
Letters == (65..90) \cup (97..122)
Bytes == 0..255

Ample == [ast |-> 256, inst |-> 320, cls |-> 24, depth |-> 64]
Tight == [ast |-> 4, inst |-> 6, cls |-> 1, depth |-> 1]

-----------------------------------------------------------------------------
(* The range tables: sorted inclusive pairs.                               *)
RE_RANGES_D == <<<<48, 57>>>>
RE_RANGES_NOTD == <<<<0, 47>>, <<58, 1114111>>>>
RE_RANGES_WORD == <<<<48, 57>>, <<65, 90>>, <<95, 95>>, <<97, 122>>>>
RE_RANGES_NOTW == <<<<0, 47>>, <<58, 64>>, <<91, 94>>, <<96, 96>>, <<123, 1114111>>>>
RE_RANGES_WHITE ==
  <<<<9, 13>>, <<32, 32>>, <<160, 160>>, <<5760, 5760>>, <<8192, 8202>>, <<8232, 8233>>,
    <<8239, 8239>>, <<8287, 8287>>, <<12288, 12288>>, <<65279, 65279>>>>
RE_RANGES_NOTS ==
  <<<<0, 8>>, <<14, 31>>, <<33, 159>>, <<161, 5759>>, <<5761, 8191>>, <<8203, 8231>>,
    <<8234, 8238>>, <<8240, 8286>>, <<8288, 12287>>, <<12289, 65278>>, <<65280, 1114111>>>>
RE_PROP_L == <<<<65, 90>>, <<97, 122>>, <<170, 170>>, <<181, 181>>, <<186, 186>>, <<192, 214>>,
               <<216, 246>>, <<248, 705>>>>

RECURSIVE Bisect(_, _, _, _)
Bisect(r, lo, hi, cp) ==
  /\ lo < hi
  /\ LET mid == lo + (hi - lo) \div 2
     IN  IF cp < r[mid + 1][1] THEN Bisect(r, lo, mid, cp)
         ELSE IF cp > r[mid + 1][2] THEN Bisect(r, mid + 1, hi, cp)
         ELSE TRUE
re_ranges_has(r, cp) == Bisect(r, 0, Len(r), cp)

re_word(b) == b \in Digits \cup Letters \cup {95}

-----------------------------------------------------------------------------
(* The parse context: position, error, the budgets and what was spent.     *)
(* A class is a byte set with a range table, empty when it has none.       *)
Ctx(pat, lim) == [pat |-> pat, pi |-> 1, err |-> FALSE, ast |-> 0, cls |-> <<>>,
                  inst |-> <<>>, lim |-> lim]
Fail(c) == [c EXCEPT !.err = TRUE]
Skip(c, n) == [c EXCEPT !.pi = @ + n]
AtEnd(c) == c.pi > Len(c.pat)
Here(c) == c.pat[c.pi]
At(c, k, b) == c.pi + k <= Len(c.pat) /\ c.pat[c.pi + k] = b

None == [k |-> "none"]
Got(c, t) == [c |-> c, t |-> t]
Bad(c) == Got(Fail(c), None)

ast_new(c, t) == IF c.ast >= c.lim.ast THEN Bad(c) ELSE Got([c EXCEPT !.ast = @ + 1], t)
cls_new(c, set, ranges) ==
  IF Len(c.cls) >= c.lim.cls THEN Fail(c)
  ELSE [c EXCEPT !.cls = Append(@, [set |-> set, ranges |-> ranges])]
p_byte_atom(c, b) == ast_new(c, [k |-> "byte", b |-> b])
p_class_atom(c) == IF c.err THEN Bad(c) ELSE ast_new(c, [k |-> "class", cls |-> Len(c.cls)])
AssertAtom(c, kind) == ast_new(c, [k |-> "assert", b |-> kind])

cls_add_named(e) ==
  CASE e = CH["d"] -> RE_RANGES_D [] e = CH["D"] -> RE_RANGES_NOTD
    [] e = CH["w"] -> RE_RANGES_WORD [] e = CH["W"] -> RE_RANGES_NOTW
    [] e = CH["s"] -> RE_RANGES_WHITE [] OTHER -> RE_RANGES_NOTS

HexDigit(b) == IF b \in Digits THEN b - 48 ELSE IF b \in 97..102 THEN b - 87
             ELSE IF b \in 65..70 THEN b - 55 ELSE -1
(* Two hex digits, -1 when one is missing or is none.                      *)
p_hex(c) ==
  IF c.pi + 1 > Len(c.pat) \/ HexDigit(Here(c)) < 0 \/ HexDigit(c.pat[c.pi + 1]) < 0 THEN -1
  ELSE 16 * HexDigit(Here(c)) + HexDigit(c.pat[c.pi + 1])

(* One escape: a byte, a new class, an assertion or an error. Digits past  *)
(* zero are backreferences, outside the subset; other letters stand for    *)
(* themselves, \c and \p too when what follows is not theirs.              *)
Escaped(c, kind, b) == [c |-> c, kind |-> kind, b |-> b]
EscapedClass(c, ranges) ==
  LET d == cls_new(c, {}, ranges) IN Escaped(d, IF d.err THEN "err" ELSE "class", Len(d.cls))
LetterName == <<LBR, 76, 101, 116, 116, 101, 114, RBR>>
Control == [n |-> LF, t |-> TAB, r |-> 13, f |-> 12, v |-> 11]
p_escape(c0) ==
  IF AtEnd(c0) THEN Escaped(Fail(c0), "err", 0)
  ELSE LET e == Here(c0)
           c == Skip(c0, 1)
       IN  IF e \in {CH[k] : k \in {"d", "w", "s", "D", "W", "S"}} THEN EscapedClass(c, cls_add_named(e))
           ELSE IF e \in {CH["b"], CH["B"]} THEN Escaped(c, "assert", e)
           ELSE IF \E k \in DOMAIN Control : e = CH[k]
             THEN Escaped(c, "byte", Control[CHOOSE k \in DOMAIN Control : e = CH[k]])
           ELSE IF e = ZERO THEN Escaped(c, "byte", NUL)
           ELSE IF e = CH["c"] /\ ~AtEnd(c) /\ Here(c) \in Letters
             THEN Escaped(Skip(c, 1), "byte", Here(c) % 32)
           ELSE IF e = CH["x"]
             THEN IF p_hex(c) < 0 THEN Escaped(Fail(c), "err", 0)
                  ELSE Escaped(Skip(c, 2), "byte", p_hex(c))
           ELSE IF e = CH["p"] /\ IsPrefix(LetterName, SubSeq(c.pat, c.pi, Len(c.pat)))
             THEN EscapedClass(Skip(c, Len(LetterName)), RE_PROP_L)
           ELSE IF e \in Digits THEN Escaped(Fail(c), "err", 0)
           ELSE Escaped(c, "byte", e)

(* A bracket expression, after its opening. An escaped class adds the      *)
(* bytes of its ranges; a first "]" is a member; a "-" before the close    *)
(* stands for itself. The class is allotted before its members are read.   *)
BytesOf(k) == IF k.ranges # <<>> THEN {b \in Bytes : re_ranges_has(k.ranges, b)} ELSE k.set
RECURSIVE Members(_, _, _, _)
RECURSIVE Member(_, _, _, _)
Extended(d, id, set) == [d EXCEPT !.cls[id].set = @ \cup set]
Escapable(c) == IF Here(c) = BSL THEN p_escape(Skip(c, 1)) ELSE Escaped(Skip(c, 1), "byte", Here(c))
UpTo(b, h, id) == IF h.kind # "byte" \/ h.b < b THEN Fail(h.c) ELSE Extended(h.c, id, b..h.b)
Members(c, id, neg, first) ==
  IF c.err \/ AtEnd(c) THEN Fail(c)
  ELSE IF Here(c) = RB /\ ~first
    THEN LET d == Skip(c, 1)
         IN  IF neg THEN [d EXCEPT !.cls[id].set = Bytes \ @] ELSE d
  ELSE Member(c, id, neg, Escapable(c))
Member(c, id, neg, e) ==
  IF e.kind \in {"err", "assert"} THEN Fail(e.c)
  ELSE IF e.kind = "class" THEN Members(Extended(e.c, id, BytesOf(e.c.cls[e.b])), id, neg, FALSE)
  ELSE IF At(e.c, 0, DASH) /\ e.c.pi + 1 <= Len(c.pat) /\ ~At(e.c, 1, RB)
    THEN Members(UpTo(e.b, Escapable(Skip(e.c, 1)), id), id, neg, FALSE)
  ELSE Members(Extended(e.c, id, {e.b}), id, neg, FALSE)
p_class(c) ==
  LET d == cls_new(c, {}, <<>>)
      neg == At(d, 0, CARET)
  IN  IF d.err THEN d ELSE Members(Skip(d, IF neg THEN 1 ELSE 0), Len(d.cls), neg, TRUE)

(* A quantifier, or none: a brace that does not read as one, or counts     *)
(* past 255, is a literal.                                                 *)
RECURSIVE DigitsFrom(_, _)
DigitsFrom(pat, i) == IF i <= Len(pat) /\ pat[i] \in Digits THEN DigitsFrom(pat, i + 1) ELSE i
RECURSIVE Number(_, _, _)
Number(pat, i, j) == IF i = j THEN 0 ELSE 10 * Number(pat, i, j - 1) + pat[j - 1] - 48
Quant(c, kind, lo, hi) ==
  [c |-> IF kind # "none" /\ At(c, 0, QM) THEN Skip(c, 1) ELSE c, kind |-> kind, min |-> lo, max |-> hi]
Braces(c, i, j, k, n, m) ==
  IF j = i \/ n > 255 \/ (m # INF /\ m > 255) \/ k > Len(c.pat) THEN Quant(c, "none", 1, 1)
  ELSE IF c.pat[k] # RBR THEN Quant(c, "none", 1, 1)
  ELSE IF m < n THEN Quant(Fail(c), "err", 1, 1)
  ELSE Quant([c EXCEPT !.pi = k + 1], "rep", n, m)
Counts(c, i, j) ==
  LET n == Number(c.pat, i, j)
      k == DigitsFrom(c.pat, j + 1)
  IN  IF j > Len(c.pat) \/ c.pat[j] # COMMA THEN Braces(c, i, j, j, n, n)
      ELSE Braces(c, i, j, k, n, IF k = j + 1 THEN INF ELSE Number(c.pat, j + 1, k))
p_quant(c) ==
  IF AtEnd(c) THEN Quant(c, "none", 1, 1)
  ELSE IF Here(c) = STAR THEN Quant(Skip(c, 1), "rep", 0, INF)
  ELSE IF Here(c) = PLUS THEN Quant(Skip(c, 1), "rep", 1, INF)
  ELSE IF Here(c) = QM THEN Quant(Skip(c, 1), "rep", 0, 1)
  ELSE IF Here(c) # LBR THEN Quant(c, "none", 1, 1)
  ELSE Counts(c, c.pi + 1, DigitsFrom(c.pat, c.pi + 1))

RECURSIVE p_alt(_, _)
RECURSIVE p_seq(_, _, _)
RECURSIVE Alternatives(_, _, _)

GroupAtom(g) ==
  IF g.c.err THEN g ELSE IF ~At(g.c, 0, RPAR) THEN Bad(g.c) ELSE Got(Skip(g.c, 1), g.t)
BracketAtom(k, id) == IF k.err THEN Bad(k) ELSE ast_new(k, [k |-> "class", cls |-> id])
EscapeAtom(e) ==
  IF e.kind = "err" THEN Bad(e.c) ELSE IF e.kind = "assert" THEN AssertAtom(e.c, e.b)
  ELSE IF e.kind = "class" THEN p_class_atom(e.c) ELSE p_byte_atom(e.c, e.b)
p_atom(c, depth) ==
  LET ch == Here(c)
      d == Skip(c, 1)
  IN  IF ch = LPAR
        THEN IF At(d, 0, QM) /\ ~At(d, 1, COLON) THEN Bad(d)
             ELSE GroupAtom(p_alt(IF At(d, 0, QM) THEN Skip(d, 2) ELSE d, depth + 1))
      ELSE IF ch = LB THEN BracketAtom(p_class(d), Len(d.cls) + 1)
      ELSE IF ch = DOT THEN p_class_atom(cls_new(d, Bytes \ {LF}, <<>>))
      ELSE IF ch \in {CARET, DOLLAR} THEN AssertAtom(d, ch)
      ELSE IF ch = BSL THEN EscapeAtom(p_escape(d))
      ELSE IF ch \in {STAR, PLUS, QM, RPAR, BAR} THEN Bad(c)
      ELSE p_byte_atom(d, ch)

(* A sequence folds its atoms to the left; none is the empty pattern.      *)
Repeated(a, q) ==
  IF a.c.err \/ q.kind = "err" THEN Bad(a.c)
  ELSE IF q.kind = "none" THEN Got(q.c, a.t)
  ELSE ast_new(q.c, [k |-> "rep", a |-> a.t, min |-> q.min, max |-> q.max])
Quantifiable(a) == Repeated(a, p_quant(a.c))
Joined(k, acc, r) ==
  IF r.c.err \/ acc = None THEN r ELSE ast_new(r.c, [k |-> k, a |-> acc, b |-> r.t])
SeqGoesOn(s, depth) == IF s.c.err THEN s ELSE p_seq(s.c, s.t, depth)
p_seq(c, acc, depth) ==
  IF AtEnd(c) \/ (~AtEnd(c) /\ Here(c) \in {BAR, RPAR})
    THEN IF acc = None THEN ast_new(c, [k |-> "empty"]) ELSE Got(c, acc)
  ELSE SeqGoesOn(Joined("cat", acc, Quantifiable(p_atom(c, depth))), depth)

AltGoesOn(s, depth) == IF s.c.err THEN s ELSE Alternatives(s.c, s.t, depth)
Alternatives(c, acc, depth) ==
  IF ~At(c, 0, BAR) THEN Got(c, acc)
  ELSE AltGoesOn(Joined("alt", acc, p_seq(Skip(c, 1), None, depth)), depth)
p_alt(c, depth) ==
  IF depth > c.lim.depth THEN Bad(c) ELSE AltGoesOn(p_seq(c, None, depth), depth)

-----------------------------------------------------------------------------
(* The Thompson construction. A fragment is its entry (0: none) and its    *)
(* pending arrows, pairs of an instruction and the slot to patch.          *)
Frag(in, arrows) == [in |-> in, arrows |-> arrows]
Built(c, f) == [c |-> c, f |-> f]
Broken(c) == Built(Fail(c), Frag(0, {}))
Inst(op, cls, x, y) == [op |-> op, cls |-> cls, x |-> x, y |-> y]

emit_inst(c, i) ==
  IF Len(c.inst) >= c.lim.inst THEN Fail(c) ELSE [c EXCEPT !.inst = Append(@, i)]
frag_connect(c, arrows, target) ==
  [c EXCEPT !.inst = [pc \in DOMAIN @ |->
     [@[pc] EXCEPT !.x = IF <<pc, "x">> \in arrows THEN target ELSE @,
                   !.y = IF <<pc, "y">> \in arrows THEN target ELSE @]]]
frag_force_entry(b) ==
  IF b.c.err \/ b.f.in > 0 THEN b
  ELSE LET c == emit_inst(b.c, Inst("jmp", 0, 0, 0))
           pc == Len(c.inst)
       IN  IF c.err THEN Broken(c) ELSE Built(c, Frag(pc, b.f.arrows \cup {<<pc, "x">>}))
Consumer(c, op, cls) ==
  LET d == emit_inst(c, Inst(op, cls, 0, 0))
  IN  IF d.err THEN Broken(d) ELSE Built(d, Frag(Len(d.inst), {<<Len(d.inst), "x">>}))
Split(c) == emit_inst(c, Inst("split", 0, 0, 0))

RECURSIVE c_node(_, _, _)
RECURSIVE Copies(_, _, _, _, _)
RECURSIVE Optional(_, _, _, _, _, _)

(* The required copies of a repetition, each entered by the exits of the   *)
(* one before; an empty child requires nothing.                            *)
CopiesOn(b, t, n, acc, depth) ==
  IF b.c.err THEN b
  ELSE IF b.f.in = 0 THEN Copies(b.c, t, n, acc, depth)
  ELSE IF acc.in = 0 THEN Copies(b.c, t, n, b.f, depth)
  ELSE Copies(frag_connect(b.c, acc.arrows, b.f.in), t, n, Frag(acc.in, b.f.arrows), depth)
Copies(c, t, n, acc, depth) ==
  IF n = 0 THEN Built(c, acc) ELSE CopiesOn(c_node(c, t, depth), t, n - 1, acc, depth)

(* The star: the body loops back to the split, the prefix enters it and    *)
(* its second arm is the only exit.                                        *)
Star(c0, t, acc, depth) ==
  LET c1 == Split(c0)
      sp == Len(c1.inst)
      b == c_node(c1, t, depth)
      c2 == IF b.f.in > 0 THEN frag_connect([b.c EXCEPT !.inst[sp].x = b.f.in], b.f.arrows, sp)
            ELSE [b.c EXCEPT !.inst[sp].x = sp]
  IN  IF c1.err THEN Broken(c1) ELSE IF b.c.err THEN b
      ELSE Built(frag_connect(c2, acc.arrows, sp), Frag(IF acc.in > 0 THEN acc.in ELSE sp, {<<sp, "y">>}))

(* The optional copies: the exits of one enter the split of the next, and  *)
(* every skip arm stays pending.                                           *)
Optional(c0, t, n, acc, exits, depth) ==
  IF n = 0 THEN Built(c0, Frag(acc.in, acc.arrows \cup exits))
  ELSE LET c1 == Split(c0)
           sp == Len(c1.inst)
           c2 == frag_connect(c1, acc.arrows, sp)
           b == c_node(c2, t, depth)
           c3 == IF b.f.in > 0 THEN [b.c EXCEPT !.inst[sp].x = b.f.in] ELSE b.c
       IN  IF c1.err THEN Broken(c1) ELSE IF b.c.err THEN b
           ELSE Optional(c3, t, n - 1,
                         Frag(IF acc.in > 0 THEN acc.in ELSE sp,
                              b.f.arrows \cup IF b.f.in > 0 THEN {} ELSE {<<sp, "x">>}),
                         exits \cup {<<sp, "y">>}, depth)

Concatenated(f1, f2) ==
  IF f1.c.err THEN f1 ELSE IF f2.c.err THEN f2
  ELSE IF f1.f.in = 0 THEN f2
  ELSE IF f2.f.in = 0 THEN Built(f2.c, f1.f)
  ELSE Built(frag_connect(f2.c, f1.f.arrows, f2.f.in), Frag(f1.f.in, f2.f.arrows))
Forked(c, sp, e1, e2) ==
  IF e1.c.err \/ e2.c.err THEN Broken(c)
  ELSE Built([e2.c EXCEPT !.inst[sp].x = e1.f.in, !.inst[sp].y = e2.f.in],
             Frag(sp, e1.f.arrows \cup e2.f.arrows))
ForkedAt(c, f2, e1) == Forked(c, Len(c.inst), e1, frag_force_entry(Built(e1.c, f2.f)))
Alternated(c, f1, f2) ==
  IF c.err THEN Broken(c) ELSE IF f1.c.err THEN f1 ELSE IF f2.c.err THEN f2
  ELSE ForkedAt(c, f2, frag_force_entry(Built(f2.c, f1.f)))
Both(f1, t, depth) == Concatenated(f1, c_node(f1.c, t, depth))
Either(c, f1, t, depth) == Alternated(c, f1, c_node(f1.c, t, depth))
EitherOf(c, t, depth) == Either(c, c_node(c, t.a, depth), t.b, depth)
Further(pre, t, depth) ==
  IF pre.c.err THEN pre
  ELSE IF t.max = INF THEN Star(pre.c, t.a, pre.f, depth)
  ELSE Optional(pre.c, t.a, t.max - t.min, pre.f, {}, depth)
c_node(c, t, depth) ==
  IF depth > c.lim.depth + 8 THEN Broken(c)
  ELSE CASE t.k = "empty" -> Built(c, Frag(0, {}))
         [] t.k = "byte" -> Consumer(c, "byte", t.b)
         [] t.k = "class" -> Consumer(c, "char", t.cls)
         [] t.k = "assert" -> Consumer(c, "assert", t.b)
         [] t.k = "cat" -> Both(c_node(c, t.a, depth + 1), t.b, depth + 1)
         [] t.k = "alt" -> EitherOf(Split(c), t, depth + 1)
         [] OTHER -> Further(Copies(c, t.a, t.min, Frag(0, {}), depth + 1), t, depth + 1)

(* Pattern to program: MATCH comes last and takes the pending arrows.      *)
NoProgram == [ok |-> FALSE, inst |-> <<>>, cls |-> <<>>, entry |-> 0]
Finished(b, c) ==
  IF b.c.err \/ c.err THEN NoProgram
  ELSE [ok |-> TRUE, inst |-> frag_connect(c, b.f.arrows, Len(c.inst)).inst,
        cls |-> c.cls, entry |-> b.f.in]
Matched(b) == Finished(b, emit_inst(b.c, Inst("match", 0, 0, 0)))
Compiled(p) ==
  IF p.c.err \/ p.c.pi # Len(p.c.pat) + 1 THEN NoProgram ELSE Matched(c_node(p.c, p.t, 0))
re_build(pat, lim) == Compiled(p_alt(Ctx(pat, lim), 0))

-----------------------------------------------------------------------------
(* One code point at a byte offset, as [cp, len]; a malformed or lone byte *)
(* reads as Latin-1. Offsets count from 0, s[at + 1] is the byte there.    *)
re_cp_at(s, at) ==
  LET b == s[at + 1]
      n == IF b \in 194..223 THEN 2 ELSE IF b \in 224..239 THEN 3 ELSE IF b \in 240..244 THEN 4 ELSE 1
      lead == IF n = 2 THEN b % 32 ELSE IF n = 3 THEN b % 16 ELSE b % 8
      cp[k \in 0..(n - 1)] == IF k = 0 THEN lead ELSE cp[k - 1] * 64 + (s[at + 1 + k] % 64)
      whole == at + n <= Len(s) /\ \A k \in 1..(n - 1) : s[at + 1 + k] \in 128..191
  IN  IF n = 1 \/ ~whole THEN [cp |-> b, len |-> 1] ELSE [cp |-> cp[n - 1], len |-> n]

(* The word test on both sides of an offset.                               *)
RECURSIVE BackOver(_, _)
BackOver(s, q) == IF q > 0 /\ s[q] \in 128..191 THEN BackOver(s, q - 1) ELSE q
re_word_before(s, at) ==
  /\ at > 0
  /\ LET q0 == BackOver(s, at)
         q == IF q0 < at /\ q0 + re_cp_at(SubSeq(s, 1, at), q0).len = at THEN q0 ELSE at - 1
     IN  re_word(s[q + 1])
re_word_at(s, at) ==
  at < Len(s) /\ LET r == re_cp_at(s, at) IN r.cp < 128 /\ re_word(r.cp)

Asserted(kind, s, pos) ==
  CASE kind = CARET -> pos = 0
    [] kind = DOLLAR -> pos = Len(s)
    [] kind = CH["b"] -> re_word_before(s, pos) # re_word_at(s, pos)
    [] OTHER -> re_word_before(s, pos) = re_word_at(s, pos)

(* The machine: marks of the closure and of the ring (tag, generation and  *)
(* position, both modulo Wrap), five ring slots, slot d at the frontier    *)
(* plus d. lost counts the pushes a guard of re_ring_push refused.         *)
Mark(v, pos) == <<v.gen % Wrap, pos % Wrap>>
Unmarked == <<>>
Machine(prog, s) ==
  [prog |-> prog, s |-> s, marks |-> [pc \in DOMAIN prog.inst |-> Unmarked],
   seen |-> [pc \in DOMAIN prog.inst |-> Unmarked], ring |-> [d \in 0..4 |-> <<>>],
   gen |-> 1, gen_at |-> 0, matched |-> FALSE, lost |-> 0]

RECURSIVE Close(_, _, _)
Close(v, stack, pos) ==
  IF stack = <<>> THEN v
  ELSE LET pc == Head(stack)
           in == v.prog.inst[pc]
           rest == Tail(stack)
           w == [v EXCEPT !.marks[pc] = Mark(v, pos)]
       IN  IF v.marks[pc] = Mark(v, pos) THEN Close(v, rest, pos)
           ELSE CASE in.op = "jmp" -> Close(w, <<in.x>> \o rest, pos)
                  [] in.op = "split" -> Close(w, <<in.y, in.x>> \o rest, pos)
                  [] in.op = "match" -> Close([w EXCEPT !.matched = TRUE], rest, pos)
                  [] in.op = "assert" /\ Asserted(in.cls, v.s, pos) -> Close(w, <<in.x>> \o rest, pos)
                  [] OTHER -> Close(w, rest, pos)
re_closure(v, seed, pos) == Close(v, <<seed>>, pos)

re_ring_push(v, pc, pos) ==
  LET slot == pos - v.gen_at
  IN  IF slot \notin 1..4 THEN [v EXCEPT !.lost = @ + 1]
      ELSE IF v.seen[pc] = Mark(v, pos) THEN v
      ELSE LET w == [v EXCEPT !.seen[pc] = Mark(v, pos)]
           IN  IF Len(w.ring[slot]) >= 2 * Len(v.prog.inst) THEN [w EXCEPT !.lost = @ + 1]
               ELSE [w EXCEPT !.ring[slot] = Append(@, pc)]

(* A class takes a whole code point: by its ranges, or when every byte of  *)
(* it is in the set.                                                       *)
Hit(v, in, sp, r) ==
  IF in.op = "byte" THEN in.cls = v.s[sp + 1]
  ELSE LET k == v.prog.cls[in.cls]
       IN  IF k.ranges # <<>> THEN re_ranges_has(k.ranges, r.cp)
           ELSE \A j \in 1..r.len : v.s[sp + j] \in k.set
Arrivals(v, pos) ==
  FoldLeft(LAMBDA w, pc : IF w.matched THEN w
                          ELSE re_closure([w EXCEPT !.marks[pc] = Unmarked], pc, pos), v, v.ring[0])
Consume(v, sp) ==
  LET r == re_cp_at(v.s, sp)
      live == {pc \in DOMAIN v.prog.inst :
                 v.marks[pc] = Mark(v, sp) /\ v.prog.inst[pc].op \in {"byte", "char"}
                 /\ Hit(v, v.prog.inst[pc], sp, r)}
  IN  FoldLeft(LAMBDA w, pc : IF pc \notin live THEN w
                 ELSE re_ring_push(w, w.prog.inst[pc].x,
                                   sp + IF w.prog.inst[pc].op = "byte" THEN 1 ELSE r.len),
               v, [pc \in DOMAIN v.prog.inst |-> pc])
(* The ring shifts and the generation advances; at a wrap every mark goes. *)
Advance(v) ==
  LET w == [v EXCEPT !.ring = [d \in 0..4 |-> IF d = 4 THEN <<>> ELSE v.ring[d + 1]], !.gen = @ + 1]
      none == [pc \in DOMAIN v.prog.inst |-> Unmarked]
  IN  IF w.gen % Wrap # 0 THEN w ELSE [w EXCEPT !.marks = none, !.seen = none, !.gen = @ + 1]

RECURSIVE Steps(_, _)


Steps(v, sp) ==
  IF sp = Len(v.s) THEN Arrivals([v EXCEPT !.gen_at = sp], sp)
  ELSE LET a == Arrivals([v EXCEPT !.gen_at = sp], sp)
           b == IF a.matched THEN a ELSE re_closure(a, a.prog.entry, sp)
       IN  IF b.matched THEN b ELSE Steps(Advance(Consume(b, sp)), sp + 1)

Run(prog, s) ==
  LET v == re_closure(Machine(prog, s), prog.entry, 0)
  IN  IF v.matched THEN v ELSE Steps(v, 0)
re_vm(prog, s) == IF prog.entry = 0 \/ Run(prog, s).matched THEN 1 ELSE 0

Verdict(prog, s) == IF prog.ok THEN re_vm(prog, s) ELSE -1
yep_re_search(pat, s) == Verdict(IF pat = <<>> THEN NoProgram ELSE re_build(pat, Ample), s)

-----------------------------------------------------------------------------
(* The retained programs: a table of pattern and program, and the number   *)
(* of its blocks that are allocated. failing is the set of the two         *)
(* allocations of a compile that fail.                                     *)
EmptyTable == [slot |-> <<>>, live |-> 0]
Find(t, pat) == {i \in DOMAIN t.slot : t.slot[i].pat = pat}
re_compile(pat, failing) ==
  IF pat = <<>> \/ failing # {} THEN NoProgram ELSE re_build(pat, Ample)

AddProgram(t, pat, prog) ==
  IF prog.ok THEN [slot |-> Append(t.slot, [pat |-> pat, prog |-> prog]), live |-> t.live + 2] ELSE t
yep_re_cache_add(t, pat, failing) ==
  IF pat = <<>> \/ Find(t, pat) # {} \/ Len(t.slot) >= CacheMax THEN t
  ELSE AddProgram(t, pat, re_compile(pat, failing))

yep_re_cache_search(t, pat, s) ==
  LET hit == Find(t, pat)
  IN  IF hit # {} THEN re_vm(t.slot[CHOOSE i \in hit : TRUE].prog, s) ELSE yep_re_search(pat, s)
yep_re_cache_free(t) == [slot |-> <<>>, live |-> t.live - 2 * Len(t.slot)]

-----------------------------------------------------------------------------
(* The inputs. A part grows patterns from one of its beginnings, a token   *)
(* at a time, and tries them on its subjects.                              *)
Esc(c) == <<BSL, CH[c]>>
Parts == {"core", "bracket", "count", "escape"}
Beginnings ==
  [core |-> {<<>>, <<LPAR, QM, COLON>>}, bracket |-> {<<LB>>, <<CARET, LB>>},
   count |-> {<<LA, LBR>>, <<LPAR, BAR, RPAR, LBR>>, <<CARET, DOT, LBR>>, <<LPAR, RPAR, LBR>>},
   escape |-> {<<BSL>>, <<CARET, BSL>>, Esc("p") \o LetterName, Esc("p") \o Front(LetterName),
              <<LB>> \o Esc("p") \o LetterName \o <<RB>>}]
Tokens ==
  [core |-> {<<LA>>, <<DOT>>, <<STAR>>, <<PLUS>>, <<QM>>, <<BAR>>, <<LPAR>>, <<RPAR>>, <<CARET>>, <<DOLLAR>>,
             Esc("b"), Esc("B"), Esc("s")},
   bracket |-> {<<CARET>>, <<RB>>, <<LA>>, <<99>>, <<DASH>>, Esc("S"), Esc("n"), Esc("b")},
   count |-> {<<LBR>>, <<ZERO>>, <<TWO>>, <<COMMA>>, <<RBR>>, <<QM>>, <<DOLLAR>>},
   escape |-> {<<BSL>>, <<LA>>, <<ZERO>>, <<ONE>>, <<CH["c"]>>, <<CH["x"]>>, <<CH["p"]>>,
               <<CH["D"]>>, <<CH["w"]>>}]
MaxText == [core |-> MaxCore, bracket |-> MaxBracket, count |-> MaxCount, escape |-> MaxEscape]
Grave == <<195, 160>>
Euro == <<226, 130, 172>>
Subjects ==
  [core |-> {<<>>, <<LA>>, <<LA, DASH>>, <<LF>>, Grave, <<LA>> \o Grave, Euro \o <<LA>>,
             <<DASH, LA, LA, LF, LA>>, <<195, LA>>},
   bracket |-> {<<b>> : b \in {LA, 98, 99, DASH, LF, RB, SP}} \cup {Grave},
   count |-> {[i \in 1..n |-> LA] : n \in 0..3} \cup {Grave},
   escape |-> {<<b>> : b \in {NUL, CTRLA, LF, LA, CH["c"], CH["p"], ONE, 170, 16}} \cup {Grave}]
TablePatterns == {<<>>, <<LA>>, <<LA, STAR, DOLLAR>>, <<LPAR>>, <<DOT, DOT>>}

Init == /\ \/ part \in Parts /\ \E p \in Beginnings[part] : text = p
           \/ part = "table" /\ text = <<>>
        /\ table = EmptyTable

ReadToken(tok) ==
  /\ part \in Parts
  /\ tok \in Tokens[part] /\ Len(text) + Len(tok) <= MaxText[part]
  /\ text' = text \o tok
  /\ UNCHANGED <<part, table>>

Retain(pat, failing) ==
  /\ part = "table" /\ Len(text) < MaxHistory
  /\ table' = yep_re_cache_add(table, pat, failing)
  /\ text' = Append(text, Len(pat))
  /\ UNCHANGED part

Release ==
  /\ part = "table" /\ Len(text) < MaxHistory /\ table.slot # <<>>
  /\ table' = yep_re_cache_free(table)
  /\ text' = Append(text, -1)
  /\ UNCHANGED part

Next == \/ \E tok \in UNION {Tokens[p] : p \in Parts} : ReadToken(tok)
        \/ \E pat \in TablePatterns, failing \in SUBSET {"inst", "cls"} : Retain(pat, failing)
        \/ Release
Spec == Init /\ [][Next]_vars

-----------------------------------------------------------------------------
(* The reference: what a pattern means, read off its slices. A slice       *)
(* i..j-1 is an alternation at a bar that leaves two patterns, a sequence  *)
(* of atoms, each with the quantifier written after it, or nothing. The    *)
(* meaning of a tree is a relation between offsets of the subject.         *)
LeafRead(pat, i, r) ==
  IF pat[i] = LPAR \/ r.c.err THEN [end |-> 0, t |-> None]
  ELSE [end |-> i + r.c.pi - 1,
        t |-> IF r.t.k = "class" THEN [k |-> "class", class |-> r.c.cls[r.t.cls]] ELSE r.t]
Leaf(pat, i) == LeafRead(pat, i, p_atom(Ctx(SubSeq(pat, i, Len(pat)), Ample), 0))
Counted(pat, k) ==
  LET ends == {e \in (k + 2)..Len(pat) : pat[e] = RBR /\ RBR \notin {pat[x] : x \in k..(e - 1)}}
      e == CHOOSE x \in ends : TRUE
      commas == {x \in k..e : pat[x] = COMMA}
      c == IF commas = {} THEN e ELSE CHOOSE x \in commas : TRUE
      lo == Number(pat, k + 1, c)
      hi == IF commas = {} THEN lo ELSE IF c + 1 = e THEN INF ELSE Number(pat, c + 1, e)
  IN  IF pat[k] = LBR /\ ends # {} /\ Cardinality(commas) < 2 /\ c > k + 1
         /\ (\A x \in (k + 1)..(e - 1) : x = c \/ pat[x] \in Digits)
         /\ lo <= 255 /\ (hi <= 255 \/ hi = INF)
        THEN [end |-> e + 1, min |-> lo, max |-> hi]
        ELSE [end |-> k, min |-> 1, max |-> 1]
Quantified(pat, k) ==
  LET plain == [end |-> k, min |-> 1, max |-> 1]
      q == IF k > Len(pat) THEN plain
           ELSE IF pat[k] = STAR THEN [end |-> k + 1, min |-> 0, max |-> INF]
           ELSE IF pat[k] = PLUS THEN [end |-> k + 1, min |-> 1, max |-> INF]
           ELSE IF pat[k] = QM THEN [end |-> k + 1, min |-> 0, max |-> 1]
           ELSE Counted(pat, k)
  IN  IF q.end > k /\ q.end <= Len(pat) /\ pat[q.end] = QM THEN [q EXCEPT !.end = @ + 1] ELSE q

RECURSIVE AltTree(_, _, _)
RECURSIVE SeqTree(_, _, _)
GroupTree(pat, i, k) ==
  LET from == IF pat[i + 1] # QM THEN i + 1 ELSE IF i + 2 < k /\ pat[i + 2] = COLON THEN i + 3 ELSE 0
  IN  IF pat[k - 1] # RPAR \/ k < i + 2 \/ from = 0 THEN None ELSE AltTree(pat, from, k - 1)
Before(a, q, rest) ==
  IF rest = None THEN None
  ELSE [k |-> "cat", a |-> [k |-> "rep", a |-> a, min |-> q.min, max |-> q.max], b |-> rest]
Times(pat, j, a, q) ==
  IF q.end > j \/ q.min > q.max THEN None ELSE Before(a, q, SeqTree(pat, q.end, j))
AtomTree(pat, j, a) == IF a.end = 0 \/ a.end > j THEN None ELSE Times(pat, j, a.t, Quantified(pat, a.end))
GroupOf(groups) ==
  LET read == {g \in groups : g.t # None}
  IN  IF read = {} THEN [end |-> 0, t |-> None] ELSE CHOOSE g \in read : TRUE
SeqTree(pat, i, j) ==
  IF i = j THEN [k |-> "empty"]
  ELSE AtomTree(pat, j, IF pat[i] # LPAR THEN Leaf(pat, i)
                        ELSE GroupOf({[end |-> k, t |-> GroupTree(pat, i, k)] : k \in (i + 2)..j}))
Beside(a, b) == IF b = None THEN None ELSE [k |-> "alt", a |-> a, b |-> b]
AtBar(pat, j, l) == Beside(l.t, AltTree(pat, l.bar + 1, j))
WholeOrLeft(pat, j, one, lefts) ==
  LET read == {l \in lefts : l.t # None}
  IN  IF one # None \/ read = {} THEN one
      ELSE AtBar(pat, j, CHOOSE l \in read : \A m \in read : l.bar <= m.bar)
AltTree(pat, i, j) ==
  WholeOrLeft(pat, j, SeqTree(pat, i, j),
              {[bar |-> k, t |-> SeqTree(pat, i, k)] : k \in {x \in i..(j - 1) : pat[x] = BAR}})

Then(R, S) == {<<p[1], q[2]>> : <<p, q>> \in {x \in R \X S : x[1][2] = x[2][1]}}
RECURSIVE Power(_, _, _)
Power(R, n, id) == IF n = 0 THEN id ELSE Then(R, Power(R, n - 1, id))
WordByte(s, i) == i \in DOMAIN s /\ re_word(s[i])
RECURSIVE Meaning(_, _)
Meaning(t, s) ==
  LET id == {<<p, p>> : p \in 0..Len(s)}
  IN  CASE t.k = "empty" -> id
        [] t.k = "byte" -> {<<p, p + 1>> : p \in {x \in 0..(Len(s) - 1) : s[x + 1] = t.b}}
        [] t.k = "class" ->
             {<<p, p + re_cp_at(s, p).len>> : p \in {x \in 0..(Len(s) - 1) :
                IF t.class.ranges = <<>> THEN \A j \in 1..re_cp_at(s, x).len : s[x + j] \in t.class.set
                ELSE \E g \in Range(t.class.ranges) : re_cp_at(s, x).cp \in g[1]..g[2]}}
        [] t.k = "assert" ->
             {<<p, p>> : p \in {x \in 0..Len(s) :
                CASE t.b = CARET -> x = 0 [] t.b = DOLLAR -> x = Len(s)
                  [] t.b = CH["b"] -> WordByte(s, x) # WordByte(s, x + 1)
                  [] OTHER -> WordByte(s, x) = WordByte(s, x + 1)}}
        [] t.k = "cat" -> Then(Meaning(t.a, s), Meaning(t.b, s))
        [] t.k = "alt" -> Meaning(t.a, s) \cup Meaning(t.b, s)
        [] OTHER -> LET R == Meaning(t.a, s)
                        extra == IF t.max = INF THEN Len(s) + 1 ELSE t.max - t.min
                    IN  Then(Power(R, t.min, id), Power(R \cup id, extra, id))

(* How many instructions a tree may need.                                  *)
RECURSIVE Weight(_)
Weight(t) ==
  CASE t.k = "empty" -> 0
    [] t.k = "cat" -> Weight(t.a) + Weight(t.b)
    [] t.k = "alt" -> Weight(t.a) + Weight(t.b) + 3
    [] t.k = "rep" -> t.min * Weight(t.a) + (IF t.max = INF THEN 1 ELSE t.max - t.min) * (Weight(t.a) + 1)
    [] OTHER -> 1

(* The verdict of a search: the pattern is refused exactly when it has no  *)
(* reading or its program may be over the budget, and otherwise matches    *)
(* exactly when the reading has a match that starts at offset 0 or before  *)
(* the end of the subject.                                                 *)
Judged(prog, t) ==
  IF text = <<>> \/ t = None THEN \A s \in Subjects[part] : yep_re_search(text, s) = -1
  ELSE /\ prog.ok \/ Weight(t) >= Ample.inst
       /\ prog.ok => \A s \in Subjects[part] :
            re_vm(prog, s) = IF \E m \in Meaning(t, s) : m[1] = 0 \/ m[1] < Len(s) THEN 1 ELSE 0
VerdictsRight == part \in Parts => Judged(re_build(text, Ample), AltTree(text, 1, Len(text) + 1))

(* The five slots and their capacity are enough: no thread is dropped by   *)
(* a guard of the ring, whatever its code point lengths, and the arrays    *)
(* stay inside their budgets.                                              *)
Fits(prog, small) ==
  /\ prog.ok /\ prog.entry # 0 => \A s \in Subjects[part] : Run(prog, s).lost = 0
  /\ small.ok => /\ Len(small.inst) <= Tight.inst /\ Len(small.cls) <= Tight.cls
                 /\ small = prog
NoThreadLost == part \in Parts => Fits(re_build(text, Ample), re_build(text, Tight))

(* The table is transparent: what is retained, full or failing changes no  *)
(* verdict, and it owns two blocks for every program it holds.             *)
TableTransparent ==
  part = "table" =>
    /\ table.live = 2 * Len(table.slot) /\ Len(table.slot) <= CacheMax
    /\ \A pat \in TablePatterns, s \in Subjects["count"] :
         yep_re_cache_search(table, pat, s) = yep_re_search(pat, s)
=============================================================================

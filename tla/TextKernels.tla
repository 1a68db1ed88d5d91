---------------------------- MODULE TextKernels ----------------------------
(***************************************************************************)
(* The text kernels (common/simd_text*.c): the scalar reference, the AVX2  *)
(* and the NEON table.  A vector kernel works a chunk at a time, settles   *)
(* the first chunk with a hit lane and leaves the rest to the scalar form; *)
(* what can go wrong sits at the chunk seams, in the signed compares and   *)
(* in the narrow accumulators.  Bytes are numbers, positions count from 1  *)
(* and 0 says "none" (-1 in the code).                                     *)
(*                                                                         *)
(* A text arrives one byte at a time; in every state every kernel answers  *)
(* for the text so far.                                                    *)
(***************************************************************************)
EXTENDS Integers, Sequences, FiniteSetsExt, SequencesExt

CONSTANTS
  AChunk,     \* YEP_AVX2_CHUNK (32)
  NChunk,     \* YEP_NEON_CHUNK (16)
  Batch,      \* offset of the last chunk of a NEON statistics batch (65504)
  U16,        \* 65536, what a vaddvq_u16 reduce wraps at
  Swar,       \* bytes of one SWAR word of the line walk (8)
  Cap,        \* bytes the capped line walk looks at (128)
  Block,      \* bytes of a stage 1 block (64)
  Nibble,     \* values of a nibble (16)
  Group,      \* members of one nibble-class group (8)
  MaxFind,    \* bounds on the length of a text, by family of kernels
  MaxStats,
  MaxQuote,
  MaxLine,
  MaxStop,
  MaxStage

VARIABLES part, text
vars == <<part, text>>

TAB == 9
LF == 10
CR == 13
SP == 32
DQ == 34
HASH == 35
SQ == 39
COMMA == 44
DASH == 45
ZERO == 48
NINE == 57
COLON == 58
BSL == 92
LETTER == 97
DEL == 127

(* The bytes a family tells apart, with the ones next to its boundaries.   *)
Bytes ==
  [find |-> {LETTER, LETTER + 1, LETTER + 2},
   stats |-> {31, SP, LF, COMMA, DEL, 128, 255},
   quote |-> {DQ, SQ, BSL, LETTER},
   line |-> {LF, SP, COLON, LETTER},
   stopset |-> {0, Nibble + 1, Nibble * Nibble - 1},
   stage1 |-> {DQ, BSL, COMMA, LF, LETTER},
   chunk |-> {DQ, 31, SP, DASH, ZERO - 1, ZERO, NINE, COLON, 128}]

Parts == DOMAIN Bytes
MaxText == [find |-> MaxFind, stats |-> MaxStats, quote |-> MaxQuote,
            line |-> MaxLine, stopset |-> MaxStop, stage1 |-> MaxStage, chunk |-> AChunk]

-----------------------------------------------------------------------------
(* Chunks: the offsets of the whole chunks of width W, and the offset of   *)
(* the tail behind them.                                                   *)
Chunks(s, W) == {W * k : k \in 0..(Len(s) \div W - 1)}
TailAt(s, W) == W * (Len(s) \div W)
From(s, i) == SubSeq(s, i + 1, Len(s))
Lanes(s, i, W, P(_)) == {k \in 1..W : P(s[i + k])}
Shifted(i, r) == IF r = 0 THEN 0 ELSE i + r

FirstWith(s, P(_)) ==
  LET at == {j \in DOMAIN s : P(s[j])} IN IF at = {} THEN 0 ELSE Min(at)
CountOf(s, c) == Cardinality({j \in DOMAIN s : s[j] = c})

(* The first hit lane of the first chunk that has one, else the tail's.    *)
ChunkFind(s, W, P(_)) ==
  LET hits == {i \in Chunks(s, W) : Lanes(s, i, W, P) # {}}
      t == TailAt(s, W)
  IN  IF hits # {} THEN Min(hits) + Min(Lanes(s, Min(hits), W, P))
      ELSE Shifted(t, FirstWith(From(s, t), P))

(* Two vectors an iteration, then one, then the tail.                      *)
PairFind(s, W, P(_)) ==
  LET pairs == {i \in Chunks(s, 2 * W) : Lanes(s, i, W, P) \cup Lanes(s, i + W, W, P) # {}}
      t == TailAt(s, 2 * W)
  IN  IF pairs = {} THEN Shifted(t, ChunkFind(From(s, t), W, P))
      ELSE LET i == Min(pairs)
               half == IF Lanes(s, i, W, P) # {} THEN i ELSE i + W
           IN  half + Min(Lanes(s, half, W, P))

yep_text_find_scalar(s, c) == FirstWith(s, LAMBDA b : b = c)
yep_text_contains_scalar(s, c) == yep_text_find_scalar(s, c) # 0
yep_text_find_not_scalar(s, c) == FirstWith(s, LAMBDA b : b # c)
yep_text_find3_scalar(s, c0, c1, c2) ==
  LET at == {j \in DOMAIN s : j + 2 <= Len(s) /\ s[j] = c0 /\ s[j + 1] = c1 /\ s[j + 2] = c2}
  IN  IF at = {} THEN 0 ELSE Min(at)
yep_text_count3_scalar(s, c0, c1, c2) == <<CountOf(s, c0), CountOf(s, c1), CountOf(s, c2)>>

yep_avx2_contains(s, c) ==
  \/ \E i \in Chunks(s, AChunk) : Lanes(s, i, AChunk, LAMBDA b : b = c) # {}
  \/ yep_text_contains_scalar(From(s, TailAt(s, AChunk)), c)
yep_avx2_find(s, c) == ChunkFind(s, AChunk, LAMBDA b : b = c)
yep_avx2_find_not(s, c) == ChunkFind(s, AChunk, LAMBDA b : b # c)
yep_neon_contains(s, c) ==
  \/ \E i \in Chunks(s, NChunk) : Lanes(s, i, NChunk, LAMBDA b : b = c) # {}
  \/ yep_text_contains_scalar(From(s, TailAt(s, NChunk)), c)
yep_neon_find(s, c) == ChunkFind(s, NChunk, LAMBDA b : b = c)
yep_neon_find_not(s, c) == PairFind(s, NChunk, LAMBDA b : b # c)

(* find3: a lane that holds c0 is checked against the text, past the chunk *)
(* too; the tail holds the runs that start in it.                          *)
Find3(s, W, c0, c1, c2) ==
  LET t == TailAt(s, W)
      hits == {j \in 1..t : s[j] = c0 /\ j + 2 <= Len(s) /\ s[j + 1] = c1 /\ s[j + 2] = c2}
  IN  IF Len(s) < 3 THEN 0
      ELSE IF hits # {} THEN Min(hits)
      ELSE Shifted(t, yep_text_find3_scalar(From(s, t), c0, c1, c2))
yep_avx2_find3(s, c0, c1, c2) == Find3(s, AChunk, c0, c1, c2)
yep_neon_find3(s, c0, c1, c2) == Find3(s, NChunk, c0, c1, c2)

(* A count: the lanes of every chunk, and the tail.                        *)
ChunkCount(s, W, c) ==
  FoldSet(LAMBDA i, n : n + Cardinality(Lanes(s, i, W, LAMBDA b : b = c)), 0, Chunks(s, W))
    + CountOf(From(s, TailAt(s, W)), c)
yep_avx2_count3(s, c0, c1, c2) ==
  <<ChunkCount(s, AChunk, c0), ChunkCount(s, AChunk, c1), ChunkCount(s, AChunk, c2)>>
yep_neon_count3(s, c0, c1, c2) ==
  <<ChunkCount(s, NChunk, c0), ChunkCount(s, NChunk, c1), ChunkCount(s, NChunk, c2)>>

(* copy_count3: the chunks are stored, the tail is copied, and the tail's  *)
(* count reads the copy.                                                   *)
CopyCount3(s, W, c0, c1, c2) ==
  LET t == TailAt(s, W)
      dst == SubSeq(s, 1, t) \o From(s, t)
  IN  [dst |-> dst, n |-> <<ChunkCount(dst, W, c0), ChunkCount(dst, W, c1), ChunkCount(dst, W, c2)>>]
yep_avx2_copy_count3(s, c0, c1, c2) == CopyCount3(s, AChunk, c0, c1, c2)
yep_neon_copy_count3(s, c0, c1, c2) == CopyCount3(s, NChunk, c0, c1, c2)

-----------------------------------------------------------------------------
(* Statistics and the gate.  Signed(b) is what a signed byte compare sees. *)
Signed(b) == IF b >= 128 THEN b - 256 ELSE b
Counted == {LF, COMMA}    \* two of the ten counted bytes

BadPrintable(b) == (b < SP /\ b \notin {TAB, LF, CR}) \/ b = DEL
Stats(n, nonascii, bad) == [n |-> n, nonascii |-> nonascii, bad |-> bad]

yep_text_scan_stats_scalar(s) ==
  Stats([c \in Counted |-> CountOf(s, c)],
        \E j \in DOMAIN s : s[j] >= 128,
        \E j \in DOMAIN s : s[j] < 128 /\ BadPrintable(s[j]))

(* AVX2: the sign bit is the non-ASCII flag; the byte is flipped so that a *)
(* signed compare with 0xA0 asks for b < 0x20, then masked to ASCII.       *)
yep_avx2_scan_stats(s) ==
  LET t == TailAt(s, AChunk)
      tail == yep_text_scan_stats_scalar(From(s, t))
      Flipped(b) == Signed((b + 128) % 256)
      Lo(b) == Signed(160) > Flipped(b)
      Bad(b) == 0 > Flipped(b) /\ ((Lo(b) /\ b \notin {TAB, LF, CR}) \/ b = DEL)
      SomeLane(P(_)) == \E i \in Chunks(s, AChunk) : Lanes(s, i, AChunk, P) # {}
  IN  Stats([c \in Counted |-> ChunkCount(s, AChunk, c)],
            SomeLane(LAMBDA b : Signed(b) < 0) \/ tail.nonascii,
            SomeLane(Bad) \/ tail.bad)

(* NEON adds lanes into 16-bit accumulators and reduces them once a batch; *)
(* the reduce itself is 16 bits wide.                                      *)
NeonBatches(s, c) ==
  LET size == Batch + NChunk
      t == TailAt(s, NChunk)
      batch(i) == CountOf(SubSeq(SubSeq(s, 1, t), i + 1, Min({i + size, t})), c) % U16
  IN  FoldSet(LAMBDA i, n : n + batch(i), 0, {i \in 0..t : i % size = 0 /\ i < t})

yep_neon_scan_stats(s) ==
  LET t == TailAt(s, NChunk)
      tail == yep_text_scan_stats_scalar(From(s, t))
      Bad(b) == Signed((b + 128) % 256) < 0 /\ ((b < SP /\ b \notin {TAB, LF, CR}) \/ b = DEL)
      SomeLane(P(_)) == \E i \in Chunks(s, NChunk) : Lanes(s, i, NChunk, P) # {}
  IN  Stats([c \in Counted |-> NeonBatches(s, c) + tail.n[c]],
            SomeLane(LAMBDA b : b >= 128) \/ tail.nonascii,
            SomeLane(Bad) \/ tail.bad)

yep_text_gate_scan_scalar(s) ==
  \E j \in DOMAIN s : ~(s[j] \in 32..126 \/ s[j] \in {TAB, LF, CR})

(* One signed compare catches the controls and everything above 0x7F.      *)
yep_avx2_gate_scan(s) ==
  LET Bad(b) == (SP > Signed(b) /\ b \notin {TAB, LF, CR}) \/ b = DEL
  IN  \/ \E i \in Chunks(s, AChunk) : Lanes(s, i, AChunk, Bad) # {}
      \/ yep_text_gate_scan_scalar(From(s, TailAt(s, AChunk)))
yep_neon_gate_scan(s) ==
  LET Bad(b) == (b < SP /\ b \notin {TAB, LF, CR}) \/ b >= 128 \/ b = DEL
  IN  \/ \E i \in Chunks(s, NChunk) : Lanes(s, i, NChunk, Bad) # {}
      \/ yep_text_gate_scan_scalar(From(s, TailAt(s, NChunk)))

(* The JSON string stop: a quote, a backslash or a control; min(v, 0x1F)=v *)
(* is the unsigned compare.                                                *)
yep_text_qbc_find_scalar(s) == FirstWith(s, LAMBDA b : b \in {DQ, BSL} \/ b < SP)
yep_avx2_qbc_find(s) == ChunkFind(s, AChunk, LAMBDA b : b \in {DQ, BSL} \/ Min({b, 31}) = b)
yep_neon_qbc_find(s) == ChunkFind(s, NChunk, LAMBDA b : b \in {DQ, BSL} \/ b < SP)

-----------------------------------------------------------------------------
(* quote_scan: the close of a quoted scalar, from the byte after its open. *)
Found(at, esc) == [at |-> at, esc |-> esc]
Over(i, esc, r) == Found(Shifted(i, r.at), esc \/ r.esc)

yep_text_quote_scan_scalar(s, q) ==
  LET go[j \in 1..(Len(s) + 2)] ==
        IF j > Len(s) THEN Found(0, FALSE)
        ELSE IF (q = DQ /\ s[j] = BSL) \/ (q = SQ /\ s[j] = q /\ j < Len(s) /\ s[j + 1] = q)
        THEN Over(0, TRUE, go[j + 2])
        ELSE IF s[j] = q THEN Found(j, FALSE) ELSE go[j + 1]
  IN  go[1]

QuoteLoop_NextChunk(s, q, W) ==    \* mutant: an escape ends the chunk
  LET stops == IF q = DQ THEN {q, BSL} ELSE {q}
      go[i \in 0..(Len(s) + W)] ==
        IF i >= Len(s) THEN Found(0, FALSE)
        ELSE IF i + W > Len(s) THEN Over(i, FALSE, yep_text_quote_scan_scalar(From(s, i), q))
        ELSE LET m == Lanes(s, i, W, LAMBDA b : b \in stops)
             IN  IF m = {} THEN go[i + W]
                 ELSE IF s[i + Min(m)] = BSL THEN [go[i + W] EXCEPT !.esc = TRUE]
                 ELSE Found(i + Min(m), FALSE)
  IN  go[0]

(* The vector loop from offset i: chunks without a hit are passed; an      *)
(* escape restarts two bytes behind it, wherever in the chunk that is.     *)
QuoteLoop(s, q, W) ==
  LET stops == IF q = DQ THEN {q, BSL} ELSE {q}
      go[i \in 0..(Len(s) + 1)] ==
        IF i >= Len(s) THEN Found(0, FALSE)
        ELSE IF i + W > Len(s) THEN Over(i, FALSE, yep_text_quote_scan_scalar(From(s, i), q))
        ELSE LET m == Lanes(s, i, W, LAMBDA b : b \in stops)
                 k == Min(m)
             IN  IF m = {} THEN go[i + W]
                 ELSE IF (q = DQ /\ s[i + k] = BSL)
                         \/ (q = SQ /\ i + k < Len(s) /\ s[i + k + 1] = q)
                 THEN [go[i + k + 1] EXCEPT !.esc = TRUE]
                 ELSE Found(i + k, FALSE)
  IN  go[0]
yep_avx2_quote_scan(s, q) == QuoteLoop(s, q, AChunk)
yep_neon_quote_scan(s, q) == QuoteLoop(s, q, NChunk)

-----------------------------------------------------------------------------
(* Line facts from pos on: the break, the indent and the first stop byte   *)
(* between them.  Positions are offsets, as in the code.                   *)
Breaks == {LF, CR}
Facts(end, indent, stop, set) == [end |-> end, indent |-> indent, stop |-> stop, set |-> set]
NoFacts == [end |-> -1, indent |-> -1, stop |-> -1, set |-> FALSE]

(* One word at a time, each fact from the first word that holds it; room   *)
(* is what lies below the break.  The walk gives up past the cap.          *)
yep_text_line_facts_capped(s, pos, cap) ==
  LET whole == Len(s) - pos
      n == Min({whole, cap})
      Word(i) == 1..Min({Swar, n - i})
      At(i, k) == s[pos + i + k]
      Br(i) == {k \in Word(i) : At(i, k) \in Breaks}
      Room(i) == IF Br(i) = {} THEN Word(i) ELSE 1..(Min(Br(i)) - 1)
      go[i \in 0..(n + Swar)] ==
        LET prev == IF i = 0 THEN NoFacts ELSE go[i - Swar]
            nons == {k \in Room(i) : At(i, k) # SP}
            ind == IF prev.indent >= 0 \/ nons = {} THEN prev.indent ELSE i + Min(nons) - 1
            stm == {k \in Room(i) : At(i, k) \in {COLON, HASH}}
            take == ind >= 0 /\ ~prev.set /\ stm # {} /\ i + Min(stm) - 1 >= ind
        IN  IF i >= n \/ (i > 0 /\ prev.end >= 0) THEN prev
            ELSE Facts(IF Br(i) = {} THEN -1 ELSE i + Min(Br(i)) - 1, ind,
                       IF take THEN i + Min(stm) - 1 ELSE prev.stop, prev.set \/ take)
      f == go[Swar * ((n + Swar - 1) \div Swar)]
      end == IF f.end >= 0 THEN f.end ELSE n
  IN  IF f.end < 0 /\ whole > cap THEN NoFacts
      ELSE Facts(pos + end, pos + (IF f.indent >= 0 THEN f.indent ELSE end),
                 pos + (IF f.set THEN f.stop ELSE end), f.set)

yep_text_line_facts_scalar(s, pos) == yep_text_line_facts_capped(s, pos, Len(s) + 1)

(* The vector sweep behind the capped walk: the chunks up to the one with  *)
(* the break, then one scalar sweep for what is still missing.  In a chunk *)
(* StopIn picks the stop at or behind the indent and before the break.     *)
LineSweep(s, pos, W, StopIn(_, _, _)) ==
  LET last == pos + W * ((Len(s) - pos) \div W)
      Lane(i, S) == {k \in 1..W : s[i + k] \in S}
      go[i \in 0..last] ==
        LET prev == IF i <= pos THEN NoFacts ELSE go[i - W]
            nsp == {k \in 1..W : s[i + k] # SP}
            ind == IF prev.indent >= 0 \/ nsp = {} THEN prev.indent ELSE i + Min(nsp) - 1
            br == Lane(i, Breaks)
            end == IF br = {} THEN -1 ELSE i + Min(br) - 1
            at == IF ind < 0 THEN {} ELSE StopIn(i, ind, end)
        IN  IF i > pos /\ prev.end >= 0 THEN prev
            ELSE IF i = last THEN prev
            ELSE Facts(end, ind, IF prev.set \/ at = {} THEN prev.stop ELSE i + Min(at) - 1,
                       prev.set \/ at # {})
      f == go[last]
      resume == IF f.end < 0 THEN last ELSE Min({last, pos + W * ((f.end - pos) \div W + 1)})
      t == yep_text_line_facts_scalar(s, resume)
      end == IF f.end >= 0 THEN f.end ELSE t.end
  IN  Facts(end, IF f.indent >= 0 THEN f.indent ELSE t.indent,
            IF f.set THEN f.stop ELSE IF f.end >= 0 THEN end ELSE t.stop,
            f.set \/ (f.end < 0 /\ t.set))

(* AVX2 asks the lowest set lane alone.                                    *)
Swept(s, pos, i, W, ind, end) ==
  LET st == {k \in 1..W : s[i + k] \in Breaks \cup {COLON, HASH}}
  IN  {k \in st : k = Min(st) /\ i + k - 1 >= ind /\ (end < 0 \/ i + k - 1 < end)}

yep_avx2_line_facts(s, pos) ==
  LET capped == yep_text_line_facts_capped(s, pos, Cap)
  IN  IF capped # NoFacts THEN capped
      ELSE LineSweep(s, pos, AChunk, LAMBDA i, ind, end : Swept(s, pos, i, AChunk, ind, end))

(* NEON walks the lanes from the indent up to the break.                   *)
yep_neon_line_facts(s, pos) ==
  LET capped == yep_text_line_facts_capped(s, pos, Cap)
      Walk(i, ind, end) ==
        {k \in 1..NChunk : /\ i + k - 1 >= ind /\ (end < 0 \/ i + k - 1 < end)
                           /\ s[i + k] \in Breaks \cup {COLON, HASH}}
  IN  IF capped # NoFacts THEN capped ELSE LineSweep(s, pos, NChunk, Walk)

-----------------------------------------------------------------------------

(* Stop sets: member number n of the bitmap sets bit n % Group of group    *)
(* n \div Group under both nibbles of its byte.                            *)
yep_stopset_init(set) ==
  LET n == [b \in set |-> Cardinality({x \in set : x < b})]
      In(g, P(_)) == {n[b] % Group : b \in {x \in set : n[x] \div Group = g /\ P(x)}}
  IN  [groups |-> (Cardinality(set) + Group - 1) \div Group,
       lo |-> [g \in 0..1 |-> [x \in 0..(Nibble - 1) |-> In(g, LAMBDA b : b % Nibble = x)]],
       hi |-> [g \in 0..1 |-> [x \in 0..(Nibble - 1) |-> In(g, LAMBDA b : b \div Nibble = x)]]]

yep_text_stopset_find_scalar(set, s) == FirstWith(s, LAMBDA b : b \in set)

LaneHit(ss, b) ==
  \E g \in 0..(IF ss.groups > 1 THEN 1 ELSE 0) :
    ss.lo[g][b % Nibble] \cap ss.hi[g][b \div Nibble] # {}
yep_avx2_stopset_find(set, s) ==
  LET ss == yep_stopset_init(set)
  IN  IF ss.groups \notin {1, 2} THEN yep_text_stopset_find_scalar(set, s)
      ELSE ChunkFind(s, AChunk, LAMBDA b : LaneHit(ss, b))
yep_neon_stopset_find(set, s) ==
  LET ss == yep_stopset_init(set)
  IN  IF ss.groups \notin {1, 2} THEN yep_text_stopset_find_scalar(set, s)
      ELSE PairFind(s, NChunk, LAMBDA b : LaneHit(ss, b))

-----------------------------------------------------------------------------
(* The structural indexer.  A mask is the set of its bits, 0 for the first *)
(* byte of the block.                                                      *)
Mask == 0..(Block - 1)
Shl(m, d) == {k + d : k \in m} \cap Mask
Xor(a, b) == (a \ b) \cup (b \ a)
Num(m) == FoldSet(LAMBDA k, n : n + 2 ^ k, 0, m)
Bits(n) == {k \in Mask : (n \div 2 ^ k) % 2 = 1}
Odd == {k \in Mask : k % 2 = 1}
Doubling == SelectSeq(<<1, 2, 4, 8, 16, 32>>, LAMBDA d : d < Block)

(* The borrow trick finds the escaped bytes, a prefix xor of the live      *)
(* quotes the strings; parity and escape carry into the next block.        *)
yep_json_stage1_tokens(q, bs, op, c0, valid, c) ==
  LET potential == bs \ c.esc
      s == Xor(Bits((Num(Shl(potential, 1) \cup Odd) - Num(potential)) % (2 ^ Block)), Odd)
      live == q \ Xor(s, bs \cup c.esc)
      ps == FoldLeft(LAMBDA m, d : Xor(m, Shl(m, d)), live, Doubling)
      inString == Xor(ps, c.inString)
      tail == Xor(inString, live) \cap valid
  IN  [inString |-> IF Block - 1 \in inString THEN Mask ELSE {},
       esc |-> IF Block - 1 \in s \cap bs THEN {0} ELSE {},
       escape |-> c.escape \/ bs # {},
       ctl |-> c.ctl \/ c0 \cap inString \cap valid # {},
       tokens |-> ((op \cup (live \ tail)) \ tail) \cap valid]

(* One block after the other.  A whole block's masks are put together from *)
(* the lanes of its vectors of width W, a partial one's byte by byte.      *)
Stage1(s, W) ==
  LET Lane(off, P(_)) ==
        UNION {{W * h + k - 1 : k \in Lanes(s, off + W * h, W, P)} : h \in 0..(Block \div W - 1)}
      Bytewise(off, P(_)) == {k \in Mask : off + k < Len(s) /\ P(s[off + k + 1])}
      go[b \in 0..(Len(s) \div Block + 1)] ==
        IF b = 0 THEN [inString |-> {}, esc |-> {}, escape |-> FALSE, ctl |-> FALSE,
                       idx |-> {}, blocks |-> <<>>]
        ELSE LET off == (b - 1) * Block
                 M(P(_)) == IF off + Block <= Len(s) THEN Lane(off, P) ELSE Bytewise(off, P)
                 valid == {k \in Mask : off + k < Len(s)}
                 r == yep_json_stage1_tokens(M(LAMBDA x : x = DQ), M(LAMBDA x : x = BSL),
                        M(LAMBDA x : x = COMMA), M(LAMBDA x : x < SP), valid, go[b - 1])
             IN  [inString |-> r.inString, esc |-> r.esc, escape |-> r.escape, ctl |-> r.ctl,
                  idx |-> go[b - 1].idx \cup {off + k + 1 : k \in r.tokens},
                  blocks |-> Append(go[b - 1].blocks, r.tokens)]
  IN  go[(Len(s) + Block - 1) \div Block]

Indexed(r) == [ok |-> r.inString = {}, idx |-> r.idx, escape |-> r.escape, ctl |-> r.ctl]
yep_json_stage1_scalar(s) == Indexed(Stage1(s, 1))
yep_text_json_stage1_avx2(s) == Indexed(Stage1(s, AChunk))
yep_text_json_stage1_neon(s) == Indexed(Stage1(s, NChunk))

(* The same loop without the emission: the tokens of each block.           *)
Masked(r) == [ok |-> r.inString = {}, blocks |-> r.blocks]
yep_json_stage1_masks_scalar(s) == Masked(Stage1(s, 1))
yep_text_json_stage1_masks_avx2(s) == Masked(Stage1(s, AChunk))
yep_text_json_stage1_masks_neon(s) == Masked(Stage1(s, NChunk))

(* The chunk classifier: five byte classes of a chunk; the vector forms    *)
(* leave a partial chunk to the scalar one.                                *)
Classes(s, ValStart(_), C0(_)) ==
  LET M(P(_)) == {k \in DOMAIN s : P(s[k])}
  IN  [quote |-> M(LAMBDA b : b = DQ), bs |-> M(LAMBDA b : b = BSL),
       structurals |-> M(LAMBDA b : b \in {COMMA, COLON}),
       valstart |-> M(ValStart), c0 |-> M(C0), valid |-> DOMAIN s]
yep_text_json_chunk_scalar(s) ==
  Classes(s, LAMBDA b : b \in {DASH} \cup ZERO..NINE, LAMBDA b : b < SP)
yep_text_json_chunk_avx2(s) ==
  IF Len(s) < AChunk THEN yep_text_json_chunk_scalar(s)
  ELSE Classes(s, LAMBDA b : (Max({b, ZERO}) = b /\ Min({b, NINE}) = b) \/ b = DASH,
               LAMBDA b : Min({b, 31}) = b)
yep_text_json_chunk_neon(s) ==
  IF Len(s) < AChunk THEN yep_text_json_chunk_scalar(s)
  ELSE Classes(s, LAMBDA b : (b >= ZERO /\ b <= NINE) \/ b = DASH, LAMBDA b : b < SP)

-----------------------------------------------------------------------------
Init == part \in Parts /\ text = <<>>

ReadByte(b) ==
  /\ Len(text) < MaxText[part] /\ b \in Bytes[part]
  /\ text' = Append(text, b)
  /\ UNCHANGED part

Next == \E b \in UNION {Bytes[p] : p \in Parts} : ReadByte(b)
Spec == Init /\ [][Next]_vars

(* Searches and counts: the three tables give one answer, a run of three   *)
(* that straddles a chunk seam included, and the copy is the source.       *)
SearchesAgree ==
  part = "find" =>
    \A c0, c1 \in Bytes["find"] :
      /\ yep_avx2_find(text, c0) = yep_text_find_scalar(text, c0)
      /\ yep_neon_find(text, c0) = yep_text_find_scalar(text, c0)
      /\ {yep_avx2_contains(text, c0), yep_neon_contains(text, c0)}
           = {yep_text_contains_scalar(text, c0)}
      /\ {yep_avx2_find_not(text, c0), yep_neon_find_not(text, c0)}
           = {yep_text_find_not_scalar(text, c0)}
      /\ {yep_avx2_find3(text, c0, c1, LETTER), yep_neon_find3(text, c0, c1, LETTER)}
           = {yep_text_find3_scalar(text, c0, c1, LETTER)}
      /\ {yep_avx2_count3(text, c0, c1, LETTER), yep_neon_count3(text, c0, c1, LETTER)}
           = {yep_text_count3_scalar(text, c0, c1, LETTER)}
      /\ \A r \in {yep_avx2_copy_count3(text, c0, c1, LETTER), yep_neon_copy_count3(text, c0, c1, LETTER)} :
           r.dst = text /\ r.n = yep_text_count3_scalar(text, c0, c1, LETTER)

(* The pre-scan, the gate and the byte classes: counts never wrap whatever *)
(* the length of the text, the signed compares and the min and max         *)
(* identities draw the boundaries where the plain comparisons do (bytes    *)
(* above 0x7F are no controls), and the gate opens on the same texts.      *)
ClassesAgree ==
  /\ part = "stats" =>
       /\ {yep_avx2_scan_stats(text), yep_neon_scan_stats(text)} = {yep_text_scan_stats_scalar(text)}
       /\ {yep_avx2_gate_scan(text), yep_neon_gate_scan(text)} = {yep_text_gate_scan_scalar(text)}
       /\ {yep_avx2_qbc_find(text), yep_neon_qbc_find(text)} = {yep_text_qbc_find_scalar(text)}
       /\ yep_text_gate_scan_scalar(text) =
            (yep_text_scan_stats_scalar(text).nonascii \/ yep_text_scan_stats_scalar(text).bad)
  /\ part = "chunk" =>
       {yep_text_json_chunk_avx2(text), yep_text_json_chunk_neon(text)}
         = {yep_text_json_chunk_scalar(text)}

(* An escape or a doubled quote at a chunk seam, or cut off by the end of  *)
(* the text, does not move the close nor lose the escape flag.             *)
QuotesAgree ==
  part = "quote" =>
    \A q \in {DQ, SQ} :
      {yep_avx2_quote_scan(text, q), yep_neon_quote_scan(text, q)}
        = {yep_text_quote_scan_scalar(text, q)}

(* The facts of a line are the definition's, from any position, for a line *)
(* that ends inside the cap, in a chunk or in the tail.                    *)
LineFactsRight ==
  part = "line" =>
    \A pos \in 0..Len(text) :
      LET rest == From(text, pos)
          end == LET b == FirstWith(rest, LAMBDA x : x \in Breaks) IN IF b = 0 THEN Len(rest) ELSE b - 1
          line == SubSeq(rest, 1, end)
          ind == LET b == FirstWith(line, LAMBDA x : x # SP) IN IF b = 0 THEN end ELSE b - 1
          stop == FirstWith(line, LAMBDA x : x \in {COLON, HASH})
          facts == Facts(pos + end, pos + ind, pos + (IF stop = 0 THEN end ELSE stop - 1), stop # 0)
      IN  /\ yep_text_line_facts_scalar(text, pos) = facts
          /\ yep_avx2_line_facts(text, pos) = facts
          /\ yep_neon_line_facts(text, pos) = facts

(* The nibble tables classify exactly, for every set of bytes, from an     *)
(* empty one to one past the two groups the vector kernels load.           *)
StopsetExact ==
  part = "stopset" =>
    \A set \in SUBSET (0..(Nibble * Nibble - 1)) :
      {yep_avx2_stopset_find(set, text), yep_neon_stopset_find(set, text)}
        = {yep_text_stopset_find_scalar(set, text)}

(* The block resolver finds what a byte by byte reading finds: operators   *)
(* outside strings and opening quotes, runs of backslashes across a block  *)
(* seam included, and knows of an open string, an escape and a control.    *)
Stage1Right ==
  part = "stage1" =>
    LET read[j \in 0..Len(text)] ==
          IF j = 0 THEN [in |-> FALSE, skip |-> FALSE, idx |-> {}, ctl |-> FALSE]
          ELSE LET p == read[j - 1]
                   b == text[j]
               IN  IF p.skip THEN [p EXCEPT !.skip = FALSE, !.ctl = @ \/ (p.in /\ b < SP),
                                            !.idx = IF ~p.in /\ b = COMMA THEN @ \cup {j} ELSE @]
                   ELSE [in |-> IF b = DQ THEN ~p.in ELSE p.in, skip |-> b = BSL,
                         ctl |-> p.ctl \/ (p.in /\ b < SP),
                         idx |-> IF ~p.in /\ b \in {DQ, COMMA} THEN p.idx \cup {j} ELSE p.idx]
        r == read[Len(text)]
        right == [ok |-> ~r.in, idx |-> r.idx, escape |-> BSL \in Range(text), ctl |-> r.ctl]
    IN  /\ {yep_json_stage1_scalar(text), yep_text_json_stage1_avx2(text),
            yep_text_json_stage1_neon(text)} = {right}
        /\ \A v \in {yep_json_stage1_masks_scalar(text), yep_text_json_stage1_masks_avx2(text),
                     yep_text_json_stage1_masks_neon(text)} :
             /\ v.ok = right.ok
             /\ UNION {{Block * (b - 1) + k + 1 : k \in v.blocks[b]} : b \in DOMAIN v.blocks} = right.idx
=============================================================================

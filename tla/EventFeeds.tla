----------------------------- MODULE EventFeeds -----------------------------
(***************************************************************************)
(* The event front ends: the chunked recorder over yep_engine_step, the     *)
(* pull cursor, the push callback and the document iterator, each over one  *)
(* stream.  mode says which of them is in use.                              *)
(*                                                                         *)
(* A stream is a sequence of fragments: markers, directive lines, comment   *)
(* lines and root nodes, each of whole lines.  The bytes of a fragment are  *)
(* what the scan and the encoding gate read; the document loop of the       *)
(* engine goes from fragment to fragment, and a run that does not begin     *)
(* and end between fragments answers garbage.  got is what the caller has   *)
(* received, flaw what has been made to fail.                               *)
(***************************************************************************)
EXTENDS StepScan, SequencesExt, FiniteSetsExt

CONSTANTS
  Nodes,     \* the root nodes the first document of a stream may have
  Seconds,   \* the root nodes its second document may have
  MaxFeeds,  \* bound: the chunks of one stream
  Edges      \* the behaviours of section 5 of the README let in by a run

VARIABLES
  mode,    \* "recorder", "pull", "push" or "iter"
  stream,  \* [head, frags]: the encoding mark and the fragments
  rec,     \* [fed, base, scan, gated, started, feeds]: yep_stepstate and the bytes fed
  it,      \* [gated, at, raw, framed, ending, store]: struct yeptris_iterparse
  cursor,  \* [store, next]: struct yeptris_pull
  got,     \* events the caller has received
  verdict, \* the public status
  channel, \* the last error of the thread
  done,    \* final_fed of the recorder, done of the iterator, the other two's only run
  flaw     \* what failed besides the parse: "none", "memory", "encoding" or "abort"

feeding == <<mode, stream, rec, it, cursor, got, verdict, channel, done, flaw>>

----------------------------------------------------------------------------
(* Streams. *)

Bytes ==
  [marker |-> <<"-", "-", "-", "n">>,
   inline |-> <<"-", "-", "-", " ", "|", "n", " ", "'", "n">>,
   end |-> <<".", ".", ".", "n">>,
   comment |-> <<"#", "'", "[", "n">>,
   nelcomment |-> <<"#", "C2", "85">>,
   yaml |-> <<"%", "Y", "n">>,
   tag |-> <<"%", "T", "n">>,
   tagquote |-> <<"%", "T", "'", "n", "#", "n">>,
   plain |-> <<"x", "n">>,
   apostrophe |-> <<"x", "'", "x", "n">>,
   squote |-> <<"'", "#", "[", "'", "'", "\"", "'", "n">>,
   dquote |-> <<"\"", "\\", "\"", "[", "\"", "n">>,
   flow |-> <<"[", "n", "x", ",", "'", "]", "'", "n", "]", "n">>,
   flowkey |-> <<"[", "?", " ", "x", "]", "n">>,
   crcomment |-> <<"[", " ", "#", "]", "r", "]", "n">>,
   nel |-> <<"x", "C2", "85", "#", "[", "n">>,
   ls |-> <<"x", "E2", "80", "A8", "#", "'", "n">>,
   tagged |-> <<"!", "<", "'", ">", " ", "x", "n">>,
   block |-> <<"|", "-", "n", " ", "'", "n">>,
   malformed |-> <<"\"", "\\", "q", "\"", "n">>]

Closed == {"squote", "dquote", "flow", "flowkey", "crcomment"}  \* nodes a line cannot continue
Directives == {"yaml", "tag", "tagquote"}
Remarks == {"comment", "nelcomment"}

HeadBytes == [none |-> <<>>, bom |-> <<"EF", "BB", "BF">>,
              twobom |-> <<"EF", "BB", "BF", "EF", "BB", "BF">>, utf16 |-> <<"FF", "FE">>]

\* What may stand before the first node, between the two, and at the end.
Leads == {<<>>, <<"marker">>, <<"yaml", "marker">>, <<"tag", "yaml">>}
Between == {<<"marker">>, <<"inline">>, <<"marker", "comment", "marker">>, <<"end", "end">>,
            <<"end", "yaml", "marker">>, <<"end", "nelcomment", "yaml", "marker">>,
            <<"end", "tagquote", "marker">>, <<"yaml", "marker">>, <<"end", "yaml", "tag", "marker">>,
            <<>>}
Tails == {<<>>, <<"marker">>, <<"end", "tag">>}

\* Streams of one thing at a time: what stands between two nodes, or around one.
Frags ==
  {<<>>} \cup {<<a>> \o s \o <<b>> : a \in Nodes, s \in Between, b \in Seconds}
         \cup {l \o <<a>> \o t : l \in Leads, a \in Nodes, t \in Tails}

\* An open line is not followed by a line that would continue it.
Apart(f) ==
  \A i \in 1 .. Len(f) - 1 :
    (f[i] \in DOMAIN Bytes \ Closed /\ f[i] \notin Directives \cup Remarks \cup {"marker", "end"})
      => f[i + 1] \in {"marker", "inline", "end"}

Allowed(s) ==
  /\ Apart(s.frags)
  /\ s.head # "none" => Len(s.frags) <= 3  \* bound: the gate reads the first bytes only
  /\ "nelcomment" \in Range(s.frags) => "nel_in_comment" \in Edges
  /\ {"tagquote", "apostrophe"} \subseteq Range(s.frags) => "feed_in_word" \in Edges
  /\ s.head = "twobom" => "double_bom" \in Edges

Text(s) == HeadBytes[s.head] \o FlattenSeq([i \in DOMAIN s.frags |-> Bytes[s.frags[i]]])

\* Where fragment i begins (past the last one: the end of the stream).
StartOf(s, i) ==
  Len(HeadBytes[s.head]) + Len(FlattenSeq([j \in 1 .. i - 1 |-> Bytes[s.frags[j]]]))

\* The bytes of the mark; a second mark is content of the first fragment.
MarkLen(s) == IF s.head = "none" THEN 0 ELSE IF s.head = "utf16" THEN 2 ELSE 3

\* The fragment that begins at an offset, 0 when none does.
FragAt(s, at) ==
  LET n == {i \in 1 .. Len(s.frags) + 1 : StartOf(s, i) = at}
  IN  IF at = MarkLen(s) THEN 1 ELSE IF n = {} THEN 0 ELSE Max(n)

----------------------------------------------------------------------------
(* The document loop of engine_run_impl, over the fragments of a buffer. *)

CleanFrame == [ev |-> <<>>, open |-> FALSE, content |-> FALSE, yaml |-> FALSE, tags |-> 0,
               err |-> "", ends |-> 0, at |-> 0]

Emit(d, i, what) == [d EXCEPT !.ev = Append(@, <<i, what>>)]

\* A marker, an end marker or the end of the buffer closes the open document; one
\* without content has an empty scalar.
CloseDoc(d, i) ==
  IF ~d.open THEN d
  ELSE [Emit(IF d.content THEN d ELSE Emit(d, i, "null"), i, "end")
          EXCEPT !.open = FALSE, !.content = FALSE, !.yaml = FALSE, !.tags = 0, !.ends = @ + 1]

OpenDoc(d, i) == IF d.open THEN d ELSE [Emit(d, i, "start") EXCEPT !.open = TRUE]

\* Any directive behind a %YAML of the same document is refused, not only a second %YAML.
Directive(d, f) ==
  IF d.open \/ d.yaml THEN [d EXCEPT !.err = "parse"]
  ELSE IF f = "yaml" THEN [d EXCEPT !.yaml = TRUE] ELSE [d EXCEPT !.tags = @ + 1]

\* A second root node returns without copying the error to the thread's slot.
RootNode(d, i, f) ==
  LET o == OpenDoc(d, i)
  IN  IF o.content THEN [o EXCEPT !.err = "silent"]
      ELSE IF f = "malformed" THEN [o EXCEPT !.err = "parse"]
      ELSE [Emit(o, i, "node") EXCEPT !.content = TRUE]

Line(d, i, f) ==
  IF f \in Directives THEN Directive(d, f)
  ELSE IF f \in Remarks \cup {"end"} THEN d
  ELSE IF f \in {"marker", "inline"}
         THEN LET o == [OpenDoc(d, i) EXCEPT !.yaml = FALSE]
              IN  IF f = "inline" THEN RootNode(o, i, f) ELSE o
  ELSE RootNode(d, i, f)

\* Fragments i .. b - 1; with one, the sink stops the run at its first DOCUMENT_END and
\* at says which fragment is left to read.
RECURSIVE RunFrom(_, _, _, _, _)
RunFrom(f, i, b, d, one) ==
  IF d.err # "" THEN d
  ELSE IF i >= b THEN
    IF (d.tags > 0 \/ d.yaml) /\ ~d.open THEN [d EXCEPT !.err = "parse", !.at = b]
    ELSE [CloseDoc(d, i) EXCEPT !.at = b]
  ELSE LET c == IF f[i] \in {"marker", "inline", "end"} THEN CloseDoc(d, i) ELSE d
       IN  IF one /\ c.ends > 0 THEN [c EXCEPT !.at = i]
           ELSE RunFrom(f, i + 1, b, Line(c, i, f[i]), one)

\* Every stream in one run, and the first document from every fragment of it on.
AllDocuments == [f \in Frags |-> RunFrom(f, 1, Len(f) + 1, CleanFrame, FALSE)]
FirstDocument ==
  [f \in Frags |-> [a \in 1 .. Len(f) + 1 |-> RunFrom(f, a, Len(f) + 1, CleanFrame, TRUE)]]

Garbage == [CleanFrame EXCEPT !.ev = <<<<0, "garbage">>>>]

\* The events of a run with the stream's own around them.
Framed(d, emit_start, emit_end) ==
  [d EXCEPT !.ev = (IF emit_start THEN <<<<0, "stream">>>> ELSE <<>>) \o @
                   \o (IF emit_end /\ d.err = "" THEN <<<<0, "stream end">>>> ELSE <<>>)]

\* engine_run_impl over the bytes from .. to - 1 of the stream.
engine_run_impl(s, from, to, emit_start, emit_end) ==
  LET a == FragAt(s, from)
      b == FragAt(s, to)
  IN  Framed(IF a = 0 \/ b = 0 THEN Garbage ELSE RunFrom(s.frags, a, b, CleanFrame, FALSE),
             emit_start, emit_end)

\* What one parse of the whole stream gives.
Whole(s) == Framed(AllDocuments[s.frags], TRUE, TRUE)

----------------------------------------------------------------------------
(* The encoding gate. *)

\* yep_bom_sniff: the encoding a mark names, "" when there is none.
yep_bom_sniff(p) ==
  LET is(b) == Len(p) >= Len(b) /\ SubSeq(p, 1, Len(b)) = b
  IN  IF is(<<"FF", "FE", "00", "00">>) \/ is(<<"00", "00", "FE", "FF">>) THEN "utf32"
      ELSE IF is(<<"EF", "BB", "BF">>) THEN "utf8"
      ELSE IF is(<<"FF", "FE">>) \/ is(<<"FE", "FF">>) THEN "utf16" ELSE ""

\* mutant: the first bytes decide
step_bom_prefix_Eager(p) == FALSE

\* The head may still become a mark.
step_bom_prefix(p) ==
  CASE p[1] = "EF" -> Len(p) = 1 \/ (Len(p) = 2 /\ p[2] = "BB")
    [] p[1] \in {"FF", "FE"} -> Len(p) = 1
    [] p[1] = "00" -> Len(p) = 1 \/ (p[2] = "00" /\ (Len(p) = 2 \/ p[3] = "FE"))
    [] OTHER -> FALSE

\* What the gate of yep_engine_step makes of the bytes fed so far.
StepGate(p) ==
  LET enc == yep_bom_sniff(p)
  IN  IF enc = "utf8" THEN "strip"
      ELSE IF enc # "" THEN "refuse"
      ELSE IF Len(p) >= 4 \/ ~step_bom_prefix(p) THEN "open" ELSE "hold"

----------------------------------------------------------------------------
(* The capture: it takes events until an allocation fails, and then stops the run. *)

Captured(run, room) ==
  IF room < Len(run.ev) THEN [ev |-> SubSeq(run.ev, 1, room), status |-> "memory"]
  ELSE [ev |-> run.ev, status |-> IF run.err = "" THEN "ok" ELSE "parse"]

\* Events a capture has room for: all of them, or only one or none.
Rooms == {0, 1, 99}
FaultOf(run, room) == IF room < Len(run.ev) THEN "memory" ELSE "none"

Slot(run) == IF run.err = "parse" THEN "set" ELSE channel

----------------------------------------------------------------------------
(* Recorder. *)

RecFail(st, ft) ==
  /\ verdict' = st /\ done' = TRUE /\ flaw' = ft
  /\ UNCHANGED <<mode, stream, it, cursor, got, channel>>

\* The documents before the cut (0: nothing to parse yet) are run, the rest is kept.
CutAndRun(kept, base, n, final, s) ==
  LET cut == IF final THEN n ELSE IF s.cut < n THEN s.cut ELSE 0
  IN  IF ~final /\ cut = 0 THEN [does |-> "hold", rec |-> [kept EXCEPT !.scan = s.st]]
      ELSE [does |-> "run",
            rec |-> IF final THEN kept
                    ELSE [kept EXCEPT !.base = base + cut, !.scan = AfterCut(s.st),
                                      !.started = TRUE],
            run |-> engine_run_impl(stream, base, base + cut, ~rec.started, final)]

\* What yep_engine_step makes of n more bytes: the gate, the scan from a line start, the
\* cut and the run over the documents before it.
yep_engine_step(n, final) ==
  LET t == Text(stream)
      fed == rec.fed + n
      head == SubSeq(t, rec.base + 1, fed)
      gate == IF rec.gated \/ head = <<>> THEN "pass" ELSE StepGate(head)
      base == rec.base + IF gate = "strip" THEN 3 ELSE 0
      held == [rec EXCEPT !.fed = fed, !.feeds = @ + 1]
      kept == [held EXCEPT !.base = base, !.gated = @ \/ gate \in {"strip", "open"}]
  IN  IF gate = "refuse" \/ (gate = "hold" /\ ~final) THEN [does |-> gate, rec |-> held]
      ELSE CutAndRun(kept, base, fed - base, final,
                     step_scan(SubSeq(t, base + 1, fed), [rec.scan EXCEPT !.tok_start = TRUE]))

\* yeptris_recorder_feed: the caller takes the records of every feed.
yeptris_recorder_feed(n, final) ==
  /\ mode = "recorder" /\ ~done /\ rec.feeds < MaxFeeds
  /\ IF final THEN rec.fed + n = Len(Text(stream)) ELSE n > 0 /\ rec.feeds + 1 < MaxFeeds
  /\ \E o \in {yep_engine_step(n, final)} :
       CASE o.does = "refuse" -> rec' = o.rec /\ RecFail("encoding", "encoding")
         [] o.does = "hold" ->
              rec' = o.rec /\ UNCHANGED <<mode, stream, it, cursor, got, verdict, channel, done, flaw>>
         [] OTHER ->
              \E room \in Rooms : \E c \in {Captured(o.run, room)} :
                /\ rec' = IF c.status = "ok" THEN o.rec ELSE rec
                /\ got' = got \o c.ev
                /\ verdict' = c.status /\ done' = (final \/ c.status # "ok")
                /\ flaw' = FaultOf(o.run, room)
                /\ channel' = IF c.status = "parse" THEN Slot(o.run) ELSE channel
                /\ UNCHANGED <<mode, stream, it, cursor>>

\* The step state or the pending buffer cannot grow: the stream is dead.
FeedOutOfMemory ==
  /\ mode = "recorder" /\ ~done /\ rec.feeds < MaxFeeds
  /\ UNCHANGED rec /\ RecFail("memory", "memory")

----------------------------------------------------------------------------
(* Pull and push: one run over the whole stream. *)

\* Input behind a UTF-16 mark is transcoded; it may be ill-formed.
Encodings == IF stream.head = "utf16" THEN {"good", "bad"} ELSE {"good"}

Ran(what, run, room, enc) ==
  /\ mode = what /\ ~done /\ done' = TRUE
  /\ flaw' = IF enc = "bad" THEN "encoding" ELSE FaultOf(run, room)

yeptris_pull_new(room, enc) ==
  LET run == Whole(stream)
      c == Captured(run, room)
  IN  /\ Ran("pull", run, room, enc)
      /\ verdict' = IF enc = "bad" THEN "encoding" ELSE c.status
      /\ cursor' = [store |-> IF enc = "bad" THEN <<>> ELSE c.ev, next |-> 0]
      /\ channel' = IF enc = "good" /\ c.status = "parse" THEN Slot(run) ELSE channel
      /\ UNCHANGED <<mode, stream, rec, it, got>>

\* yeptris_pull_next and yeptris_pull_next_batch: up to max events.
yeptris_pull_next_batch(max) ==
  LET to == Min({cursor.next + max, Len(cursor.store)})
  IN  /\ mode = "pull" /\ done /\ cursor.next < Len(cursor.store)
      /\ got' = got \o SubSeq(cursor.store, cursor.next + 1, to)
      /\ cursor' = [cursor EXCEPT !.next = to]
      /\ UNCHANGED <<mode, stream, rec, it, verdict, channel, done, flaw>>

\* The thread's slot after a push: cleared at entry.
PushChannel(run, aborted, enc) ==
  IF aborted THEN "aborted" ELSE IF enc = "good" /\ run.err = "parse" THEN "set" ELSE "clear"

\* yeptris_push_parse: the callback refuses event stop, or none (99).  An encoding error is a parse error of this entry.
yeptris_push_parse(stop, enc) ==
  LET run == Whole(stream)
      aborted == enc = "good" /\ stop <= Len(run.ev)
      failed == enc = "bad" \/ aborted \/ run.err # ""
  IN  /\ mode = "push" /\ ~done /\ done' = TRUE
      /\ flaw' = IF enc = "bad" THEN "encoding" ELSE IF aborted THEN "abort" ELSE "none"
      /\ got' = IF enc = "bad" THEN <<>> ELSE IF aborted THEN SubSeq(run.ev, 1, stop) ELSE run.ev
      /\ verdict' = IF failed THEN "parse" ELSE "ok"
      /\ channel' = PushChannel(run, aborted, enc)
      /\ UNCHANGED <<mode, stream, rec, it, cursor>>

----------------------------------------------------------------------------
(* The document iterator. *)

\* Bytes by which the break normaliser shortens fragments a .. b - 1.
Folded(s, a, b) ==
  LET count(f) == Cardinality({i \in a .. b - 1 : s.frags[i] = f})
  IN  count("nel") + count("nelcomment") + 2 * count("ls")

Normalised == Range(stream.frags) \cap {"nel", "ls", "nelcomment"} # {}

\* The gate of the first call: the mark is passed over and the breaks are normalised
\* in a copy; when there is no memory for the copy the bytes stay raw.
Gated(norm) == [it EXCEPT !.gated = TRUE, !.at = MarkLen(stream), !.raw = norm = "raw"]

\* mutant: only an aborted run ends the stream
NaturalEnd_Never(run) == FALSE

\* The run reached the end of the buffer and no document ended in it.
NaturalEnd(run) == run.ends = 0

Framing(g) == IF g.framed THEN <<>> ELSE <<<<0, "stream">>>>

\* What a call hands over, and what it leaves behind.
Answer(g, ev, st, over, ft) ==
  /\ it' = g /\ got' = got \o ev /\ verdict' = st /\ done' = over /\ flaw' = ft

\* The captured slice is copied into events; without memory it stays where it is.
Deliver(g, ev, st, over, ft, mat) ==
  IF mat THEN Answer([g EXCEPT !.framed = TRUE, !.store = <<>>], Framing(g) \o ev, st, over, ft)
  ELSE Answer([g EXCEPT !.store = ev], <<>>, "memory", TRUE, "memory")

\* The lone STREAM_END, with a STREAM_START when there was no document.
LastSlice(g) ==
  Answer([g EXCEPT !.framed = TRUE, !.ending = FALSE, !.store = <<>>],
         Framing(g) \o <<<<0, "stream end">>>>, verdict, TRUE, flaw)

\* One document: a fresh engine runs from the cursor, sniffs again, and is stopped at
\* the first DOCUMENT_END.
NextDocument(g, room, mat) ==
  \E skip \in {IF yep_bom_sniff(SubSeq(Text(stream), g.at + 1, Len(Text(stream)))) = "utf8"
               THEN 3 ELSE 0} :
  \E from \in {FragAt(stream, g.at + skip)} :
  \E run \in {IF from = 0 THEN Garbage ELSE FirstDocument[stream.frags][from]} :
  \E c \in {Captured(run, room)} :
  LET pos == StartOf(stream, run.at) - (g.at + skip)
             - IF g.raw THEN Folded(stream, from, run.at) ELSE 0
      ft == FaultOf(run, room)
      moved == [g EXCEPT !.at = @ + pos]
  IN  /\ channel' = IF c.status = "parse" THEN Slot(run) ELSE channel
      /\ IF c.status # "ok"
           THEN IF c.ev = <<>>
                THEN Answer([g EXCEPT !.framed = TRUE], Framing(g), c.status, TRUE, ft)
                ELSE Deliver(g, c.ev, c.status, TRUE, ft, mat)
         ELSE IF from = 0 THEN Deliver(g, c.ev, "ok", TRUE, ft, mat)
         ELSE IF NaturalEnd(run)
           THEN Answer([moved EXCEPT !.ending = TRUE], <<>>, verdict, TRUE, flaw)
         ELSE Deliver(moved, c.ev, "ok", FALSE, ft, mat)

\* yeptris_iterparse_next, one turn of its loop: every turn but the one that meets the
\* end of the stream returns to the caller.
yeptris_iterparse_next(room, enc, norm, mat) ==
  LET g == IF it.gated THEN it ELSE Gated(norm)
  IN  /\ mode = "iter"
      /\ UNCHANGED <<mode, stream, rec, cursor>>
      /\ IF ~it.gated /\ enc = "bad"
           THEN /\ Answer([it EXCEPT !.gated = TRUE], <<>>, "encoding", TRUE, "encoding")
                /\ UNCHANGED channel
         ELSE IF done /\ it.ending THEN LastSlice(g) /\ UNCHANGED channel
         ELSE IF it.store # <<>>
                THEN Deliver(g, it.store, verdict, TRUE, flaw, TRUE) /\ UNCHANGED channel
         ELSE ~done /\ NextDocument(g, room, mat)

\* No engine: the iterator ends with nothing more to hand over.
IterNoEngine ==
  /\ mode = "iter" /\ ~done /\ it.gated /\ it.store = <<>>
  /\ Answer(it, <<>>, "memory", TRUE, "memory")
  /\ UNCHANGED <<mode, stream, rec, cursor, channel>>

----------------------------------------------------------------------------
FeedsInit ==
  /\ mode \in {"recorder", "pull", "push", "iter"}
  /\ stream \in {s \in [head : DOMAIN HeadBytes, frags : Frags] : Allowed(s)}
  /\ rec = [fed |-> 0, base |-> 0, scan |-> CleanScan, gated |-> FALSE, started |-> FALSE,
            feeds |-> 0]
  /\ it = [gated |-> FALSE, at |-> 0, raw |-> FALSE, framed |-> FALSE, ending |-> FALSE,
           store |-> <<>>]
  /\ cursor = [store |-> <<>>, next |-> 0]
  /\ got = <<>> /\ verdict = "ok" /\ channel \in {"clear"} \cup (IF mode = "push" THEN {"stale"} ELSE {})
  /\ done = FALSE /\ flaw = "none"

Norms == IF Normalised /\ "norm_oom" \in Edges THEN {"copy", "raw"} ELSE {"copy"}

Feed ==
  \E n \in 0 .. Len(Text(stream)) - rec.fed, final \in BOOLEAN : yeptris_recorder_feed(n, final)
PullNew == \E room \in Rooms, enc \in Encodings : yeptris_pull_new(room, enc)
PullNext == \E max \in {1, 3} : yeptris_pull_next_batch(max)
Push == \E stop \in {1, 2, 3, 99}, enc \in Encodings : yeptris_push_parse(stop, enc)
IterNext ==
  \E room \in Rooms, enc \in Encodings, norm \in Norms, mat \in BOOLEAN :
    yeptris_iterparse_next(room, enc, norm, mat)

FeedsNext == Feed \/ FeedOutOfMemory \/ PullNew \/ PullNext \/ Push \/ IterNext \/ IterNoEngine

\* A call in which no allocation fails.
IterGoesOn ==
  \E enc \in Encodings, norm \in Norms : yeptris_iterparse_next(99, enc, norm, TRUE)

\* A caller that has begun to iterate or to pull goes on until there is nothing more;
\* nothing relies on an allocation failing.
FeedsSpec ==
  /\ FeedsInit /\ [][FeedsNext]_feeding
  /\ WF_feeding(PullNew) /\ WF_feeding(PullNext) /\ WF_feeding(IterGoesOn)

----------------------------------------------------------------------------
(* Properties. *)

\* The front end is through: nothing more is parsed or handed out.
Settled ==
  /\ done
  /\ cursor.next = Len(cursor.store)
  /\ ~it.ending /\ (it.store = <<>> \/ verdict = "memory")

FeedsTypeOK ==
  /\ mode \in {"recorder", "pull", "push", "iter"}
  /\ verdict \in {"ok", "parse", "memory", "encoding"}
  /\ channel \in {"clear", "stale", "set", "aborted"}
  /\ flaw \in {"none", "memory", "encoding", "abort"}
  /\ rec.base \in 0 .. rec.fed /\ rec.scan.scanned \in 0 .. rec.fed - rec.base
  /\ cursor.next \in 0 .. Len(cursor.store)

\* However a stream is cut into chunks, and whichever front end reads it, the caller
\* receives the events of the whole stream from the first on: none twice, none left
\* out, none of a document torn in two (yep_engine_step's cuts, iterparse's cursor).
EventsInOrder == IsPrefix(got, Whole(stream).ev)

\* At the end the status says what happened: running out of memory is never taken for
\* a malformed stream or for the end of one, a malformed stream is refused in every
\* chunking, and a stream that is well formed has been handed over to its last event.
VerdictRight ==
  Settled =>
    CASE flaw = "memory" -> verdict = "memory" \/ (verdict = "parse" /\ Whole(stream).err # "")
      [] flaw = "encoding" -> verdict = IF mode = "push" THEN "parse" ELSE "encoding"
      [] flaw = "abort" -> verdict = "parse"
      [] OTHER -> /\ verdict = IF Whole(stream).err = "" THEN "ok" ELSE "parse"
                  /\ got = Whole(stream).ev

\* After yeptris_push_parse the thread's error slot is about this parse: empty when it
\* succeeded, and when it failed on the bytes or in the callback it says so.
ChannelSpeaks ==
  (mode = "push" /\ done) =>
    /\ verdict = "ok" => channel = "clear"
    /\ flaw = "abort" => channel = "aborted"
    /\ (flaw = "none" /\ Whole(stream).err = "parse") => channel = "set"

\* A caller that goes on comes to an end: every loop over next meets its last event.
Settles == mode \in {"pull", "iter"} => <>Settled
=============================================================================

----------------------------- MODULE StreamIter -----------------------------
(***************************************************************************)
(* yeptris_stream_iter (parse/stream_iter.c): tolerant iteration over the  *)
(* documents of one stream.  A call of next frames one document with a run *)
(* of the engine that stops at DOCUMENT_END, parses that slice as a        *)
(* document of its own, and after a failure resumes at the next marker     *)
(* line.                                                                   *)
(*                                                                         *)
(* The stream is a sequence of lines and every offset is a line number: a  *)
(* frame begins and ends at a line start.  A line is told apart by what    *)
(* the engine's document loop does with it.  A line and column of an error *)
(* are left out.                                                           *)
(***************************************************************************)
EXTENDS Integers, Sequences, FiniteSets, SequencesExt

CONSTANTS
  MaxLines,   \* bound: lines of a stream
  Kinds,      \* the kinds of line the streams are made of
  MayFail,    \* subset of AllFaults: what may fail beside the text
  EarlyFree   \* TRUE: the host may free the iterator before its documents

AllKinds ==
  { "start",  \* ---
    "end",    \* ...
    "skip",   \* blank or a comment
    "dir",    \* %YAML 1.2
    "text",   \* content the grammar accepts, a block sequence entry
    "raw",    \* content the engine accepts and the encoding check of a parse refuses
    "bad" }   \* content the grammar refuses

AllFaults == {"gate", "engine", "slice"}

ASSUME MaxLinesAssumption == MaxLines \in Nat
ASSUME KindsAssumption == Kinds \subseteq AllKinds
ASSUME MayFailAssumption == MayFail \subseteq AllFaults
ASSUME EarlyFreeAssumption == EarlyFree \in BOOLEAN

VARIABLES
  buf,       \* the lines, in the buffer the iterator reads
  space,     \* whose buffer that is: the caller's or the iterator's own copy
  gated,     \* the encoding front end has run
  cursor,    \* the line the next frame begins at
  done,      \* no further document
  index,     \* steps that consumed a document
  last,      \* last_status, last_off, last_len
  out,       \* what the last call of next gave the host
  log,       \* history: every step that reported a document or a failure
  held,      \* the buffers that documents the host still holds borrow from
  freed      \* yeptris_stream_iter_free was called

vars == <<buf, space, gated, cursor, done, index, last, out, log, held, freed>>

Status == {"OK", "PARSE", "MEMORY", "ENCODING"}

-----------------------------------------------------------------------------
(* The engine's document loop, one line at a time.                         *)

Fresh == [open |-> FALSE, saw |-> FALSE, opens |-> 0, ended |-> 0, failed |-> FALSE]

Open(r) == IF r.open THEN r ELSE [r EXCEPT !.open = TRUE, !.opens = @ + 1]

\* DOCUMENT_END, when a document is open.
Close(r) == IF r.open THEN [r EXCEPT !.open = FALSE, !.saw = FALSE, !.ended = @ + 1] ELSE r

EngineLine(r, kind) ==
  IF r.failed THEN r
  ELSE CASE kind = "skip" -> r
         [] kind = "dir" -> IF r.open \/ r.saw THEN [r EXCEPT !.failed = TRUE]
                                               ELSE [r EXCEPT !.saw = TRUE]
         [] kind = "start" -> [Open(Close(r)) EXCEPT !.saw = FALSE]
         [] kind = "end" -> Close(r)
         [] kind \in {"text", "raw"} -> Open(r)
         [] kind = "bad" -> [Open(r) EXCEPT !.failed = TRUE]

\* The end of the input: a directive must have met its document, and an
\* open document ends.
EngineEof(r) ==
  IF r.failed \/ (r.saw /\ ~r.open) THEN [r EXCEPT !.failed = TRUE] ELSE Close(r)

\* The loop from line from on: the state after each number of lines.
Runs(lines, from) ==
  LET after[k \in 0 .. Len(lines) - from + 1] ==
        IF k = 0 THEN Fresh ELSE EngineLine(after[k - 1], lines[from + k - 1])
  IN  after

\* Its state after line to.
Run(lines, from, to) == Runs(lines, from)[to - from + 1]

\* The whole text in one run.
WholeRun(lines) == EngineEof(Run(lines, 1, Len(lines)))

Least(S) == CHOOSE i \in S : \A j \in S : i <= j

\* The run with frame_on_event as its sink: it is aborted at the first
\* DOCUMENT_END, with the line that ended the document not consumed.
BoundaryRun(from) ==
  LET stops == {i \in from .. Len(buf) :
                  LET r == Run(buf, from, i) IN r.failed \/ r.ended > 0}
      stop == IF stops = {} THEN Len(buf) + 1 ELSE Least(stops)
      r == IF stops = {} THEN EngineEof(Run(buf, from, Len(buf)))
                         ELSE Run(buf, from, stop)
  IN [failed |-> r.failed, docEnds |-> r.ended, pos |-> stop]

\* The line that opens the document a frame at from holds or fails in.
Opener(from) ==
  LET opening == {i \in from .. Len(buf) : buf[i] \in {"start", "text", "raw", "bad"}}
  IN IF opening = {} THEN Len(buf) + 1 ELSE Least(opening)

\* yeptris_parse_ex on the frame: the encoding check, then the same grammar.
SliceParse(from, pos) ==
  LET lines == SubSeq(buf, from, pos - 1)
  IN IF "raw" \in Range(lines) THEN "ENCODING"
     ELSE IF WholeRun(lines).failed THEN "PARSE" ELSE "OK"

-----------------------------------------------------------------------------

Init ==
  /\ buf \in BoundedSeq(Kinds, MaxLines)
  /\ space = "caller"
  /\ gated = FALSE /\ cursor = 1 /\ done = FALSE /\ index = 0
  /\ last = [status |-> "OK", off |-> 0, len |-> 0]
  /\ out = "none" /\ log = << >> /\ held = {} /\ freed = FALSE

\* Mutant: only a document start counts as a marker.
next_marker_StartOnly(from) ==
  LET markers == {i \in from + 1 .. Len(buf) : buf[i] = "start"}
  IN IF markers = {} THEN Len(buf) + 1 ELSE Least(markers)

\* Mutant: the search begins at the failed frame's own first line.
next_marker_FromFrame(from) ==
  LET markers == {i \in from .. Len(buf) : buf[i] \in {"start", "end"}}
  IN IF markers = {} THEN Len(buf) + 1 ELSE Least(markers)

\* The first marker line after the frame's first line, or the end.
next_marker(from) ==
  LET markers == {i \in from + 1 .. Len(buf) : buf[i] \in {"start", "end"}}
  IN IF markers = {} THEN Len(buf) + 1 ELSE Least(markers)

it_fail(status) == [last EXCEPT !.status = status, !.len = 0]

Reported(kind, status) ==
  Append(log, [kind |-> kind, at |-> cursor, status |-> status, ix |-> index])

\* The front end runs in the first call and only then.  It leaves the
\* caller's bytes or moves the iterator to a copy of its own.
Gate ==
  /\ gated' = TRUE
  /\ space' \in (IF gated THEN {space} ELSE {"caller", "iterator"})

\* The transcoder refuses the input.
GateFails ==
  /\ ~freed /\ ~gated /\ "gate" \in MayFail
  /\ gated' = TRUE /\ done' = TRUE
  /\ last' = it_fail("ENCODING") /\ out' = "fatal" /\ log' = Reported("fatal", "ENCODING")
  /\ UNCHANGED <<buf, space, cursor, index, held, freed>>

StreamOver ==
  /\ ~freed /\ Gate
  /\ \/ done
     \/ LET r == BoundaryRun(cursor) IN ~r.failed /\ r.docEnds = 0
  /\ done' = TRUE /\ last' = it_fail("OK") /\ out' = "over"
  /\ UNCHANGED <<buf, cursor, index, log, held, freed>>

\* No engine, or its run out of memory: the stream ends.
EngineFatal ==
  /\ ~freed /\ ~done /\ "engine" \in MayFail /\ Gate
  /\ done' = TRUE /\ last' = it_fail("MEMORY") /\ out' = "fatal"
  /\ log' = Reported("fatal", "MEMORY")
  /\ UNCHANGED <<buf, cursor, index, held, freed>>

\* A failed document: its verdict, the resynchronisation and its index.
FailAndResync(status) ==
  /\ last' = it_fail(status) /\ out' = "failed" /\ log' = Reported("failed", status)
  /\ LET at == next_marker(cursor)
     IN IF at > Len(buf) THEN done' = TRUE /\ UNCHANGED cursor
                         ELSE cursor' = at /\ UNCHANGED done
  /\ index' = index + 1
  /\ UNCHANGED <<buf, held, freed>>

DocumentFails ==
  /\ ~freed /\ ~done /\ Gate
  /\ BoundaryRun(cursor).failed
  /\ FailAndResync("PARSE")

\* The frame was found and its own parse is refused.
SliceRefused ==
  /\ ~freed /\ ~done /\ Gate
  /\ LET r == BoundaryRun(cursor)
     IN /\ ~r.failed /\ r.docEnds > 0
        /\ \E status \in {SliceParse(cursor, r.pos)} \union
                         {"MEMORY" : f \in MayFail \intersect {"slice"}} :
             status # "OK" /\ FailAndResync(status)

\* Mutant: the line that ended the document is taken as consumed.
DocumentYielded_EatsMarker ==
  /\ ~freed /\ ~done /\ Gate
  /\ LET r == BoundaryRun(cursor)
     IN /\ ~r.failed /\ r.docEnds > 0
        /\ SliceParse(cursor, r.pos) = "OK"
        /\ last' = [status |-> "OK", off |-> cursor, len |-> r.pos - cursor]
        /\ cursor' = IF r.pos > Len(buf) THEN r.pos ELSE r.pos + 1
  /\ out' = "doc" /\ log' = Reported("doc", "OK")
  /\ index' = index + 1
  /\ held' = held \union {space'}
  /\ UNCHANGED <<buf, done, freed>>

\* The frame parses as one document, which the host now owns.  Its values
\* are views of the iterator's buffer.
DocumentYielded ==
  /\ ~freed /\ ~done /\ Gate
  /\ LET r == BoundaryRun(cursor)
     IN /\ ~r.failed /\ r.docEnds > 0
        /\ SliceParse(cursor, r.pos) = "OK"
        /\ last' = [status |-> "OK", off |-> cursor, len |-> r.pos - cursor]
        /\ cursor' = r.pos
  /\ out' = "doc" /\ log' = Reported("doc", "OK")
  /\ index' = index + 1
  /\ held' = held \union {space'}
  /\ UNCHANGED <<buf, done, freed>>

\* yeptris_document_free on every document the host holds.
FreeDocuments ==
  /\ held # {} /\ held' = {}
  /\ UNCHANGED <<buf, space, gated, cursor, done, index, last, out, log, freed>>

\* yeptris_stream_iter_free: the transcoded and the normalised copy go.
FreeIterator ==
  /\ ~freed /\ (EarlyFree \/ held = {})
  /\ freed' = TRUE
  /\ UNCHANGED <<buf, space, gated, cursor, done, index, last, out, log, held>>

\* The host has freed everything.
AllFreed == freed /\ held = {} /\ UNCHANGED vars

Next ==
  \/ GateFails \/ StreamOver \/ EngineFatal
  \/ DocumentFails \/ SliceRefused \/ DocumentYielded
  \/ FreeDocuments \/ FreeIterator \/ AllFreed

Spec == Init /\ [][Next]_vars

\* yeptris_stream_iter_slice: the frame, or ARG.
Slice ==
  IF last.status # "OK" \/ last.len = 0 THEN << >> ELSE <<last.off, last.len>>

-----------------------------------------------------------------------------

\* The cursor stays inside the buffer, and no more documents are counted
\* than the stream has lines (stream_iter.c:257-263, 299-301).
TypeOK ==
  /\ buf \in Seq(Kinds) /\ space \in {"caller", "iterator"}
  /\ gated \in BOOLEAN /\ done \in BOOLEAN /\ freed \in BOOLEAN
  /\ cursor \in 1 .. Len(buf) + 1 /\ index \in 0 .. Len(buf)
  /\ last \in [status : Status, off : 0 .. Len(buf), len : 0 .. Len(buf)]
  /\ out \in {"none", "doc", "failed", "over", "fatal"}
  /\ log \in Seq([kind : {"doc", "failed", "fatal"}, at : 1 .. Len(buf) + 1,
                  status : Status, ix : Nat])
  /\ held \subseteq {"caller", "iterator"}

\* A call that reports a document or a failed one leaves fewer lines to
\* read or ends the stream, so a host that keeps calling
\* yeptris_stream_iter_next is told that the stream is over after at most
\* one call per line: neither an empty frame nor the resynchronisation on
\* a marker can hold the walk at one place.
Progress ==
  [][log' # log => cursor' > cursor \/ done']_vars

NoFault == \A n \in DOMAIN log : log[n].kind # "fatal" /\ log[n].status # "MEMORY"

Documents == {n \in DOMAIN log : log[n].kind = "doc"}

\* The host keeps the valid documents whatever failed before them: once
\* the stream is over, a marker from which a document frames and parses
\* gave exactly one document to the host.
KeepsValidDocuments ==
  (out = "over" /\ NoFault) =>
    \A i \in DOMAIN buf :
      LET r == BoundaryRun(i) IN
      (/\ buf[i] \in {"start", "end"}
       /\ ~r.failed /\ r.docEnds > 0
       /\ SliceParse(i, r.pos) = "OK") =>
         Cardinality({n \in Documents : Opener(log[n].at) = Opener(i)}) = 1

\* On a stream that one run over all of it accepts, the walk gives the
\* documents of that run: as many, opened at the same lines, in the same
\* order, although every frame starts an engine of its own that remembers
\* nothing of the lines before it.
FramesAsOneRun ==
  LET whole == WholeRun(buf) IN
  (out = "over" /\ NoFault /\ ~whole.failed /\ "raw" \notin Range(buf)) =>
    /\ Len(log) = whole.ended
    /\ \A n \in DOMAIN log :
         /\ log[n].kind = "doc" /\ log[n].ix = n - 1
         /\ Opener(log[n].at) = Least({i \in DOMAIN buf : Run(buf, 1, i).opens = n})

\* The slice accessor serves the frame of the document the last call gave
\* and nothing after a failure or the end of the stream.
SliceServesLastStep ==
  IF out = "doc" THEN Slice = <<log[Len(log)].at, cursor - log[Len(log)].at>>
                 ELSE Slice = << >>

\* What the walk gives is what one run gives, and the slice accessor
\* serves the frame of the last document given (stream_iter.c,
\* it_next_boundary, yeptris_stream_iter_slice).
FramesAndSlices == TypeOK /\ FramesAsOneRun /\ SliceServesLastStep

\* "*index is the 0-based stream document index this step consumed": no
\* document of the stream takes two indexes.
OneIndexPerDocument ==
  \A m, n \in DOMAIN log :
    (log[m].kind # "fatal" /\ log[n].kind # "fatal" /\ m # n) =>
      Opener(log[m].at) # Opener(log[n].at)

\* "MEMORY/ENCODING: stream-fatal, the iterator is done."
FatalEndsTheStream == last.status \in {"MEMORY", "ENCODING"} => done

\* "The caller owns each *out": a document the host holds keeps the bytes
\* its values are views of.
DocumentsKeepTheirBytes == freed => "iterator" \notin held
=============================================================================

------------------------------- MODULE Writer -------------------------------
(***************************************************************************)
(* The emitter's output engine (emit/writer.c, wr_byte, wr_put and the     *)
(* fused member write) under the serialize entry points of emit/emit.c: a  *)
(* growing buffer, a caller's buffer measured by a dry pass, a caller's    *)
(* buffer trusted to fit, and a fixed window flushed to a sink.            *)
(*                                                                         *)
(* A document is its size in bytes and the layout walk an arbitrary        *)
(* sequence of writes that adds up to it, the same sum in both passes.     *)
(* The buffer is kept as its extent and the end of the highest byte        *)
(* written to it, which the code does not have.                            *)
(***************************************************************************)
EXTENDS Integers, FiniteSets

CONSTANTS
  Totals,     \* sizes of the documents
  HostCaps,   \* sizes of the buffers a host passes in
  Est,        \* first size of a growing buffer (input_len + 64, at least 256)
  Watermark,  \* YEP_EMIT_WATERMARK
  Wrap,       \* 2^64, the width of size_t
  MayFail,    \* subset of AllFaults
  Short       \* TRUE: a trusted buffer may be too small

AllFaults == {"tree", "names", "scratch", "buffer", "grow", "sink"}
Window == 2 * Watermark

ASSUME TotalsAssumption == Totals \subseteq Nat
ASSUME HostCapsAssumption == HostCaps \subseteq Nat
ASSUME EstAssumption == Est \in Nat \ {0}
ASSUME WatermarkAssumption == Watermark \in Nat \ {0}
ASSUME WrapAssumption == Wrap \in Nat /\ \A t \in Totals : t + Window < Wrap
ASSUME MayFailAssumption == MayFail \subseteq AllFaults
ASSUME ShortAssumption == Short \in BOOLEAN

Routes == {"into", "trusted", "grow", "pretty", "stream"}
NoAnswer == -1
Null == -2     \* no buffer is returned

VARIABLES
  pc,      \* where the call is
  route,   \* the entry point
  doc,     \* total bytes, and whether an anchor of it has no safe spelling
  host,    \* the size of the host's buffer, 0 for none
  rest,    \* bytes the walk has still to write in this pass
  left,    \* bytes of the put being cut into window-sized pieces
  w,       \* yep_writer, with the buffer it points to
  heap,    \* live allocations of the call
  ret      \* what the host gets

vars == <<pc, route, doc, host, rest, left, w, heap, ret>>

Grow == route \in {"grow", "trusted"}
Bounded == route = "trusted"
Sink == route = "stream"
Dry == pc = "dry"

\* extent: bytes of the buffer; top: end of the highest byte written to it;
\* past: a store ended behind it;
\* lost: a growth has failed; taken: bytes the sink has accepted.
Cleared == [len |-> 0, cap |-> 0, reserve |-> 0, flushed |-> 0, oom |-> 0, aborted |-> 0,
            extent |-> 0, top |-> 0, past |-> 0, lost |-> 0, taken |-> 0]

-----------------------------------------------------------------------------
(* The write primitives.  takes is the sink's answer, got realloc's.       *)

Least(a, b) == IF a <= b THEN a ELSE b
Most(a, b) == IF a >= b THEN a ELSE b

\* a - b - 1 in size_t.
Minus1(a, b) == IF b < a THEN a - b - 1 ELSE a - b - 1 + Wrap

Count(x, n) == [x EXCEPT !.len = @ + n]

\* A store that ends at offset n; n bytes stored at p + len.
Touch(x, n) == [x EXCEPT !.top = Most(@, n), !.past = IF n > x.extent THEN 1 ELSE @]
Store(x, n) == IF n = 0 THEN x ELSE Count(Touch(x, x.len + n), n)

CallSink(x, takes) ==
  IF takes THEN [x EXCEPT !.flushed = @ + x.len, !.taken = @ + x.len, !.len = 0]
           ELSE [x EXCEPT !.aborted = 1]

wr_maybe_flush(x, takes) ==
  IF ~Sink \/ x.len < Watermark THEN x ELSE CallSink(x, takes)

\* On entry with oom the pointer decides: it is not NULL in a wet pass.
wr_grow(x, need, got) ==
  IF x.oom = 1 THEN [x EXCEPT !.oom = 0]
  ELSE IF ~got THEN [x EXCEPT !.oom = 1, !.lost = 1]
  ELSE LET want == Most(x.len + need + 1, 2 * x.cap)
       IN [x EXCEPT !.cap = want, !.extent = want]

\* Mutant: no room is kept for the terminator.
wr_reserve_NoTerminator(x, need, takes, got) ==
  LET y == wr_maybe_flush(x, takes)
      z == IF y.len + need > y.cap THEN wr_grow(y, need, got) ELSE y
  IN IF ~Grow \/ Bounded THEN [y EXCEPT !.reserve = 0]
     ELSE IF y.oom = 1 THEN y
     ELSE IF z.oom = 1 THEN z
     ELSE [z EXCEPT !.reserve = z.cap - z.len]

wr_reserve(x, need, takes, got) ==
  LET y == wr_maybe_flush(x, takes)
      z == IF y.len + need + 1 > y.cap THEN wr_grow(y, need, got) ELSE y
  IN IF ~Grow \/ Bounded THEN [y EXCEPT !.reserve = 0]
     ELSE IF y.oom = 1 THEN y
     ELSE IF z.oom = 1 THEN z
     ELSE [z EXCEPT !.reserve = Minus1(z.cap, z.len)]

wr_byte(x, takes, got) ==
  LET y == IF x.reserve = 0 THEN wr_reserve(x, 1, takes, got) ELSE x
  IN IF x.reserve = 0 /\ y.oom = 1 THEN Count(y, 1)
     ELSE Store([y EXCEPT !.reserve = IF @ > 0 THEN @ - 1 ELSE 0], 1)

\* A put that the window cannot hold is cut (see Chunk).
Cut(x, n) == Sink /\ n > Minus1(x.cap, x.len)

wr_put(x, n, takes, got) ==
  LET y == IF x.reserve < n THEN wr_reserve(x, n, takes, got) ELSE x
  IN IF x.reserve < n /\ y.oom = 1 THEN Count(y, n)
     ELSE Store([y EXCEPT !.reserve = IF n <= @ THEN @ - n ELSE 0], n)

\* The fused arm is declined when the window cannot hold the member.
Declined(x, n) == ~Grow /\ x.cap # 0 /\ x.len + n + 1 > x.cap

\* A key and its value in one store.
Fused(x, n, takes, got) ==
  LET y == IF ~Grow \/ x.len + n + 1 <= x.cap THEN x
           ELSE IF Bounded THEN [x EXCEPT !.oom = 1]
           ELSE wr_grow(x, n, got)
  IN IF y.oom = 1 THEN Count(y, n)
     ELSE wr_maybe_flush(
            Store([y EXCEPT !.reserve = IF n <= @ THEN @ - n ELSE 0], n), takes)

-----------------------------------------------------------------------------
(* The entry points, up to their first pass.                               *)

Init ==
  /\ pc = "idle" /\ route \in Routes
  /\ doc \in [total : Totals, unser : BOOLEAN]
  /\ host \in HostCaps
  /\ (route = "trusted" /\ ~Short) => (host = 0 \/ host > doc.total)
  /\ rest = 0 /\ left = 0 /\ w = Cleared /\ heap = {} /\ ret = NoAnswer

Works(site) == IF site \in MayFail THEN BOOLEAN ELSE {TRUE}

Answer(value) == pc' = "done" /\ ret' = value

\* yep_emit_run: everything the pass counts begins at zero.
Reset(x) == [x EXCEPT !.len = 0, !.reserve = 0, !.flushed = 0, !.aborted = 0]

BeginPass(p, x) ==
  /\ pc' = p
  /\ rest' = doc.total
  /\ w' = Reset(x)
  /\ UNCHANGED ret

\* The canonical form renames anchors through a table.
Names == { {}, {"names"} }

SerializeIntoEx ==
  /\ pc = "idle" /\ route = "into"
  /\ \E t \in Works("tree"), names \in Names, n \in Works("names"), s \in Works("scratch") :
       IF t /\ (names # {} => n) /\ s
       THEN heap' = names \cup {"scratch"} /\ BeginPass("dry", w)
       ELSE heap' = {} /\ Answer(0) /\ UNCHANGED <<rest, w>>
  /\ UNCHANGED <<route, doc, host, left>>

SerializeIntoTrusted ==
  /\ pc = "idle" /\ route = "trusted"
  /\ \E t \in Works("tree"), names \in Names, n \in Works("names") :
       IF host > 0 /\ t /\ (names # {} => n)
       THEN heap' = names /\ BeginPass("wet", [w EXCEPT !.cap = host, !.extent = host])
       ELSE heap' = {} /\ Answer(0) /\ UNCHANGED <<rest, w>>
  /\ UNCHANGED <<route, doc, host, left>>

SerializeEx ==
  /\ pc = "idle" /\ route = "grow"
  /\ \E t \in Works("tree"), names \in Names, n \in Works("names"), b \in Works("buffer") :
       IF t /\ (names # {} => n) /\ b
       THEN heap' = names \cup {"buffer"} /\ BeginPass("wet", [w EXCEPT !.cap = Est, !.extent = Est])
       ELSE heap' = {} /\ Answer(Null) /\ UNCHANGED <<rest, w>>
  /\ UNCHANGED <<route, doc, host, left>>

\* The JSON forms are never canonical.
SerializeJson ==
  /\ pc = "idle" /\ route = "grow"
  /\ \E t \in Works("tree"), b \in Works("buffer") :
       IF t /\ b
       THEN heap' = {"buffer"} /\ BeginPass("wet", [w EXCEPT !.cap = Est, !.extent = Est])
       ELSE heap' = {} /\ Answer(Null) /\ UNCHANGED <<rest, w>>
  /\ UNCHANGED <<route, doc, host, left>>

SerializeJsonPretty ==
  /\ pc = "idle" /\ route = "pretty"
  /\ \E t \in Works("tree") :
       IF t THEN BeginPass("dry", w) ELSE Answer(Null) /\ UNCHANGED <<rest, w>>
  /\ UNCHANGED <<route, doc, host, left, heap>>

SerializeStream ==
  /\ pc = "idle" /\ route = "stream"
  /\ \E t \in Works("tree"), names \in Names, n \in Works("names"), b \in Works("buffer") :
       IF t /\ (names # {} => n) /\ b
       THEN heap' = names \cup {"window"} /\ BeginPass("wet", [w EXCEPT !.cap = Window, !.extent = Window])
       ELSE heap' = {} /\ Answer(0) /\ UNCHANGED <<rest, w>>
  /\ UNCHANGED <<route, doc, host, left>>

-----------------------------------------------------------------------------
(* The walk.                                                               *)

Quiet == UNCHANGED <<route, doc, host, heap, ret>>

Byte ==
  /\ pc \in {"dry", "wet"} /\ rest > 0
  /\ \E takes \in Works("sink"), got \in Works("grow") :
       w' = IF Dry THEN Count(w, 1) ELSE wr_byte(w, takes, got)
  /\ rest' = rest - 1
  /\ Quiet /\ UNCHANGED <<pc, left>>

Put ==
  /\ pc \in {"dry", "wet"}
  /\ \E n \in 1 .. rest, takes \in Works("sink"), got \in Works("grow") :
       /\ rest' = rest - n
       /\ IF ~Dry /\ Cut(w, n)
          THEN pc' = "chunk" /\ left' = n /\ UNCHANGED w
          ELSE /\ w' = IF Dry THEN Count(w, n) ELSE wr_put(w, n, takes, got)
               /\ UNCHANGED <<pc, left>>
  /\ Quiet

\* A plain member of a block mapping.  Canonical and JSON output never take
\* this path; allowing it to them only adds behaviours.
Member ==
  /\ pc \in {"dry", "wet"} /\ route # "pretty"
  /\ \E n \in 2 .. rest, takes \in Works("sink"), got \in Works("grow") :
       /\ Dry \/ ~Declined(w, n)
       /\ rest' = rest - n
       /\ w' = IF Dry THEN Count(w, n) ELSE Fused(w, n, takes, got)
  /\ Quiet /\ UNCHANGED <<pc, left>>

\* Mutant: the aborted put is not counted.
Chunk_StopsCounting ==
  /\ pc = "chunk"
  /\ IF left = 0 \/ w.aborted = 1
     THEN left' = 0 /\ pc' = "wet" /\ UNCHANGED w
     ELSE LET room == Least(Minus1(w.cap, w.len), left)
          IN \E takes \in Works("sink") :
               /\ left' = left - room
               /\ w' = IF room < left THEN CallSink(Store(w, room), takes) ELSE Store(w, room)
               /\ UNCHANGED pc
  /\ Quiet /\ UNCHANGED rest

\* Mutant: the loop never empties the window.
Chunk_NeverFlushes ==
  /\ pc = "chunk"
  /\ IF left = 0 \/ w.aborted = 1
     THEN left' = 0 /\ pc' = "wet" /\ w' = Count(w, left)
     ELSE LET room == Least(Minus1(w.cap, w.len), left)
          IN left' = left - room /\ w' = Store(w, room) /\ UNCHANGED pc
  /\ Quiet /\ UNCHANGED rest

\* One turn of wr_put's loop: what fits is stored, and the sink is called
\* while something is left.
Chunk ==
  /\ pc = "chunk"
  /\ IF left = 0 \/ w.aborted = 1
     THEN left' = 0 /\ pc' = "wet" /\ w' = Count(w, left)
     ELSE LET room == Least(Minus1(w.cap, w.len), left)
          IN \E takes \in Works("sink") :
               /\ left' = left - room
               /\ w' = IF room < left THEN CallSink(Store(w, room), takes) ELSE Store(w, room)
               /\ UNCHANGED pc
  /\ Quiet /\ UNCHANGED rest

-----------------------------------------------------------------------------
(* What follows a pass.                                                    *)

Done(p) == pc = p /\ rest = 0
Rest == UNCHANGED <<route, doc, host, left>>

\* The terminator: p[wrote] = 0.
Terminate(x, wrote) == Touch(x, wrote + 1)

\* The dry pass of into_ex: the size decides.
IntoMeasured ==
  /\ Done("dry") /\ route = "into"
  /\ IF host < w.len + 1
     THEN heap' = {} /\ Answer(w.len) /\ UNCHANGED <<rest, w>>
     ELSE UNCHANGED heap /\ BeginPass("wet", [w EXCEPT !.extent = host])
  /\ Rest

\* The dry pass of json_pretty: the buffer is made to measure.
PrettyMeasured ==
  /\ Done("dry") /\ route = "pretty"
  /\ \E b \in Works("buffer") :
       IF b THEN heap' = {"buffer"} /\ BeginPass("wet", [w EXCEPT !.extent = w.len + 1])
            ELSE heap' = {} /\ Answer(Null) /\ UNCHANGED <<rest, w>>
  /\ Rest

IntoWritten ==
  /\ Done("wet") /\ route = "into"
  /\ heap' = {} /\ w' = Terminate(w, w.len) /\ Answer(w.len)
  /\ Rest /\ UNCHANGED rest

PrettyWritten ==
  /\ Done("wet") /\ route = "pretty"
  /\ w' = Terminate(w, w.len) /\ Answer(w.len)
  /\ Rest /\ UNCHANGED <<rest, heap>>

TrustedWritten ==
  /\ Done("wet") /\ route = "trusted"
  /\ heap' = {}
  /\ w' = IF w.oom = 1 \/ doc.unser THEN w ELSE Terminate(w, w.len)
  /\ Answer(w.len)
  /\ Rest /\ UNCHANGED rest

\* serialize_ex and the growable JSON run: a buffer with more than an
\* eighth to spare is cut to size, if realloc agrees.
Written ==
  /\ Done("wet") /\ route = "grow"
  /\ IF w.oom = 1 \/ doc.unser
     THEN heap' = {} /\ Answer(Null) /\ UNCHANGED w
     ELSE \E got \in Works("grow") :
            /\ heap' = {"buffer"}
            /\ w' = Terminate(IF got /\ Minus1(w.cap, w.len) > w.cap \div 8
                              THEN [w EXCEPT !.extent = w.len + 1] ELSE w, w.len)
            /\ Answer(w.len)
  /\ Rest /\ UNCHANGED rest

\* Mutant: the last window is not delivered.
StreamWritten_NoTail ==
  /\ Done("wet") /\ route = "stream"
  /\ heap' = {} /\ UNCHANGED w
  /\ Answer(IF w.aborted = 1 THEN 0 ELSE w.flushed + w.len)
  /\ Rest /\ UNCHANGED rest

\* What is left in the window goes to the sink.
StreamWritten ==
  /\ Done("wet") /\ route = "stream"
  /\ \E takes \in Works("sink") :
       LET x == IF w.len = 0 \/ w.aborted = 1 THEN w
                ELSE IF takes THEN [w EXCEPT !.taken = @ + w.len]
                ELSE [w EXCEPT !.aborted = 1]
       IN /\ w' = x
          /\ Answer(IF x.aborted = 1 THEN 0 ELSE w.flushed + w.len)
  /\ heap' = {}
  /\ Rest /\ UNCHANGED rest

Idle == pc = "done" /\ UNCHANGED vars

Entry == \/ SerializeIntoEx \/ SerializeIntoTrusted \/ SerializeEx
         \/ SerializeJson \/ SerializeJsonPretty \/ SerializeStream
Walk == Byte \/ Put \/ Member \/ Chunk
Exit == \/ IntoMeasured \/ PrettyMeasured \/ IntoWritten \/ PrettyWritten
        \/ TrustedWritten \/ Written \/ StreamWritten

Next == Entry \/ Walk \/ Exit \/ Idle

\* A call that has begun goes on: there is nothing it waits for.
Spec == Init /\ [][Next]_vars /\ WF_vars(Walk \/ Exit)

-----------------------------------------------------------------------------
(* Properties.                                                             *)

Pcs == {"idle", "dry", "wet", "chunk", "done"}

WriterType ==
  [len : Nat, cap : Nat, reserve : Nat, flushed : Nat, oom : {0, 1}, aborted : {0, 1},
   extent : Nat, top : Nat, past : {0, 1}, lost : {0, 1}, taken : Nat]

\* Every field has its type; in particular the reservation of wr_byte and
\* wr_put never goes below zero, where size_t would wrap.
TypeOK ==
  /\ pc \in Pcs /\ route \in Routes
  /\ doc \in [total : Totals, unser : BOOLEAN]
  /\ host \in HostCaps
  /\ rest \in Nat /\ left \in Nat
  /\ w \in WriterType
  /\ heap \subseteq {"names", "scratch", "buffer", "window"}
  /\ ret \in Nat \cup {NoAnswer, Null}

\* A growth failed, the sink refused, or the trusted buffer is too small.
Hurt(x) ==
  \/ x.lost = 1 \/ x.aborted = 1
  \/ route = "trusted" /\ host <= doc.total

\* As long as nothing of that happened, no store of wr_byte, wr_put, the
\* fused member or the final terminator ends past the buffer.
StaysInBounds == Hurt(w) \/ w.past = 0

\* emit.h on serialize_into_trusted: when the output did not fit, buf holds
\* a partial document.  No write passes the buffer, whatever its size.
NeverPastTheBuffer == w.past = 0

\* writer.h on oom and emit.h on the trusted form: the byte count keeps
\* running whatever fails, so the size that a pass returns is exact.
CountKeepsRunning ==
  pc \in {"dry", "wet", "chunk"} => w.flushed + w.len + left + rest = doc.total

\* A writer in a wet pass with togo bytes still to come, per route: the
\* measured buffer holds them and the terminator, so does the trusted one
\* unless it is too small, a reservation lies inside the growing buffer, and
\* the window has room for one more byte.
Sound(x, togo) ==
  /\ x.flushed + x.len + togo = doc.total
  /\ route # "stream" => x.flushed = 0 /\ x.aborted = 0
  /\ route \in {"into", "pretty"} => x.cap = 0 /\ x.reserve = 0 /\ doc.total < x.extent /\ x.oom = 0
  /\ route = "trusted" => x.extent = host /\ x.cap = host /\ x.reserve = 0
  /\ (route = "grow" /\ x.lost = 0) => x.oom = 0 /\ x.cap = x.extent /\ x.len + x.reserve + 1 <= x.cap
  /\ route = "stream" => x.cap = Window /\ x.extent = Window /\ x.reserve = 0 /\ x.oom = 0
  /\ (route = "stream" /\ x.aborted = 0) => x.len + 1 <= x.cap
  /\ Hurt(x) \/ x.past = 0

\* The inductive form of the two: the writer is sound throughout a wet pass
\* and untouched before it.
WriterInv ==
  /\ StaysInBounds
  /\ pc \in {"idle", "dry"} => w.cap = 0 /\ w.reserve = 0 /\ w.oom = 0 /\ w.past = 0
  /\ pc = "dry" => route \in {"into", "pretty"} /\ w.flushed = 0 /\ w.len + rest = doc.total
  /\ pc = "chunk" => route = "stream"
  /\ pc \in {"idle", "dry", "wet"} => left = 0
  /\ pc \in {"wet", "chunk"} => Sound(w, left + rest)

\* The host is told the truth: a size is the document's, a returned buffer
\* holds all of it with its terminator, a size below the host's buffer
\* means that it does too, no buffer is returned after a failed growth or for an anchor without a spelling, and a stream counts as
\* written only when the sink accepted every byte.
AnswersRight ==
  (pc = "done" /\ NeverPastTheBuffer) =>
    /\ ret \in {0, Null, doc.total}
    /\ (route \in {"grow", "pretty"} /\ ret # Null) => w.top = doc.total + 1
    /\ (route = "grow" /\ (w.lost = 1 \/ doc.unser)) => ret = Null
    /\ (route = "stream" /\ ret # 0) => w.taken = doc.total
    /\ (route = "into" /\ ret < host /\ w.extent > 0) => w.top = ret + 1
    /\ (route = "trusted" /\ ret < host /\ w.extent > 0 /\ ~doc.unser) => w.top = ret + 1

\* Every exit of an entry point frees what the call allocated, except the
\* buffer it returns.
NothingLeaks ==
  pc = "done" => heap = IF route \in {"grow", "pretty"} /\ ret # Null THEN {"buffer"} ELSE {}

\* A call that is over has told the truth and kept nothing but what it returned.
EndsWell == AnswersRight /\ NothingLeaks

\* What a writer in a wet pass holds of what it has counted, as long as no store passed the
\* buffer: all of it, unless a growth failed; then oom stands and the count has left the
\* buffer behind, so that nothing can be stored again inside it.
Kept(x) ==
  x.past = 0 =>
    /\ route \in {"into", "pretty"} => x.top = x.len
    /\ (route = "trusted" /\ doc.total < host) => x.oom = 0 /\ x.top = x.len
    /\ (route = "grow" /\ x.lost = 0) => x.top = x.len
    /\ (route = "grow" /\ x.lost = 1) => x.oom = 1 /\ x.extent <= x.len
    /\ route = "stream" => x.taken = x.flushed

\* The inductive form of EndsWell.
EndInv ==
  /\ EndsWell
  /\ pc = "idle" => w = Cleared /\ heap = {}
  /\ pc = "dry" => w.top = 0 /\ w.extent = 0
  /\ pc \in {"wet", "chunk"} => Kept(w)
  /\ pc = "wet" /\ route = "pretty" => heap = {"buffer"}

\* A serialize call returns: the loop that cuts a put always gets on.
Returns == pc \in {"dry", "wet", "chunk"} ~> pc = "done"
=============================================================================

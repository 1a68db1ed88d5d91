------------------------------ MODULE StepScan ------------------------------
(***************************************************************************)
(* The incremental marker scan of parse/engine.c: over the bytes a stream   *)
(* has been fed so far it keeps what it needs to know of quotes, flow       *)
(* collections, comments, tags and block scalars, and finds the last place  *)
(* where the buffer may be cut in front of a document.                      *)
(*                                                                         *)
(* A byte is a one-character string, "n" a line feed, "r" a carriage        *)
(* return, "t" a tab; "C2" "85" is a NEL and "E2" "80" "A8" a LS.  Offsets  *)
(* count from 0 as in the code.                                             *)
(***************************************************************************)
EXTENDS Integers, Sequences

At(p, i) == p[i + 1]

Blank == {" ", "t"}
Indicators == {"&", "*", "!", "-", "?", ":", ",", "[", "{", "]", "}"}

\* yep_stepstate as yep_engine_step allocates it.
CleanScan == [scanned |-> 0, quote |-> "", in_flow |-> 0, in_comment |-> FALSE,
              in_verbatim |-> FALSE, tok_start |-> FALSE, word_led |-> FALSE,
              at_break |-> FALSE, saw_directive |-> FALSE, bs_open |-> FALSE, bs_indent |-> 0]

RootIndent == -1  \* bs_indent of a block scalar that hangs off the document

\* One position of the scan: the state, the next offset, and how the loop goes on:
\* hold = the offset the next scan starts from again, or -1.
Step(st, i) == [st |-> st, i |-> i, hold |-> -1, cut |-> 0]
Hold(st, i) == [st |-> st, i |-> i, hold |-> i, cut |-> 0]

\* The state behind a line break.
LineStart(st) ==
  [st EXCEPT !.in_comment = FALSE, !.tok_start = TRUE, !.word_led = FALSE, !.at_break = TRUE]

\* The bytes of the line break at i, 0 when there is none, -1 when the bytes that
\* would tell have not been fed.  A carriage return before a line feed is not one.
BreakLen(p, i) ==
  LET c == At(p, i)
      has(k) == i + k < Len(p)
  IN  IF c = "n" THEN 1
      ELSE IF c = "r" THEN IF has(1) /\ At(p, i + 1) = "n" THEN 0 ELSE 1
      ELSE IF c = "C2" THEN IF ~has(1) THEN -1 ELSE IF At(p, i + 1) = "85" THEN 2 ELSE 0
      ELSE IF c = "E2" THEN
             IF ~has(1) THEN -1
             ELSE IF At(p, i + 1) # "80" THEN 0
             ELSE IF ~has(2) THEN -1 ELSE IF At(p, i + 2) = "A8" THEN 3 ELSE 0
      ELSE 0

\* Inside a comment a break that is not complete is passed over, not waited for.
ScanComment(p, st, i) ==
  IF BreakLen(p, i) > 0 THEN Step(LineStart(st), i + BreakLen(p, i)) ELSE Step(st, i + 1)

\* Inside quotes a doubled quote and an escaped byte may be split by the chunk.
ScanQuote(p, st, i) ==
  LET c == At(p, i)
      last == i + 1 >= Len(p)
      closed == Step([st EXCEPT !.quote = ""], i + 1)
  IN  IF st.quote = "'" THEN
        IF c # "'" THEN Step(st, i + 1)
        ELSE IF last THEN Hold(st, i)
        ELSE IF At(p, i + 1) = "'" THEN Step(st, i + 2) ELSE closed
      ELSE IF c = "\\" THEN IF last THEN Hold(st, i) ELSE Step(st, i + 2)
      ELSE IF c = "\"" THEN closed ELSE Step(st, i + 1)

\* The first offset >= i where p holds one of the bytes, Len(p) when none does.
Find(p, i, bytes) ==
  LET at == {k \in i .. Len(p) - 1 : At(p, k) \in bytes}
  IN  IF at = {} THEN Len(p) ELSE CHOOSE k \in at : \A j \in at : k <= j

\* The first offset >= i that holds none of them.
Skip(p, i, bytes) ==
  LET at == {k \in i .. Len(p) - 1 : At(p, k) \notin bytes}
  IN  IF at = {} THEN Len(p) ELSE CHOOSE k \in at : \A j \in at : k <= j

\* The start of the line a position is on, as the check for a '%' before a marker
\* looks for it: line feeds and carriage returns only.
LineHead(p, i) ==
  LET heads == {k \in 0 .. i : k = 0 \/ At(p, k - 1) \in {"n", "r"}}
  IN  CHOOSE k \in heads : \A j \in heads : j <= k

\* Past a '|' or '>' a header has at most one chomping and one indent indicator ("1"
\* stands for the digits), blanks, and a comment behind a blank: 1 a header, 0 not
\* one, -1 when the line is not complete.
step_bs_header(p, i) ==
  LET k == Skip(p, i + 1, {"+", "-", "1"})
      count(bytes) == Len(SelectSeq(SubSeq(p, i + 2, k), LAMBDA b : b \in bytes))
      e == Skip(p, k, Blank)
  IN  IF count({"+", "-"}) > 1 \/ count({"1"}) > 1 THEN 0
      ELSE IF e >= Len(p) THEN -1
      ELSE IF At(p, e) \in {"n", "r"} \/ (At(p, e) = "#" /\ e > k) THEN 1 ELSE 0

\* norm_next_fold_break: the offset behind the break that ends the line of i, or 0.
norm_next_fold_break(p, i) ==
  LET at == {k \in i .. Len(p) - 1 : BreakLen(p, k) > 0}
  IN  IF at = {} THEN 0
      ELSE LET k == CHOOSE k \in at : \A j \in at : k <= j IN k + BreakLen(p, k)

\* A line inside a block scalar: blank, comment, marker and indented lines ride along,
\* a dedented one ends the scalar and is read as usual (Step at i itself).
ScanBlock(p, st, i) ==
  LET k == Skip(p, i, {" "})
      e == Find(p, k, {"n"})
      three == k + 2 < Len(p) /\ At(p, k + 1) = At(p, k) /\ At(p, k + 2) = At(p, k)
      marker == At(p, k) \in {"-", "."} /\ three
      rides == \/ At(p, k) \in {"n", "#"}
               \/ marker
               \/ st.bs_indent = RootIndent
               \/ k - i > st.bs_indent
  IN  IF k >= Len(p) THEN Hold(st, i)
      ELSE IF At(p, k) \in {"-", "."} /\ k + 2 >= Len(p) THEN Hold(st, i)
      ELSE IF ~rides THEN Step([st EXCEPT !.bs_open = FALSE], i)
      ELSE IF e >= Len(p) THEN Hold(st, i)
      ELSE Step(st, e + 1)

\* A '|' or '>' at the start of a line; a header whose line is not complete is read
\* again, with the scalar already open.
ScanHeader(p, st, i) ==
  LET hdr == step_bs_header(p, i)
      next == norm_next_fold_break(p, i)
      opened == [st EXCEPT !.bs_open = TRUE, !.bs_indent = 0]
  IN  IF hdr < 0 THEN Hold(st, i)
      ELSE IF hdr = 0 THEN Step(st, i + 1)
      ELSE IF next = 0 THEN Hold(opened, i)
      ELSE Step(LineStart(opened), next)

\* mutant: a marker is a cut whatever stands before it
ScanDash_AnyMarker(p, st, i) ==
  LET marker == /\ At(p, i + 1) = "-" /\ At(p, i + 2) = "-"
                /\ At(p, i + 3) \in {"n", " ", "t", "r"}
  IN  IF i + 3 >= Len(p) THEN Hold(st, i)
      ELSE IF ~marker THEN Step(st, i + 1)
      ELSE [Step([st EXCEPT !.saw_directive = FALSE], i + 1) EXCEPT !.cut = i]

\* A '-' at the start of a line: a marker is a cut unless a directive or a block
\* scalar goes with it.
ScanDash(p, st, i) ==
  LET marker == /\ At(p, i + 1) = "-" /\ At(p, i + 2) = "-"
                /\ At(p, i + 3) \in {"n", " ", "t", "r"}
      k == Skip(p, i + 3, Blank)
      block == ~st.bs_open /\ k < Len(p) /\ At(p, k) \in {">", "|"}
      opened == IF block THEN [st EXCEPT !.bs_open = TRUE, !.bs_indent = RootIndent] ELSE st
      pct == i > 0 /\ At(p, LineHead(p, i - 1)) = "%"
      safe == ~st.saw_directive /\ i > 0 /\ ~opened.bs_open /\ ~pct
  IN  IF i + 3 >= Len(p) THEN Hold(st, i)
      ELSE IF ~marker THEN Step(st, i + 1)
      ELSE [Step([opened EXCEPT !.saw_directive = FALSE], i + 1)
              EXCEPT !.cut = IF safe THEN i ELSE 0]

\* What is left of a byte once comments, quotes, breaks and blanks are dealt with,
\* at a place where no flow collection is open.
ScanBlockLevel(p, st, i) ==
  LET prev == IF i > 0 THEN At(p, i - 1) ELSE "n"
      ride == ScanBlock(p, st, i)
      open == IF st.bs_open THEN ride.st ELSE st
  IN  IF prev \notin {"n", "r"} /\ ~st.at_break THEN Step(st, i + 1)
      ELSE IF st.bs_open /\ (ride.hold >= 0 \/ ride.i > i) THEN ride
      ELSE IF At(p, i) \in {"|", ">"} THEN ScanHeader(p, open, i)
      ELSE IF At(p, i) = "-" THEN ScanDash(p, open, i)
      ELSE Step(open, i + 1)

\* A byte that may begin a word: it ends the line-start fact, and a quote here opens
\* a quoted scalar.
ScanWord(p, st, i) ==
  LET c == At(p, i)
      led == [st EXCEPT !.at_break = FALSE, !.tok_start = FALSE, !.word_led = c \in Indicators,
                        !.in_flow = IF c = "?" /\ @ > 0 THEN @ + 1 ELSE @]
  IN  IF ~st.tok_start THEN st
      ELSE IF c \in {"'", "\""} THEN [led EXCEPT !.quote = c] ELSE led

ScanOpen(p, st, i) ==
  LET c == At(p, i)
      word == ScanWord(p, st, i)
      sep == IF c \in {",", ":", "[", "{", "]", "}"} THEN [word EXCEPT !.tok_start = TRUE] ELSE word
  IN  IF st.tok_start /\ c = "!" /\ i + 1 >= Len(p) THEN Hold([st EXCEPT !.at_break = FALSE], i)
      ELSE IF st.tok_start /\ c = "!" /\ At(p, i + 1) = "<"
             THEN Step([st EXCEPT !.at_break = FALSE, !.in_verbatim = TRUE], i + 2)
      ELSE IF word.quote # "" THEN Step(word, i + 1)
      ELSE IF c \in {"[", "{"} THEN Step([sep EXCEPT !.in_flow = @ + 1], i + 1)
      ELSE IF c \in {"]", "}"} THEN Step([sep EXCEPT !.in_flow = IF @ > 0 THEN @ - 1 ELSE 0], i + 1)
      ELSE IF c = "%" THEN Step([sep EXCEPT !.saw_directive = TRUE], i + 1)
      ELSE IF sep.in_flow = 0 THEN ScanBlockLevel(p, sep, i)
      ELSE Step(sep, i + 1)

ScanByte(p, st, i) ==
  LET c == At(p, i)
      prev == IF i > 0 THEN At(p, i - 1) ELSE "n"
      br == BreakLen(p, i)
  IN  IF st.in_comment THEN ScanComment(p, st, i)
      ELSE IF st.quote # "" THEN ScanQuote(p, st, i)
      ELSE IF st.in_verbatim THEN Step([st EXCEPT !.in_verbatim = c # ">"], i + 1)
      ELSE IF c = "#" /\ (prev \in {"n", "r", " ", "t"} \/ st.at_break)
             THEN Step([st EXCEPT !.in_comment = TRUE, !.at_break = FALSE], i + 1)
      ELSE IF br < 0 THEN Hold(st, i)
      ELSE IF br > 0 THEN Step(LineStart(st), i + br)
      ELSE IF c \in Blank
             THEN Step([st EXCEPT !.tok_start = st.in_flow > 0 \/ st.word_led, !.at_break = FALSE],
                       i + 1)
      ELSE ScanOpen(p, st, i)

\* What yep_engine_step clears when it has cut the buffer; the block scalar, the word
\* and the line-start facts stay as the end of the buffer left them.
AfterCut(st) == [st EXCEPT !.scanned = 0, !.in_flow = 0, !.quote = "", !.in_verbatim = FALSE,
                           !.in_comment = FALSE, !.saw_directive = FALSE]

RECURSIVE ScanFrom(_, _, _, _), ScanOn(_, _, _)
ScanFrom(p, st, i, cut) ==
  IF i >= Len(p) THEN [st |-> [st EXCEPT !.scanned = Len(p)], cut |-> cut]
  ELSE ScanOn(p, ScanByte(p, st, i), cut)

\* The scan holds at the byte, or goes on behind it.
ScanOn(p, s, cut) ==
  LET c == IF s.cut > 0 THEN s.cut ELSE cut
  IN  IF s.hold >= 0 THEN [st |-> [s.st EXCEPT !.scanned = s.hold], cut |-> c]
      ELSE ScanFrom(p, s.st, s.i, c)

\* step_scan: the state after the bytes fed so far, and the last safe cut (0: none).
step_scan(p, st) == ScanFrom(p, st, st.scanned, 0)
=============================================================================

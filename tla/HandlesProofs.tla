--------------------------- MODULE HandlesProofs ---------------------------
(***************************************************************************)
(* What a host holds, for every input and every history: the documents of  *)
(* a stream iterator (StreamIter) and the wrappers of the json-c face      *)
(* (JsonC).                                                                *)
(*                                                                         *)
(* StreamIter.  The engine's document loop over a buffer is a recursive    *)
(* function, Runs; the first part says what a run from a frame's edge      *)
(* reports and how two runs over the pieces of a buffer make up one.  From *)
(* it follow progress (EveryReportMoves), the documents a resynchronising  *)
(* walk may not lose (ValidDocumentsKept), and that a walk without errors  *)
(* frames the buffer as one run does (WalkFramesAsOneRun).                 *)
(*                                                                         *)
(* JsonC.  Each operation is first described field by field (the lemmas    *)
(* that end in Is).  Kept says who owns what, the nodes of one document    *)
(* never pointing into another; it gives WrappersValid and FreedOnce.      *)
(* Shows relates each live node to the value it stands for, one node to a  *)
(* value; it gives ReadsTrue.  All three are for Edges = {}: the host      *)
(* gives up its pointers below a value when it adds the value, and no      *)
(* insertion fails after the value was taken (README, section 5).          *)
(***************************************************************************)
EXTENDS StreamIter, JsonC, NatRecursion, FiniteSetTheorems, TLAPS

-----------------------------------------------------------------------------
(* The engine's document loop.                                             *)

RunState == [open : BOOLEAN, saw : BOOLEAN, opens : Nat, ended : Nat, failed : BOOLEAN]

\* States are told apart by their fields.
LEMMA SameFields ==
  ASSUME NEW r \in RunState, NEW q \in RunState,
         r.open = q.open, r.saw = q.saw, r.opens = q.opens, r.ended = q.ended, r.failed = q.failed
  PROVE  r = q
  BY DEF RunState

\* The fields of a changed state.
LEMMA SetFailed ==
  ASSUME NEW r \in RunState
  PROVE  LET q == [r EXCEPT !.failed = TRUE]
         IN  /\ q \in RunState /\ q.failed
             /\ q.open = r.open /\ q.saw = r.saw /\ q.opens = r.opens /\ q.ended = r.ended
  BY DEF RunState

\* The same for the mark of a directive read before the document.
LEMMA SetSaw ==
  ASSUME NEW r \in RunState, NEW b \in BOOLEAN
  PROVE  LET q == [r EXCEPT !.saw = b]
         IN  /\ q \in RunState /\ q.saw = b
             /\ q.open = r.open /\ q.failed = r.failed /\ q.opens = r.opens /\ q.ended = r.ended
  BY DEF RunState

\* Opening a document that is not open counts it.
LEMMA OpenFields ==
  ASSUME NEW r \in RunState
  PROVE  /\ Open(r) \in RunState /\ Open(r).open
         /\ Open(r).saw = r.saw /\ Open(r).ended = r.ended /\ Open(r).failed = r.failed
         /\ Open(r).opens = IF r.open THEN r.opens ELSE r.opens + 1
  <1>1. CASE r.open
    BY <1>1 DEF RunState, Open
  <1>2. CASE ~r.open
    <2>1. Open(r) = [open |-> TRUE, saw |-> r.saw, opens |-> r.opens + 1, ended |-> r.ended, failed |-> r.failed]
      BY <1>2 DEF RunState, Open
    <2> QED
      BY <1>2, <2>1 DEF RunState
  <1> QED
    BY <1>1, <1>2

\* Closing an open document counts its end and forgets the directive.
LEMMA CloseFields ==
  ASSUME NEW r \in RunState
  PROVE  /\ Close(r) \in RunState /\ ~Close(r).open
         /\ Close(r).opens = r.opens /\ Close(r).failed = r.failed
         /\ Close(r).saw <=> (~r.open /\ r.saw)
         /\ Close(r).ended = IF r.open THEN r.ended + 1 ELSE r.ended
  <1>1. CASE r.open
    <2>1. Close(r) = [open |-> FALSE, saw |-> FALSE, opens |-> r.opens, ended |-> r.ended + 1, failed |-> r.failed]
      BY <1>1 DEF RunState, Close
    <2>2. r.ended + 1 \in Nat /\ r.opens \in Nat /\ r.failed \in BOOLEAN
      BY DEF RunState
    <2> QED
      BY <1>1, <2>1, <2>2 DEF RunState
  <1>2. CASE ~r.open
    <2>1. Close(r) = r
      BY <1>2 DEF Close
    <2> QED
      BY <1>2, <2>1
  <1> QED
    BY <1>1, <1>2

\* What each kind of line does to a loop that has not failed.
LEMMA Lines ==
  ASSUME NEW r \in RunState
  PROVE  /\ \A kind \in AllKinds : r.failed => EngineLine(r, kind) = r
         /\ ~r.failed =>
              /\ EngineLine(r, "skip") = r
              /\ EngineLine(r, "dir") = IF r.open \/ r.saw THEN [r EXCEPT !.failed = TRUE]
                                                           ELSE [r EXCEPT !.saw = TRUE]
              /\ EngineLine(r, "start") = [Open(Close(r)) EXCEPT !.saw = FALSE]
              /\ EngineLine(r, "end") = Close(r)
              /\ EngineLine(r, "text") = Open(r)
              /\ EngineLine(r, "raw") = Open(r)
              /\ EngineLine(r, "bad") = [Open(r) EXCEPT !.failed = TRUE]
  <1>1. ASSUME NEW kind \in AllKinds, r.failed PROVE EngineLine(r, kind) = r
    BY <1>1, Zenon DEF EngineLine
  <1>2. ASSUME ~r.failed PROVE EngineLine(r, "skip") = r
    BY <1>2, Zenon DEF EngineLine
  <1>3. ASSUME ~r.failed
        PROVE  EngineLine(r, "dir") = IF r.open \/ r.saw THEN [r EXCEPT !.failed = TRUE]
                                                         ELSE [r EXCEPT !.saw = TRUE]
    BY <1>3 DEF EngineLine
  <1>4. ASSUME ~r.failed PROVE EngineLine(r, "start") = [Open(Close(r)) EXCEPT !.saw = FALSE]
    BY <1>4 DEF EngineLine
  <1>5. ASSUME ~r.failed PROVE EngineLine(r, "end") = Close(r)
    BY <1>5 DEF EngineLine
  <1>6. ASSUME ~r.failed PROVE EngineLine(r, "text") = Open(r) /\ EngineLine(r, "raw") = Open(r)
    BY <1>6 DEF EngineLine
  <1>7. ASSUME ~r.failed PROVE EngineLine(r, "bad") = [Open(r) EXCEPT !.failed = TRUE]
    BY <1>7 DEF EngineLine
  <1> QED
    BY <1>1, <1>2, <1>3, <1>4, <1>5, <1>6, <1>7

\* Every kind is one of the seven.
LEMMA KindCases ==
  ASSUME NEW kind \in AllKinds
  PROVE  kind \in {"skip", "dir", "start", "end", "text", "raw", "bad"}
  BY DEF AllKinds

\* The fields after a line, for every kind of line.
LineFields(r, kind, q) ==
  /\ q \in RunState
  /\ q.failed <=> (r.failed \/ kind = "bad" \/ (kind = "dir" /\ (r.open \/ r.saw)))
  /\ r.failed => q = r
  /\ ~r.failed =>
       /\ q.open <=> (kind \in {"start", "text", "raw", "bad"} \/ (r.open /\ kind # "end"))
       /\ q.saw <=> \/ kind = "dir" /\ (~r.open \/ r.saw)
                    \/ kind = "end" /\ ~r.open /\ r.saw
                    \/ kind \in {"skip", "text", "raw", "bad"} /\ r.saw
       /\ q.opens = IF kind = "start" \/ (kind \in {"text", "raw", "bad"} /\ ~r.open)
                    THEN r.opens + 1 ELSE r.opens
       /\ q.ended = IF kind \in {"start", "end"} /\ r.open THEN r.ended + 1 ELSE r.ended

\* What a line does to the loop, field by field.
LEMMA LineEffect ==
  ASSUME NEW r \in RunState, NEW kind \in AllKinds
  PROVE  LineFields(r, kind, EngineLine(r, kind))
  <1>1. CASE r.failed
    BY <1>1, Lines DEF LineFields
  <1>2. CASE ~r.failed
    <2>1. Close(r) \in RunState /\ Open(r) \in RunState
      BY OpenFields, CloseFields
    <2>2. Open(Close(r)) \in RunState
      BY <2>1, OpenFields
    <2>3. CASE kind = "skip"
      BY <1>2, <2>3, Lines DEF LineFields
    <2>4. CASE kind = "dir"
      <3>1. CASE r.open \/ r.saw
        <4> DEFINE q == [r EXCEPT !.failed = TRUE]
        <4>1. EngineLine(r, kind) = q
          BY <1>2, <2>4, <3>1, Lines
        <4>2. q \in RunState /\ q.failed /\ q.open = r.open /\ q.saw = r.saw /\ q.opens = r.opens
              /\ q.ended = r.ended
          BY SetFailed
        <4> HIDE DEF q
        <4> QED
          BY <1>2, <2>4, <3>1, <4>1, <4>2 DEF LineFields
      <3>2. CASE ~(r.open \/ r.saw)
        <4> DEFINE q == [r EXCEPT !.saw = TRUE]
        <4>1. EngineLine(r, kind) = q
          BY <1>2, <2>4, <3>2, Lines
        <4>2. q \in RunState /\ q.saw /\ q.open = r.open /\ q.failed = r.failed /\ q.opens = r.opens
              /\ q.ended = r.ended
          BY SetSaw
        <4> HIDE DEF q
        <4> QED
          BY <1>2, <2>4, <3>2, <4>1, <4>2 DEF LineFields
      <3> QED
        BY <3>1, <3>2
    <2>5. CASE kind = "start"
      <3> DEFINE c == Close(r)
                 o == Open(c)
                 q == [o EXCEPT !.saw = FALSE]
      <3>1. EngineLine(r, kind) = q
        BY <1>2, <2>5, Lines
      <3>2. c \in RunState /\ ~c.open /\ c.failed = r.failed /\ c.opens = r.opens
            /\ c.ended = IF r.open THEN r.ended + 1 ELSE r.ended
        BY CloseFields
      <3> HIDE DEF c
      <3>3. o \in RunState /\ o.open /\ o.failed = c.failed /\ o.opens = c.opens + 1 /\ o.ended = c.ended
        BY <3>2, OpenFields
      <3> HIDE DEF o
      <3>4. q \in RunState /\ ~q.saw /\ q.open = o.open /\ q.failed = o.failed /\ q.opens = o.opens
            /\ q.ended = o.ended
        BY <3>3, SetSaw
      <3> HIDE DEF q
      <3> QED
        BY <1>2, <2>5, <3>1, <3>2, <3>3, <3>4 DEF LineFields
    <2>6. CASE kind = "end"
      BY <1>2, <2>6, Lines, CloseFields DEF LineFields
    <2>7. CASE kind \in {"text", "raw"}
      BY <1>2, <2>7, Lines, OpenFields DEF LineFields
    <2>8. CASE kind = "bad"
      <3> DEFINE o == Open(r)
                 q == [o EXCEPT !.failed = TRUE]
      <3>1. EngineLine(r, kind) = q
        BY <1>2, <2>8, Lines
      <3>2. o \in RunState /\ o.open /\ o.saw = r.saw /\ o.ended = r.ended
            /\ o.opens = IF r.open THEN r.opens ELSE r.opens + 1
        BY OpenFields
      <3> HIDE DEF o
      <3>3. q \in RunState /\ q.failed /\ q.open = o.open /\ q.saw = o.saw /\ q.opens = o.opens
            /\ q.ended = o.ended
        BY <3>2, SetFailed
      <3> HIDE DEF q
      <3> QED
        BY <1>2, <2>8, <3>1, <3>2, <3>3 DEF LineFields
    <2> QED
      BY <2>3, <2>4, <2>5, <2>6, <2>7, <2>8, KindCases
  <1> QED
    BY <1>1, <1>2

\* A line takes states of the loop to states of the loop.
LEMMA LineType ==
  ASSUME NEW r \in RunState, NEW kind \in AllKinds
  PROVE  EngineLine(r, kind) \in RunState
  BY LineEffect DEF LineFields

\* The end of the input, field by field.
EofFields(r, q) ==
  /\ q \in RunState
  /\ q.failed <=> (r.failed \/ (r.saw /\ ~r.open))
  /\ q.opens = r.opens
  /\ q.ended = IF r.open /\ ~r.failed THEN r.ended + 1 ELSE r.ended

\* What the end of the input does to the loop.
LEMMA EofEffect ==
  ASSUME NEW r \in RunState
  PROVE  EofFields(r, EngineEof(r))
  <1>1. CASE r.failed \/ (r.saw /\ ~r.open)
    <2>1. EngineEof(r) = [r EXCEPT !.failed = TRUE]
      BY <1>1 DEF EngineEof
    <2> QED
      BY <1>1, <2>1, SetFailed DEF EofFields
  <1>2. CASE ~(r.failed \/ (r.saw /\ ~r.open))
    <2>1. EngineEof(r) = Close(r)
      BY <1>2 DEF EngineEof
    <2> QED
      BY <1>2, <2>1, CloseFields DEF EofFields
  <1> QED
    BY <1>1, <1>2

\* The loop begins with nothing open.
LEMMA FreshType == Fresh \in RunState
  BY DEF Fresh, RunState

\* The states of a run satisfy their recursion equation.
LEMMA RunsAre ==
  ASSUME NEW lines \in Seq(AllKinds), NEW from \in 1 .. Len(lines) + 1
  PROVE  /\ Runs(lines, from)[0] = Fresh
         /\ \A k \in 0 .. Len(lines) - from :
              Runs(lines, from)[k + 1] = EngineLine(Runs(lines, from)[k], lines[from + k])
  <1> DEFINE S == RunState
             a == Fresh
             N == Len(lines) - from + 1
             step(i, x) == IF i < N THEN EngineLine(x, lines[from + i]) ELSE x
             row(i) == [x \in S |-> step(i, x)]
             g == [i \in Nat |-> row(i)]
  <1>1. N \in Nat /\ \A i \in 0 .. N - 1 : lines[from + i] \in AllKinds
    OBVIOUS
  <1>2. a \in S
    BY FreshType
  <1>3. g \in [Nat -> [S -> S]]
    <2>1. ASSUME NEW i \in Nat, NEW x \in S PROVE step(i, x) \in S
      BY <1>1, LineType
    <2> HIDE DEF S, step
    <2>2. ASSUME NEW i \in Nat PROVE row(i) \in [S -> S]
      BY <2>1
    <2> HIDE DEF row
    <2> QED
      BY <2>2
  <1>4. PICK f \in [0 .. N -> S] : f[0] = a /\ \A k \in 0 .. N - 1 : f[k + 1] = g[k][f[k]]
    <2>1. N \in Nat
      BY <1>1
    <2> HIDE DEF S, a, g, N
    <2>2. HasSteps(S, a, N, g)
      BY ONLY <1>2, <1>3, <2>1, IterateSteps
    <2> QED
      BY <2>2 DEF HasSteps
  <1>5. ASSUME NEW k \in 0 .. N - 1 PROVE f[k + 1] = EngineLine(f[k], lines[from + k])
    <2>1. k \in Nat /\ k < N /\ k \in 0 .. N
      BY <1>1
    <2>2. f[k] \in S
      BY <1>4, <2>1
    <2>3. g[k] = row(k)
      <3> HIDE DEF row
      <3> QED
        BY <2>1
    <2>4. row(k)[f[k]] = step(k, f[k])
      <3> HIDE DEF step, S
      <3> QED
        BY <2>2
    <2>5. step(k, f[k]) = EngineLine(f[k], lines[from + k])
      BY <2>1
    <2> HIDE DEF g, row, step
    <2> QED
      BY <1>4, <2>3, <2>4, <2>5
  <1> DEFINE body(h, i) == IF i = 0 THEN Fresh ELSE EngineLine(h[i - 1], lines[from + i - 1])
             M == Runs(lines, from)
  <1>6. f = [i \in 0 .. N |-> body(f, i)]
    <2>1. ASSUME NEW i \in 0 .. N PROVE f[i] = body(f, i)
      <3>1. CASE i = 0
        BY <1>4, <3>1
      <3>2. CASE i # 0
        <4>1. i - 1 \in 0 .. N - 1 /\ (i - 1) + 1 = i /\ from + (i - 1) = from + i - 1
          BY <1>1, <3>2
        <4>2. f[i] = EngineLine(f[i - 1], lines[from + i - 1])
          BY <1>5, <4>1
        <4> QED
          BY <3>2, <4>2
      <3> QED
        BY <3>1, <3>2
    <2> HIDE DEF body, S, N
    <2> QED
      BY <1>4, <2>1
  <1>7. M = [i \in 0 .. N |-> body(M, i)]
    <2>1. M = CHOOSE h : h = [i \in 0 .. N |-> body(h, i)]
      BY DEF Runs
    <2> HIDE DEF body, N, M
    <2> QED
      BY <1>6, <2>1
  <1>8. \A i \in 0 .. N : M[i] = body(M, i)
    <2> HIDE DEF body, N, M
    <2> QED
      BY <1>7
  <1> HIDE DEF M
  <1>9. M[0] = Fresh
    BY <1>1, <1>8
  <1>10. ASSUME NEW k \in 0 .. Len(lines) - from PROVE M[k + 1] = EngineLine(M[k], lines[from + k])
    <2>1. k + 1 \in 0 .. N /\ k + 1 # 0 /\ (k + 1) - 1 = k /\ from + (k + 1) - 1 = from + k
      BY <1>1
    <2>2. M[k + 1] = body(M, k + 1)
      BY <1>8, <2>1
    <2> HIDE DEF N
    <2> QED
      BY <2>1, <2>2
  <1> QED
    BY <1>9, <1>10 DEF M

\* A run begins fresh and takes one line at a time.
LEMMA RunSteps ==
  ASSUME NEW lines \in Seq(AllKinds), NEW from \in 1 .. Len(lines) + 1
  PROVE  /\ Run(lines, from, from - 1) = Fresh
         /\ \A i \in from .. Len(lines) : Run(lines, from, i) = EngineLine(Run(lines, from, i - 1), lines[i])
  <1>1. (from - 1) - from + 1 = 0
    OBVIOUS
  <1>2. ASSUME NEW i \in from .. Len(lines)
        PROVE  Run(lines, from, i) = EngineLine(Run(lines, from, i - 1), lines[i])
    <2> DEFINE k == i - from
    <2>1. k \in 0 .. Len(lines) - from /\ i - from + 1 = k + 1 /\ (i - 1) - from + 1 = k /\ from + k = i
      OBVIOUS
    <2> HIDE DEF k
    <2> QED
      BY <2>1, RunsAre DEF Run
  <1> QED
    BY <1>1, <1>2, RunsAre DEF Run

\* The states of a run are states of the loop.
LEMMA RunType ==
  ASSUME NEW lines \in Seq(AllKinds), NEW from \in 1 .. Len(lines) + 1
  PROVE  \A i \in from - 1 .. Len(lines) : Run(lines, from, i) \in RunState
  <1> DEFINE T == {k \in Nat : from - 1 + k <= Len(lines) => Run(lines, from, from - 1 + k) \in RunState}
  <1>1. 0 \in T
    BY RunSteps, FreshType
  <1>2. ASSUME NEW k \in Nat, k \in T PROVE k + 1 \in T
    <2> SUFFICES ASSUME from - 1 + (k + 1) <= Len(lines)
                 PROVE  Run(lines, from, from - 1 + (k + 1)) \in RunState
      OBVIOUS
    <2> DEFINE i == from + k
    <2>1. i \in from .. Len(lines) /\ from - 1 + (k + 1) = i /\ i - 1 = from - 1 + k
      OBVIOUS
    <2>2. Run(lines, from, i - 1) \in RunState
      BY <1>2, <2>1
    <2>3. Run(lines, from, i) = EngineLine(Run(lines, from, i - 1), lines[i]) /\ lines[i] \in AllKinds
      BY <2>1, RunSteps
    <2> HIDE DEF i
    <2> QED
      BY <2>1, <2>2, <2>3, LineType
  <1>3. Nat \subseteq T
    <2> HIDE DEF T
    <2> QED
      BY <1>1, <1>2, SetInduction
  <1>4. ASSUME NEW i \in from - 1 .. Len(lines) PROVE Run(lines, from, i) \in RunState
    <2>1. i - (from - 1) \in Nat /\ from - 1 + (i - (from - 1)) = i
      OBVIOUS
    <2>2. i - (from - 1) \in T
      BY <1>3, <2>1
    <2> QED
      BY <2>1, <2>2
  <1> QED
    BY <1>4

\* Lines that open a document when none is open.
Opening(lines, i) == lines[i] \in {"start", "text", "raw", "bad"}

\* What is open is what was opened and has not ended; a run that has not failed has opened a
\* document exactly if it met a line that opens one.
LEMMA RunCounts ==
  ASSUME NEW lines \in Seq(AllKinds), NEW from \in 1 .. Len(lines) + 1
  PROVE  \A i \in from - 1 .. Len(lines) :
           LET r == Run(lines, from, i) IN
           /\ r.opens = r.ended + (IF r.open THEN 1 ELSE 0)
           /\ ~r.failed => (r.opens = 0 <=> \A j \in from .. i : ~Opening(lines, j))
  <1> DEFINE P(i) == LET r == Run(lines, from, i) IN
                     /\ r.opens = r.ended + (IF r.open THEN 1 ELSE 0)
                     /\ ~r.failed => (r.opens = 0 <=> \A j \in from .. i : ~Opening(lines, j))
             T == {k \in Nat : from - 1 + k <= Len(lines) => P(from - 1 + k)}
  <1>1. 0 \in T
    <2>1. Run(lines, from, from - 1) = Fresh
      BY RunSteps
    <2>2. from .. (from - 1) = {} /\ from - 1 + 0 = from - 1
      OBVIOUS
    <2> QED
      BY <2>1, <2>2 DEF Fresh
  <1>2. ASSUME NEW k \in Nat, k \in T PROVE k + 1 \in T
    <2> SUFFICES ASSUME from - 1 + (k + 1) <= Len(lines)
                 PROVE  P(from - 1 + (k + 1))
      OBVIOUS
    <2> DEFINE i == from + k
               r == Run(lines, from, i - 1)
               q == Run(lines, from, i)
    <2>1. i \in from .. Len(lines) /\ from - 1 + (k + 1) = i /\ i - 1 = from - 1 + k
      OBVIOUS
    <2>2. P(i - 1)
      BY <1>2, <2>1
    <2>3. r \in RunState /\ LineFields(r, lines[i], q)
      <3>1. q = EngineLine(r, lines[i]) /\ lines[i] \in AllKinds
        BY <2>1, RunSteps
      <3>2. r \in RunState
        BY <2>1, RunType
      <3> HIDE DEF r, q, i
      <3> QED
        BY <3>1, <3>2, LineEffect
    <2>4. r.opens = r.ended + (IF r.open THEN 1 ELSE 0)
      BY <2>2
    <2>5. ~r.failed => (r.opens = 0 <=> \A j \in from .. i - 1 : ~Opening(lines, j))
      BY <2>2
    <2>6. (\A j \in from .. i : ~Opening(lines, j)) <=> ((\A j \in from .. i - 1 : ~Opening(lines, j)) /\ ~Opening(lines, i))
      BY <2>1
    <2>7. lines[i] \in AllKinds
      BY <2>1
    <2> HIDE DEF i, r, q
    <2>8. q.opens = q.ended + (IF q.open THEN 1 ELSE 0)
      BY <2>3, <2>4, <2>7 DEF LineFields, RunState, AllKinds
    <2>9. ~q.failed => ~r.failed /\ (q.opens = 0 <=> r.opens = 0 /\ ~Opening(lines, i))
      <3>1. ~q.failed /\ Opening(lines, i) => q.open
        BY <2>3, <2>7 DEF LineFields, RunState, AllKinds, Opening
      <3>2. ~q.failed /\ ~Opening(lines, i) => q.opens = r.opens
        BY <2>3, <2>7 DEF LineFields, RunState, AllKinds, Opening
      <3>3. ~q.failed /\ q.open => q.opens > 0
        BY <2>3, <2>8 DEF LineFields, RunState
      <3>4. q.opens >= r.opens
        BY <2>3 DEF LineFields, RunState
      <3>5. q.opens \in Nat /\ r.opens \in Nat /\ (~q.failed => ~r.failed)
        BY <2>3 DEF LineFields, RunState
      <3> QED
        BY <3>1, <3>2, <3>3, <3>4, <3>5
    <2> QED
      BY <2>1, <2>5, <2>6, <2>8, <2>9 DEF r, q
  <1>3. Nat \subseteq T
    <2> HIDE DEF T
    <2> QED
      BY <1>1, <1>2, SetInduction
  <1>4. ASSUME NEW i \in from - 1 .. Len(lines) PROVE P(i)
    <2>1. i - (from - 1) \in Nat /\ from - 1 + (i - (from - 1)) = i
      OBVIOUS
    <2>2. i - (from - 1) \in T
      BY <1>3, <2>1
    <2> HIDE DEF P
    <2> QED
      BY <2>1, <2>2
  <1> QED
    BY <1>4

\* Along a run a failure stays and the counts do not fall.
LEMMA RunGrows ==
  ASSUME NEW lines \in Seq(AllKinds), NEW from \in 1 .. Len(lines) + 1,
         NEW i \in from - 1 .. Len(lines), NEW j \in i .. Len(lines)
  PROVE  LET r == Run(lines, from, i)
             q == Run(lines, from, j)
         IN  (r.failed => q.failed) /\ r.opens <= q.opens /\ r.ended <= q.ended
  <1> DEFINE r == Run(lines, from, i)
             P(m) == LET q == Run(lines, from, m)
                     IN  (r.failed => q.failed) /\ r.opens <= q.opens /\ r.ended <= q.ended
             T == {k \in Nat : i + k <= Len(lines) => P(i + k)}
  <1>0. r \in RunState
    BY RunType
  <1>1. 0 \in T
    <2>1. i + 0 = i
      OBVIOUS
    <2> QED
      BY <1>0, <2>1 DEF RunState
  <1>2. ASSUME NEW k \in Nat, k \in T PROVE k + 1 \in T
    <2> SUFFICES ASSUME i + (k + 1) <= Len(lines)
                 PROVE  P(i + (k + 1))
      OBVIOUS
    <2> DEFINE m == i + k + 1
               s == Run(lines, from, m - 1)
               q == Run(lines, from, m)
    <2>1. m \in from .. Len(lines) /\ i + (k + 1) = m /\ m - 1 = i + k
      OBVIOUS
    <2>2. P(m - 1)
      BY <1>2, <2>1
    <2>3. s \in RunState /\ LineFields(s, lines[m], q)
      <3>1. q = EngineLine(s, lines[m]) /\ lines[m] \in AllKinds
        BY <2>1, RunSteps
      <3>2. s \in RunState
        BY <2>1, RunType
      <3> HIDE DEF s, q, m
      <3> QED
        BY <3>1, <3>2, LineEffect
    <2>4. (r.failed => s.failed) /\ r.opens <= s.opens /\ r.ended <= s.ended
      BY <2>2
    <2>5. (s.failed => q.failed) /\ s.opens <= q.opens /\ s.ended <= q.ended /\ q \in RunState
      <3> HIDE DEF s, q, m
      <3> QED
        BY <2>3 DEF LineFields, RunState
    <2> HIDE DEF r, s, m
    <2>6. (r.failed => q.failed) /\ r.opens <= q.opens /\ r.ended <= q.ended
      <3> HIDE DEF q
      <3> QED
        BY <1>0, <2>3, <2>4, <2>5 DEF RunState
    <2> QED
      BY <2>1, <2>6
  <1>3. Nat \subseteq T
    <2> HIDE DEF T
    <2> QED
      BY <1>1, <1>2, SetInduction
  <1>4. j - i \in Nat /\ i + (j - i) = j
    OBVIOUS
  <1>5. j - i \in T
    BY <1>3, <1>4
  <1> QED
    BY <1>4, <1>5

-----------------------------------------------------------------------------
(* Frames.                                                                 *)

\* The least member of a set of natural numbers.
LEMMA LeastIs ==
  ASSUME NEW T \in SUBSET Nat, T # {}
  PROVE  Least(T) \in T /\ \A k \in T : Least(T) <= k
  <1>1. \E m \in T : \A k \in T : m <= k
    BY LeastNat
  <1> QED
    BY <1>1 DEF Least

\* A member below all the others is the least.
LEMMA LeastEquals ==
  ASSUME NEW T \in SUBSET Nat, NEW m \in T, \A k \in T : m <= k
  PROVE  Least(T) = m
  <1>1. Least(T) \in T /\ \A k \in T : Least(T) <= k
    BY LeastIs
  <1>2. Least(T) <= m /\ m <= Least(T) /\ m \in Nat /\ Least(T) \in Nat
    BY <1>1
  <1> QED
    BY <1>2

\* Opener, BoundaryRun and SliceParse with the lines as a parameter.
OpenerIn(lines, from) ==
  LET opening == {i \in from .. Len(lines) : Opening(lines, i)}
  IN IF opening = {} THEN Len(lines) + 1 ELSE Least(opening)

SliceIn(lines, from, pos) ==
  IF "raw" \in Range(SubSeq(lines, from, pos - 1)) THEN "ENCODING"
  ELSE IF WholeRun(SubSeq(lines, from, pos - 1)).failed THEN "PARSE" ELSE "OK"

Stops(lines, from) ==
  {i \in from .. Len(lines) : Run(lines, from, i).failed \/ Run(lines, from, i).ended > 0}

StopIn(lines, from) ==
  IF Stops(lines, from) = {} THEN Len(lines) + 1 ELSE Least(Stops(lines, from))

FrameState(lines, from) ==
  IF Stops(lines, from) = {} THEN EngineEof(Run(lines, from, Len(lines)))
                             ELSE Run(lines, from, StopIn(lines, from))

\* The definitions of the model are these on the buffer.
LEMMA OnTheBuffer ==
  /\ \A i : Opener(i) = OpenerIn(buf, i)
  /\ \A i : /\ BoundaryRun(i).failed = FrameState(buf, i).failed
            /\ BoundaryRun(i).docEnds = FrameState(buf, i).ended
            /\ BoundaryRun(i).pos = StopIn(buf, i)
  /\ \A i, pos : SliceParse(i, pos) = SliceIn(buf, i, pos)
  <1>1. \A i : Opener(i) = OpenerIn(buf, i)
    BY DEF Opener, OpenerIn, Opening
  <1>2. ASSUME NEW i
        PROVE  /\ BoundaryRun(i).failed = FrameState(buf, i).failed
               /\ BoundaryRun(i).docEnds = FrameState(buf, i).ended
               /\ BoundaryRun(i).pos = StopIn(buf, i)
    <2> DEFINE S == {k \in i .. Len(buf) : LET r == Run(buf, i, k) IN r.failed \/ r.ended > 0}
    <2>1. S = Stops(buf, i)
      BY DEF Stops
    <2>2. BoundaryRun(i) = [failed |-> FrameState(buf, i).failed, docEnds |-> FrameState(buf, i).ended,
                            pos |-> StopIn(buf, i)]
      BY <2>1 DEF BoundaryRun, FrameState, StopIn
    <2> QED
      BY <2>2
  <1>3. \A i, pos : SliceParse(i, pos) = SliceIn(buf, i, pos)
    BY DEF SliceParse, SliceIn
  <1> QED
    BY <1>1, <1>2, <1>3

\* A frame ends at the first line that fails or ends a document, or at the end of the input.
LEMMA FrameStops ==
  ASSUME NEW lines \in Seq(AllKinds), NEW from \in 1 .. Len(lines) + 1
  PROVE  LET pos == StopIn(lines, from)
             r == FrameState(lines, from)
         IN  /\ pos \in from .. Len(lines) + 1
             /\ r \in RunState
             /\ \A j \in from - 1 .. pos - 1 : ~Run(lines, from, j).failed /\ Run(lines, from, j).ended = 0
             /\ pos <= Len(lines) => r = Run(lines, from, pos) /\ (r.failed \/ r.ended > 0)
             /\ pos > Len(lines) => r = EngineEof(Run(lines, from, Len(lines)))
  <1> DEFINE S == Stops(lines, from)
             pos == StopIn(lines, from)
  <1>1. S \in SUBSET Nat /\ S \subseteq from .. Len(lines) /\ Len(lines) \in Nat
    BY DEF Stops
  <1>2. ASSUME NEW j \in from - 1 .. Len(lines), j \notin S
        PROVE  ~Run(lines, from, j).failed /\ Run(lines, from, j).ended = 0
    <2>1. CASE j = from - 1
      BY <2>1, RunSteps DEF Fresh
    <2>2. CASE j # from - 1
      <3>1. j \in from .. Len(lines) /\ Run(lines, from, j) \in RunState
        BY <2>2, RunType
      <3>2. Run(lines, from, j).ended \in Nat
        BY <3>1 DEF RunState
      <3> QED
        BY <1>2, <3>1, <3>2 DEF Stops
    <2> QED
      BY <2>1, <2>2
  <1>3. CASE S = {}
    <2>1. pos = Len(lines) + 1 /\ FrameState(lines, from) = EngineEof(Run(lines, from, Len(lines)))
      BY <1>3 DEF StopIn, FrameState
    <2>2. Run(lines, from, Len(lines)) \in RunState
      BY RunType
    <2>3. FrameState(lines, from) \in RunState
      BY <2>1, <2>2, EofEffect DEF EofFields
    <2>4. from \in 1 .. Len(lines) + 1 /\ Len(lines) \in Nat
      OBVIOUS
    <2> QED
      BY <1>2, <1>3, <2>1, <2>3, <2>4
  <1>4. CASE S # {}
    <2>1. pos = Least(S) /\ FrameState(lines, from) = Run(lines, from, pos)
      BY <1>4 DEF StopIn, FrameState
    <2>2. pos \in S /\ \A k \in S : pos <= k
      BY <1>1, <1>4, <2>1, LeastIs
    <2>3. pos \in from .. Len(lines) /\ Run(lines, from, pos) \in RunState
      BY <1>1, <2>2, RunType
    <2>4. Run(lines, from, pos).failed \/ Run(lines, from, pos).ended > 0
      BY <2>2 DEF Stops
    <2>5. ASSUME NEW j \in from - 1 .. pos - 1 PROVE j \in from - 1 .. Len(lines) /\ j \notin S
      <3> HIDE DEF S, pos
      <3> QED
        BY <1>1, <2>2, <2>3
    <2> HIDE DEF S, pos
    <2> QED
      BY <1>2, <2>1, <2>3, <2>4, <2>5 DEF pos
  <1> QED
    BY <1>3, <1>4

\* A frame that holds a document moves the cursor, its document is open before its last line
\* and is the only one it opened, and it ends at a marker or at the end.
LEMMA FrameHolds ==
  ASSUME NEW lines \in Seq(AllKinds), NEW from \in 1 .. Len(lines) + 1,
         ~FrameState(lines, from).failed, FrameState(lines, from).ended > 0
  PROVE  LET pos == StopIn(lines, from)
             r == Run(lines, from, pos - 1)
         IN  /\ pos \in from + 1 .. Len(lines) + 1
             /\ r.open /\ r.opens = 1 /\ r.ended = 0 /\ ~r.failed
             /\ pos <= Len(lines) => lines[pos] \in {"start", "end"}
  <1> DEFINE pos == StopIn(lines, from)
             r == Run(lines, from, pos - 1)
             q == FrameState(lines, from)
  <1>1. /\ pos \in from .. Len(lines) + 1 /\ q \in RunState
        /\ ~r.failed /\ r.ended = 0
        /\ pos <= Len(lines) => q = Run(lines, from, pos)
        /\ pos > Len(lines) => q = EngineEof(Run(lines, from, Len(lines)))
    <2>1. pos \in from .. Len(lines) + 1
      BY FrameStops
    <2>2. pos - 1 \in from - 1 .. pos - 1
      BY <2>1
    <2> QED
      BY <2>1, <2>2, FrameStops
  <1>2. pos \in Nat /\ from \in Nat /\ Len(lines) \in Nat /\ pos - 1 \in from - 1 .. Len(lines)
    BY <1>1
  <1>3. r \in RunState
    BY <1>2, RunType
  <1>4. r.opens = r.ended + (IF r.open THEN 1 ELSE 0)
    BY <1>2, RunCounts
  <1>5. r.open /\ (pos <= Len(lines) => lines[pos] \in {"start", "end"})
    <2>1. CASE pos <= Len(lines)
      <3>1. q = EngineLine(r, lines[pos]) /\ lines[pos] \in AllKinds
        BY <1>1, <1>2, <2>1, RunSteps
      <3>2. LineFields(r, lines[pos], q)
        BY <1>3, <3>1, LineEffect
      <3>3. ~q.failed /\ q.ended > 0
        OBVIOUS
      <3> HIDE DEF r, q, pos
      <3> QED
        BY <1>1, <2>1, <3>2, <3>3 DEF LineFields
    <2>2. CASE pos > Len(lines)
      <3>1. pos - 1 = Len(lines)
        BY <1>1, <1>2, <2>2
      <3>2. q = EngineEof(r)
        BY <1>1, <2>2, <3>1
      <3>3. EofFields(r, q)
        BY <1>3, <3>2, EofEffect
      <3>4. ~q.failed /\ q.ended > 0
        OBVIOUS
      <3> HIDE DEF r, q, pos
      <3> QED
        BY <1>1, <1>2, <2>2, <3>3, <3>4 DEF EofFields
    <2> QED
      BY <1>2, <2>1, <2>2
  <1>6. pos # from
    <2> SUFFICES ASSUME pos = from PROVE FALSE
      OBVIOUS
    <2>1. r = Fresh
      BY RunSteps
    <2> QED
      BY <1>5, <2>1 DEF Fresh
  <1> HIDE DEF r, q, pos
  <1>7. pos \in from + 1 .. Len(lines) + 1
    BY <1>1, <1>2, <1>6
  <1> QED
    BY <1>1, <1>4, <1>5, <1>7 DEF r, pos

\* A frame with neither a failure nor a document reaches the end and opens nothing.
LEMMA FrameEmpty ==
  ASSUME NEW lines \in Seq(AllKinds), NEW from \in 1 .. Len(lines) + 1,
         ~FrameState(lines, from).failed, ~(FrameState(lines, from).ended > 0)
  PROVE  LET r == Run(lines, from, Len(lines))
         IN  /\ \A j \in from .. Len(lines) : ~Opening(lines, j)
             /\ ~r.open /\ r.ended = 0 /\ ~r.failed /\ ~r.saw
  <1> DEFINE pos == StopIn(lines, from)
             r == Run(lines, from, Len(lines))
             q == FrameState(lines, from)
  <1>1. pos \in from .. Len(lines) + 1 /\ pos > Len(lines) /\ q = EngineEof(r)
        /\ \A j \in from - 1 .. pos - 1 : ~Run(lines, from, j).failed /\ Run(lines, from, j).ended = 0
    <2>1. pos \in from .. Len(lines) + 1
      BY FrameStops
    <2>2. ~(pos <= Len(lines))
      BY FrameStops
    <2> HIDE DEF pos
    <2>3. pos > Len(lines)
      BY <2>1, <2>2
    <2> QED
      BY <2>1, <2>3, FrameStops DEF pos
  <1>2. Len(lines) \in from - 1 .. pos - 1 /\ Len(lines) \in from - 1 .. Len(lines)
    BY <1>1
  <1>3. r \in RunState /\ ~r.failed /\ r.ended = 0
    BY <1>1, <1>2, RunType
  <1>4. EofFields(r, q)
    BY <1>1, <1>3, EofEffect
  <1>5. ~q.failed /\ ~(q.ended > 0)
    OBVIOUS
  <1>6. /\ r.opens = r.ended + (IF r.open THEN 1 ELSE 0)
        /\ r.opens = 0 <=> \A j \in from .. Len(lines) : ~Opening(lines, j)
    BY <1>2, <1>3, RunCounts
  <1> HIDE DEF r, q, pos
  <1>7. ~r.open /\ ~r.saw
    BY <1>3, <1>4, <1>5 DEF EofFields
  <1> QED
    BY <1>3, <1>6, <1>7 DEF r

\* A frame at the end of the input neither fails nor holds a document.
LEMMA FrameAtEnd ==
  ASSUME NEW lines \in Seq(AllKinds)
  PROVE  LET q == FrameState(lines, Len(lines) + 1) IN ~q.failed /\ q.ended = 0
  <1> DEFINE from == Len(lines) + 1
             q == FrameState(lines, from)
  <1>1. from \in 1 .. Len(lines) + 1 /\ from - 1 = Len(lines)
    OBVIOUS
  <1>2. Run(lines, from, Len(lines)) = Fresh
    BY <1>1, RunSteps
  <1>3. StopIn(lines, from) > Len(lines) /\ q = EngineEof(Run(lines, from, Len(lines)))
    <2>1. StopIn(lines, from) \in from .. Len(lines) + 1
      BY <1>1, FrameStops
    <2>2. StopIn(lines, from) > Len(lines)
      BY <2>1
    <2> QED
      BY <1>1, <2>2, FrameStops
  <1>4. EofFields(Fresh, q)
    BY <1>2, <1>3, FreshType, EofEffect
  <1> HIDE DEF q
  <1> QED
    BY <1>4 DEF EofFields, Fresh, q

\* The opener of a frame is its first line that opens a document.
LEMMA OpenerIs ==
  ASSUME NEW lines \in Seq(AllKinds), NEW from \in 1 .. Len(lines) + 1
  PROVE  /\ OpenerIn(lines, from) \in from .. Len(lines) + 1
         /\ OpenerIn(lines, from) <= Len(lines) => Opening(lines, OpenerIn(lines, from))
         /\ \A j \in from .. Len(lines) : Opening(lines, j) => OpenerIn(lines, from) <= j
  <1> DEFINE O == {i \in from .. Len(lines) : Opening(lines, i)}
  <1>1. O \in SUBSET Nat /\ Len(lines) \in Nat
    OBVIOUS
  <1>2. CASE O = {}
    BY <1>1, <1>2 DEF OpenerIn
  <1>3. CASE O # {}
    <2>1. OpenerIn(lines, from) = Least(O)
      BY <1>3 DEF OpenerIn
    <2>2. Least(O) \in O /\ \A k \in O : Least(O) <= k
      BY <1>1, <1>3, LeastIs
    <2> QED
      BY <1>1, <2>1, <2>2
  <1> QED
    BY <1>2, <1>3

\* Lines that open nothing do not move the opener.
LEMMA OpenerSkips ==
  ASSUME NEW lines \in Seq(AllKinds), NEW from \in 1 .. Len(lines) + 1, NEW i \in from .. Len(lines) + 1,
         \A j \in from .. i - 1 : ~Opening(lines, j)
  PROVE  OpenerIn(lines, i) = OpenerIn(lines, from)
  <1>1. {k \in i .. Len(lines) : Opening(lines, k)} = {k \in from .. Len(lines) : Opening(lines, k)}
    OBVIOUS
  <1> QED
    BY <1>1 DEF OpenerIn

\* Before a marker inside a frame nothing was opened.
LEMMA MarkerInFrame ==
  ASSUME NEW lines \in Seq(AllKinds), NEW from \in 1 .. Len(lines) + 1,
         NEW i \in from .. StopIn(lines, from) - 1, lines[i] \in {"start", "end"}
  PROVE  \A j \in from .. i - 1 : ~Opening(lines, j)
  <1> DEFINE pos == StopIn(lines, from)
             r == Run(lines, from, i - 1)
             q == Run(lines, from, i)
  <1>1. pos \in from .. Len(lines) + 1
    BY FrameStops
  <1>2. i \in from .. Len(lines) /\ i \in from - 1 .. pos - 1 /\ i - 1 \in from - 1 .. pos - 1
        /\ i - 1 \in from - 1 .. Len(lines)
    BY <1>1
  <1>3. q.ended = 0 /\ ~r.failed
    BY <1>2, FrameStops
  <1>4. r \in RunState
    BY <1>2, RunType
  <1>5. q = EngineLine(r, lines[i]) /\ lines[i] \in AllKinds
    BY <1>2, RunSteps
  <1>6. LineFields(r, lines[i], q)
    BY <1>4, <1>5, LineEffect
  <1>7. /\ r.opens = r.ended + (IF r.open THEN 1 ELSE 0)
        /\ r.opens = 0 <=> \A j \in from .. i - 1 : ~Opening(lines, j)
    BY <1>2, <1>3, RunCounts
  <1> HIDE DEF r, q, pos
  <1>8. ~r.open /\ r.ended = 0
    BY <1>3, <1>4, <1>6 DEF LineFields, RunState
  <1> QED
    BY <1>7, <1>8

\* The document a frame holds is opened in it.
LEMMA FrameOpens ==
  ASSUME NEW lines \in Seq(AllKinds), NEW from \in 1 .. Len(lines) + 1,
         ~FrameState(lines, from).failed, FrameState(lines, from).ended > 0
  PROVE  /\ OpenerIn(lines, from) \in from .. StopIn(lines, from) - 1
         /\ Opening(lines, OpenerIn(lines, from))
  <1> DEFINE pos == StopIn(lines, from)
             r == Run(lines, from, pos - 1)
  <1>1. pos \in from + 1 .. Len(lines) + 1 /\ r.opens = 1 /\ ~r.failed
    BY FrameHolds
  <1>2. pos - 1 \in from - 1 .. Len(lines)
    BY <1>1
  <1>3. ~\A j \in from .. pos - 1 : ~Opening(lines, j)
    BY <1>1, <1>2, RunCounts
  <1>4. PICK j \in from .. pos - 1 : Opening(lines, j)
    BY <1>3
  <1> HIDE DEF pos
  <1>5. j \in from .. Len(lines)
    BY <1>1
  <1>6. OpenerIn(lines, from) \in from .. Len(lines) + 1 /\ OpenerIn(lines, from) <= j
    BY <1>4, <1>5, OpenerIs
  <1>7. OpenerIn(lines, from) \in from .. pos - 1 /\ OpenerIn(lines, from) <= Len(lines)
    BY <1>1, <1>5, <1>6
  <1> QED
    BY <1>7, OpenerIs DEF pos

\* A run over a slice is the run over those lines.
LEMMA SliceRun ==
  ASSUME NEW lines \in Seq(AllKinds), NEW from \in 1 .. Len(lines) + 1, NEW pos \in from .. Len(lines) + 1
  PROVE  LET s == SubSeq(lines, from, pos - 1)
         IN  /\ s \in Seq(AllKinds) /\ Len(s) = pos - from
             /\ \A k \in 1 .. pos - from : s[k] = lines[from + k - 1]
             /\ Run(s, 1, Len(s)) = Run(lines, from, pos - 1)
  <1> DEFINE s == SubSeq(lines, from, pos - 1)
             T == {k \in Nat : k <= pos - from => Run(s, 1, k) = Run(lines, from, from - 1 + k)}
  <1>1. s \in Seq(AllKinds) /\ Len(s) = pos - from /\ \A k \in 1 .. pos - from : s[k] = lines[from + k - 1]
    OBVIOUS
  <1> HIDE DEF s
  <1>2. 0 \in T
    <2>1. 1 \in 1 .. Len(s) + 1 /\ 1 - 1 = 0 /\ from - 1 + 0 = from - 1
      BY <1>1
    <2> QED
      BY <1>1, <2>1, RunSteps
  <1>3. ASSUME NEW k \in Nat, k \in T PROVE k + 1 \in T
    <2> SUFFICES ASSUME k + 1 <= pos - from
                 PROVE  Run(s, 1, k + 1) = Run(lines, from, from - 1 + (k + 1))
      OBVIOUS
    <2> DEFINE i == from + k
    <2>1. i \in from .. Len(lines) /\ from - 1 + (k + 1) = i /\ i - 1 = from - 1 + k
          /\ k + 1 \in 1 .. Len(s) /\ (k + 1) - 1 = k /\ 1 \in 1 .. Len(s) + 1 /\ from + (k + 1) - 1 = i
      BY <1>1
    <2> HIDE DEF i
    <2>2. Run(lines, from, i) = EngineLine(Run(lines, from, i - 1), lines[i])
      BY <2>1, RunSteps
    <2>3. Run(s, 1, k + 1) = EngineLine(Run(s, 1, k), s[k + 1])
      BY <1>1, <2>1, RunSteps
    <2>4. s[k + 1] = lines[i]
      BY <1>1, <2>1
    <2>5. Run(s, 1, k) = Run(lines, from, i - 1)
      BY <1>3, <2>1
    <2> QED
      BY <2>1, <2>2, <2>3, <2>4, <2>5
  <1>4. Nat \subseteq T
    <2> HIDE DEF T
    <2> QED
      BY <1>2, <1>3, SetInduction
  <1>5. pos - from \in Nat /\ from - 1 + (pos - from) = pos - 1
    OBVIOUS
  <1>6. pos - from \in T
    BY <1>4, <1>5
  <1> QED
    BY <1>1, <1>5, <1>6 DEF s

\* A frame that holds a document and no byte the encoding check refuses parses.
LEMMA SliceParses ==
  ASSUME NEW lines \in Seq(AllKinds), NEW from \in 1 .. Len(lines) + 1,
         ~FrameState(lines, from).failed, FrameState(lines, from).ended > 0,
         "raw" \notin Range(lines)
  PROVE  SliceIn(lines, from, StopIn(lines, from)) = "OK"
  <1> DEFINE pos == StopIn(lines, from)
             s == SubSeq(lines, from, pos - 1)
             r == Run(lines, from, pos - 1)
  <1>1. pos \in from + 1 .. Len(lines) + 1 /\ r.open /\ ~r.failed
    BY FrameHolds
  <1>2. pos \in from .. Len(lines) + 1 /\ pos - 1 \in from - 1 .. Len(lines)
    BY <1>1
  <1>3. r \in RunState
    BY <1>2, RunType
  <1>4. /\ s \in Seq(AllKinds) /\ Len(s) = pos - from
        /\ \A k \in 1 .. pos - from : s[k] = lines[from + k - 1]
        /\ Run(s, 1, Len(s)) = r
    BY <1>2, SliceRun
  <1> HIDE DEF s, pos, r
  <1>5. ~WholeRun(s).failed
    <2>1. EofFields(r, EngineEof(r))
      BY <1>3, EofEffect
    <2> QED
      BY <1>1, <1>4, <2>1 DEF WholeRun, EofFields
  <1>6. "raw" \notin Range(s)
    <2> SUFFICES ASSUME "raw" \in Range(s) PROVE FALSE
      OBVIOUS
    <2>1. PICK k \in DOMAIN s : s[k] = "raw"
      BY DEF Range
    <2>2. k \in 1 .. pos - from /\ from + k - 1 \in 1 .. Len(lines)
      BY <1>2, <1>4
    <2>3. lines[from + k - 1] = "raw" /\ from + k - 1 \in DOMAIN lines
      BY <1>4, <2>1, <2>2
    <2> QED
      BY <2>3 DEF Range
  <1> QED
    BY <1>5, <1>6 DEF SliceIn, s, pos

-----------------------------------------------------------------------------
(* A walk on an accepted stream is in step with one run over all of it.    *)

\* r is q with n documents more.
Ahead(r, q, n) ==
  /\ (r.open <=> q.open) /\ (r.saw <=> q.saw) /\ (r.failed <=> q.failed)
  /\ r.opens = q.opens + n /\ r.ended = q.ended + n

\* A line keeps two runs in step.
LEMMA AheadStep ==
  ASSUME NEW r \in RunState, NEW q \in RunState, NEW n \in Nat, NEW kind \in AllKinds, Ahead(r, q, n)
  PROVE  Ahead(EngineLine(r, kind), EngineLine(q, kind), n)
  <1> DEFINE R == EngineLine(r, kind)
             Q == EngineLine(q, kind)
  <1>1. LineFields(r, kind, R) /\ LineFields(q, kind, Q)
    BY LineEffect
  <1> HIDE DEF R, Q
  <1>2. CASE r.failed
    BY <1>1, <1>2 DEF LineFields, Ahead, R, Q
  <1>3. CASE ~r.failed
    <2>1. (R.open <=> Q.open) /\ (R.saw <=> Q.saw) /\ (R.failed <=> Q.failed)
      BY <1>1, <1>3 DEF LineFields, Ahead
    <2>2. R.opens = Q.opens + n
      BY <1>1, <1>3 DEF LineFields, Ahead, RunState
    <2>3. R.ended = Q.ended + n
      BY <1>1, <1>3 DEF LineFields, Ahead, RunState
    <2> QED
      BY <2>1, <2>2, <2>3 DEF Ahead, R, Q
  <1> QED
    BY <1>2, <1>3

\* Two runs in step after one line are in step after every later line.
LEMMA AheadStays ==
  ASSUME NEW lines \in Seq(AllKinds), NEW from \in 1 .. Len(lines) + 1, NEW n \in Nat,
         NEW i \in from .. Len(lines), Ahead(Run(lines, 1, i), Run(lines, from, i), n)
  PROVE  \A j \in i .. Len(lines) : Ahead(Run(lines, 1, j), Run(lines, from, j), n)
  <1> DEFINE P(m) == Ahead(Run(lines, 1, m), Run(lines, from, m), n)
             T == {k \in Nat : i + k <= Len(lines) => P(i + k)}
  <1>1. 0 \in T
    <2>1. i + 0 = i
      OBVIOUS
    <2> QED
      BY <2>1
  <1>2. ASSUME NEW k \in Nat, k \in T PROVE k + 1 \in T
    <2> SUFFICES ASSUME i + (k + 1) <= Len(lines)
                 PROVE  P(i + (k + 1))
      OBVIOUS
    <2> DEFINE m == i + k + 1
    <2>1. m \in from .. Len(lines) /\ m \in 1 .. Len(lines) /\ i + (k + 1) = m /\ m - 1 = i + k
          /\ m - 1 \in from - 1 .. Len(lines) /\ m - 1 \in 1 - 1 .. Len(lines) /\ 1 \in 1 .. Len(lines) + 1
      OBVIOUS
    <2>2. P(m - 1)
      BY <1>2, <2>1
    <2> HIDE DEF m
    <2>3. Run(lines, 1, m) = EngineLine(Run(lines, 1, m - 1), lines[m]) /\ Run(lines, 1, m - 1) \in RunState
      BY <2>1, RunSteps, RunType
    <2>4. Run(lines, from, m) = EngineLine(Run(lines, from, m - 1), lines[m]) /\ Run(lines, from, m - 1) \in RunState
      BY <2>1, RunSteps, RunType
    <2>5. lines[m] \in AllKinds
      BY <2>1
    <2>6. P(m)
      BY <2>2, <2>3, <2>4, <2>5, AheadStep
    <2> QED
      BY <2>1, <2>6
  <1>3. Nat \subseteq T
    <2> HIDE DEF T
    <2> QED
      BY <1>1, <1>2, SetInduction
  <1>4. ASSUME NEW j \in i .. Len(lines) PROVE P(j)
    <2>1. j - i \in Nat /\ i + (j - i) = j
      OBVIOUS
    <2>2. j - i \in T
      BY <1>3, <2>1
    <2> HIDE DEF P
    <2> QED
      BY <2>1, <2>2
  <1> QED
    BY <1>4

\* A stream one run accepts, and that the encoding check of every slice accepts.
Accepted(lines) == ~WholeRun(lines).failed /\ "raw" \notin Range(lines)

\* The walk stands at line c after n documents as the one run does.
Aligned(lines, c, n) ==
  /\ Run(lines, 1, c - 1).opens = n
  /\ \A i \in c .. Len(lines) : Ahead(Run(lines, 1, i), Run(lines, c, i), n)
  /\ c > Len(lines) => WholeRun(lines).ended = n

\* The one run of an accepted stream has not failed after any line.
LEMMA AcceptedRun ==
  ASSUME NEW lines \in Seq(AllKinds), Accepted(lines)
  PROVE  /\ \A i \in 0 .. Len(lines) : Run(lines, 1, i) \in RunState /\ ~Run(lines, 1, i).failed
         /\ EofFields(Run(lines, 1, Len(lines)), WholeRun(lines))
  <1> DEFINE e == Run(lines, 1, Len(lines))
  <1>1. 1 \in 1 .. Len(lines) + 1 /\ 1 - 1 = 0 /\ Len(lines) \in 0 .. Len(lines)
    OBVIOUS
  <1>2. \A i \in 0 .. Len(lines) : Run(lines, 1, i) \in RunState
    BY <1>1, RunType
  <1>3. EofFields(e, WholeRun(lines))
    BY <1>1, <1>2, EofEffect DEF WholeRun
  <1>4. ~e.failed
    BY <1>3 DEF Accepted, EofFields
  <1>5. ASSUME NEW i \in 0 .. Len(lines) PROVE ~Run(lines, 1, i).failed
    <2>1. i \in 1 - 1 .. Len(lines) /\ Len(lines) \in i .. Len(lines)
      OBVIOUS
    <2> QED
      BY <1>1, <1>4, <2>1, RunGrows
  <1> QED
    BY <1>2, <1>3, <1>5

\* The walk begins in step.
LEMMA AlignedStart ==
  ASSUME NEW lines \in Seq(AllKinds), Accepted(lines)
  PROVE  Aligned(lines, 1, 0)
  <1>1. 1 \in 1 .. Len(lines) + 1 /\ 1 - 1 = 0
    OBVIOUS
  <1>2. Run(lines, 1, 0) = Fresh
    BY <1>1, RunSteps
  <1>3. ASSUME NEW i \in 1 .. Len(lines) PROVE Ahead(Run(lines, 1, i), Run(lines, 1, i), 0)
    <2>1. Run(lines, 1, i) \in RunState
      BY <1>1, RunType
    <2> QED
      BY <2>1 DEF Ahead, RunState
  <1>4. 1 > Len(lines) => WholeRun(lines).ended = 0
    <2> SUFFICES ASSUME 1 > Len(lines) PROVE WholeRun(lines).ended = 0
      OBVIOUS
    <2>1. Len(lines) = 0
      OBVIOUS
    <2>2. EofFields(Fresh, WholeRun(lines))
      BY <1>2, <2>1, AcceptedRun
    <2> QED
      BY <2>2 DEF EofFields, Fresh
  <1> QED
    BY <1>1, <1>2, <1>3, <1>4 DEF Aligned, Fresh

\* On an accepted stream a frame in step does not fail.
LEMMA AlignedNoFailure ==
  ASSUME NEW lines \in Seq(AllKinds), Accepted(lines), NEW c \in 1 .. Len(lines) + 1, NEW n \in Nat,
         Aligned(lines, c, n)
  PROVE  ~FrameState(lines, c).failed
  <1> DEFINE pos == StopIn(lines, c)
             q == FrameState(lines, c)
  <1>1. /\ pos \in c .. Len(lines) + 1 /\ q \in RunState
        /\ pos <= Len(lines) => q = Run(lines, c, pos)
        /\ pos > Len(lines) => q = EngineEof(Run(lines, c, Len(lines)))
    BY FrameStops
  <1>2. CASE c > Len(lines)
    <2>1. c = Len(lines) + 1
      BY <1>2
    <2> QED
      BY <2>1, FrameAtEnd
  <1>3. CASE c <= Len(lines)
    <2>1. CASE pos <= Len(lines)
      <3>1. pos \in c .. Len(lines) /\ pos \in 0 .. Len(lines)
        BY <1>1, <2>1
      <3>2. Ahead(Run(lines, 1, pos), Run(lines, c, pos), n) /\ ~Run(lines, 1, pos).failed
        BY <3>1, AcceptedRun DEF Aligned
      <3> QED
        BY <1>1, <2>1, <3>2 DEF Ahead
    <2>2. CASE pos > Len(lines)
      <3> DEFINE w == Run(lines, 1, Len(lines))
                 r == Run(lines, c, Len(lines))
      <3>1. Len(lines) \in c .. Len(lines) /\ Len(lines) \in c - 1 .. Len(lines)
        BY <1>3
      <3>2. Ahead(w, r, n) /\ EofFields(w, WholeRun(lines))
        BY <3>1, AcceptedRun DEF Aligned
      <3>3. r \in RunState
        BY <3>1, RunType
      <3>4. EofFields(r, q)
        BY <1>1, <2>2, <3>3, EofEffect
      <3> HIDE DEF w, r, q
      <3> QED
        BY <3>2, <3>4 DEF Accepted, Ahead, EofFields, q
    <2> QED
      BY <1>1, <2>1, <2>2
  <1> QED
    BY <1>2, <1>3

\* When a frame in step finds no document, the one run has ended as many as the walk gave.
LEMMA AlignedOver ==
  ASSUME NEW lines \in Seq(AllKinds), Accepted(lines), NEW c \in 1 .. Len(lines) + 1, NEW n \in Nat,
         Aligned(lines, c, n), ~FrameState(lines, c).failed, ~(FrameState(lines, c).ended > 0)
  PROVE  WholeRun(lines).ended = n
  <1>1. CASE c > Len(lines)
    BY <1>1 DEF Aligned
  <1>2. CASE c <= Len(lines)
    <2> DEFINE w == Run(lines, 1, Len(lines))
               r == Run(lines, c, Len(lines))
    <2>1. Len(lines) \in c .. Len(lines)
      BY <1>2
    <2>2. Ahead(w, r, n) /\ EofFields(w, WholeRun(lines))
      BY <2>1, AcceptedRun DEF Aligned
    <2>3. ~r.open /\ r.ended = 0
      BY FrameEmpty
    <2> HIDE DEF w, r
    <2> QED
      BY <2>2, <2>3 DEF Ahead, EofFields
  <1> QED
    BY <1>1, <1>2

\* The document of a frame in step is the next one of the one run.
LEMMA AlignedOpener ==
  ASSUME NEW lines \in Seq(AllKinds), Accepted(lines), NEW c \in 1 .. Len(lines) + 1, NEW n \in Nat,
         Aligned(lines, c, n), ~FrameState(lines, c).failed, FrameState(lines, c).ended > 0
  PROVE  OpenerIn(lines, c) = Least({i \in DOMAIN lines : Run(lines, 1, i).opens = n + 1})
  <1> DEFINE pos == StopIn(lines, c)
             o == OpenerIn(lines, c)
             I == {i \in DOMAIN lines : Run(lines, 1, i).opens = n + 1}
  <1>1. pos \in c + 1 .. Len(lines) + 1 /\ Run(lines, c, pos - 1).opens = 1
    BY FrameHolds
  <1>2. o \in c .. pos - 1 /\ Opening(lines, o)
    BY FrameOpens
  <1>3. \A j \in c .. Len(lines) : Opening(lines, j) => o <= j
    BY OpenerIs
  <1>4. \A j \in c - 1 .. pos - 1 : ~Run(lines, c, j).failed
    BY FrameStops
  <1> HIDE DEF pos, o
  <1>5. o \in c .. Len(lines) /\ o \in c - 1 .. pos - 1 /\ o \in c - 1 .. Len(lines)
        /\ pos - 1 \in o .. Len(lines) /\ DOMAIN lines = 1 .. Len(lines)
    BY <1>1, <1>2
  <1>6. o \in I
    <2>1. Run(lines, c, o).opens <= 1
      BY <1>1, <1>5, RunGrows
    <2>2. Run(lines, c, o).opens # 0
      <3>1. ~\A j \in c .. o : ~Opening(lines, j)
        BY <1>2
      <3> QED
        BY <1>4, <1>5, <3>1, RunCounts
    <2>3. Run(lines, c, o) \in RunState
      BY <1>5, RunType
    <2>4. Run(lines, c, o).opens = 1
      BY <2>1, <2>2, <2>3 DEF RunState
    <2>5. Run(lines, 1, o).opens = n + 1
      BY <1>5, <2>4 DEF Aligned, Ahead
    <2> QED
      BY <1>5, <2>5
  <1>7. ASSUME NEW i \in I PROVE o <= i
    <2> SUFFICES ASSUME i < o PROVE FALSE
      BY <1>5
    <2>1. CASE i < c
      <3>1. i \in 1 - 1 .. Len(lines) /\ c - 1 \in i .. Len(lines) /\ 1 \in 1 .. Len(lines) + 1
        BY <1>5, <2>1
      <3>2. Run(lines, 1, i).opens <= Run(lines, 1, c - 1).opens
        BY <3>1, RunGrows
      <3> QED
        BY <3>2 DEF Aligned
    <2>2. CASE i >= c
      <3>1. i \in c .. Len(lines) /\ i \in c - 1 .. pos - 1 /\ i \in c - 1 .. Len(lines)
        BY <1>5, <1>2, <2>2
      <3>2. \A j \in c .. i : ~Opening(lines, j)
        BY <1>3, <1>5, <3>1
      <3>3. Run(lines, c, i).opens = 0
        BY <1>4, <3>1, <3>2, RunCounts
      <3>4. Run(lines, 1, i).opens = 0 + n
        BY <3>1, <3>3 DEF Aligned, Ahead
      <3> QED
        BY <3>4
    <2> QED
      BY <1>5, <2>1, <2>2
  <1>8. I \in SUBSET Nat
    BY <1>5
  <1> QED
    BY <1>6, <1>7, <1>8, LeastEquals DEF o

\* The walk is in step again at the end of the frame.
LEMMA AlignedNext ==
  ASSUME NEW lines \in Seq(AllKinds), Accepted(lines), NEW c \in 1 .. Len(lines) + 1, NEW n \in Nat,
         Aligned(lines, c, n), ~FrameState(lines, c).failed, FrameState(lines, c).ended > 0
  PROVE  Aligned(lines, StopIn(lines, c), n + 1)
  <1> DEFINE pos == StopIn(lines, c)
             r == Run(lines, c, pos - 1)
             w == Run(lines, 1, pos - 1)
  <1>1. /\ pos \in c + 1 .. Len(lines) + 1
        /\ r.open /\ r.opens = 1 /\ r.ended = 0 /\ ~r.failed
        /\ pos <= Len(lines) => lines[pos] \in {"start", "end"}
    BY FrameHolds
  <1>2. pos - 1 \in c .. Len(lines) /\ pos - 1 \in 0 .. Len(lines) /\ pos \in 1 .. Len(lines) + 1
    BY <1>1
  <1>3. Ahead(w, r, n)
    BY <1>2 DEF Aligned
  <1>4. w \in RunState /\ ~w.failed
    BY <1>2, AcceptedRun
  <1> HIDE DEF pos, r, w
  <1>5. w.open /\ w.opens = n + 1 /\ w.ended = n
    BY <1>1, <1>3 DEF Ahead
  <1>6. CASE pos > Len(lines)
    <2>1. pos - 1 = Len(lines)
      BY <1>1, <1>6
    <2>2. EofFields(w, WholeRun(lines))
      BY <2>1, AcceptedRun DEF w
    <2>3. WholeRun(lines).ended = n + 1
      BY <1>4, <1>5, <2>2 DEF EofFields
    <2>4. pos .. Len(lines) = {}
      BY <1>1, <1>6
    <2> QED
      BY <1>5, <2>3, <2>4 DEF Aligned, w, pos
  <1>7. CASE pos <= Len(lines)
    <2> DEFINE W == Run(lines, 1, pos)
               Q == Run(lines, pos, pos)
    <2>1. pos \in 1 .. Len(lines) /\ 1 \in 1 .. Len(lines) + 1 /\ pos \in pos .. Len(lines)
      BY <1>1, <1>7
    <2>2. lines[pos] \in AllKinds
      BY <2>1
    <2>3. LineFields(w, lines[pos], W)
      BY <1>4, <2>1, <2>2, RunSteps, LineEffect DEF w
    <2>4. LineFields(Fresh, lines[pos], Q)
      BY <1>2, <2>1, <2>2, RunSteps, FreshType, LineEffect
    <2> HIDE DEF W, Q
    <2>5. Ahead(W, Q, n + 1)
      <3>1. CASE lines[pos] = "start"
        BY <1>4, <1>5, <2>3, <2>4, <3>1 DEF LineFields, Ahead, Fresh
      <3>2. CASE lines[pos] = "end"
        BY <1>4, <1>5, <2>3, <2>4, <3>2 DEF LineFields, Ahead, Fresh
      <3> QED
        BY <1>1, <1>7, <3>1, <3>2
    <2>6. \A i \in pos .. Len(lines) : Ahead(Run(lines, 1, i), Run(lines, pos, i), n + 1)
      BY <1>2, <2>1, <2>5, AheadStays DEF W, Q
    <2>7. ~(pos > Len(lines))
      BY <2>1
    <2> QED
      BY <1>5, <2>6, <2>7 DEF Aligned, w, pos
  <1> QED
    BY <1>1, <1>6, <1>7

-----------------------------------------------------------------------------
(* The walk: types and progress.                                           *)

WalkInv ==
  /\ TypeOK
  /\ ~done => index <= cursor - 1
  /\ out = "over" => done

Entry == [kind : {"doc", "failed", "fatal"}, at : 1 .. Len(buf) + 1, status : Status, ix : Nat]

\* The lines of the buffer are lines of the engine.
LEMMA BufferLines == TypeOK => buf \in Seq(AllKinds) /\ Len(buf) \in Nat /\ cursor \in 1 .. Len(buf) + 1
  <1> SUFFICES ASSUME TypeOK PROVE buf \in Seq(AllKinds) /\ Len(buf) \in Nat /\ cursor \in 1 .. Len(buf) + 1
    OBVIOUS
  <1>1. buf \in Seq(Kinds)
    BY DEF TypeOK
  <1>2. \A i \in DOMAIN buf : buf[i] \in AllKinds
    BY <1>1, KindsAssumption
  <1> QED
    BY <1>1, <1>2 DEF TypeOK

\* The resynchronisation finds a line after the frame's first and skips no marker.
LEMMA NextMarkerIs ==
  ASSUME buf \in Seq(AllKinds), NEW c \in 1 .. Len(buf)
  PROVE  /\ next_marker(c) \in c + 1 .. Len(buf) + 1
         /\ \A j \in c + 1 .. Len(buf) : buf[j] \in {"start", "end"} => next_marker(c) <= j
  <1> DEFINE M == {i \in c + 1 .. Len(buf) : buf[i] \in {"start", "end"}}
  <1>1. M \in SUBSET Nat /\ Len(buf) \in Nat
    OBVIOUS
  <1>2. CASE M = {}
    BY <1>1, <1>2 DEF next_marker
  <1>3. CASE M # {}
    <2>1. next_marker(c) = Least(M)
      BY <1>3 DEF next_marker
    <2>2. Least(M) \in M /\ \A k \in M : Least(M) <= k
      BY <1>1, <1>3, LeastIs
    <2> QED
      BY <1>1, <2>1, <2>2
  <1> QED
    BY <1>2, <1>3

\* A frame that fails, or that holds a document, begins before the end.
LEMMA FrameBeforeEnd ==
  ASSUME TypeOK, BoundaryRun(cursor).failed \/ BoundaryRun(cursor).docEnds > 0
  PROVE  cursor \in 1 .. Len(buf)
  <1>1. buf \in Seq(AllKinds) /\ Len(buf) \in Nat /\ cursor \in 1 .. Len(buf) + 1
    BY BufferLines
  <1>2. FrameState(buf, cursor).failed \/ FrameState(buf, cursor).ended > 0
    BY OnTheBuffer
  <1>3. cursor # Len(buf) + 1
    <2> SUFFICES ASSUME cursor = Len(buf) + 1 PROVE FALSE
      OBVIOUS
    <2>1. ~FrameState(buf, cursor).failed /\ FrameState(buf, cursor).ended = 0
      BY <1>1, FrameAtEnd
    <2> QED
      BY <1>2, <2>1
  <1> QED
    BY <1>1, <1>3

\* What one more report does to the history.
LEMMA Recorded ==
  ASSUME TypeOK, NEW kind \in {"doc", "failed", "fatal"}, NEW status \in Status
  PROVE  LET l == Reported(kind, status)
             e == [kind |-> kind, at |-> cursor, status |-> status, ix |-> index]
         IN  /\ l \in Seq(Entry) /\ Len(l) = Len(log) + 1 /\ Len(log) \in Nat
             /\ \A n \in 1 .. Len(log) : l[n] = log[n]
             /\ l[Len(log) + 1] = e
             /\ l # log
  <1> DEFINE e == [kind |-> kind, at |-> cursor, status |-> status, ix |-> index]
  <1>1. log \in Seq(Entry) /\ cursor \in 1 .. Len(buf) + 1 /\ index \in Nat
    BY DEF TypeOK, Entry
  <1>2. e \in Entry
    BY <1>1 DEF Entry
  <1> HIDE DEF e
  <1>3. Reported(kind, status) = Append(log, e)
    BY DEF Reported, e
  <1>4. Append(log, e) \in Seq(Entry) /\ Len(Append(log, e)) = Len(log) + 1 /\ Len(log) \in Nat
        /\ (\A n \in 1 .. Len(log) : Append(log, e)[n] = log[n])
        /\ Append(log, e)[Len(log) + 1] = e
    BY <1>1, <1>2
  <1>5. Append(log, e) # log
    BY <1>4
  <1> QED
    BY <1>3, <1>4, <1>5 DEF e

\* The iterator begins well typed.
LEMMA WalkInit == Init => WalkInv
  <1> SUFFICES ASSUME Init PROVE WalkInv
    OBVIOUS
  <1>1. buf \in Seq(Kinds)
    <2>1. buf \in BoundedSeq(Kinds, MaxLines)
      BY DEF Init
    <2>2. PICK m \in 0 .. MaxLines : buf \in [1 .. m -> Kinds]
      BY <2>1 DEF BoundedSeq, SeqOf
    <2> QED
      BY <2>2, MaxLinesAssumption
  <1>2. Len(buf) \in Nat /\ cursor \in 1 .. Len(buf) + 1 /\ index \in 0 .. Len(buf)
    BY <1>1 DEF Init
  <1>3. last \in [status : Status, off : 0 .. Len(buf), len : 0 .. Len(buf)]
    BY <1>2 DEF Init, Status
  <1>4. log \in Seq([kind : {"doc", "failed", "fatal"}, at : 1 .. Len(buf) + 1, status : Status, ix : Nat])
    BY DEF Init
  <1>5. /\ space \in {"caller", "iterator"} /\ gated \in BOOLEAN /\ done \in BOOLEAN /\ freed \in BOOLEAN
        /\ out \in {"none", "doc", "failed", "over", "fatal"} /\ held \subseteq {"caller", "iterator"}
        /\ out # "over"
    BY DEF Init
  <1>6. index <= cursor - 1
    BY DEF Init
  <1> QED
    BY <1>1, <1>2, <1>3, <1>4, <1>5, <1>6 DEF WalkInv, TypeOK

\* it_fail keeps the type of the last step.
LEMMA FailType ==
  ASSUME TypeOK, NEW status \in Status
  PROVE  /\ it_fail(status) \in [status : Status, off : 0 .. Len(buf), len : 0 .. Len(buf)]
         /\ it_fail(status).len = 0
  <1>1. last \in [status : Status, off : 0 .. Len(buf), len : 0 .. Len(buf)] /\ Len(buf) \in Nat
    BY DEF TypeOK
  <1> DEFINE R == [status : Status, off : 0 .. Len(buf), len : 0 .. Len(buf)]
             l == [last EXCEPT !.status = status]
  <1>2. l \in R
    BY <1>1
  <1>3. it_fail(status) = [l EXCEPT !.len = 0]
    BY DEF it_fail
  <1> HIDE DEF l
  <1>4. [l EXCEPT !.len = 0] \in R /\ [l EXCEPT !.len = 0].len = 0
    BY <1>1, <1>2
  <1> QED
    BY <1>3, <1>4

\* A failed document keeps the types and moves the cursor or ends the stream.
LEMMA ResyncTypes ==
  ASSUME WalkInv, ~done, cursor \in 1 .. Len(buf), NEW status \in Status, Gate, FailAndResync(status)
  PROVE  WalkInv' /\ (cursor' > cursor \/ done')
  <1> DEFINE at == next_marker(cursor)
  <1>0. TypeOK
    BY DEF WalkInv
  <1>1. buf \in Seq(AllKinds) /\ Len(buf) \in Nat
    BY <1>0, BufferLines
  <1>2. at \in cursor + 1 .. Len(buf) + 1
    BY <1>1, NextMarkerIs
  <1>3. /\ last' = it_fail(status) /\ out' = "failed"
        /\ log' = Reported("failed", status) /\ index' = index + 1
        /\ buf' = buf /\ held' = held /\ freed' = freed
        /\ IF at > Len(buf) THEN done' = TRUE /\ cursor' = cursor ELSE cursor' = at /\ done' = done
    BY DEF FailAndResync
  <1> HIDE DEF at
  <1>4. log' \in Seq(Entry)
    BY <1>0, <1>3, Recorded
  <1>5. last' \in [status : Status, off : 0 .. Len(buf), len : 0 .. Len(buf)]
    BY <1>0, <1>3, FailType
  <1>6. space' \in {"caller", "iterator"} /\ gated' \in BOOLEAN
    BY <1>0 DEF Gate, TypeOK
  <1>7. cursor' \in 1 .. Len(buf) + 1 /\ done' \in BOOLEAN /\ (cursor' > cursor \/ done')
    <2>1. CASE at > Len(buf)
      BY <1>1, <1>3, <2>1
    <2>2. CASE ~(at > Len(buf))
      <3>1. cursor' = at /\ done' = done
        BY <1>3, <2>2
      <3>2. at > cursor /\ at \in 1 .. Len(buf) + 1 /\ done \in BOOLEAN
        BY <1>0, <1>1, <1>2 DEF TypeOK
      <3> QED
        BY <3>1, <3>2
    <2> QED
      BY <2>1, <2>2
  <1>8. index' \in 0 .. Len(buf) /\ (~done' => index' <= cursor' - 1)
    BY <1>0, <1>1, <1>2, <1>3 DEF WalkInv, TypeOK
  <1> QED
    BY <1>0, <1>3, <1>4, <1>5, <1>6, <1>7, <1>8 DEF WalkInv, TypeOK, Entry

\* Every step keeps the types, and a step that reports leaves fewer lines or ends the stream.
LEMMA WalkStep ==
  ASSUME WalkInv, [Next]_vars
  PROVE  WalkInv' /\ (log' # log => cursor' > cursor \/ done')
  <1>0. TypeOK /\ buf \in Seq(AllKinds) /\ Len(buf) \in Nat /\ cursor \in 1 .. Len(buf) + 1
    BY BufferLines DEF WalkInv
  <1>s. \A st \in Status : it_fail(st) \in [status : Status, off : 0 .. Len(buf), len : 0 .. Len(buf)]
    BY <1>0, FailType
  <1>t. {"OK", "PARSE", "MEMORY", "ENCODING"} = Status
    BY DEF Status
  <1>1. CASE GateFails
    <2>1. log' \in Seq(Entry)
      BY <1>0, <1>1, <1>t, Recorded DEF GateFails
    <2>2. last' \in [status : Status, off : 0 .. Len(buf), len : 0 .. Len(buf)]
      BY <1>1, <1>s, <1>t DEF GateFails
    <2> QED
      BY <1>0, <1>1, <2>1, <2>2 DEF GateFails, WalkInv, TypeOK, Entry
  <1>2. CASE StreamOver
    <2>1. last' \in [status : Status, off : 0 .. Len(buf), len : 0 .. Len(buf)]
      BY <1>2, <1>s, <1>t DEF StreamOver
    <2>2. space' \in {"caller", "iterator"} /\ gated' \in BOOLEAN
      BY <1>0, <1>2 DEF StreamOver, Gate, TypeOK
    <2> QED
      BY <1>0, <1>2, <2>1, <2>2 DEF StreamOver, WalkInv, TypeOK, Entry
  <1>3. CASE EngineFatal
    <2>1. log' \in Seq(Entry)
      BY <1>0, <1>3, <1>t, Recorded DEF EngineFatal
    <2>2. last' \in [status : Status, off : 0 .. Len(buf), len : 0 .. Len(buf)]
      BY <1>3, <1>s, <1>t DEF EngineFatal
    <2>3. space' \in {"caller", "iterator"} /\ gated' \in BOOLEAN
      BY <1>0, <1>3 DEF EngineFatal, Gate, TypeOK
    <2> QED
      BY <1>0, <1>3, <2>1, <2>2, <2>3 DEF EngineFatal, WalkInv, TypeOK, Entry
  <1>4. CASE DocumentFails
    <2>1. cursor \in 1 .. Len(buf)
      BY <1>0, <1>4, FrameBeforeEnd DEF DocumentFails
    <2> QED
      BY <1>4, <1>t, <2>1, ResyncTypes DEF DocumentFails
  <1>5. CASE SliceRefused
    <2>1. cursor \in 1 .. Len(buf)
      BY <1>0, <1>5, FrameBeforeEnd DEF SliceRefused
    <2>2. PICK status \in {SliceParse(cursor, BoundaryRun(cursor).pos)} \union
                          {"MEMORY" : f \in MayFail \intersect {"slice"}} : FailAndResync(status)
      BY <1>5 DEF SliceRefused
    <2>3. status \in Status
      BY <1>t, <2>2 DEF SliceParse
    <2> QED
      BY <1>5, <2>1, <2>2, <2>3, ResyncTypes DEF SliceRefused
  <1>6. CASE DocumentYielded
    <2> DEFINE pos == BoundaryRun(cursor).pos
    <2>1. pos = StopIn(buf, cursor) /\ ~FrameState(buf, cursor).failed /\ FrameState(buf, cursor).ended > 0
      BY <1>6, OnTheBuffer DEF DocumentYielded
    <2>2. pos \in cursor + 1 .. Len(buf) + 1
      BY <1>0, <2>1, FrameHolds
    <2>3. /\ last' = [status |-> "OK", off |-> cursor, len |-> pos - cursor] /\ cursor' = pos
          /\ out' = "doc" /\ log' = Reported("doc", "OK") /\ index' = index + 1
          /\ held' = held \union {space'} /\ buf' = buf /\ done' = done /\ freed' = freed /\ ~done /\ Gate
      BY <1>6 DEF DocumentYielded
    <2> HIDE DEF pos
    <2>4. log' \in Seq(Entry)
      BY <1>0, <1>t, <2>3, Recorded
    <2>5. last' \in [status : Status, off : 0 .. Len(buf), len : 0 .. Len(buf)]
      BY <1>0, <1>t, <2>2, <2>3
    <2>6. space' \in {"caller", "iterator"} /\ gated' \in BOOLEAN
      BY <1>0, <2>3 DEF Gate, TypeOK
    <2>7. cursor' \in 1 .. Len(buf) + 1 /\ cursor' > cursor
      BY <1>0, <2>2, <2>3
    <2>8. index' \in 0 .. Len(buf) /\ (~done' => index' <= cursor' - 1)
      BY <1>0, <2>2, <2>3 DEF WalkInv, TypeOK
    <2> QED
      BY <1>0, <2>3, <2>4, <2>5, <2>6, <2>7, <2>8 DEF WalkInv, TypeOK, Entry
  <1>7. CASE FreeDocuments \/ FreeIterator \/ AllFreed \/ UNCHANGED vars
    BY <1>0, <1>7 DEF FreeDocuments, FreeIterator, AllFreed, vars, WalkInv, TypeOK
  <1> QED
    BY <1>1, <1>2, <1>3, <1>4, <1>5, <1>6, <1>7 DEF Next

\* The walk stays well typed.
LEMMA WalkAlways == Spec => []WalkInv
  BY WalkInit, WalkStep, PTL DEF Spec

\* Every report moves the walk: a step that records a document or a failure leaves fewer lines
\* to read or ends the stream, whatever the lines are and whatever fails (stream_iter.c,
\* it_next_boundary, next_marker).
THEOREM EveryReportMoves == Spec => Progress
  <1>1. ASSUME WalkInv, [Next]_vars PROVE [log' # log => cursor' > cursor \/ done']_vars
    BY <1>1, WalkStep
  <1> QED
    BY <1>1, WalkAlways, PTL DEF Spec, Progress

-----------------------------------------------------------------------------
(* The slice of the last step, and one document per opener.                *)

\* A step that failed or ended the stream serves no slice.
LEMMA FailServesNothing ==
  ASSUME TypeOK, NEW status \in Status, last' = it_fail(status), out' # "doc"
  PROVE  SliceServesLastStep'
  <1>1. last'.len = 0
    BY FailType
  <1> QED
    BY <1>1 DEF SliceServesLastStep, Slice

\* The slice accessor keeps serving the last step.
LEMMA SliceStep ==
  ASSUME WalkInv, SliceServesLastStep, [Next]_vars
  PROVE  SliceServesLastStep'
  <1>0. TypeOK /\ buf \in Seq(AllKinds) /\ Len(buf) \in Nat /\ cursor \in 1 .. Len(buf) + 1
    BY BufferLines DEF WalkInv
  <1>t. {"OK", "PARSE", "MEMORY", "ENCODING"} = Status
    BY DEF Status
  <1>1. CASE GateFails
    BY <1>0, <1>1, <1>t, FailServesNothing DEF GateFails
  <1>2. CASE StreamOver
    BY <1>0, <1>2, <1>t, FailServesNothing DEF StreamOver
  <1>3. CASE EngineFatal
    BY <1>0, <1>3, <1>t, FailServesNothing DEF EngineFatal
  <1>4. CASE DocumentFails
    BY <1>0, <1>4, <1>t, FailServesNothing DEF DocumentFails, FailAndResync
  <1>5. CASE SliceRefused
    <2>1. PICK status \in {SliceParse(cursor, BoundaryRun(cursor).pos)} \union
                          {"MEMORY" : f \in MayFail \intersect {"slice"}} : FailAndResync(status)
      BY <1>5 DEF SliceRefused
    <2>2. status \in Status
      BY <1>t, <2>1 DEF SliceParse
    <2>3. last' = it_fail(status) /\ out' # "doc"
      BY <2>1 DEF FailAndResync
    <2> QED
      BY <1>0, <2>2, <2>3, FailServesNothing
  <1>6. CASE DocumentYielded
    <2> DEFINE pos == BoundaryRun(cursor).pos
    <2>1. pos = StopIn(buf, cursor) /\ ~FrameState(buf, cursor).failed /\ FrameState(buf, cursor).ended > 0
      BY <1>6, OnTheBuffer DEF DocumentYielded
    <2>2. pos \in cursor + 1 .. Len(buf) + 1
      BY <1>0, <2>1, FrameHolds
    <2>3. /\ last' = [status |-> "OK", off |-> cursor, len |-> pos - cursor] /\ cursor' = pos
          /\ out' = "doc" /\ log' = Reported("doc", "OK")
      BY <1>6 DEF DocumentYielded
    <2> HIDE DEF pos
    <2>4. log'[Len(log')].at = cursor
      <3>1. log'[Len(log')] = [kind |-> "doc", at |-> cursor, status |-> "OK", ix |-> index]
        BY <1>0, <1>t, <2>3, Recorded
      <3> QED
        BY <3>1
    <2>5. last'.status = "OK" /\ last'.off = cursor /\ last'.len = pos - cursor /\ last'.len # 0
      BY <1>0, <2>2, <2>3
    <2> QED
      BY <2>3, <2>4, <2>5 DEF SliceServesLastStep, Slice
  <1>7. CASE FreeDocuments \/ FreeIterator \/ AllFreed \/ UNCHANGED vars
    BY <1>7 DEF FreeDocuments, FreeIterator, AllFreed, vars, SliceServesLastStep, Slice
  <1> QED
    BY <1>1, <1>2, <1>3, <1>4, <1>5, <1>6, <1>7 DEF Next

\* Documents the host was given lie before the cursor and are opened at different lines.
DocumentsApart ==
  \A n \in Documents :
    /\ OpenerIn(buf, log[n].at) < cursor
    /\ \A m \in Documents : OpenerIn(buf, log[m].at) = OpenerIn(buf, log[n].at) => m = n

\* A marker from which a document frames and parses.
GoodMarker(lines, i) ==
  /\ lines[i] \in {"start", "end"}
  /\ ~FrameState(lines, i).failed /\ FrameState(lines, i).ended > 0
  /\ SliceIn(lines, i, StopIn(lines, i)) = "OK"

\* The good markers the walk has passed each gave the host a document.
MarkersServed ==
  NoFault =>
    \A i \in 1 .. Len(buf) : GoodMarker(buf, i) /\ (i < cursor \/ done) =>
      \E n \in Documents : OpenerIn(buf, log[n].at) = OpenerIn(buf, i)

\* What the steps do to the documents: nothing, a report that is not a document, or one more.
Reports(kind, status) ==
  /\ buf' = buf /\ Len(log') = Len(log) + 1 /\ DOMAIN log = 1 .. Len(log) /\ DOMAIN log' = 1 .. Len(log) + 1
  /\ \A n \in 1 .. Len(log) : log'[n] = log[n]
  /\ log'[Len(log) + 1].kind = kind /\ log'[Len(log) + 1].at = cursor
  /\ log'[Len(log) + 1].status = status /\ log'[Len(log) + 1].ix = index
  /\ Len(log) \in Nat

\* A report in the terms above.
LEMMA ReportIs ==
  ASSUME TypeOK, NEW kind \in {"doc", "failed", "fatal"}, NEW status \in Status,
         log' = Reported(kind, status), buf' = buf
  PROVE  /\ Reports(kind, status)
         /\ Documents' = IF kind = "doc" THEN Documents \union {Len(log) + 1} ELSE Documents
         /\ NoFault' => NoFault /\ kind # "fatal" /\ status # "MEMORY"
         /\ \A n \in Documents : n \in 1 .. Len(log) /\ log'[n] = log[n]
         /\ \A n \in Documents' : n \in Nat
  <1>1. log \in Seq(Entry)
    BY DEF TypeOK, Entry
  <1>2. /\ log' \in Seq(Entry) /\ Len(log') = Len(log) + 1 /\ Len(log) \in Nat
        /\ \A n \in 1 .. Len(log) : log'[n] = log[n]
        /\ log'[Len(log) + 1] = [kind |-> kind, at |-> cursor, status |-> status, ix |-> index]
    BY Recorded
  <1>3. DOMAIN log = 1 .. Len(log) /\ DOMAIN log' = 1 .. Len(log) + 1
    BY <1>1, <1>2
  <1>4. Reports(kind, status)
    BY <1>2, <1>3 DEF Reports
  <1>5. Documents' = IF kind = "doc" THEN Documents \union {Len(log) + 1} ELSE Documents
    BY <1>4 DEF Reports, Documents
  <1>6. ASSUME NoFault' PROVE NoFault /\ kind # "fatal" /\ status # "MEMORY"
    <2>1. \A n \in DOMAIN log' : log'[n].kind # "fatal" /\ log'[n].status # "MEMORY"
      BY <1>6 DEF NoFault
    <2>2. Len(log) + 1 \in DOMAIN log' /\ \A n \in DOMAIN log : n \in DOMAIN log' /\ log'[n] = log[n]
      BY <1>4 DEF Reports
    <2> QED
      BY <1>4, <2>1, <2>2 DEF Reports, NoFault
  <1>7. \A n \in Documents : n \in 1 .. Len(log) /\ log'[n] = log[n]
    BY <1>4 DEF Reports, Documents
  <1>8. \A n \in Documents' : n \in Nat
    BY <1>2, <1>5, <1>7
  <1> QED
    BY <1>4, <1>5, <1>6, <1>7, <1>8

\* A recorded frame begins inside the buffer or at its end.
LEMMA EntriesInside ==
  ASSUME TypeOK, NEW n \in DOMAIN log
  PROVE  log[n].at \in 1 .. Len(buf) + 1
  <1>1. log \in Seq(Entry)
    BY DEF TypeOK, Entry
  <1>2. log[n] \in Entry
    BY <1>1
  <1> QED
    BY <1>2 DEF Entry

\* A step that gives no document keeps them apart.
LEMMA ApartKept ==
  ASSUME WalkInv, DocumentsApart, Documents' = Documents, \A n \in Documents : log'[n] = log[n],
         buf' = buf, cursor' >= cursor, cursor' \in Nat
  PROVE  DocumentsApart'
  <1> SUFFICES ASSUME NEW n \in Documents
               PROVE  /\ OpenerIn(buf, log[n].at) < cursor'
                      /\ \A m \in Documents : OpenerIn(buf, log[m].at) = OpenerIn(buf, log[n].at) => m = n
    BY DEF DocumentsApart
  <1>1. OpenerIn(buf, log[n].at) < cursor
        /\ \A m \in Documents : OpenerIn(buf, log[m].at) = OpenerIn(buf, log[n].at) => m = n
    BY DEF DocumentsApart
  <1>2. TypeOK /\ buf \in Seq(AllKinds) /\ cursor \in Nat
    BY BufferLines DEF WalkInv
  <1>3. log[n].at \in 1 .. Len(buf) + 1
    BY <1>2, EntriesInside DEF Documents
  <1>4. OpenerIn(buf, log[n].at) \in Nat
    BY <1>2, <1>3, OpenerIs
  <1> QED
    BY <1>1, <1>2, <1>4

\* A failed document serves every good marker it passes: there is none.
LEMMA ResyncServes ==
  ASSUME WalkInv, DocumentsApart, MarkersServed, ~done, cursor \in 1 .. Len(buf),
         NEW status \in Status, FailAndResync(status),
         status # "MEMORY" => ~GoodMarker(buf, cursor)
  PROVE  DocumentsApart' /\ MarkersServed'
  <1> DEFINE at == next_marker(cursor)
  <1>0. TypeOK /\ buf \in Seq(AllKinds) /\ Len(buf) \in Nat /\ cursor \in 1 .. Len(buf) + 1
    BY BufferLines DEF WalkInv
  <1>1. /\ at \in cursor + 1 .. Len(buf) + 1
        /\ \A j \in cursor + 1 .. Len(buf) : buf[j] \in {"start", "end"} => at <= j
    BY <1>0, NextMarkerIs
  <1>2. /\ log' = Reported("failed", status) /\ buf' = buf
        /\ IF at > Len(buf) THEN done' = TRUE /\ cursor' = cursor ELSE cursor' = at /\ done' = done
    BY DEF FailAndResync
  <1>3. /\ Documents' = Documents /\ (NoFault' => NoFault /\ status # "MEMORY")
        /\ \A n \in Documents : log'[n] = log[n]
    BY <1>0, <1>2, ReportIs
  <1> HIDE DEF at
  <1>4. cursor' >= cursor /\ cursor' \in Nat
    BY <1>0, <1>1, <1>2
  <1>5. DocumentsApart'
    BY <1>2, <1>3, <1>4, ApartKept
  <1>6. ASSUME NoFault', NEW i \in 1 .. Len(buf), GoodMarker(buf, i), i < cursor' \/ done'
        PROVE  \E n \in Documents : OpenerIn(buf, log[n].at) = OpenerIn(buf, i)
    <2>1. i # cursor
      BY <1>3, <1>6
    <2>2. i < cursor
      <3> SUFFICES ASSUME i \in cursor + 1 .. Len(buf) PROVE FALSE
        BY <1>0, <2>1
      <3>1. at <= i
        BY <1>1, <1>6 DEF GoodMarker
      <3>2. ~(at > Len(buf))
        BY <1>0, <1>1, <3>1
      <3> QED
        BY <1>0, <1>1, <1>2, <1>6, <3>1, <3>2
    <2> QED
      BY <1>3, <1>6, <2>2 DEF MarkersServed
  <1>7. MarkersServed'
    BY <1>2, <1>3, <1>6 DEF MarkersServed
  <1> QED
    BY <1>5, <1>7

\* A frame that is given serves every good marker it passes: what it opens is what they open.
LEMMA YieldServes ==
  ASSUME WalkInv, DocumentsApart, MarkersServed, DocumentYielded
  PROVE  DocumentsApart' /\ MarkersServed'
  <1> DEFINE pos == StopIn(buf, cursor)
             o == OpenerIn(buf, cursor)
             N == Len(log) + 1
  <1>0. TypeOK /\ buf \in Seq(AllKinds) /\ Len(buf) \in Nat /\ cursor \in 1 .. Len(buf) + 1
    BY BufferLines DEF WalkInv
  <1>1. /\ ~FrameState(buf, cursor).failed /\ FrameState(buf, cursor).ended > 0
        /\ cursor' = pos /\ buf' = buf /\ done' = done /\ ~done /\ log' = Reported("doc", "OK")
    BY OnTheBuffer DEF DocumentYielded
  <1>2. pos \in cursor + 1 .. Len(buf) + 1
    BY <1>0, <1>1, FrameHolds
  <1>3. o \in cursor .. pos - 1
    BY <1>0, <1>1, FrameOpens
  <1>4. \A i \in cursor .. pos - 1 : buf[i] \in {"start", "end"} => OpenerIn(buf, i) = o
    <2> SUFFICES ASSUME NEW i \in cursor .. pos - 1, buf[i] \in {"start", "end"} PROVE OpenerIn(buf, i) = o
      OBVIOUS
    <2>1. \A j \in cursor .. i - 1 : ~Opening(buf, j)
      BY <1>0, MarkerInFrame
    <2>2. i \in cursor .. Len(buf) + 1
      BY <1>2
    <2> QED
      BY <1>0, <2>1, <2>2, OpenerSkips
  <1>5. /\ Reports("doc", "OK") /\ Documents' = Documents \union {N} /\ (NoFault' => NoFault)
        /\ \A n \in Documents : n \in 1 .. Len(log) /\ log'[n] = log[n]
    BY <1>0, <1>1, ReportIs DEF Status
  <1>6. log'[N].at = cursor /\ N \notin Documents
    BY <1>5 DEF Reports
  <1>7. \A n \in Documents : OpenerIn(buf, log[n].at) \in Nat /\ OpenerIn(buf, log[n].at) < cursor
    <2> SUFFICES ASSUME NEW n \in Documents PROVE OpenerIn(buf, log[n].at) \in Nat
      BY DEF DocumentsApart
    <2>1. log[n].at \in 1 .. Len(buf) + 1
      BY <1>0, EntriesInside DEF Documents
    <2> QED
      BY <1>0, <2>1, OpenerIs
  <1> HIDE DEF pos, o, N
  <1>8. \A n \in Documents' : OpenerIn(buf, log'[n].at) < pos
    <2> SUFFICES ASSUME NEW n \in Documents' PROVE OpenerIn(buf, log'[n].at) < pos
      OBVIOUS
    <2>1. CASE n = N
      BY <1>0, <1>2, <1>3, <1>6, <2>1 DEF o
    <2>2. CASE n \in Documents
      BY <1>0, <1>2, <1>5, <1>7, <2>2
    <2> QED
      BY <1>5, <2>1, <2>2
  <1>9. ASSUME NEW n \in Documents', NEW m \in Documents', OpenerIn(buf, log'[m].at) = OpenerIn(buf, log'[n].at)
        PROVE  m = n
    <2>1. \A k \in Documents : OpenerIn(buf, log'[k].at) < cursor /\ OpenerIn(buf, log'[k].at) \in Nat
      BY <1>5, <1>7
    <2>2. OpenerIn(buf, log'[N].at) >= cursor /\ OpenerIn(buf, log'[N].at) \in Nat
      BY <1>0, <1>3, <1>6 DEF o
    <2>3. CASE n \in Documents /\ m \in Documents
      BY <1>5, <1>9, <2>3 DEF DocumentsApart
    <2>4. CASE ~(n \in Documents /\ m \in Documents)
      BY <1>0, <1>5, <1>9, <2>1, <2>2, <2>4
    <2> QED
      BY <2>3, <2>4
  <1>10. DocumentsApart'
    BY <1>1, <1>8, <1>9 DEF DocumentsApart
  <1>11. ASSUME NoFault', NEW i \in 1 .. Len(buf), GoodMarker(buf, i), i < pos
         PROVE  \E n \in Documents' : OpenerIn(buf, log'[n].at) = OpenerIn(buf, i)
    <2>1. CASE i < cursor
      <3>1. PICK n \in Documents : OpenerIn(buf, log[n].at) = OpenerIn(buf, i)
        BY <1>5, <1>11, <2>1 DEF MarkersServed
      <3> QED
        BY <1>5, <3>1
    <2>2. CASE i >= cursor
      <3>1. i \in cursor .. pos - 1
        BY <1>0, <1>2, <1>11, <2>2
      <3>2. OpenerIn(buf, i) = o
        BY <1>4, <1>11, <3>1 DEF GoodMarker
      <3>3. N \in Documents' /\ OpenerIn(buf, log'[N].at) = o
        BY <1>5, <1>6 DEF o
      <3> QED
        BY <3>2, <3>3
    <2> QED
      BY <1>0, <2>1, <2>2
  <1>12. MarkersServed'
    BY <1>1, <1>11 DEF MarkersServed
  <1> QED
    BY <1>10, <1>12

\* Every step keeps the documents apart and the passed markers served.
LEMMA ServesStep ==
  ASSUME WalkInv, DocumentsApart, MarkersServed, [Next]_vars
  PROVE  DocumentsApart' /\ MarkersServed'
  <1>0. TypeOK /\ buf \in Seq(AllKinds) /\ Len(buf) \in Nat /\ cursor \in 1 .. Len(buf) + 1
    BY BufferLines DEF WalkInv
  <1>t. {"OK", "PARSE", "MEMORY", "ENCODING"} = Status
    BY DEF Status
  <1>u. cursor \in Nat /\ cursor >= cursor
    BY <1>0
  <1>1. CASE GateFails
    <2>1. log' = Reported("fatal", "ENCODING") /\ buf' = buf /\ cursor' = cursor
      BY <1>1 DEF GateFails
    <2>2. Documents' = Documents /\ ~NoFault' /\ \A n \in Documents : log'[n] = log[n]
      BY <1>0, <1>t, <2>1, ReportIs
    <2>3. DocumentsApart'
      BY <1>u, <2>1, <2>2, ApartKept
    <2> QED
      BY <2>2, <2>3 DEF MarkersServed
  <1>2. CASE EngineFatal
    <2>1. log' = Reported("fatal", "MEMORY") /\ buf' = buf /\ cursor' = cursor
      BY <1>2 DEF EngineFatal
    <2>2. Documents' = Documents /\ ~NoFault' /\ \A n \in Documents : log'[n] = log[n]
      BY <1>0, <1>t, <2>1, ReportIs
    <2>3. DocumentsApart'
      BY <1>u, <2>1, <2>2, ApartKept
    <2> QED
      BY <2>2, <2>3 DEF MarkersServed
  <1>3. CASE StreamOver
    <2>1. buf' = buf /\ cursor' = cursor /\ log' = log /\ done'
      BY <1>3 DEF StreamOver
    <2>2. Documents' = Documents /\ (NoFault' <=> NoFault) /\ \A n \in Documents : log'[n] = log[n]
      BY <2>1 DEF Documents, NoFault
    <2>3. DocumentsApart'
      BY <1>u, <2>1, <2>2, ApartKept
    <2>4. ASSUME NoFault, NEW i \in 1 .. Len(buf), GoodMarker(buf, i)
          PROVE  \E n \in Documents : OpenerIn(buf, log[n].at) = OpenerIn(buf, i)
      <3>1. CASE done \/ i < cursor
        BY <2>4, <3>1 DEF MarkersServed
      <3>2. CASE ~done /\ ~(i < cursor)
        <4>1. ~FrameState(buf, cursor).failed /\ FrameState(buf, cursor).ended = 0
          BY <1>3, <3>2, OnTheBuffer DEF StreamOver
        <4>2. \A j \in cursor .. Len(buf) : ~Opening(buf, j)
          BY <1>0, <4>1, FrameEmpty
        <4>3. i \in cursor .. Len(buf) /\ i \in 1 .. Len(buf) + 1
          BY <1>0, <3>2
        <4>4. OpenerIn(buf, i) \in i .. StopIn(buf, i) - 1 /\ Opening(buf, OpenerIn(buf, i))
          BY <1>0, <2>4, <4>3, FrameOpens DEF GoodMarker
        <4>5. StopIn(buf, i) \in i .. Len(buf) + 1
          BY <1>0, <4>3, FrameStops
        <4> QED
          BY <1>0, <4>2, <4>3, <4>4, <4>5
      <3> QED
        BY <3>1, <3>2
    <2>5. MarkersServed'
      BY <2>1, <2>2, <2>4 DEF MarkersServed
    <2> QED
      BY <2>3, <2>5
  <1>4. CASE DocumentFails
    <2>1. cursor \in 1 .. Len(buf) /\ ~done /\ FailAndResync("PARSE")
      BY <1>0, <1>4, FrameBeforeEnd DEF DocumentFails
    <2>2. ~GoodMarker(buf, cursor)
      BY <1>4, OnTheBuffer DEF DocumentFails, GoodMarker
    <2> QED
      BY <1>t, <2>1, <2>2, ResyncServes
  <1>5. CASE SliceRefused
    <2>1. cursor \in 1 .. Len(buf) /\ ~done
      BY <1>0, <1>5, FrameBeforeEnd DEF SliceRefused
    <2>2. PICK status \in {SliceParse(cursor, BoundaryRun(cursor).pos)} \union
                          {"MEMORY" : f \in MayFail \intersect {"slice"}} : status # "OK" /\ FailAndResync(status)
      BY <1>5 DEF SliceRefused
    <2>3. status \in Status
      BY <1>t, <2>2 DEF SliceParse
    <2>4. status # "MEMORY" => status = SliceIn(buf, cursor, StopIn(buf, cursor))
      BY <2>2, OnTheBuffer
    <2>5. status # "MEMORY" => ~GoodMarker(buf, cursor)
      BY <2>2, <2>4 DEF GoodMarker
    <2> QED
      BY <2>1, <2>2, <2>3, <2>5, ResyncServes
  <1>6. CASE DocumentYielded
    BY <1>6, YieldServes
  <1>7. CASE FreeDocuments \/ FreeIterator \/ AllFreed \/ UNCHANGED vars
    BY <1>7 DEF FreeDocuments, FreeIterator, AllFreed, vars, DocumentsApart, MarkersServed, Documents, NoFault
  <1> QED
    BY <1>1, <1>2, <1>3, <1>4, <1>5, <1>6, <1>7 DEF Next

\* Nothing was given yet.
LEMMA ServesInit ==
  ASSUME Init
  PROVE  DocumentsApart /\ MarkersServed
  <1>1. WalkInv
    BY WalkInit
  <1>2. log = << >> /\ cursor = 1 /\ done = FALSE
    BY DEF Init
  <1>3. Documents = {}
    BY <1>2 DEF Documents
  <1>4. Len(buf) \in Nat
    BY <1>1, BufferLines DEF WalkInv
  <1> QED
    BY <1>2, <1>3, <1>4 DEF DocumentsApart, MarkersServed

\* Documents are kept apart and passed markers stay served.
LEMMA ServesAlways == Spec => [](DocumentsApart /\ MarkersServed)
  <1>1. Init => DocumentsApart /\ MarkersServed
    BY ServesInit
  <1>2. WalkInv /\ (DocumentsApart /\ MarkersServed) /\ [Next]_vars => (DocumentsApart /\ MarkersServed)'
    BY ServesStep
  <1> QED
    BY <1>1, <1>2, WalkAlways, PTL DEF Spec

\* The host keeps the valid documents whatever failed before them: once the stream is over,
\* every marker from which a document frames and parses gave the host exactly one document,
\* for streams of every length (stream_iter.c, it_next_boundary, next_marker).
THEOREM ValidDocumentsKept == Spec => []KeepsValidDocuments
  <1>1. ASSUME WalkInv, DocumentsApart, MarkersServed PROVE KeepsValidDocuments
    <2> SUFFICES ASSUME out = "over", NoFault, NEW i \in DOMAIN buf, buf[i] \in {"start", "end"},
                        ~BoundaryRun(i).failed, BoundaryRun(i).docEnds > 0,
                        SliceParse(i, BoundaryRun(i).pos) = "OK"
                 PROVE  Cardinality({n \in Documents : Opener(log[n].at) = Opener(i)}) = 1
      BY DEF KeepsValidDocuments
    <2> DEFINE S == {n \in Documents : Opener(log[n].at) = Opener(i)}
    <2>1. done /\ i \in 1 .. Len(buf)
      BY <1>1, BufferLines DEF WalkInv
    <2>2. GoodMarker(buf, i)
      BY OnTheBuffer DEF GoodMarker
    <2>3. PICK n \in Documents : OpenerIn(buf, log[n].at) = OpenerIn(buf, i)
      BY <1>1, <2>1, <2>2 DEF MarkersServed
    <2>4. S = {n}
      BY <1>1, <2>3, OnTheBuffer DEF DocumentsApart
    <2> HIDE DEF S
    <2>5. Cardinality(S) = 1
      BY <2>4, FS_Singleton
    <2> QED
      BY <2>5 DEF S
  <1> QED
    BY <1>1, WalkAlways, ServesAlways, PTL

-----------------------------------------------------------------------------
(* The walk and the one run.                                               *)

\* On an accepted stream the walk has given the first documents of the one run and stands
\* where it does.
InStep ==
  NoFault /\ Accepted(buf) =>
    /\ index = Len(log)
    /\ \A n \in DOMAIN log :
         /\ log[n].kind = "doc" /\ log[n].ix = n - 1
         /\ OpenerIn(buf, log[n].at) = Least({i \in DOMAIN buf : Run(buf, 1, i).opens = n})
    /\ IF done THEN Len(log) = WholeRun(buf).ended ELSE Aligned(buf, cursor, Len(log))

\* The walk begins in step.
LEMMA InStepInit ==
  ASSUME Init
  PROVE  InStep
  <1>1. WalkInv /\ buf \in Seq(AllKinds)
    BY WalkInit, BufferLines DEF WalkInv
  <1>2. log = << >> /\ cursor = 1 /\ done = FALSE /\ index = 0
    BY DEF Init
  <1>3. Len(log) = 0 /\ DOMAIN log = {}
    BY <1>2
  <1>4. Accepted(buf) => Aligned(buf, cursor, Len(log))
    BY <1>1, <1>2, <1>3, AlignedStart
  <1> QED
    BY <1>2, <1>3, <1>4 DEF InStep

\* A frame that is given keeps the walk in step.
LEMMA InStepYield ==
  ASSUME WalkInv, InStep, DocumentYielded
  PROVE  InStep'
  <1> DEFINE N == Len(log) + 1
  <1>0. TypeOK /\ buf \in Seq(AllKinds) /\ cursor \in 1 .. Len(buf) + 1
    BY BufferLines DEF WalkInv
  <1>1. /\ ~FrameState(buf, cursor).failed /\ FrameState(buf, cursor).ended > 0
        /\ cursor' = StopIn(buf, cursor) /\ buf' = buf /\ done' = done /\ ~done /\ log' = Reported("doc", "OK")
        /\ index' = index + 1
    BY OnTheBuffer DEF DocumentYielded
  <1>2. Reports("doc", "OK") /\ (NoFault' => NoFault)
    BY <1>0, <1>1, ReportIs DEF Status
  <1> SUFFICES ASSUME NoFault', Accepted(buf)
               PROVE  /\ index' = Len(log')
                      /\ \A n \in DOMAIN log' :
                           /\ log'[n].kind = "doc" /\ log'[n].ix = n - 1
                           /\ OpenerIn(buf, log'[n].at) = Least({i \in DOMAIN buf : Run(buf, 1, i).opens = n})
                      /\ Aligned(buf, cursor', Len(log'))
    BY <1>1 DEF InStep
  <1>3. /\ index = Len(log) /\ Aligned(buf, cursor, Len(log)) /\ Len(log) \in Nat
        /\ \A n \in DOMAIN log :
             /\ log[n].kind = "doc" /\ log[n].ix = n - 1
             /\ OpenerIn(buf, log[n].at) = Least({i \in DOMAIN buf : Run(buf, 1, i).opens = n})
    BY <1>1, <1>2 DEF InStep, Reports
  <1>4. Aligned(buf, cursor', Len(log'))
    <2>1. Aligned(buf, StopIn(buf, cursor), Len(log) + 1)
      BY <1>0, <1>1, <1>3, AlignedNext
    <2> QED
      BY <1>1, <1>2, <2>1 DEF Reports
  <1>5. OpenerIn(buf, cursor) = Least({i \in DOMAIN buf : Run(buf, 1, i).opens = N})
    BY <1>0, <1>1, <1>3, AlignedOpener
  <1>6. ASSUME NEW n \in DOMAIN log'
        PROVE  /\ log'[n].kind = "doc" /\ log'[n].ix = n - 1
               /\ OpenerIn(buf, log'[n].at) = Least({i \in DOMAIN buf : Run(buf, 1, i).opens = n})
    <2>1. CASE n = N
      <3>1. log'[n].kind = "doc" /\ log'[n].at = cursor /\ log'[n].ix = index
        BY <1>2, <2>1 DEF Reports
      <3>2. log'[n].ix = n - 1
        BY <1>3, <2>1, <3>1
      <3> HIDE DEF N
      <3> QED
        BY <1>5, <2>1, <3>1, <3>2
    <2>2. CASE n # N
      <3>1. n \in DOMAIN log /\ log'[n] = log[n]
        BY <1>2, <2>2 DEF Reports
      <3> QED
        BY <1>3, <3>1
    <2> QED
      BY <2>1, <2>2
  <1>7. index' = Len(log')
    BY <1>1, <1>2, <1>3 DEF Reports
  <1> QED
    BY <1>4, <1>6, <1>7

\* Every step keeps the walk in step.
LEMMA InStepStep ==
  ASSUME WalkInv, InStep, [Next]_vars
  PROVE  InStep'
  <1>0. TypeOK /\ buf \in Seq(AllKinds) /\ Len(buf) \in Nat /\ cursor \in 1 .. Len(buf) + 1 /\ Len(log) \in Nat
    BY BufferLines DEF WalkInv, TypeOK
  <1>t. {"OK", "PARSE", "MEMORY", "ENCODING"} = Status
    BY DEF Status
  <1>1. CASE GateFails
    <2>1. ~NoFault'
      BY <1>0, <1>1, <1>t, ReportIs DEF GateFails
    <2> QED
      BY <2>1 DEF InStep
  <1>2. CASE EngineFatal
    <2>1. ~NoFault'
      BY <1>0, <1>2, <1>t, ReportIs DEF EngineFatal
    <2> QED
      BY <2>1 DEF InStep
  <1>3. CASE StreamOver
    <2>1. buf' = buf /\ cursor' = cursor /\ log' = log /\ done' /\ index' = index
      BY <1>3 DEF StreamOver
    <2>2. NoFault' => NoFault
      BY <2>1 DEF NoFault
    <2>3. ASSUME NoFault, Accepted(buf) PROVE Len(log) = WholeRun(buf).ended
      <3>1. CASE done
        BY <2>3, <3>1 DEF InStep
      <3>2. CASE ~done
        <4>1. ~FrameState(buf, cursor).failed /\ ~(FrameState(buf, cursor).ended > 0)
          BY <1>3, <3>2, OnTheBuffer DEF StreamOver
        <4>2. Aligned(buf, cursor, Len(log))
          BY <2>3, <3>2 DEF InStep
        <4> QED
          BY <1>0, <2>3, <4>1, <4>2, AlignedOver
      <3> QED
        BY <3>1, <3>2
    <2> QED
      BY <2>1, <2>2, <2>3 DEF InStep
  <1>4. CASE DocumentFails
    <2>1. ~done /\ FrameState(buf, cursor).failed
      BY <1>4, OnTheBuffer DEF DocumentFails
    <2>2. log' = Reported("failed", "PARSE") /\ buf' = buf
      BY <1>4 DEF DocumentFails, FailAndResync
    <2>3. NoFault' => NoFault
      BY <1>0, <1>t, <2>2, ReportIs
    <2>4. ~(NoFault /\ Accepted(buf))
      BY <1>0, <2>1, AlignedNoFailure DEF InStep
    <2> QED
      BY <2>2, <2>3, <2>4 DEF InStep
  <1>5. CASE SliceRefused
    <2>1. ~done /\ ~FrameState(buf, cursor).failed /\ FrameState(buf, cursor).ended > 0
      BY <1>5, OnTheBuffer DEF SliceRefused
    <2>2. PICK status \in {SliceParse(cursor, BoundaryRun(cursor).pos)} \union
                          {"MEMORY" : f \in MayFail \intersect {"slice"}} : status # "OK" /\ FailAndResync(status)
      BY <1>5 DEF SliceRefused
    <2>3. status \in Status
      BY <1>t, <2>2 DEF SliceParse
    <2>4. log' = Reported("failed", status) /\ buf' = buf
      BY <2>2 DEF FailAndResync
    <2>5. NoFault' => status # "MEMORY"
      BY <1>0, <2>3, <2>4, ReportIs
    <2>6. Accepted(buf) => SliceIn(buf, cursor, StopIn(buf, cursor)) = "OK"
      BY <1>0, <2>1, SliceParses DEF Accepted
    <2>7. status # "MEMORY" => status = SliceIn(buf, cursor, StopIn(buf, cursor))
      BY <2>2, OnTheBuffer
    <2> QED
      BY <2>2, <2>4, <2>5, <2>6, <2>7 DEF InStep
  <1>6. CASE DocumentYielded
    BY <1>6, InStepYield
  <1>7. CASE FreeDocuments \/ FreeIterator \/ AllFreed \/ UNCHANGED vars
    BY <1>7 DEF FreeDocuments, FreeIterator, AllFreed, vars, InStep, NoFault
  <1> QED
    BY <1>1, <1>2, <1>3, <1>4, <1>5, <1>6, <1>7 DEF Next

\* On a stream that one run accepts the walk gives the documents of that run, in its order,
\* and the slice accessor serves the last one given, for streams of every length
\* (stream_iter.c, it_next_boundary, yeptris_stream_iter_slice).
THEOREM WalkFramesAsOneRun == Spec => []FramesAndSlices
  <1>1. ASSUME Init PROVE InStep /\ SliceServesLastStep
    <2>1. last.len = 0 /\ out # "doc"
      BY <1>1 DEF Init
    <2> QED
      BY <1>1, <2>1, InStepInit DEF SliceServesLastStep, Slice
  <1>2. WalkInv /\ (InStep /\ SliceServesLastStep) /\ [Next]_vars => (InStep /\ SliceServesLastStep)'
    BY InStepStep, SliceStep
  <1>3. ASSUME WalkInv, InStep, SliceServesLastStep PROVE FramesAndSlices
    <2>1. FramesAsOneRun
      <3> SUFFICES ASSUME out = "over", NoFault, ~WholeRun(buf).failed, "raw" \notin Range(buf)
                   PROVE  /\ Len(log) = WholeRun(buf).ended
                          /\ \A n \in DOMAIN log :
                               /\ log[n].kind = "doc" /\ log[n].ix = n - 1
                               /\ Opener(log[n].at) = Least({i \in DOMAIN buf : Run(buf, 1, i).opens = n})
        BY DEF FramesAsOneRun
      <3>1. done /\ Accepted(buf)
        BY <1>3 DEF WalkInv, Accepted
      <3> QED
        BY <1>3, <3>1, OnTheBuffer DEF InStep
    <2> QED
      BY <1>3, <2>1 DEF FramesAndSlices, WalkInv
  <1> QED
    BY <1>1, <1>2, <1>3, WalkAlways, PTL DEF Spec

-----------------------------------------------------------------------------
(* The heap of the json-c face.                                            *)

WrapperSet ==
  [life : {"live", "freed"}, form : {"pending", "consumed", "owner", "attached"}, kind : NewKinds,
   doc : Nat, node : Nat, root : Nat, registry : SUBSET Nat, listed : BOOLEAN]

KeySet == {"", Key}
KidSet == [key : KeySet, node : Nat]
NodeSet == [doc : Nat, kind : NewKinds, kids : Seq(KidSet)]
ValueSet == [kind : NewKinds, kids : Seq(KidSet)]

HeapSet ==
  [w : Seq(WrapperSet), nodes : Seq(NodeSet), docs : SUBSET Nat, ndocs : Nat, twice : BOOLEAN]

\* The heap with one field replaced.
LEMMA HeapW ==
  ASSUME NEW h \in HeapSet, NEW X \in Seq(WrapperSet)
  PROVE  LET q == [h EXCEPT !.w = X]
         IN  /\ q \in HeapSet /\ q.w = X
             /\ q.nodes = h.nodes /\ q.docs = h.docs /\ q.ndocs = h.ndocs /\ q.twice = h.twice
  BY DEF HeapSet

\* The heap with other nodes.
LEMMA HeapNodes ==
  ASSUME NEW h \in HeapSet, NEW X \in Seq(NodeSet)
  PROVE  LET q == [h EXCEPT !.nodes = X]
         IN  /\ q \in HeapSet /\ q.nodes = X
             /\ q.w = h.w /\ q.docs = h.docs /\ q.ndocs = h.ndocs /\ q.twice = h.twice
  BY DEF HeapSet

\* The heap with other live documents.
LEMMA HeapDocs ==
  ASSUME NEW h \in HeapSet, NEW X \in SUBSET Nat
  PROVE  LET q == [h EXCEPT !.docs = X]
         IN  /\ q \in HeapSet /\ q.docs = X
             /\ q.w = h.w /\ q.nodes = h.nodes /\ q.ndocs = h.ndocs /\ q.twice = h.twice
  BY DEF HeapSet

\* The heap with another number of documents made.
LEMMA HeapNdocs ==
  ASSUME NEW h \in HeapSet, NEW X \in Nat
  PROVE  LET q == [h EXCEPT !.ndocs = X]
         IN  /\ q \in HeapSet /\ q.ndocs = X
             /\ q.w = h.w /\ q.nodes = h.nodes /\ q.docs = h.docs /\ q.twice = h.twice
  BY DEF HeapSet

\* The heap with another verdict on double frees.
LEMMA HeapTwice ==
  ASSUME NEW h \in HeapSet, NEW X \in BOOLEAN
  PROVE  LET q == [h EXCEPT !.twice = X]
         IN  /\ q \in HeapSet /\ q.twice = X
             /\ q.w = h.w /\ q.nodes = h.nodes /\ q.docs = h.docs /\ q.ndocs = h.ndocs
  BY DEF HeapSet

\* The fields of a heap.
LEMMA HeapFields ==
  ASSUME NEW h \in HeapSet
  PROVE  /\ h.w \in Seq(WrapperSet) /\ h.nodes \in Seq(NodeSet) /\ h.docs \in SUBSET Nat /\ h.ndocs \in Nat
         /\ h.twice \in BOOLEAN
         /\ Len(h.w) \in Nat /\ Len(h.nodes) \in Nat
         /\ DOMAIN h.w = 1 .. Len(h.w) /\ DOMAIN h.nodes = 1 .. Len(h.nodes)
         /\ \A x \in DOMAIN h.w : h.w[x] \in WrapperSet
         /\ \A m \in DOMAIN h.nodes : h.nodes[m] \in NodeSet
  BY DEF HeapSet

\* A new wrapper.
LEMMA WrapperIs ==
  ASSUME NEW form \in {"pending", "consumed", "owner", "attached"}, NEW kind \in NewKinds, NEW doc \in Nat,
         NEW node \in Nat, NEW root \in Nat, NEW listed \in BOOLEAN
  PROVE  LET o == Wrapper(form, kind, doc, node, root, listed)
         IN  /\ o \in WrapperSet
             /\ o.life = "live" /\ o.form = form /\ o.kind = kind /\ o.doc = doc /\ o.node = node
             /\ o.root = root /\ o.registry = {} /\ o.listed = listed
  BY DEF Wrapper, WrapperSet

\* A wrapper with one field replaced.
LEMMA FreedIs ==
  ASSUME NEW o \in WrapperSet
  PROVE  LET q == [o EXCEPT !.life = "freed"]
         IN  /\ q \in WrapperSet /\ q.life = "freed"
             /\ q.form = o.form /\ q.kind = o.kind /\ q.doc = o.doc /\ q.node = o.node
             /\ q.root = o.root /\ q.registry = o.registry /\ q.listed = o.listed
  BY DEF WrapperSet

\* A wrapper with another registry.
LEMMA RegistryIs ==
  ASSUME NEW o \in WrapperSet, NEW R \in SUBSET Nat
  PROVE  LET q == [o EXCEPT !.registry = R]
         IN  /\ q \in WrapperSet /\ q.registry = R
             /\ q.form = o.form /\ q.kind = o.kind /\ q.doc = o.doc /\ q.node = o.node
             /\ q.root = o.root /\ q.life = o.life /\ q.listed = o.listed
  BY DEF WrapperSet

\* Freeing wrappers touches only their lives.
LEMMA FreeAllIs ==
  ASSUME NEW h \in HeapSet, NEW xs
  PROVE  LET q == FreeAll(h, xs)
         IN  /\ q \in HeapSet /\ DOMAIN q.w = DOMAIN h.w
             /\ \A x \in DOMAIN h.w : q.w[x] = IF x \in xs THEN [h.w[x] EXCEPT !.life = "freed"] ELSE h.w[x]
             /\ q.nodes = h.nodes /\ q.docs = h.docs /\ q.ndocs = h.ndocs
             /\ q.twice <=> (h.twice \/ \E x \in xs : h.w[x].life = "freed")
  <1> DEFINE X == [x \in DOMAIN h.w |-> IF x \in xs THEN [h.w[x] EXCEPT !.life = "freed"] ELSE h.w[x]]
             g == [h EXCEPT !.w = X]
             t == h.twice \/ \E x \in xs : h.w[x].life = "freed"
  <1>1. ASSUME NEW x \in DOMAIN h.w
        PROVE  (IF x \in xs THEN [h.w[x] EXCEPT !.life = "freed"] ELSE h.w[x]) \in WrapperSet
    BY HeapFields, FreedIs
  <1>2. X \in Seq(WrapperSet)
    BY <1>1, HeapFields
  <1>3. DOMAIN X = DOMAIN h.w
        /\ \A x \in DOMAIN h.w : X[x] = IF x \in xs THEN [h.w[x] EXCEPT !.life = "freed"] ELSE h.w[x]
    OBVIOUS
  <1>4. FreeAll(h, xs) = [g EXCEPT !.twice = t]
    BY DEF FreeAll, HeapSet
  <1> HIDE DEF X
  <1>5. g \in HeapSet /\ g.w = X /\ g.nodes = h.nodes /\ g.docs = h.docs /\ g.ndocs = h.ndocs /\ g.twice = h.twice
    BY <1>2, HeapW
  <1> HIDE DEF g
  <1>6. t \in BOOLEAN
    BY HeapFields
  <1>7. /\ FreeAll(h, xs) \in HeapSet /\ FreeAll(h, xs).twice = t /\ FreeAll(h, xs).w = X
        /\ FreeAll(h, xs).nodes = h.nodes /\ FreeAll(h, xs).docs = h.docs /\ FreeAll(h, xs).ndocs = h.ndocs
    BY <1>4, <1>5, <1>6, HeapTwice
  <1> QED
    BY <1>3, <1>7

\* Freeing a document touches only the live documents.
LEMMA FreeDocIs ==
  ASSUME NEW h \in HeapSet, NEW d
  PROVE  LET q == FreeDoc(h, d)
         IN  /\ q \in HeapSet /\ q.w = h.w /\ q.nodes = h.nodes /\ q.ndocs = h.ndocs
             /\ q.docs = h.docs \ {d}
             /\ q.twice <=> (h.twice \/ d \notin h.docs)
  <1> DEFINE X == h.docs \ {d}
             g == [h EXCEPT !.docs = X]
             t == h.twice \/ d \notin h.docs
  <1>1. X \in SUBSET Nat /\ t \in BOOLEAN
    BY HeapFields
  <1>2. FreeDoc(h, d) = [g EXCEPT !.twice = t]
    BY DEF FreeDoc, HeapSet
  <1> HIDE DEF X
  <1>3. g \in HeapSet /\ g.w = h.w /\ g.nodes = h.nodes /\ g.docs = X /\ g.ndocs = h.ndocs /\ g.twice = h.twice
    BY <1>1, HeapDocs
  <1> HIDE DEF g
  <1>4. /\ FreeDoc(h, d) \in HeapSet /\ FreeDoc(h, d).twice = t /\ FreeDoc(h, d).w = h.w
        /\ FreeDoc(h, d).nodes = h.nodes /\ FreeDoc(h, d).docs = X /\ FreeDoc(h, d).ndocs = h.ndocs
    BY <1>1, <1>2, <1>3, HeapTwice
  <1> QED
    BY <1>4 DEF X

\* A new node comes last and is empty.
LEMMA NewNodeIs ==
  ASSUME NEW h \in HeapSet, NEW doc \in Nat, NEW kind \in NewKinds
  PROVE  LET q == NewNode(h, doc, kind)
         IN  /\ q \in HeapSet /\ q.w = h.w /\ q.docs = h.docs /\ q.ndocs = h.ndocs /\ q.twice = h.twice
             /\ Len(q.nodes) = Len(h.nodes) + 1
             /\ \A m \in DOMAIN h.nodes : q.nodes[m] = h.nodes[m]
             /\ q.nodes[Len(h.nodes) + 1] = [doc |-> doc, kind |-> kind, kids |-> <<>>]
  <1> DEFINE e == [doc |-> doc, kind |-> kind, kids |-> <<>>]
             X == Append(h.nodes, e)
  <1>1. e \in NodeSet
    BY DEF NodeSet
  <1> HIDE DEF e
  <1>2. X \in Seq(NodeSet) /\ Len(X) = Len(h.nodes) + 1 /\ X[Len(h.nodes) + 1] = e
        /\ \A m \in DOMAIN h.nodes : X[m] = h.nodes[m]
    BY <1>1, HeapFields
  <1>3. NewNode(h, doc, kind) = [h EXCEPT !.nodes = X]
    BY DEF NewNode, e
  <1> HIDE DEF X
  <1> QED
    BY <1>2, <1>3, HeapNodes DEF e

\* The heap with one wrapper replaced.
LEMMA HeapWrapper ==
  ASSUME NEW h \in HeapSet, NEW o \in DOMAIN h.w, NEW Z \in WrapperSet
  PROVE  LET q == [h EXCEPT !.w[o] = Z]
         IN  /\ q \in HeapSet /\ DOMAIN q.w = DOMAIN h.w /\ q.w[o] = Z
             /\ \A x \in DOMAIN h.w : x # o => q.w[x] = h.w[x]
             /\ q.nodes = h.nodes /\ q.docs = h.docs /\ q.ndocs = h.ndocs /\ q.twice = h.twice
  <1> DEFINE X == [h.w EXCEPT ![o] = Z]
  <1>1. X \in Seq(WrapperSet) /\ DOMAIN X = DOMAIN h.w /\ X[o] = Z
        /\ \A x \in DOMAIN h.w : x # o => X[x] = h.w[x]
    BY HeapFields
  <1>2. [h EXCEPT !.w[o] = Z] = [h EXCEPT !.w = X]
    OBVIOUS
  <1> HIDE DEF X
  <1> QED
    BY <1>1, <1>2, HeapW

\* The owner and its document that materialize_root makes of a wrapper.
MadeRoot(h, o, q) ==
  /\ q \in HeapSet /\ DOMAIN q.w = DOMAIN h.w
  /\ \A x \in DOMAIN h.w : x # o => q.w[x] = h.w[x]
  /\ q.w[o] = Wrapper("owner", h.w[o].kind, h.ndocs + 1, Len(h.nodes) + 1, h.w[o].root, TRUE)
  /\ q.ndocs = h.ndocs + 1 /\ q.docs = h.docs \cup {h.ndocs + 1} /\ q.twice = h.twice
  /\ Len(q.nodes) = Len(h.nodes) + 1
  /\ \A m \in DOMAIN h.nodes : q.nodes[m] = h.nodes[m]
  /\ q.nodes[Len(h.nodes) + 1] = [doc |-> h.ndocs + 1, kind |-> h.w[o].kind, kids |-> <<>>]

\* What materialize_root does.
LEMMA MaterializeIs ==
  ASSUME NEW h \in HeapSet, NEW o \in DOMAIN h.w
  PROVE  MadeRoot(h, o, materialize_root(h, o))
  <1> DEFINE d == h.ndocs + 1
             D == h.docs \cup {d}
             g1 == [h EXCEPT !.ndocs = d]
             g2 == [g1 EXCEPT !.docs = D]
             n == NewNode(g2, d, h.w[o].kind)
             Z == Wrapper("owner", h.w[o].kind, d, Len(n.nodes), h.w[o].root, TRUE)
  <1>0. h.w[o] \in WrapperSet /\ h.ndocs \in Nat /\ h.docs \in SUBSET Nat
    BY HeapFields
  <1>1. d \in Nat /\ D \in SUBSET Nat /\ h.w[o].kind \in NewKinds /\ h.w[o].root \in Nat
    BY <1>0 DEF WrapperSet
  <1>2. materialize_root(h, o) = [n EXCEPT !.w[o] = Z]
    BY DEF materialize_root, HeapSet
  <1>3. g1 \in HeapSet /\ g1.ndocs = d /\ g1.w = h.w /\ g1.nodes = h.nodes /\ g1.docs = h.docs /\ g1.twice = h.twice
    BY <1>1, HeapNdocs
  <1> HIDE DEF g1
  <1>4. g2 \in HeapSet /\ g2.ndocs = d /\ g2.w = h.w /\ g2.nodes = h.nodes /\ g2.docs = D /\ g2.twice = h.twice
    BY <1>1, <1>3, HeapDocs
  <1> HIDE DEF g2, D, d
  <1>5. /\ n \in HeapSet /\ n.ndocs = d /\ n.w = h.w /\ n.docs = D /\ n.twice = h.twice
        /\ Len(n.nodes) = Len(h.nodes) + 1
        /\ \A m \in DOMAIN h.nodes : n.nodes[m] = h.nodes[m]
        /\ n.nodes[Len(h.nodes) + 1] = [doc |-> d, kind |-> h.w[o].kind, kids |-> <<>>]
    <2> DEFINE kd == h.w[o].kind
    <2>1. kd \in NewKinds
      BY <1>1
    <2> HIDE DEF kd
    <2>2. /\ NewNode(g2, d, kd) \in HeapSet /\ NewNode(g2, d, kd).w = g2.w /\ NewNode(g2, d, kd).docs = g2.docs
          /\ NewNode(g2, d, kd).ndocs = g2.ndocs /\ NewNode(g2, d, kd).twice = g2.twice
          /\ Len(NewNode(g2, d, kd).nodes) = Len(g2.nodes) + 1
          /\ \A m \in DOMAIN g2.nodes : NewNode(g2, d, kd).nodes[m] = g2.nodes[m]
          /\ NewNode(g2, d, kd).nodes[Len(g2.nodes) + 1] = [doc |-> d, kind |-> kd, kids |-> <<>>]
      BY <1>1, <1>4, <2>1, NewNodeIs
    <2>3. n = NewNode(g2, d, kd)
      BY DEF kd
    <2> HIDE DEF n
    <2> QED
      BY <1>4, <2>2, <2>3 DEF kd
  <1> HIDE DEF n
  <1>6. Z \in WrapperSet
    BY <1>1, <1>5, HeapFields, WrapperIs
  <1> DEFINE q == [n EXCEPT !.w[o] = Z]
  <1>7. /\ q \in HeapSet /\ DOMAIN q.w = DOMAIN n.w /\ q.w[o] = Z
        /\ \A x \in DOMAIN n.w : x # o => q.w[x] = n.w[x]
        /\ q.nodes = n.nodes /\ q.docs = n.docs /\ q.ndocs = n.ndocs /\ q.twice = n.twice
    <2> HIDE DEF Z
    <2>1. o \in DOMAIN n.w
      BY <1>5
    <2> QED
      BY <1>5, <1>6, <2>1, HeapWrapper
  <1>8. Z = Wrapper("owner", h.w[o].kind, h.ndocs + 1, Len(h.nodes) + 1, h.w[o].root, TRUE)
    BY <1>5 DEF d
  <1> HIDE DEF q, Z
  <1> QED
    BY <1>2, <1>5, <1>7, <1>8 DEF MadeRoot, q, D, d

-----------------------------------------------------------------------------
(* Children.                                                               *)

\* The greatest of numbers up to n is one of them.
LEMMA MaxNat ==
  ASSUME NEW n \in Nat, NEW S \in SUBSET (1 .. n), S # {}
  PROVE  Max(S) \in S
  <1> DEFINE T == {n - i : i \in S}
  <1>1. T \in SUBSET Nat
    <2> SUFFICES ASSUME NEW i \in S PROVE n - i \in Nat
      OBVIOUS
    <2> QED
      OBVIOUS
  <1>1b. T # {}
    <2>1. PICK i \in S : TRUE
      OBVIOUS
    <2>2. n - i \in T
      OBVIOUS
    <2> QED
      BY <2>2
  <1>2. PICK m \in T : \A k \in T : m <= k
    <2> HIDE DEF T
    <2> QED
    BY <1>1, <1>1b, LeastNat
  <1>3. PICK i \in S : m = n - i
    BY <1>2
  <1>4. \A j \in S : i >= j
    <2> SUFFICES ASSUME NEW j \in S PROVE i >= j
      OBVIOUS
    <2>1. m <= n - j
      BY <1>2
    <2> QED
      BY <1>3, <2>1
  <1>5. \E x \in S : \A y \in S : x >= y
    BY <1>4
  <1> QED
    BY <1>5 DEF Max

\* The place of a child is that of a child or the next.
LEMMA PlaceIs ==
  ASSUME NEW kids \in Seq(KidSet), NEW key \in KeySet, NEW idx \in Nat
  PROVE  Place(kids, key, idx) \in 1 .. Len(kids) + 1
  <1> DEFINE named == {i \in DOMAIN kids : kids[i].key = key}
             there == {idx} \cap DOMAIN kids
             pos == IF key # "" THEN named ELSE there
  <1>1. Len(kids) \in Nat /\ DOMAIN kids = 1 .. Len(kids)
    OBVIOUS
  <1>2. Place(kids, key, idx) = IF pos = {} THEN Len(kids) + 1 ELSE Max(pos)
    BY DEF Place
  <1>3. named \in SUBSET (1 .. Len(kids)) /\ there \in SUBSET (1 .. Len(kids))
    BY <1>1
  <1> HIDE DEF named, there
  <1>4. pos \in SUBSET (1 .. Len(kids))
    BY <1>3
  <1> HIDE DEF pos
  <1>5. CASE pos = {}
    BY <1>1, <1>2, <1>5
  <1>6. CASE pos # {}
    <2>1. Max(pos) \in pos
      <3> DEFINE top == Len(kids)
      <3>1. top \in Nat /\ pos \in SUBSET (1 .. top)
        BY <1>1, <1>4
      <3> HIDE DEF top
      <3> QED
        BY ONLY <1>6, <3>1, MaxNat
    <2>2. Place(kids, key, idx) = Max(pos)
      BY <1>2, <1>6
    <2>3. Max(pos) \in 1 .. Len(kids)
      BY <1>4, <2>1
    <2> HIDE DEF Max
    <2> QED
      BY <1>1, <2>2, <2>3
  <1> QED
    BY <1>5, <1>6

\* An entry.
LEMMA KidIs ==
  ASSUME NEW key \in KeySet, NEW node \in Nat
  PROVE  Kid(key, node) \in KidSet /\ Kid(key, node).key = key /\ Kid(key, node).node = node
  BY DEF Kid, KidSet

\* What Put does.
LEMMA PutIs ==
  ASSUME NEW kids \in Seq(KidSet), NEW key \in KeySet, NEW idx \in Nat, NEW node \in Nat
  PROVE  LET there == Place(kids, key, idx)
             q == Put(kids, key, idx, node)
         IN  /\ q \in Seq(KidSet)
             /\ Len(q) = IF there > Len(kids) THEN Len(kids) + 1 ELSE Len(kids)
             /\ \A i \in DOMAIN q : IF i = there THEN q[i] = Kid(key, node)
                                    ELSE i \in DOMAIN kids /\ q[i] = kids[i]
  <1> DEFINE pl == Place(kids, key, idx)
             kd == Kid(key, node)
  <1>0. pl \in 1 .. Len(kids) + 1 /\ Len(kids) \in Nat
    BY PlaceIs
  <1>1. kd \in KidSet
    BY KidIs
  <1>2. Put(kids, key, idx, node) = IF pl > Len(kids) THEN Append(kids, kd) ELSE [kids EXCEPT ![pl] = kd]
    BY DEF Put
  <1> HIDE DEF pl, kd
  <1>3. CASE pl > Len(kids)
    <2>1. pl = Len(kids) + 1
      BY <1>0, <1>3
    <2> DEFINE q == Append(kids, kd)
    <2>2. q \in Seq(KidSet) /\ Len(q) = Len(kids) + 1 /\ DOMAIN q = 1 .. Len(kids) + 1
      BY <1>0, <1>1
    <2>3. \A i \in 1 .. Len(kids) + 1 : IF i = Len(kids) + 1 THEN q[i] = kd ELSE i \in DOMAIN kids /\ q[i] = kids[i]
      BY <1>0, <1>1
    <2> HIDE DEF q
    <2>4. Put(kids, key, idx, node) = q
      BY <1>2, <1>3 DEF q
    <2> QED
      BY <1>3, <2>1, <2>2, <2>3, <2>4 DEF pl, kd
  <1>4. CASE ~(pl > Len(kids))
    <2> DEFINE q == [kids EXCEPT ![pl] = kd]
    <2>0. DOMAIN kids = 1 .. Len(kids) /\ \A i \in DOMAIN kids : kids[i] \in KidSet
      OBVIOUS
    <2>1. q \in Seq(KidSet) /\ Len(q) = Len(kids) /\ DOMAIN q = DOMAIN kids
      <3>1. q = [i \in 1 .. Len(kids) |-> IF i = pl THEN kd ELSE kids[i]]
        BY <2>0
      <3>2. \A i \in 1 .. Len(kids) : (IF i = pl THEN kd ELSE kids[i]) \in KidSet
        BY <1>1, <2>0
      <3> HIDE DEF q
      <3> QED
        BY <1>0, <2>0, <3>1, <3>2
    <2>2. \A i \in DOMAIN kids : q[i] = IF i = pl THEN kd ELSE kids[i]
      OBVIOUS
    <2> HIDE DEF q
    <2>4. Put(kids, key, idx, node) = q
      BY <1>2, <1>4 DEF q
    <2>5. \A i \in DOMAIN q : IF i = pl THEN q[i] = kd ELSE i \in DOMAIN kids /\ q[i] = kids[i]
      BY <2>1, <2>2
    <2>6. Len(q) = IF pl > Len(kids) THEN Len(kids) + 1 ELSE Len(kids)
      BY <1>4, <2>1
    <2> HIDE DEF pl, kd
    <2> QED
      BY <2>1, <2>4, <2>5, <2>6 DEF pl, kd
  <1> QED
    BY <1>3, <1>4

\* Children with the same keys have the same places.
LEMMA PlaceSame ==
  ASSUME NEW a \in Seq(KidSet), NEW b \in Seq(KidSet), NEW key, NEW idx,
         Len(a) = Len(b), \A i \in DOMAIN a : a[i].key = b[i].key
  PROVE  Place(a, key, idx) = Place(b, key, idx)
  <1>1. DOMAIN a = DOMAIN b
    OBVIOUS
  <1>2. {i \in DOMAIN a : a[i].key = key} = {i \in DOMAIN b : b[i].key = key}
    BY <1>1
  <1> QED
    BY <1>1, <1>2 DEF Place

\* The second part of a concatenation, by its positions in the whole.
LEMMA SecondPart ==
  ASSUME NEW S, NEW a \in Seq(S), NEW b \in Seq(S), NEW e \in 1 .. Len(a) + Len(b), e > Len(a)
  PROVE  (a \o b)[e] = b[e - Len(a)]
  OBVIOUS

\* What RemoveAt does.
LEMMA RemoveAtIs ==
  ASSUME NEW kids \in Seq(KidSet), NEW i \in DOMAIN kids
  PROVE  LET q == RemoveAt(kids, i)
         IN  /\ q \in Seq(KidSet) /\ Len(q) = Len(kids) - 1
             /\ \A j \in DOMAIN q : LET s == IF j < i THEN j ELSE j + 1
                                    IN  s \in DOMAIN kids /\ q[j] = kids[s]
  <1> DEFINE a == SubSeq(kids, 1, i - 1)
             b == SubSeq(kids, i + 1, Len(kids))
  <1>1. i \in 1 .. Len(kids) /\ Len(kids) \in Nat
    OBVIOUS
  <1>2. a \in Seq(KidSet) /\ Len(a) = i - 1 /\ \A j \in 1 .. i - 1 : a[j] = kids[j]
    BY <1>1
  <1>3. b \in Seq(KidSet) /\ Len(b) = Len(kids) - i /\ \A j \in 1 .. Len(kids) - i : b[j] = kids[i + j]
    BY <1>1
  <1>4. RemoveAt(kids, i) = a \o b
    BY DEF RemoveAt
  <1> HIDE DEF a, b
  <1> DEFINE q == a \o b
  <1>5. q \in Seq(KidSet) /\ Len(q) = Len(kids) - 1
    BY <1>1, <1>2, <1>3
  <1>6. ASSUME NEW j \in 1 .. Len(kids) - 1
        PROVE  LET s == IF j < i THEN j ELSE j + 1 IN s \in DOMAIN kids /\ q[j] = kids[s]
    <2>1. CASE j < i
      BY <1>1, <1>2, <1>3, <2>1
    <2>2. CASE ~(j < i)
      <3>0. Len(a) < j /\ j <= Len(a) + Len(b) /\ j - Len(a) = j - (i - 1) /\ j \in 1 .. Len(a) + Len(b)
        BY <1>1, <1>2, <1>3, <2>2
      <3>a. (a \o b)[j] = b[j - Len(a)]
        BY <1>2, <1>3, <3>0, SecondPart
      <3>1. q[j] = b[j - (i - 1)]
        BY <3>0, <3>a
      <3>2. j - (i - 1) \in 1 .. Len(kids) - i /\ i + (j - (i - 1)) = j + 1 /\ j + 1 \in DOMAIN kids
        BY <1>1, <2>2
      <3>3. b[j - (i - 1)] = kids[j + 1]
        BY <1>3, <3>2
      <3> QED
        BY <2>2, <3>1, <3>2, <3>3
    <2> QED
      BY <2>1, <2>2
  <1> HIDE DEF q
  <1> QED
    BY <1>4, <1>5, <1>6 DEF q

-----------------------------------------------------------------------------
(* Who owns what.  hd is the set of wrappers the caller may use.           *)

\* A wrapper that has not been freed and owns a document.
OwnerIn(h, x) == h.w[x].life = "live" /\ h.w[x].form = "owner"

\* The nodes of a document point to nodes of the same document.
NodesApart(h) ==
  \A m \in DOMAIN h.nodes :
    /\ h.nodes[m].doc \in 1 .. h.ndocs
    /\ \A i \in DOMAIN h.nodes[m].kids :
         /\ h.nodes[m].kids[i].node \in DOMAIN h.nodes
         /\ h.nodes[h.nodes[m].kids[i].node].doc = h.nodes[m].doc

\* Every wrapper, freed or not.
WrappersSound(h) ==
  \A x \in DOMAIN h.w :
    /\ h.w[x].form # "consumed" /\ h.w[x].root \in DOMAIN h.w /\ h.w[x].registry \subseteq DOMAIN h.w
    /\ h.w[x].form = "pending" => h.w[x].registry = {}

\* The caller can name every root, and nothing it can name has been freed.
RootsHeld(h, hd) ==
  /\ hd \subseteq DOMAIN h.w
  /\ \A x \in DOMAIN h.w :
       h.w[x].life = "live" /\ h.w[x].form \in {"pending", "owner"} => x \in hd /\ h.w[x].root = x
  /\ \A x \in hd : h.w[x].life = "live"

\* Every live document has one owner.
DocsOwned(h) ==
  /\ h.docs \subseteq 1 .. h.ndocs
  /\ \A x \in DOMAIN h.w : OwnerIn(h, x) =>
       h.w[x].doc \in h.docs /\ h.w[x].node \in DOMAIN h.nodes /\ h.nodes[h.w[x].node].doc = h.w[x].doc
  /\ \A x, y \in DOMAIN h.w : OwnerIn(h, x) /\ OwnerIn(h, y) /\ h.w[x].doc = h.w[y].doc => x = y
  /\ \A d \in h.docs : \E x \in DOMAIN h.w : OwnerIn(h, x) /\ h.w[x].doc = d

\* The registry of an owner has the listed wrappers attached to it and no other.
RegistriesExact(h) ==
  /\ \A o \in DOMAIN h.w : OwnerIn(h, o) =>
       \A x \in h.w[o].registry : h.w[x].life = "live" /\ h.w[x].form = "attached" /\ h.w[x].root = o
  /\ \A x \in DOMAIN h.w : h.w[x].life = "live" /\ h.w[x].form = "attached" /\ h.w[x].listed =>
       OwnerIn(h, h.w[x].root) /\ x \in h.w[h.w[x].root].registry

\* A wrapper the caller can name stands for a node of its root's document.
AttachedHeld(h, hd) ==
  \A x \in hd : h.w[x].form = "attached" =>
    /\ OwnerIn(h, h.w[x].root) /\ h.w[h.w[x].root].doc = h.w[x].doc
    /\ h.w[x].node \in DOMAIN h.nodes /\ h.nodes[h.w[x].node].doc = h.w[x].doc

Kept(h, hd) ==
  /\ h \in HeapSet /\ h.twice = FALSE
  /\ NodesApart(h) /\ WrappersSound(h) /\ RootsHeld(h, hd) /\ DocsOwned(h)
  /\ RegistriesExact(h) /\ AttachedHeld(h, hd)

-----------------------------------------------------------------------------
(* The copy of a subtree.                                                  *)

\* The least set with n that has the children of its nodes has them.
LEMMA SubtreeIs ==
  ASSUME NEW h \in HeapSet, NodesApart(h), NEW n \in DOMAIN h.nodes
  PROVE  /\ Subtree(h.nodes, n) \subseteq DOMAIN h.nodes /\ n \in Subtree(h.nodes, n)
         /\ \A m \in Subtree(h.nodes, n) :
              /\ h.nodes[m].doc = h.nodes[n].doc
              /\ \A i \in DOMAIN h.nodes[m].kids : h.nodes[m].kids[i].node \in Subtree(h.nodes, n)
  <1> DEFINE ns == h.nodes
             all == {m \in DOMAIN ns : ns[m].doc = ns[n].doc}
             closed == {S \in SUBSET all : n \in S /\ \A m \in S : \A i \in DOMAIN ns[m].kids : ns[m].kids[i].node \in S}
             T == {m \in all : \A S \in closed : m \in S}
  <1>1. Subtree(h.nodes, n) = T
    BY DEF Subtree
  <1>2. n \in T
    OBVIOUS
  <1>3. ASSUME NEW m \in T, NEW i \in DOMAIN ns[m].kids
        PROVE  ns[m].kids[i].node \in T
    <2>1. m \in all
      OBVIOUS
    <2>2. ns[m].kids[i].node \in all
      BY <1>3, <2>1 DEF NodesApart
    <2>3. ASSUME NEW S \in closed
          PROVE  ns[m].kids[i].node \in S
      BY <1>3, <2>3
    <2> QED
      BY <2>2, <2>3
  <1>4. T \subseteq DOMAIN ns /\ \A m \in T : ns[m].doc = ns[n].doc
    OBVIOUS
  <1> HIDE DEF T
  <1> QED
    BY <1>1, <1>2, <1>3, <1>4

\* A finite set can be counted from any of its members.
LEMMA CountedFrom ==
  ASSUME NEW S, IsFiniteSet(S), NEW n \in S
  PROVE  /\ Cardinality(S) \in Nat \ {0}
         /\ \E s \in Bijection(1 .. Cardinality(S), S) : s[1] = n
  <1> DEFINE k == Cardinality(S)
  <1>1. k \in Nat /\ Bijection(1 .. k, S) # {}
    BY FS_CardinalityType DEF ExistsBijection
  <1> HIDE DEF k
  <1>2. PICK f \in Bijection(1 .. k, S) : TRUE
    BY <1>1
  <1>3. /\ f \in [1 .. k -> S] /\ \A t \in S : \E i \in 1 .. k : f[i] = t
        /\ \A a, b \in 1 .. k : f[a] = f[b] => a = b
    BY <1>2 DEF Bijection, Injection, Surjection, IsInjective
  <1>4. PICK j \in 1 .. k : f[j] = n
    BY <1>3
  <1>5. k # 0 /\ 1 \in 1 .. k
    BY <1>1, <1>4
  <1> DEFINE s == [i \in 1 .. k |-> IF i = 1 THEN n ELSE IF i = j THEN f[1] ELSE f[i]]
  <1>6. s \in [1 .. k -> S] /\ s[1] = n
    BY <1>3, <1>5
  <1>7. \A a, b \in 1 .. k : s[a] = s[b] => a = b
    <2> SUFFICES ASSUME NEW a \in 1 .. k, NEW b \in 1 .. k, s[a] = s[b] PROVE a = b
      OBVIOUS
    <2> QED
      BY <1>3, <1>4, <1>5
  <1>8. \A t \in S : \E i \in 1 .. k : s[i] = t
    <2> SUFFICES ASSUME NEW t \in S PROVE \E i \in 1 .. k : s[i] = t
      OBVIOUS
    <2>1. PICK i \in 1 .. k : f[i] = t
      BY <1>3
    <2>2. CASE t = n
      BY <1>5, <1>6, <2>2
    <2>3. CASE t # n /\ i = 1
      <3>1. s[j] = t
        BY <1>4, <1>5, <2>1, <2>3
      <3> QED
        BY <3>1
    <2>4. CASE t # n /\ i # 1
      <3>1. s[i] = t
        BY <1>4, <1>5, <2>1, <2>4
      <3> QED
        BY <3>1
    <2> QED
      BY <2>2, <2>3, <2>4
  <1> HIDE DEF s
  <1>9. s \in Bijection(1 .. k, S)
    BY <1>6, <1>7, <1>8 DEF Bijection, Injection, Surjection, IsInjective
  <1> QED
    BY <1>1, <1>5, <1>6, <1>9 DEF k

\* The heap q is h with new nodes, the copies of the nodes s names.
CopiedAs(h, doc, n, q, s) ==
  LET L == Len(h.nodes)
      k == Len(q.nodes) - L
  IN  /\ q \in HeapSet /\ q.w = h.w /\ q.docs = h.docs /\ q.ndocs = h.ndocs /\ q.twice = h.twice
      /\ k \in Nat \ {0} /\ \A m \in DOMAIN h.nodes : q.nodes[m] = h.nodes[m]
      /\ s \in [1 .. k -> DOMAIN h.nodes] /\ s[1] = n
      /\ \A a, b \in 1 .. k : s[a] = s[b] => a = b
      /\ \A i \in 1 .. k :
           /\ h.nodes[s[i]].doc = h.nodes[n].doc
           /\ q.nodes[L + i].doc = doc /\ q.nodes[L + i].kind = h.nodes[s[i]].kind
           /\ Len(q.nodes[L + i].kids) = Len(h.nodes[s[i]].kids)
           /\ \A j \in DOMAIN h.nodes[s[i]].kids :
                /\ q.nodes[L + i].kids[j].key = h.nodes[s[i]].kids[j].key
                /\ q.nodes[L + i].kids[j].node - L \in 1 .. k
                /\ s[q.nodes[L + i].kids[j].node - L] = h.nodes[s[i]].kids[j].node

\* What dup_into does.
LEMMA DupIs ==
  ASSUME NEW h \in HeapSet, NodesApart(h), NEW n \in DOMAIN h.nodes, NEW doc \in Nat
  PROVE  \E s : CopiedAs(h, doc, n, dup_into(h, doc, n), s)
  <1> DEFINE L == Len(h.nodes)
             below == Subtree(h.nodes, n)
             k == Cardinality(below)
             s == CHOOSE t \in Bijection(1 .. k, below) : t[1] = n
             At(m) == CHOOSE i \in DOMAIN s : s[i] = m
             CopyOf(m) == L + CHOOSE i \in DOMAIN s : s[i] = m
             Kids(m) == [i \in DOMAIN h.nodes[m].kids |->
                           Kid(h.nodes[m].kids[i].key, CopyOf(h.nodes[m].kids[i].node))]
             Copy(m) == [doc |-> doc, kind |-> h.nodes[m].kind, kids |-> Kids(m)]
             news == [i \in DOMAIN s |-> Copy(s[i])]
             X == h.nodes \o news
  <1>1. /\ below \subseteq DOMAIN h.nodes /\ n \in below
        /\ \A m \in below : /\ h.nodes[m].doc = h.nodes[n].doc
                            /\ \A i \in DOMAIN h.nodes[m].kids : h.nodes[m].kids[i].node \in below
    BY SubtreeIs
  <1>2. dup_into(h, doc, n) = [h EXCEPT !.nodes = X]
    BY DEF dup_into
  <1>3. L \in Nat /\ DOMAIN h.nodes = 1 .. L /\ h.nodes \in Seq(NodeSet) /\ \A m \in DOMAIN h.nodes : h.nodes[m] \in NodeSet
    BY HeapFields
  <1> HIDE DEF below
  <1>4. IsFiniteSet(below)
    <2>1. IsFiniteSet(1 .. L)
      BY <1>3, FS_Interval
    <2>2. below \in SUBSET (1 .. L)
      BY <1>1, <1>3
    <2> HIDE DEF L
    <2> QED
      BY <2>1, <2>2, FS_Subset
  <1>5. k \in Nat \ {0} /\ \E t \in Bijection(1 .. k, below) : t[1] = n
    BY <1>1, <1>4, CountedFrom
  <1> HIDE DEF k
  <1>6. s \in Bijection(1 .. k, below) /\ s[1] = n
    BY <1>5
  <1> HIDE DEF s
  <1>7. /\ s \in [1 .. k -> below] /\ DOMAIN s = 1 .. k
        /\ \A t \in below : \E i \in 1 .. k : s[i] = t
        /\ \A a, b \in 1 .. k : s[a] = s[b] => a = b
    BY <1>6 DEF Bijection, Injection, Surjection, IsInjective
  <1>8. ASSUME NEW m \in below PROVE At(m) \in 1 .. k /\ s[At(m)] = m
    BY <1>7
  <1>8b. \A m : CopyOf(m) = L + At(m)
    OBVIOUS
  <1> HIDE DEF At, CopyOf
  <1>9. ASSUME NEW m \in below
        PROVE  /\ Kids(m) \in Seq(KidSet) /\ Len(Kids(m)) = Len(h.nodes[m].kids)
               /\ \A j \in DOMAIN h.nodes[m].kids :
                    /\ Kids(m)[j].key = h.nodes[m].kids[j].key
                    /\ Kids(m)[j].node - L \in 1 .. k
                    /\ s[Kids(m)[j].node - L] = h.nodes[m].kids[j].node
    <2> DEFINE ks == h.nodes[m].kids
    <2>1. ks \in Seq(KidSet)
      <3>1. h.nodes[m] \in NodeSet
        BY <1>1, <1>3
      <3> QED
        BY <3>1 DEF NodeSet
    <2>2. ASSUME NEW j \in DOMAIN ks
          PROVE  /\ ks[j].key \in KeySet /\ ks[j].node \in below
      <3>1. ks[j].node \in below
        BY <1>1
      <3> HIDE DEF ks
      <3>2. ks[j] \in KidSet
        BY <2>1
      <3> QED
        BY <3>1, <3>2 DEF KidSet
    <2> HIDE DEF ks
    <2>3. ASSUME NEW j \in DOMAIN ks
          PROVE  CopyOf(ks[j].node) \in Nat /\ CopyOf(ks[j].node) - L \in 1 .. k
                 /\ s[CopyOf(ks[j].node) - L] = ks[j].node
      <3>1. At(ks[j].node) \in 1 .. k /\ s[At(ks[j].node)] = ks[j].node /\ CopyOf(ks[j].node) = L + At(ks[j].node)
        BY <1>8, <1>8b, <2>2
      <3>2. CopyOf(ks[j].node) \in Nat /\ CopyOf(ks[j].node) - L = At(ks[j].node)
        BY <1>3, <1>5, <3>1
      <3> QED
        BY <3>1, <3>2
    <2> DEFINE e(j) == Kid(ks[j].key, CopyOf(ks[j].node))
    <2>4. ASSUME NEW j \in DOMAIN ks
          PROVE  e(j) \in KidSet /\ e(j).key = ks[j].key /\ e(j).node = CopyOf(ks[j].node)
      BY <2>2, <2>3, KidIs
    <2> DEFINE K == [j \in DOMAIN ks |-> e(j)]
    <2>5. Kids(m) = K
      BY DEF ks
    <2> HIDE DEF e
    <2>6. DOMAIN ks = 1 .. Len(ks) /\ Len(ks) \in Nat
      BY <2>1
    <2>7. K \in Seq(KidSet) /\ Len(K) = Len(ks) /\ \A j \in DOMAIN ks : K[j] = e(j)
      BY <2>4, <2>6
    <2> HIDE DEF K
    <2>8. \A j \in DOMAIN ks : K[j].key = ks[j].key /\ K[j].node - L \in 1 .. k /\ s[K[j].node - L] = ks[j].node
      BY <2>3, <2>4, <2>7
    <2> HIDE DEF Kids
    <2> QED
      BY <2>5, <2>7, <2>8 DEF ks
  <1> HIDE DEF Kids
  <1>10. ASSUME NEW m \in below
         PROVE  Copy(m) \in NodeSet /\ Copy(m).doc = doc /\ Copy(m).kind = h.nodes[m].kind /\ Copy(m).kids = Kids(m)
    <2>1. h.nodes[m].kind \in NewKinds
      BY <1>1, <1>3 DEF NodeSet
    <2> QED
      BY <1>9, <2>1 DEF NodeSet
  <1> HIDE DEF Copy
  <1>11. news \in Seq(NodeSet) /\ Len(news) = k /\ \A i \in 1 .. k : news[i] = Copy(s[i])
    <2>1. \A i \in 1 .. k : Copy(s[i]) \in NodeSet
      BY <1>7, <1>10
    <2> QED
      BY <1>5, <1>7, <2>1
  <1> HIDE DEF news
  <1>12. /\ X \in Seq(NodeSet) /\ Len(X) = L + k
         /\ \A m \in DOMAIN h.nodes : X[m] = h.nodes[m]
         /\ \A i \in 1 .. k : X[L + i] = news[i]
    BY <1>3, <1>5, <1>11
  <1> HIDE DEF X
  <1> DEFINE q == dup_into(h, doc, n)
  <1>13. /\ q \in HeapSet /\ q.w = h.w /\ q.docs = h.docs /\ q.ndocs = h.ndocs /\ q.twice = h.twice /\ q.nodes = X
    BY <1>2, <1>12, HeapNodes
  <1> HIDE DEF q
  <1>14. Len(q.nodes) - L = k
    BY <1>3, <1>5, <1>12, <1>13
  <1>15. ASSUME NEW i \in 1 .. k
         PROVE  /\ h.nodes[s[i]].doc = h.nodes[n].doc
                /\ q.nodes[L + i].doc = doc /\ q.nodes[L + i].kind = h.nodes[s[i]].kind
                /\ Len(q.nodes[L + i].kids) = Len(h.nodes[s[i]].kids)
                /\ \A j \in DOMAIN h.nodes[s[i]].kids :
                     /\ q.nodes[L + i].kids[j].key = h.nodes[s[i]].kids[j].key
                     /\ q.nodes[L + i].kids[j].node - L \in 1 .. k
                     /\ s[q.nodes[L + i].kids[j].node - L] = h.nodes[s[i]].kids[j].node
    <2>1. s[i] \in below
      BY <1>7
    <2>2. q.nodes[L + i] = Copy(s[i])
      BY <1>11, <1>12, <1>13
    <2>3. q.nodes[L + i].doc = doc /\ q.nodes[L + i].kind = h.nodes[s[i]].kind /\ q.nodes[L + i].kids = Kids(s[i])
      BY <1>10, <2>1, <2>2
    <2> QED
      BY <1>1, <1>9, <2>1, <2>3
  <1>16. s \in [1 .. k -> DOMAIN h.nodes]
    BY <1>1, <1>7
  <1>17. \A m \in DOMAIN h.nodes : q.nodes[m] = h.nodes[m]
    BY <1>12, <1>13
  <1> HIDE DEF L
  <1>18. CopiedAs(h, doc, n, q, s)
    <2> DEFINE r == Len(q.nodes) - L
    <2>1. r = k
      BY <1>14
    <2> HIDE DEF r
    <2>2. r \in Nat \ {0} /\ s \in [1 .. r -> DOMAIN h.nodes] /\ s[1] = n /\ \A a, b \in 1 .. r : s[a] = s[b] => a = b
      BY <1>5, <1>6, <1>7, <1>16, <2>1
    <2>3. \A i \in 1 .. r :
             /\ h.nodes[s[i]].doc = h.nodes[n].doc
             /\ q.nodes[L + i].doc = doc /\ q.nodes[L + i].kind = h.nodes[s[i]].kind
             /\ Len(q.nodes[L + i].kids) = Len(h.nodes[s[i]].kids)
             /\ \A j \in DOMAIN h.nodes[s[i]].kids :
                  /\ q.nodes[L + i].kids[j].key = h.nodes[s[i]].kids[j].key
                  /\ q.nodes[L + i].kids[j].node - L \in 1 .. r
                  /\ s[q.nodes[L + i].kids[j].node - L] = h.nodes[s[i]].kids[j].node
      BY <1>15, <2>1
    <2>4. CopiedAs(h, doc, n, q, s) <=>
            /\ q \in HeapSet /\ q.w = h.w /\ q.docs = h.docs /\ q.ndocs = h.ndocs /\ q.twice = h.twice
            /\ \A m \in DOMAIN h.nodes : q.nodes[m] = h.nodes[m]
            /\ r \in Nat \ {0} /\ s \in [1 .. r -> DOMAIN h.nodes] /\ s[1] = n /\ \A a, b \in 1 .. r : s[a] = s[b] => a = b
            /\ \A i \in 1 .. r :
                 /\ h.nodes[s[i]].doc = h.nodes[n].doc
                 /\ q.nodes[L + i].doc = doc /\ q.nodes[L + i].kind = h.nodes[s[i]].kind
                 /\ Len(q.nodes[L + i].kids) = Len(h.nodes[s[i]].kids)
                 /\ \A j \in DOMAIN h.nodes[s[i]].kids :
                      /\ q.nodes[L + i].kids[j].key = h.nodes[s[i]].kids[j].key
                      /\ q.nodes[L + i].kids[j].node - L \in 1 .. r
                      /\ s[q.nodes[L + i].kids[j].node - L] = h.nodes[s[i]].kids[j].node
      BY DEF CopiedAs, r, L
    <2> QED
      BY <1>13, <1>17, <2>2, <2>3, <2>4
  <1> QED
    BY <1>18 DEF q

-----------------------------------------------------------------------------
(* The steps of attach.                                                    *)

\* The heap q is h with new nodes of a document that point to one another only.
Grown(h, doc, q) ==
  /\ q \in HeapSet /\ q.w = h.w /\ q.docs = h.docs /\ q.ndocs = h.ndocs /\ q.twice = h.twice
  /\ Len(q.nodes) > Len(h.nodes) /\ \A m \in DOMAIN h.nodes : q.nodes[m] = h.nodes[m]
  /\ \A m \in DOMAIN q.nodes \ DOMAIN h.nodes :
       /\ q.nodes[m].doc = doc
       /\ \A j \in DOMAIN q.nodes[m].kids : q.nodes[m].kids[j].node \in DOMAIN q.nodes \ DOMAIN h.nodes

\* A copy is new.
LEMMA CopiedGrown ==
  ASSUME NEW h \in HeapSet, NEW doc \in Nat, NEW n \in DOMAIN h.nodes, NEW q, NEW s, CopiedAs(h, doc, n, q, s)
  PROVE  Grown(h, doc, q)
  <1> DEFINE L == Len(h.nodes)
             k == Len(q.nodes) - L
  <1>1. /\ q \in HeapSet /\ q.w = h.w /\ q.docs = h.docs /\ q.ndocs = h.ndocs /\ q.twice = h.twice
        /\ k \in Nat \ {0} /\ \A m \in DOMAIN h.nodes : q.nodes[m] = h.nodes[m]
        /\ s \in [1 .. k -> DOMAIN h.nodes]
        /\ \A i \in 1 .. k :
             /\ q.nodes[L + i].doc = doc
             /\ Len(q.nodes[L + i].kids) = Len(h.nodes[s[i]].kids)
             /\ \A j \in DOMAIN h.nodes[s[i]].kids : q.nodes[L + i].kids[j].node - L \in 1 .. k
    BY DEF CopiedAs
  <1>2. /\ L \in Nat /\ Len(q.nodes) \in Nat /\ DOMAIN h.nodes = 1 .. L /\ DOMAIN q.nodes = 1 .. Len(q.nodes)
        /\ \A m \in DOMAIN h.nodes : h.nodes[m] \in NodeSet
        /\ \A m \in DOMAIN q.nodes : q.nodes[m] \in NodeSet
    BY <1>1, HeapFields
  <1> HIDE DEF L
  <1>3. Len(q.nodes) > L /\ Len(q.nodes) = L + k
    BY <1>1, <1>2
  <1> HIDE DEF k
  <1>4. ASSUME NEW m \in DOMAIN q.nodes \ DOMAIN h.nodes
        PROVE  /\ q.nodes[m].doc = doc
               /\ \A j \in DOMAIN q.nodes[m].kids : q.nodes[m].kids[j].node \in DOMAIN q.nodes \ DOMAIN h.nodes
    <2>1. m - L \in 1 .. k /\ L + (m - L) = m
      BY <1>1, <1>2, <1>3
    <2> DEFINE i == m - L
    <2>2. /\ q.nodes[m].doc = doc /\ Len(q.nodes[m].kids) = Len(h.nodes[s[i]].kids)
          /\ \A j \in DOMAIN h.nodes[s[i]].kids : q.nodes[m].kids[j].node - L \in 1 .. k
      BY <1>1, <2>1
    <2>3. s[i] \in DOMAIN h.nodes
      BY <1>1, <2>1
    <2> HIDE DEF i
    <2>4. q.nodes[m].kids \in Seq(KidSet) /\ h.nodes[s[i]].kids \in Seq(KidSet)
      BY <1>2, <2>3 DEF NodeSet
    <2>5. DOMAIN q.nodes[m].kids = DOMAIN h.nodes[s[i]].kids
      BY <2>2, <2>4
    <2>6. ASSUME NEW j \in DOMAIN q.nodes[m].kids
          PROVE  q.nodes[m].kids[j].node \in DOMAIN q.nodes \ DOMAIN h.nodes
      <3>1. q.nodes[m].kids[j].node - L \in 1 .. k
        BY <2>2, <2>5
      <3>2. q.nodes[m].kids[j] \in KidSet
        BY <2>4
      <3>3. q.nodes[m].kids[j].node \in Nat
        BY <3>2 DEF KidSet
      <3> DEFINE t == q.nodes[m].kids[j].node
      <3> HIDE DEF t
      <3>4. t \in Nat /\ t - L \in 1 .. k
        BY <3>1, <3>3 DEF t
      <3>5. t \in 1 .. Len(q.nodes) /\ t \notin 1 .. L
        BY <1>1, <1>2, <1>3, <3>4
      <3> QED
        BY <1>2, <3>5 DEF t
    <2> QED
      BY <2>2, <2>6
  <1> QED
    BY <1>1, <1>3, <1>4 DEF Grown, L

\* A new empty node is new.
LEMMA NewNodeGrown ==
  ASSUME NEW h \in HeapSet, NEW doc \in Nat, NEW kind \in NewKinds
  PROVE  Grown(h, doc, NewNode(h, doc, kind))
  <1> DEFINE q == NewNode(h, doc, kind)
             e == [doc |-> doc, kind |-> kind, kids |-> <<>>]
  <1>1. /\ q \in HeapSet /\ q.w = h.w /\ q.docs = h.docs /\ q.ndocs = h.ndocs /\ q.twice = h.twice
        /\ Len(q.nodes) = Len(h.nodes) + 1 /\ \A m \in DOMAIN h.nodes : q.nodes[m] = h.nodes[m]
        /\ q.nodes[Len(h.nodes) + 1] = e
    BY NewNodeIs
  <1> HIDE DEF q
  <1>2. /\ Len(h.nodes) \in Nat /\ DOMAIN h.nodes = 1 .. Len(h.nodes)
        /\ Len(q.nodes) \in Nat /\ DOMAIN q.nodes = 1 .. Len(q.nodes)
    BY <1>1, HeapFields
  <1>3. e.doc = doc /\ DOMAIN e.kids = {}
    OBVIOUS
  <1> HIDE DEF e
  <1>4. \A m \in DOMAIN q.nodes \ DOMAIN h.nodes : m = Len(h.nodes) + 1
    BY <1>1, <1>2
  <1> QED
    BY <1>1, <1>2, <1>3, <1>4 DEF Grown, q

\* What attach and its callers have made sure of.
Movable(h, hd, p, v) ==
  /\ Kept(h, hd) /\ p \in hd /\ v \in hd /\ p # v
  /\ h.w[p].form \in {"owner", "attached"} /\ h.w[v].form \in {"pending", "owner"}
  /\ h.w[p].root # v

\* The root of the parent.
LEMMA MovableRoot ==
  ASSUME NEW h, NEW hd, NEW p, NEW v, Movable(h, hd, p, v)
  PROVE  /\ h \in HeapSet /\ p \in DOMAIN h.w /\ v \in DOMAIN h.w /\ h.w[p].root \in DOMAIN h.w
         /\ h.w[p] \in WrapperSet /\ h.w[v] \in WrapperSet /\ h.w[h.w[p].root] \in WrapperSet
         /\ OwnerIn(h, h.w[p].root) /\ h.w[h.w[p].root].doc \in h.docs /\ h.w[h.w[p].root].doc \in Nat
         /\ h.w[p].node \in DOMAIN h.nodes /\ h.nodes[h.w[p].node].doc = h.w[h.w[p].root].doc
         /\ h.w[v].life = "live"
         /\ h.w[v].form = "owner" =>
              h.w[v].doc \in h.docs /\ h.w[v].node \in DOMAIN h.nodes /\ h.nodes[h.w[v].node].doc = h.w[v].doc
         /\ h.w[v].form = "pending" => h.w[v].registry = {}
         /\ \A x \in h.w[v].registry :
              x \in DOMAIN h.w /\ h.w[x].life = "live" /\ h.w[x].form = "attached" /\ h.w[x].root = v
         /\ v \notin h.w[v].registry /\ p \notin h.w[v].registry /\ h.w[p].root \notin h.w[v].registry
  <1>1. h \in HeapSet /\ p \in DOMAIN h.w /\ v \in DOMAIN h.w /\ h.w[p].root \in DOMAIN h.w /\ h.w[p].root # v
    BY DEF Movable, Kept, RootsHeld, WrappersSound
  <1>2. h.w[p] \in WrapperSet /\ h.w[v] \in WrapperSet /\ h.w[h.w[p].root] \in WrapperSet
    BY <1>1, HeapFields
  <1>3. h.w[p].life = "live" /\ h.w[v].life = "live"
    BY DEF Movable, Kept, RootsHeld
  <1>4. /\ OwnerIn(h, h.w[p].root) /\ h.w[p].node \in DOMAIN h.nodes
        /\ h.nodes[h.w[p].node].doc = h.w[h.w[p].root].doc
    <2>1. CASE h.w[p].form = "owner"
      <3>1. h.w[p].root = p
        BY <1>1, <1>3, <2>1 DEF Movable, Kept, RootsHeld
      <3> QED
        BY <1>1, <1>3, <2>1, <3>1 DEF OwnerIn, Movable, Kept, DocsOwned
    <2>2. CASE h.w[p].form = "attached"
      BY <2>2 DEF Movable, Kept, AttachedHeld
    <2> QED
      BY <2>1, <2>2 DEF Movable
  <1>5. h.w[h.w[p].root].doc \in h.docs /\ h.w[h.w[p].root].doc \in Nat
    BY <1>1, <1>2, <1>4 DEF Movable, Kept, DocsOwned, WrapperSet
  <1>6. h.w[v].form = "pending" => h.w[v].registry = {}
    BY <1>1 DEF Movable, Kept, WrappersSound
  <1>7. h.w[v].form = "owner" => OwnerIn(h, v)
    BY <1>3 DEF OwnerIn
  <1>8. \A x \in h.w[v].registry :
          x \in DOMAIN h.w /\ h.w[x].life = "live" /\ h.w[x].form = "attached" /\ h.w[x].root = v
    BY <1>1, <1>6, <1>7 DEF Movable, Kept, WrappersSound, RegistriesExact
  <1>9. v \notin h.w[v].registry /\ p \notin h.w[v].registry /\ h.w[p].root \notin h.w[v].registry
    BY <1>1, <1>4, <1>8 DEF Movable, OwnerIn
  <1>10. h.w[v].form = "owner" =>
              h.w[v].doc \in h.docs /\ h.w[v].node \in DOMAIN h.nodes /\ h.nodes[h.w[v].node].doc = h.w[v].doc
    BY <1>1, <1>7 DEF Movable, Kept, DocsOwned
  <1> QED
    BY <1>1, <1>2, <1>3, <1>4, <1>5, <1>6, <1>8, <1>9, <1>10

\* The node or the nodes of the value in the parent's document are new.
LEMMA MovedIs ==
  ASSUME NEW h, NEW hd, NEW p, NEW v, Movable(h, hd, p, v)
  PROVE  Grown(h, h.w[h.w[p].root].doc, Moved(h, p, v))
  <1> DEFINE D == h.w[h.w[p].root].doc
  <1>1. h \in HeapSet /\ D \in Nat /\ h.w[v] \in WrapperSet
    BY MovableRoot
  <1>2. CASE h.w[v].form = "pending"
    <2> DEFINE kd == h.w[v].kind
    <2>1. kd \in NewKinds
      BY <1>1 DEF WrapperSet
    <2>2. Moved(h, p, v) = NewNode(h, D, kd)
      BY <1>2 DEF Moved
    <2> HIDE DEF kd, D
    <2>3. Grown(h, D, NewNode(h, D, kd))
      BY <1>1, <2>1, NewNodeGrown
    <2> QED
      BY <2>2, <2>3 DEF D
  <1>3. CASE h.w[v].form # "pending"
    <2> DEFINE n == h.w[v].node
    <2>0. h.w[v].form = "owner"
      BY <1>3 DEF Movable
    <2>1. n \in DOMAIN h.nodes
      BY <2>0, MovableRoot
    <2>2. Moved(h, p, v) = dup_into(h, D, n)
      BY <1>3 DEF Moved
    <2>3. NodesApart(h)
      BY DEF Movable, Kept
    <2> HIDE DEF n, D
    <2>4. PICK s : CopiedAs(h, D, n, dup_into(h, D, n), s)
      BY <1>1, <2>1, <2>3, DupIs
    <2>5. Grown(h, D, dup_into(h, D, n))
      BY <1>1, <2>1, <2>4, CopiedGrown
    <2> QED
      BY <2>2, <2>5 DEF D
  <1> QED
    BY <1>2, <1>3

\* What the value gives up.
ConsumedAs(h, v, q) ==
  /\ q \in HeapSet /\ DOMAIN q.w = DOMAIN h.w /\ q.w[v].kind = h.w[v].kind
  /\ \A x \in DOMAIN h.w : x # v =>
       q.w[x] = IF x \in h.w[v].registry THEN [h.w[x] EXCEPT !.life = "freed"] ELSE h.w[x]
  /\ q.nodes = h.nodes /\ q.ndocs = h.ndocs /\ q.twice = h.twice
  /\ q.docs = IF h.w[v].form = "owner" THEN h.docs \ {h.w[v].doc} ELSE h.docs

\* What Consume does.
LEMMA ConsumeIs ==
  ASSUME NEW h \in HeapSet, NEW v \in DOMAIN h.w, h.w[v].form \in {"pending", "owner"},
         h.w[v].form = "pending" => h.w[v].registry = {},
         h.w[v].form = "owner" => h.w[v].doc \in h.docs,
         v \notin h.w[v].registry, \A x \in h.w[v].registry : h.w[x].life = "live"
  PROVE  ConsumedAs(h, v, Consume(h, v))
  <1>0. h.w[v] \in WrapperSet
    BY HeapFields
  <1>1. CASE h.w[v].form = "pending"
    <2> DEFINE Z == [h.w[v] EXCEPT !.form = "consumed"]
               q == [h EXCEPT !.w[v] = Z]
    <2>1. Z \in WrapperSet /\ Z.kind = h.w[v].kind
      BY <1>0 DEF WrapperSet
    <2>2. Consume(h, v) = q
      BY <1>1 DEF Consume
    <2> HIDE DEF Z
    <2>3. /\ q \in HeapSet /\ DOMAIN q.w = DOMAIN h.w /\ q.w[v] = Z /\ \A x \in DOMAIN h.w : x # v => q.w[x] = h.w[x]
          /\ q.nodes = h.nodes /\ q.docs = h.docs /\ q.ndocs = h.ndocs /\ q.twice = h.twice
      BY <2>1, HeapWrapper
    <2> HIDE DEF q
    <2> QED
      BY <1>1, <2>1, <2>2, <2>3 DEF ConsumedAs
  <1>2. CASE h.w[v].form = "owner"
    <2> DEFINE R == h.w[v].registry
               d == h.w[v].doc
               g1 == FreeAll(h, R)
               g2 == FreeDoc(g1, d)
               Z == [g2.w[v] EXCEPT !.registry = {}]
               q == [g2 EXCEPT !.w[v] = Z]
    <2>1. Consume(h, v) = q
      BY <1>2 DEF Consume
    <2>2. /\ g1 \in HeapSet /\ DOMAIN g1.w = DOMAIN h.w
          /\ \A x \in DOMAIN h.w : g1.w[x] = IF x \in R THEN [h.w[x] EXCEPT !.life = "freed"] ELSE h.w[x]
          /\ g1.nodes = h.nodes /\ g1.docs = h.docs /\ g1.ndocs = h.ndocs
          /\ g1.twice <=> (h.twice \/ \E x \in R : h.w[x].life = "freed")
      BY FreeAllIs
    <2>3. g1.twice <=> h.twice
      BY <2>2
    <2>3b. g1.twice = h.twice
      BY <2>2, <2>3, HeapFields
    <2> HIDE DEF g1
    <2>4. /\ g2 \in HeapSet /\ g2.w = g1.w /\ g2.nodes = g1.nodes /\ g2.ndocs = g1.ndocs
          /\ g2.docs = g1.docs \ {d} /\ (g2.twice <=> (g1.twice \/ d \notin g1.docs))
      BY <2>2, FreeDocIs
    <2>5. g2.twice <=> g1.twice
      BY <1>2, <2>2, <2>4
    <2>5b. g2.twice = g1.twice
      BY <2>2, <2>4, <2>5, HeapFields
    <2> HIDE DEF g2
    <2>6. g2.w[v] = h.w[v] /\ v \in DOMAIN g2.w
      BY <2>2, <2>4
    <2>7. Z \in WrapperSet /\ Z.kind = h.w[v].kind
      <3>1. Z = [h.w[v] EXCEPT !.registry = {}]
        BY <2>6
      <3> DEFINE o == h.w[v]
      <3>2. o \in WrapperSet
        BY <1>0
      <3> HIDE DEF Z, o
      <3>3. [o EXCEPT !.registry = {}] \in WrapperSet /\ [o EXCEPT !.registry = {}].kind = o.kind
        BY <3>2 DEF WrapperSet
      <3> QED
        BY <3>1, <3>3 DEF o
    <2> HIDE DEF Z
    <2>8. /\ q \in HeapSet /\ DOMAIN q.w = DOMAIN g2.w /\ q.w[v] = Z /\ \A x \in DOMAIN g2.w : x # v => q.w[x] = g2.w[x]
          /\ q.nodes = g2.nodes /\ q.docs = g2.docs /\ q.ndocs = g2.ndocs /\ q.twice = g2.twice
      BY <2>4, <2>6, <2>7, HeapWrapper
    <2> HIDE DEF q
    <2>9. \A x \in DOMAIN h.w : x # v => q.w[x] = IF x \in R THEN [h.w[x] EXCEPT !.life = "freed"] ELSE h.w[x]
      BY <2>2, <2>4, <2>8
    <2>10. /\ q.docs = h.docs \ {d} /\ q.nodes = h.nodes /\ q.ndocs = h.ndocs /\ q.twice = h.twice
           /\ DOMAIN q.w = DOMAIN h.w /\ q.w[v].kind = h.w[v].kind
      BY <2>2, <2>3b, <2>4, <2>5b, <2>7, <2>8
    <2> QED
      BY <1>2, <2>1, <2>8, <2>9, <2>10 DEF ConsumedAs
  <1> QED
    BY <1>1, <1>2

\* The heap with the children of one node replaced.
LEMMA HeapKids ==
  ASSUME NEW h \in HeapSet, NEW n \in DOMAIN h.nodes, NEW K \in Seq(KidSet)
  PROVE  LET q == [h EXCEPT !.nodes[n].kids = K]
         IN  /\ q \in HeapSet /\ Len(q.nodes) = Len(h.nodes) /\ DOMAIN q.nodes = DOMAIN h.nodes
             /\ q.nodes[n].kids = K /\ q.nodes[n].doc = h.nodes[n].doc /\ q.nodes[n].kind = h.nodes[n].kind
             /\ \A m \in DOMAIN h.nodes : m # n => q.nodes[m] = h.nodes[m]
             /\ q.w = h.w /\ q.docs = h.docs /\ q.ndocs = h.ndocs /\ q.twice = h.twice
  <1> DEFINE Z == [h.nodes[n] EXCEPT !.kids = K]
             X == [h.nodes EXCEPT ![n] = Z]
  <1>0. h.nodes[n] \in NodeSet
    BY HeapFields
  <1>1. Z \in NodeSet /\ Z.kids = K /\ Z.doc = h.nodes[n].doc /\ Z.kind = h.nodes[n].kind
    BY <1>0 DEF NodeSet
  <1>2. [h EXCEPT !.nodes[n].kids = K] = [h EXCEPT !.nodes = X]
    OBVIOUS
  <1> HIDE DEF Z
  <1>3. X \in Seq(NodeSet) /\ DOMAIN X = DOMAIN h.nodes /\ Len(X) = Len(h.nodes) /\ X[n] = Z
        /\ \A m \in DOMAIN h.nodes : m # n => X[m] = h.nodes[m]
    BY <1>1, HeapFields
  <1> HIDE DEF X
  <1> QED
    BY <1>1, <1>2, <1>3, HeapNodes

\* The heap q is h with the node under the parent.
InsertedAs(h, p, node, key, idx, q) ==
  LET at == h.w[p].node
  IN  /\ q \in HeapSet /\ Len(q.nodes) = Len(h.nodes) /\ DOMAIN q.nodes = DOMAIN h.nodes
      /\ q.nodes[at].kids = Put(h.nodes[at].kids, key, idx, node)
      /\ q.nodes[at].doc = h.nodes[at].doc /\ q.nodes[at].kind = h.nodes[at].kind
      /\ \A m \in DOMAIN h.nodes : m # at => q.nodes[m] = h.nodes[m]
      /\ q.w = h.w /\ q.docs = h.docs /\ q.ndocs = h.ndocs /\ q.twice = h.twice

\* What Insert does.
LEMMA InsertIs ==
  ASSUME NEW h \in HeapSet, NEW p, h.w[p].node \in DOMAIN h.nodes, NEW node \in Nat, NEW key \in KeySet, NEW idx \in Nat
  PROVE  InsertedAs(h, p, node, key, idx, Insert(h, p, node, key, idx))
  <1> DEFINE n == h.w[p].node
             K == Put(h.nodes[n].kids, key, idx, node)
  <1>1. h.nodes[n] \in NodeSet
    BY HeapFields
  <1>2. h.nodes[n].kids \in Seq(KidSet)
    BY <1>1 DEF NodeSet
  <1>3. K \in Seq(KidSet)
    <2> DEFINE ks == h.nodes[n].kids
    <2>1. ks \in Seq(KidSet)
      BY <1>2
    <2> HIDE DEF ks
    <2>2. Put(ks, key, idx, node) \in Seq(KidSet)
      BY <2>1, PutIs
    <2> QED
      BY <2>2 DEF ks
  <1>4. Insert(h, p, node, key, idx) = [h EXCEPT !.nodes[n].kids = K]
    BY DEF Insert
  <1>5. n \in DOMAIN h.nodes
    OBVIOUS
  <1> DEFINE q == [h EXCEPT !.nodes[n].kids = K]
  <1> HIDE DEF K, n
  <1>6. /\ q \in HeapSet /\ Len(q.nodes) = Len(h.nodes) /\ DOMAIN q.nodes = DOMAIN h.nodes
        /\ q.nodes[n].kids = K /\ q.nodes[n].doc = h.nodes[n].doc /\ q.nodes[n].kind = h.nodes[n].kind
        /\ \A m \in DOMAIN h.nodes : m # n => q.nodes[m] = h.nodes[m]
        /\ q.w = h.w /\ q.docs = h.docs /\ q.ndocs = h.ndocs /\ q.twice = h.twice
    BY <1>3, <1>5, HeapKids
  <1> HIDE DEF q
  <1>7. q.nodes[n].kids = Put(h.nodes[n].kids, key, idx, node)
    BY <1>6 DEF K
  <1>8. Insert(h, p, node, key, idx) = q
    BY <1>4 DEF q
  <1> QED
    BY <1>6, <1>7, <1>8 DEF InsertedAs, n

\* The heap q is h with the wrapper v attached to the root of p.
RetargetedAs(h, v, p, node, listed, q) ==
  LET r == h.w[p].root
  IN  /\ q \in HeapSet /\ DOMAIN q.w = DOMAIN h.w
      /\ q.w[v] = Wrapper("attached", h.w[v].kind, h.w[r].doc, node, r, listed)
      /\ q.w[r] = [h.w[r] EXCEPT !.registry = IF listed THEN @ \cup {v} ELSE @]
      /\ \A x \in DOMAIN h.w : x # v /\ x # r => q.w[x] = h.w[x]
      /\ q.nodes = h.nodes /\ q.docs = h.docs /\ q.ndocs = h.ndocs /\ q.twice = h.twice

\* What Retarget does.
LEMMA RetargetIs ==
  ASSUME NEW h \in HeapSet, NEW v \in DOMAIN h.w, NEW p \in DOMAIN h.w, h.w[p].root \in DOMAIN h.w,
         h.w[p].root # v, NEW node \in Nat, NEW listed \in BOOLEAN
  PROVE  RetargetedAs(h, v, p, node, listed, Retarget(h, v, p, node, listed))
  <1> DEFINE r == h.w[p].root
             Z == Wrapper("attached", h.w[v].kind, h.w[r].doc, node, r, listed)
             g == [h EXCEPT !.w[v] = Z]
             R == IF listed THEN h.w[r].registry \cup {v} ELSE h.w[r].registry
             Y == [h.w[r] EXCEPT !.registry = R]
             q == [g EXCEPT !.w[r] = Y]
  <1>0. /\ h.w[v] \in WrapperSet /\ h.w[r] \in WrapperSet /\ r \in Nat /\ v \in Nat /\ r \in DOMAIN h.w /\ r # v
    BY HeapFields
  <1>1. Z \in WrapperSet
    <2> DEFINE kd == h.w[v].kind
               dc == h.w[r].doc
    <2>1. kd \in NewKinds /\ dc \in Nat
      BY <1>0 DEF WrapperSet
    <2> HIDE DEF kd, dc, r
    <2>2. Wrapper("attached", kd, dc, node, r, listed) \in WrapperSet
      BY <1>0, <2>1, WrapperIs
    <2> QED
      BY <2>2 DEF kd, dc
  <1>2. R \in SUBSET Nat
    <2>1. h.w[r].registry \in SUBSET Nat
      BY <1>0 DEF WrapperSet
    <2> HIDE DEF r
    <2> QED
      BY <1>0, <2>1
  <1>3. Y \in WrapperSet
    <2> DEFINE o == h.w[r]
    <2>1. o \in WrapperSet
      BY <1>0
    <2> HIDE DEF o, R
    <2>2. [o EXCEPT !.registry = R] \in WrapperSet
      BY <1>2, <2>1, RegistryIs
    <2> QED
      BY <2>2 DEF o
  <1>4. Retarget(h, v, p, node, listed) = q
    <2>1. g.w[r] = h.w[r]
      BY <1>0, HeapFields DEF HeapSet
    <2>2. Retarget(h, v, p, node, listed) =
            [g EXCEPT !.w[r].registry = IF listed THEN @ \cup {v} ELSE @]
      BY DEF Retarget
    <2>3. [g EXCEPT !.w[r].registry = IF listed THEN @ \cup {v} ELSE @]
            = [g EXCEPT !.w[r] = [g.w[r] EXCEPT !.registry = IF listed THEN g.w[r].registry \cup {v} ELSE g.w[r].registry]]
      OBVIOUS
    <2> QED
      BY <2>1, <2>2, <2>3
  <1>5. Y = [h.w[r] EXCEPT !.registry = IF listed THEN @ \cup {v} ELSE @]
    OBVIOUS
  <1> HIDE DEF Z, R, Y, r
  <1>6. /\ g \in HeapSet /\ DOMAIN g.w = DOMAIN h.w /\ g.w[v] = Z /\ \A x \in DOMAIN h.w : x # v => g.w[x] = h.w[x]
        /\ g.nodes = h.nodes /\ g.docs = h.docs /\ g.ndocs = h.ndocs /\ g.twice = h.twice
    BY <1>1, HeapWrapper
  <1> HIDE DEF g
  <1>7. /\ q \in HeapSet /\ DOMAIN q.w = DOMAIN g.w /\ q.w[r] = Y /\ \A x \in DOMAIN g.w : x # r => q.w[x] = g.w[x]
        /\ q.nodes = g.nodes /\ q.docs = g.docs /\ q.ndocs = g.ndocs /\ q.twice = g.twice
    BY <1>0, <1>3, <1>6, HeapWrapper
  <1> HIDE DEF q
  <1>8. /\ q \in HeapSet /\ DOMAIN q.w = DOMAIN h.w /\ q.w[v] = Z /\ q.w[r] = Y
        /\ \A x \in DOMAIN h.w : x # v /\ x # r => q.w[x] = h.w[x]
        /\ q.nodes = h.nodes /\ q.docs = h.docs /\ q.ndocs = h.ndocs /\ q.twice = h.twice
    BY <1>0, <1>6, <1>7
  <1> QED
    BY <1>4, <1>5, <1>8 DEF RetargetedAs, Z, r

\* The heap a is h with the value v under the parent p.
AttachedAs(h, p, v, key, idx, listed, a) ==
  LET M == Moved(h, p, v)
      r == h.w[p].root
      at == h.w[p].node
      N == Len(h.nodes) + 1
  IN  /\ a \in HeapSet /\ DOMAIN a.w = DOMAIN h.w
      /\ a.w[v] = Wrapper("attached", h.w[v].kind, h.w[r].doc, N, r, listed)
      /\ a.w[r] = [h.w[r] EXCEPT !.registry = IF listed THEN @ \cup {v} ELSE @]
      /\ \A x \in DOMAIN h.w : x # v /\ x # r =>
           a.w[x] = IF x \in h.w[v].registry THEN [h.w[x] EXCEPT !.life = "freed"] ELSE h.w[x]
      /\ a.docs = IF h.w[v].form = "owner" THEN h.docs \ {h.w[v].doc} ELSE h.docs
      /\ a.ndocs = h.ndocs /\ a.twice = h.twice
      /\ Len(a.nodes) = Len(M.nodes) /\ DOMAIN a.nodes = DOMAIN M.nodes
      /\ a.nodes[at].kids = Put(h.nodes[at].kids, key, idx, N)
      /\ a.nodes[at].doc = h.nodes[at].doc /\ a.nodes[at].kind = h.nodes[at].kind
      /\ \A m \in DOMAIN M.nodes : m # at => a.nodes[m] = M.nodes[m]

\* What attach does.
LEMMA AttachIs ==
  ASSUME NEW h, NEW hd, NEW p, NEW v, Movable(h, hd, p, v), NEW key \in KeySet, NEW idx \in Nat,
         NEW fail \in {"none", "list"}
  PROVE  AttachedAs(h, p, v, key, idx, fail # "list", attach(h, p, v, key, idx, fail))
  <1> DEFINE r == h.w[p].root
             D == h.w[r].doc
             at == h.w[p].node
             N == Len(h.nodes) + 1
             M == Moved(h, p, v)
             C == Consume(M, v)
             I == Insert(C, p, N, key, idx)
             listed == fail # "list"
             a == Retarget(I, v, p, N, listed)
  <1>1. attach(h, p, v, key, idx, fail) = a
    BY DEF attach
  <1>2. Grown(h, D, M)
    BY MovedIs
  <1>3. /\ h \in HeapSet /\ p \in DOMAIN h.w /\ v \in DOMAIN h.w /\ r \in DOMAIN h.w
        /\ at \in DOMAIN h.nodes /\ r # v /\ p # v
        /\ (h.w[v].form = "owner" => h.w[v].doc \in h.docs)
        /\ (h.w[v].form = "pending" => h.w[v].registry = {})
        /\ (\A x \in h.w[v].registry : h.w[x].life = "live")
        /\ v \notin h.w[v].registry /\ p \notin h.w[v].registry /\ r \notin h.w[v].registry
        /\ h.w[v].form \in {"pending", "owner"}
    <2>1. r # v /\ p # v /\ h.w[v].form \in {"pending", "owner"}
      BY DEF Movable
    <2>2. /\ h \in HeapSet /\ p \in DOMAIN h.w /\ v \in DOMAIN h.w /\ r \in DOMAIN h.w
          /\ at \in DOMAIN h.nodes
          /\ (h.w[v].form = "pending" => h.w[v].registry = {})
          /\ v \notin h.w[v].registry /\ p \notin h.w[v].registry /\ r \notin h.w[v].registry
      BY MovableRoot, Zenon
    <2>3. h.w[v].form = "owner" => h.w[v].doc \in h.docs
      BY MovableRoot, Zenon
    <2>4. \A x \in h.w[v].registry : h.w[x].life = "live"
      <3>1. \A x \in h.w[v].registry :
              x \in DOMAIN h.w /\ h.w[x].life = "live" /\ h.w[x].form = "attached" /\ h.w[x].root = v
        BY MovableRoot, Zenon
      <3> QED
        BY <3>1
    <2> QED
      BY <2>1, <2>2, <2>3, <2>4, Zenon
  <1> HIDE DEF M
  <1>4. /\ M \in HeapSet /\ M.w = h.w /\ M.docs = h.docs /\ M.ndocs = h.ndocs /\ M.twice = h.twice
        /\ Len(M.nodes) > Len(h.nodes) /\ \A m \in DOMAIN h.nodes : M.nodes[m] = h.nodes[m]
    BY <1>2 DEF Grown
  <1>5. ConsumedAs(M, v, C)
    BY <1>3, <1>4, ConsumeIs
  <1> HIDE DEF C
  <1>6. /\ C \in HeapSet /\ DOMAIN C.w = DOMAIN h.w /\ C.w[v].kind = h.w[v].kind
        /\ \A x \in DOMAIN h.w : x # v =>
             C.w[x] = IF x \in h.w[v].registry THEN [h.w[x] EXCEPT !.life = "freed"] ELSE h.w[x]
        /\ C.nodes = M.nodes /\ C.ndocs = h.ndocs /\ C.twice = h.twice
        /\ C.docs = IF h.w[v].form = "owner" THEN h.docs \ {h.w[v].doc} ELSE h.docs
    BY <1>4, <1>5 DEF ConsumedAs
  <1>7. C.w[p] = h.w[p] /\ C.w[r] = h.w[r]
    BY <1>3, <1>6
  <1>8. /\ Len(h.nodes) \in Nat /\ N \in Nat /\ Len(M.nodes) \in Nat /\ DOMAIN h.nodes = 1 .. Len(h.nodes)
        /\ DOMAIN M.nodes = 1 .. Len(M.nodes)
    BY <1>3, <1>4, HeapFields
  <1>9. at \in DOMAIN C.nodes /\ C.w[p].node = at
    BY <1>3, <1>4, <1>6, <1>7, <1>8
  <1> HIDE DEF N
  <1>10. InsertedAs(C, p, N, key, idx, I)
    BY <1>6, <1>8, <1>9, InsertIs
  <1> HIDE DEF I
  <1>11. /\ I \in HeapSet /\ Len(I.nodes) = Len(M.nodes) /\ DOMAIN I.nodes = DOMAIN M.nodes
         /\ I.nodes[at].kids = Put(M.nodes[at].kids, key, idx, N)
         /\ I.nodes[at].doc = M.nodes[at].doc /\ I.nodes[at].kind = M.nodes[at].kind
         /\ \A m \in DOMAIN M.nodes : m # at => I.nodes[m] = M.nodes[m]
         /\ I.w = C.w /\ I.docs = C.docs /\ I.ndocs = C.ndocs /\ I.twice = C.twice
    BY <1>6, <1>9, <1>10 DEF InsertedAs
  <1>12. M.nodes[at] = h.nodes[at]
    BY <1>3, <1>4
  <1>13. RetargetedAs(I, v, p, N, listed, a)
    <2>1. v \in DOMAIN I.w /\ p \in DOMAIN I.w /\ I.w[p].root = r /\ r \in DOMAIN I.w
      BY <1>3, <1>6, <1>7, <1>11
    <2>2. listed \in BOOLEAN
      OBVIOUS
    <2> HIDE DEF listed, r
    <2> QED
      BY <1>3, <1>8, <1>11, <2>1, <2>2, RetargetIs
  <1> HIDE DEF a, listed
  <1>14. /\ a \in HeapSet /\ DOMAIN a.w = DOMAIN h.w
         /\ a.w[v] = Wrapper("attached", h.w[v].kind, h.w[r].doc, N, r, listed)
         /\ a.w[r] = [h.w[r] EXCEPT !.registry = IF listed THEN @ \cup {v} ELSE @]
         /\ \A x \in DOMAIN h.w : x # v /\ x # r => a.w[x] = C.w[x]
         /\ a.nodes = I.nodes /\ a.docs = C.docs /\ a.ndocs = h.ndocs /\ a.twice = h.twice
    <2>1. I.w[p].root = r /\ I.w[r] = h.w[r] /\ I.w[v].kind = h.w[v].kind /\ DOMAIN I.w = DOMAIN h.w /\ I.w = C.w
      BY <1>6, <1>7, <1>11
    <2> HIDE DEF r
    <2> QED
      BY <1>6, <1>11, <1>13, <2>1 DEF RetargetedAs
  <1>15. \A x \in DOMAIN h.w : x # v /\ x # r =>
           a.w[x] = IF x \in h.w[v].registry THEN [h.w[x] EXCEPT !.life = "freed"] ELSE h.w[x]
    BY <1>6, <1>14
  <1>16. AttachedAs(h, p, v, key, idx, listed, a)
    BY <1>6, <1>11, <1>12, <1>14, <1>15 DEF AttachedAs, M, N
  <1> QED
    BY <1>1, <1>16 DEF listed

\* The pointers left when the value v has moved.
LeftBy(h, hd, v) == {x \in hd : x = v \/ h.w[x].root # v}

\* The wrappers other than the one that moved.
RestAfter(h, r, v, listed, a) ==
  \A x \in DOMAIN h.w : x # v =>
    /\ a.w[x].form = h.w[x].form /\ a.w[x].kind = h.w[x].kind /\ a.w[x].doc = h.w[x].doc
    /\ a.w[x].node = h.w[x].node /\ a.w[x].root = h.w[x].root /\ a.w[x].listed = h.w[x].listed
    /\ a.w[x].life = IF x \in h.w[v].registry THEN "freed" ELSE h.w[x].life
    /\ a.w[x].registry = IF x = r /\ listed THEN h.w[x].registry \cup {v} ELSE h.w[x].registry

\* The pieces of AttachedAs that ownership is about.
LEMMA AttachedParts ==
  ASSUME NEW h, NEW hd, NEW p, NEW v, Movable(h, hd, p, v), NEW key \in KeySet, NEW idx \in Nat,
         NEW listed \in BOOLEAN, NEW a, AttachedAs(h, p, v, key, idx, listed, a)
  PROVE  LET r == h.w[p].root
             N == Len(h.nodes) + 1
         IN  /\ a.w[v].life = "live" /\ a.w[v].form = "attached" /\ a.w[v].kind = h.w[v].kind
             /\ a.w[v].doc = h.w[r].doc /\ a.w[v].node = N
             /\ a.w[v].root = r /\ a.w[v].registry = {} /\ a.w[v].listed = listed
             /\ RestAfter(h, r, v, listed, a)
  <1> DEFINE r == h.w[p].root
             N == Len(h.nodes) + 1
  <1>1. /\ a.w[v] = Wrapper("attached", h.w[v].kind, h.w[r].doc, N, r, listed)
        /\ a.w[r] = [h.w[r] EXCEPT !.registry = IF listed THEN @ \cup {v} ELSE @]
        /\ \A x \in DOMAIN h.w : x # v /\ x # r =>
             a.w[x] = IF x \in h.w[v].registry THEN [h.w[x] EXCEPT !.life = "freed"] ELSE h.w[x]
    BY DEF AttachedAs
  <1>2. /\ h \in HeapSet /\ v \in DOMAIN h.w /\ r \in DOMAIN h.w /\ h.w[r] \in WrapperSet /\ h.w[v] \in WrapperSet
        /\ r \notin h.w[v].registry
    BY MovableRoot
  <1>4. /\ a.w[v].life = "live" /\ a.w[v].form = "attached" /\ a.w[v].kind = h.w[v].kind
        /\ a.w[v].doc = h.w[r].doc /\ a.w[v].node = N
        /\ a.w[v].root = r /\ a.w[v].registry = {} /\ a.w[v].listed = listed
    BY <1>1 DEF Wrapper
  <1>5. ASSUME NEW x \in DOMAIN h.w, x # v
        PROVE  /\ a.w[x].form = h.w[x].form /\ a.w[x].kind = h.w[x].kind /\ a.w[x].doc = h.w[x].doc
               /\ a.w[x].node = h.w[x].node /\ a.w[x].root = h.w[x].root /\ a.w[x].listed = h.w[x].listed
               /\ a.w[x].life = IF x \in h.w[v].registry THEN "freed" ELSE h.w[x].life
               /\ a.w[x].registry = IF x = r /\ listed THEN h.w[x].registry \cup {v} ELSE h.w[x].registry
    <2> DEFINE o == h.w[x]
    <2>1. o \in WrapperSet
      BY <1>2, HeapFields
    <2>2. CASE x = r
      <3> DEFINE R == IF listed THEN o.registry \cup {v} ELSE o.registry
      <3>1. a.w[x] = [o EXCEPT !.registry = R]
        BY <1>1, <2>2
      <3>2. x \notin h.w[v].registry
        BY <1>2, <2>2
      <3> HIDE DEF R, o
      <3>3. /\ a.w[x].form = o.form /\ a.w[x].kind = o.kind /\ a.w[x].doc = o.doc
            /\ a.w[x].node = o.node /\ a.w[x].root = o.root /\ a.w[x].listed = o.listed
            /\ a.w[x].life = o.life /\ a.w[x].registry = R
        BY <2>1, <3>1 DEF WrapperSet
      <3> QED
        BY <2>2, <3>2, <3>3 DEF R, o
    <2>3. CASE x # r /\ x \in h.w[v].registry
      <3>1. a.w[x] = [o EXCEPT !.life = "freed"]
        BY <1>1, <1>5, <2>3
      <3> HIDE DEF o
      <3>2. /\ a.w[x].form = o.form /\ a.w[x].kind = o.kind /\ a.w[x].doc = o.doc
            /\ a.w[x].node = o.node /\ a.w[x].root = o.root /\ a.w[x].listed = o.listed
            /\ a.w[x].life = "freed" /\ a.w[x].registry = o.registry
        BY <2>1, <3>1, FreedIs
      <3> QED
        BY <2>3, <3>2 DEF o
    <2>4. CASE x # r /\ x \notin h.w[v].registry
      BY <1>1, <1>5, <2>4
    <2> QED
      BY <2>2, <2>3, <2>4
  <1>6. RestAfter(h, r, v, listed, a)
    BY <1>5 DEF RestAfter
  <1> HIDE DEF r, N
  <1> QED
    BY <1>4, <1>6 DEF r, N

\* What a move does to the nodes.
LEMMA AttachedNodes ==
  ASSUME NEW h, NEW hd, NEW p, NEW v, Movable(h, hd, p, v), NEW key \in KeySet, NEW idx \in Nat,
         NEW listed \in BOOLEAN, NEW a, AttachedAs(h, p, v, key, idx, listed, a)
  PROVE  LET N == Len(h.nodes) + 1
         IN  /\ N \in DOMAIN a.nodes /\ N \notin DOMAIN h.nodes /\ a.nodes[N].doc = h.w[h.w[p].root].doc
             /\ DOMAIN h.nodes \subseteq DOMAIN a.nodes
             /\ \A m \in DOMAIN h.nodes : a.nodes[m].doc = h.nodes[m].doc
             /\ \A m \in DOMAIN a.nodes : m \notin DOMAIN h.nodes => a.nodes[m].doc = h.w[h.w[p].root].doc
             /\ NodesApart(a)
  <1> DEFINE D == h.w[h.w[p].root].doc
             at == h.w[p].node
             N == Len(h.nodes) + 1
             M == Moved(h, p, v)
             ks == h.nodes[at].kids
             there == Place(ks, key, idx)
             new == DOMAIN M.nodes \ DOMAIN h.nodes
  <1>1. /\ h \in HeapSet /\ at \in DOMAIN h.nodes /\ h.nodes[at].doc = D /\ D \in h.docs
    BY MovableRoot
  <1>2. Grown(h, D, M)
    BY MovedIs
  <1>3. /\ a \in HeapSet /\ a.ndocs = h.ndocs /\ Len(a.nodes) = Len(M.nodes) /\ DOMAIN a.nodes = DOMAIN M.nodes
        /\ a.nodes[at].kids = Put(ks, key, idx, N) /\ a.nodes[at].doc = h.nodes[at].doc
        /\ \A m \in DOMAIN M.nodes : m # at => a.nodes[m] = M.nodes[m]
    BY DEF AttachedAs
  <1> HIDE DEF M
  <1>4. /\ M \in HeapSet /\ Len(M.nodes) > Len(h.nodes) /\ \A m \in DOMAIN h.nodes : M.nodes[m] = h.nodes[m]
        /\ \A m \in new : M.nodes[m].doc = D /\ \A j \in DOMAIN M.nodes[m].kids : M.nodes[m].kids[j].node \in new
    BY <1>2 DEF Grown
  <1>5. /\ Len(h.nodes) \in Nat /\ Len(M.nodes) \in Nat /\ DOMAIN h.nodes = 1 .. Len(h.nodes)
        /\ DOMAIN M.nodes = 1 .. Len(M.nodes) /\ h.nodes[at] \in NodeSet
    BY <1>1, <1>4, HeapFields
  <1>6. N \in new /\ N \in Nat /\ DOMAIN h.nodes \subseteq DOMAIN M.nodes
    BY <1>4, <1>5
  <1> HIDE DEF N
  <1>7. ASSUME NEW m \in DOMAIN M.nodes
        PROVE  a.nodes[m].doc = M.nodes[m].doc
    BY <1>1, <1>3, <1>4, <1>7
  <1>8. /\ \A m \in DOMAIN h.nodes : a.nodes[m].doc = h.nodes[m].doc
        /\ \A m \in new : a.nodes[m].doc = D
    BY <1>4, <1>6, <1>7
  <1>9. ks \in Seq(KidSet)
    BY <1>5 DEF NodeSet
  <1>10. /\ \A i \in DOMAIN Put(ks, key, idx, N) : IF i = there THEN Put(ks, key, idx, N)[i] = Kid(key, N)
                                    ELSE i \in DOMAIN ks /\ Put(ks, key, idx, N)[i] = ks[i]
    <2> HIDE DEF ks, there
    <2>1. \A i \in DOMAIN Put(ks, key, idx, N) : IF i = Place(ks, key, idx) THEN Put(ks, key, idx, N)[i] = Kid(key, N)
                                    ELSE i \in DOMAIN ks /\ Put(ks, key, idx, N)[i] = ks[i]
      BY <1>6, <1>9, PutIs
    <2> QED
      BY <2>1 DEF there
  <1>11. Kid(key, N).node = N
    BY DEF Kid
  <1>12. /\ \A m \in DOMAIN h.nodes : h.nodes[m].doc \in 1 .. h.ndocs
         /\ \A m \in DOMAIN h.nodes : \A i \in DOMAIN h.nodes[m].kids :
              /\ h.nodes[m].kids[i].node \in DOMAIN h.nodes
              /\ h.nodes[h.nodes[m].kids[i].node].doc = h.nodes[m].doc
    BY DEF Movable, Kept, NodesApart
  <1>13. D \in 1 .. h.ndocs
    BY <1>1, <1>12
  <1>14. ASSUME NEW m \in DOMAIN a.nodes
         PROVE  a.nodes[m].doc \in 1 .. a.ndocs
    BY <1>3, <1>4, <1>8, <1>12, <1>13, <1>14
  <1>15. ASSUME NEW m \in DOMAIN a.nodes, NEW i \in DOMAIN a.nodes[m].kids
         PROVE  a.nodes[m].kids[i].node \in DOMAIN a.nodes /\ a.nodes[a.nodes[m].kids[i].node].doc = a.nodes[m].doc
    <2>1. CASE m = at
      <3>1. i \in DOMAIN Put(ks, key, idx, N) /\ a.nodes[m].kids[i] = Put(ks, key, idx, N)[i]
        BY <1>3, <1>15, <2>1
      <3>2. a.nodes[m].doc = D
        BY <1>1, <1>8, <2>1
      <3> HIDE DEF there
      <3>3. CASE i = there
        <4>1. a.nodes[m].kids[i].node = N
          BY <1>10, <1>11, <3>1, <3>3
        <4> QED
          BY <1>3, <1>6, <1>8, <3>2, <4>1
      <3>4. CASE i # there
        <4>1. i \in DOMAIN ks /\ a.nodes[m].kids[i] = ks[i]
          BY <1>10, <3>1, <3>4
        <4>2. ks[i].node \in DOMAIN h.nodes /\ h.nodes[ks[i].node].doc = D
          BY <1>1, <1>12, <4>1
        <4> QED
          BY <1>3, <1>6, <1>8, <3>2, <4>1, <4>2
      <3> QED
        BY <3>3, <3>4
    <2>2. CASE m # at /\ m \in DOMAIN h.nodes
      <3>1. a.nodes[m] = h.nodes[m]
        BY <1>3, <1>4, <1>6, <2>2
      <3>2. h.nodes[m].kids[i].node \in DOMAIN h.nodes /\ h.nodes[h.nodes[m].kids[i].node].doc = h.nodes[m].doc
        BY <1>12, <1>15, <2>2, <3>1
      <3> QED
        BY <1>3, <1>6, <1>8, <3>1, <3>2
    <2>3. CASE m # at /\ m \notin DOMAIN h.nodes
      <3>1. m \in new /\ a.nodes[m] = M.nodes[m]
        BY <1>3, <2>3
      <3>2. a.nodes[m].kids[i].node \in new
        BY <1>4, <1>15, <3>1
      <3> QED
        BY <1>3, <1>8, <3>1, <3>2
    <2> QED
      BY <2>1, <2>2, <2>3
  <1>16. NodesApart(a)
    BY <1>14, <1>15 DEF NodesApart
  <1> QED
    BY <1>3, <1>6, <1>8, <1>16 DEF N

\* A move keeps ownership, for the pointers it leaves.
LEMMA AttachKeeps ==
  ASSUME NEW h, NEW hd, NEW p, NEW v, Movable(h, hd, p, v), NEW key \in KeySet, NEW idx \in Nat,
         NEW listed \in BOOLEAN, NEW a, AttachedAs(h, p, v, key, idx, listed, a)
  PROVE  Kept(a, LeftBy(h, hd, v))
  <1> DEFINE r == h.w[p].root
             N == Len(h.nodes) + 1
             ld == LeftBy(h, hd, v)
  <1>1. /\ a.w[v].life = "live" /\ a.w[v].form = "attached" /\ a.w[v].doc = h.w[r].doc /\ a.w[v].node = N
        /\ a.w[v].root = r /\ a.w[v].registry = {} /\ a.w[v].listed = listed
    BY AttachedParts
  <1>2. \A x \in DOMAIN h.w : x # v =>
          /\ a.w[x].form = h.w[x].form /\ a.w[x].kind = h.w[x].kind /\ a.w[x].doc = h.w[x].doc
          /\ a.w[x].node = h.w[x].node /\ a.w[x].root = h.w[x].root /\ a.w[x].listed = h.w[x].listed
          /\ a.w[x].life = IF x \in h.w[v].registry THEN "freed" ELSE h.w[x].life
          /\ a.w[x].registry = IF x = r /\ listed THEN h.w[x].registry \cup {v} ELSE h.w[x].registry
    <2>1. RestAfter(h, r, v, listed, a)
      BY AttachedParts
    <2> QED
      BY <2>1 DEF RestAfter
  <1>3. /\ a \in HeapSet /\ DOMAIN a.w = DOMAIN h.w /\ a.ndocs = h.ndocs /\ a.twice = h.twice
        /\ a.docs = IF h.w[v].form = "owner" THEN h.docs \ {h.w[v].doc} ELSE h.docs
    BY DEF AttachedAs
  <1>4. /\ N \in DOMAIN a.nodes /\ a.nodes[N].doc = h.w[r].doc /\ DOMAIN h.nodes \subseteq DOMAIN a.nodes
        /\ \A m \in DOMAIN h.nodes : a.nodes[m].doc = h.nodes[m].doc
        /\ NodesApart(a)
    BY AttachedNodes
  <1>5. /\ v \in DOMAIN h.w /\ r \in DOMAIN h.w /\ r # v /\ OwnerIn(h, r) /\ h.w[v].life = "live"
        /\ v \in hd /\ h.w[v].form \in {"pending", "owner"} /\ h.twice = FALSE
        /\ \A x \in h.w[v].registry : x \in DOMAIN h.w /\ h.w[x].form = "attached" /\ h.w[x].root = v
        /\ r \notin h.w[v].registry
    <2>1. h.twice = FALSE /\ v \in hd /\ h.w[v].form \in {"pending", "owner"} /\ r # v
      BY DEF Movable, Kept
    <2>2. /\ v \in DOMAIN h.w /\ r \in DOMAIN h.w /\ OwnerIn(h, r) /\ h.w[v].life = "live"
          /\ r \notin h.w[v].registry
      BY MovableRoot
    <2>3. \A x \in h.w[v].registry :
            x \in DOMAIN h.w /\ h.w[x].life = "live" /\ h.w[x].form = "attached" /\ h.w[x].root = v
      BY MovableRoot
    <2> QED
      BY <2>1, <2>2, <2>3
  <1>6. \A x \in ld : x \in hd /\ (x = v \/ h.w[x].root # v)
    BY DEF LeftBy
  <1>7. \A x \in hd : x = v \/ h.w[x].root # v => x \in ld
    BY DEF LeftBy
  <1> HIDE DEF r, N, ld
  <1>8. \A x \in DOMAIN h.w : OwnerIn(a, x) <=> x # v /\ OwnerIn(h, x)
    BY <1>1, <1>2, <1>5 DEF OwnerIn
  <1>9. Kept(h, hd)
    BY DEF Movable
  <1>10. WrappersSound(a)
    <2>1. \A x \in DOMAIN h.w :
            /\ h.w[x].form # "consumed" /\ h.w[x].root \in DOMAIN h.w /\ h.w[x].registry \subseteq DOMAIN h.w
            /\ h.w[x].form = "pending" => h.w[x].registry = {}
      BY <1>9 DEF Kept, WrappersSound
    <2>2. ASSUME NEW x \in DOMAIN h.w
          PROVE  /\ a.w[x].form # "consumed" /\ a.w[x].root \in DOMAIN h.w /\ a.w[x].registry \subseteq DOMAIN h.w
                 /\ a.w[x].form = "pending" => a.w[x].registry = {}
      <3>1. CASE x = v
        BY <1>1, <1>5, <3>1
      <3>2. CASE x = r
        <4>1. a.w[x].form = "owner" /\ a.w[x].root = h.w[x].root /\ a.w[x].registry \subseteq h.w[x].registry \cup {v}
          BY <1>2, <1>5, <3>2 DEF OwnerIn
        <4> QED
          BY <1>5, <2>1, <4>1
      <3>3. CASE x # v /\ x # r
        BY <1>2, <2>1, <3>3
      <3> QED
        BY <3>1, <3>2, <3>3
    <2> QED
      BY <1>3, <2>2 DEF WrappersSound
  <1>11. RootsHeld(a, ld)
    <2>1. /\ hd \subseteq DOMAIN h.w /\ \A x \in hd : h.w[x].life = "live"
          /\ \A x \in DOMAIN h.w :
               h.w[x].life = "live" /\ h.w[x].form \in {"pending", "owner"} => x \in hd /\ h.w[x].root = x
      BY <1>9 DEF Kept, RootsHeld
    <2>2. ASSUME NEW x \in DOMAIN h.w, a.w[x].life = "live", a.w[x].form \in {"pending", "owner"}
          PROVE  x \in ld /\ a.w[x].root = x
      <3>1. x # v
        BY <1>1, <2>2
      <3>2. h.w[x].life = "live" /\ h.w[x].form \in {"pending", "owner"} /\ a.w[x].root = h.w[x].root
        BY <1>2, <2>2, <3>1
      <3> QED
        BY <1>7, <2>1, <3>1, <3>2
    <2>3. ASSUME NEW x \in ld PROVE a.w[x].life = "live"
      <3>1. CASE x = v
        BY <1>1, <3>1
      <3>2. CASE x # v
        <4>1. x \in hd /\ x \in DOMAIN h.w /\ h.w[x].root # v /\ h.w[x].life = "live"
          BY <1>6, <2>1, <2>3, <3>2
        <4>2. x \notin h.w[v].registry
          BY <1>5, <4>1
        <4> QED
          BY <1>2, <3>2, <4>1, <4>2
      <3> QED
        BY <3>1, <3>2
    <2>4. ld \subseteq DOMAIN a.w
      BY <1>3, <1>6, <2>1
    <2> QED
      BY <1>3, <2>2, <2>3, <2>4 DEF RootsHeld
  <1>12. DocsOwned(a)
    <2>1. /\ h.docs \subseteq 1 .. h.ndocs
          /\ \A x \in DOMAIN h.w : OwnerIn(h, x) =>
               h.w[x].doc \in h.docs /\ h.w[x].node \in DOMAIN h.nodes /\ h.nodes[h.w[x].node].doc = h.w[x].doc
          /\ \A x, y \in DOMAIN h.w : OwnerIn(h, x) /\ OwnerIn(h, y) /\ h.w[x].doc = h.w[y].doc => x = y
          /\ \A d \in h.docs : \E x \in DOMAIN h.w : OwnerIn(h, x) /\ h.w[x].doc = d
      BY <1>9 DEF Kept, DocsOwned
    <2>2. h.w[v].form = "owner" => OwnerIn(h, v)
      BY <1>5 DEF OwnerIn
    <2>3. h.w[v].form # "owner" => ~OwnerIn(h, v)
      BY DEF OwnerIn
    <2>4. a.docs \subseteq 1 .. a.ndocs
      BY <1>3, <2>1
    <2>5. ASSUME NEW x \in DOMAIN h.w, OwnerIn(a, x)
          PROVE  a.w[x].doc \in a.docs /\ a.w[x].node \in DOMAIN a.nodes /\ a.nodes[a.w[x].node].doc = a.w[x].doc
      <3>1. x # v /\ OwnerIn(h, x) /\ a.w[x].doc = h.w[x].doc /\ a.w[x].node = h.w[x].node
        BY <1>2, <1>8, <2>5
      <3>2. h.w[x].doc \in a.docs
        BY <1>3, <1>5, <2>1, <2>2, <3>1
      <3> QED
        BY <1>4, <2>1, <3>1, <3>2
    <2>6. \A x, y \in DOMAIN h.w : OwnerIn(a, x) /\ OwnerIn(a, y) /\ a.w[x].doc = a.w[y].doc => x = y
      BY <1>2, <1>8, <2>1
    <2>7. ASSUME NEW d \in a.docs
          PROVE  \E x \in DOMAIN h.w : OwnerIn(a, x) /\ a.w[x].doc = d
      <3>1. d \in h.docs /\ (h.w[v].form = "owner" => d # h.w[v].doc)
        BY <1>3
      <3>2. PICK x \in DOMAIN h.w : OwnerIn(h, x) /\ h.w[x].doc = d
        BY <2>1, <3>1
      <3>3. x # v
        BY <2>3, <3>1, <3>2
      <3> QED
        BY <1>2, <1>8, <3>2, <3>3
    <2> QED
      BY <1>3, <2>4, <2>5, <2>6, <2>7 DEF DocsOwned
  <1>13. RegistriesExact(a)
    <2>1. /\ \A o \in DOMAIN h.w : OwnerIn(h, o) =>
               \A x \in h.w[o].registry : h.w[x].life = "live" /\ h.w[x].form = "attached" /\ h.w[x].root = o
          /\ \A x \in DOMAIN h.w : h.w[x].life = "live" /\ h.w[x].form = "attached" /\ h.w[x].listed =>
               OwnerIn(h, h.w[x].root) /\ x \in h.w[h.w[x].root].registry
          /\ \A o \in DOMAIN h.w : h.w[o].registry \subseteq DOMAIN h.w /\ h.w[o].root \in DOMAIN h.w
      BY <1>9 DEF Kept, RegistriesExact, WrappersSound
    <2>2. ASSUME NEW o \in DOMAIN h.w, OwnerIn(a, o), NEW x \in a.w[o].registry
          PROVE  a.w[x].life = "live" /\ a.w[x].form = "attached" /\ a.w[x].root = o
      <3>1. o # v /\ OwnerIn(h, o)
        BY <1>8, <2>2
      <3>2. CASE x = v /\ o = r
        BY <1>1, <3>2
      <3>3. CASE ~(x = v /\ o = r)
        <4>1. x \in h.w[o].registry
          BY <1>2, <2>2, <3>1, <3>3
        <4>2. x \in DOMAIN h.w /\ h.w[x].life = "live" /\ h.w[x].form = "attached" /\ h.w[x].root = o
          BY <2>1, <3>1, <4>1
        <4>3. x # v /\ x \notin h.w[v].registry
          BY <1>5, <3>1, <4>2
        <4> QED
          BY <1>2, <4>2, <4>3
      <3> QED
        BY <3>2, <3>3
    <2>3. ASSUME NEW x \in DOMAIN h.w, a.w[x].life = "live", a.w[x].form = "attached", a.w[x].listed
          PROVE  OwnerIn(a, a.w[x].root) /\ x \in a.w[a.w[x].root].registry
      <3>1. CASE x = v
        <4>1. listed /\ a.w[x].root = r
          BY <1>1, <2>3, <3>1
        <4>2. OwnerIn(a, r)
          BY <1>5, <1>8
        <4>3. v \in a.w[r].registry
          BY <1>2, <1>5, <4>1
        <4> QED
          BY <3>1, <4>1, <4>2, <4>3
      <3>2. CASE x # v
        <4>1. h.w[x].life = "live" /\ h.w[x].form = "attached" /\ h.w[x].listed /\ a.w[x].root = h.w[x].root
              /\ x \notin h.w[v].registry
          BY <1>2, <2>3, <3>2
        <4>2. OwnerIn(h, h.w[x].root) /\ x \in h.w[h.w[x].root].registry /\ h.w[x].root \in DOMAIN h.w
          BY <2>1, <4>1
        <4>3. h.w[x].root # v
          BY <4>1, <4>2
        <4>4. OwnerIn(a, h.w[x].root)
          BY <1>8, <4>2, <4>3
        <4>5. h.w[h.w[x].root].registry \subseteq a.w[h.w[x].root].registry
          BY <1>2, <4>2, <4>3
        <4> QED
          BY <4>1, <4>2, <4>4, <4>5
      <3> QED
        BY <3>1, <3>2
    <2> QED
      BY <1>3, <2>2, <2>3 DEF RegistriesExact
  <1>14. AttachedHeld(a, ld)
    <2>1. /\ hd \subseteq DOMAIN h.w /\ \A x \in DOMAIN h.w : h.w[x].root \in DOMAIN h.w
          /\ \A x \in hd : h.w[x].form = "attached" =>
               /\ OwnerIn(h, h.w[x].root) /\ h.w[h.w[x].root].doc = h.w[x].doc
               /\ h.w[x].node \in DOMAIN h.nodes /\ h.nodes[h.w[x].node].doc = h.w[x].doc
      BY <1>9 DEF Kept, AttachedHeld, RootsHeld, WrappersSound
    <2>2. ASSUME NEW x \in ld, a.w[x].form = "attached"
          PROVE  /\ OwnerIn(a, a.w[x].root) /\ a.w[a.w[x].root].doc = a.w[x].doc
                 /\ a.w[x].node \in DOMAIN a.nodes /\ a.nodes[a.w[x].node].doc = a.w[x].doc
      <3>1. CASE x = v
        <4>1. OwnerIn(a, r) /\ a.w[r].doc = h.w[r].doc
          BY <1>2, <1>5, <1>8
        <4> QED
          BY <1>1, <1>4, <3>1, <4>1
      <3>2. CASE x # v
        <4>1. x \in hd /\ x \in DOMAIN h.w /\ h.w[x].root # v /\ h.w[x].form = "attached"
              /\ a.w[x].root = h.w[x].root /\ a.w[x].doc = h.w[x].doc /\ a.w[x].node = h.w[x].node
          BY <1>2, <1>6, <2>1, <2>2, <3>2
        <4>2. OwnerIn(a, h.w[x].root) /\ a.w[h.w[x].root].doc = h.w[x].doc
          BY <1>2, <1>8, <2>1, <4>1
        <4> QED
          BY <1>4, <2>1, <4>1, <4>2
      <3> QED
        BY <3>1, <3>2
    <2> QED
      BY <2>2 DEF AttachedHeld
  <1> QED
    BY <1>3, <1>4, <1>5, <1>10, <1>11, <1>12, <1>13, <1>14 DEF Kept, ld

-----------------------------------------------------------------------------
(* The other operations keep ownership.                                    *)

\* A pending wrapper that gets a document owns it.
LEMMA MaterializeKeeps ==
  ASSUME NEW h, NEW hd, Kept(h, hd), NEW o \in hd, h.w[o].form = "pending", NEW q, MadeRoot(h, o, q)
  PROVE  Kept(q, hd)
  <1> DEFINE d == h.ndocs + 1
             N == Len(h.nodes) + 1
  <1>1. /\ q \in HeapSet /\ DOMAIN q.w = DOMAIN h.w /\ \A x \in DOMAIN h.w : x # o => q.w[x] = h.w[x]
        /\ q.w[o] = Wrapper("owner", h.w[o].kind, d, N, h.w[o].root, TRUE)
        /\ q.ndocs = d /\ q.docs = h.docs \cup {d} /\ q.twice = h.twice
        /\ Len(q.nodes) = N /\ \A m \in DOMAIN h.nodes : q.nodes[m] = h.nodes[m]
        /\ q.nodes[N] = [doc |-> d, kind |-> h.w[o].kind, kids |-> <<>>]
    BY DEF MadeRoot
  <1>2. /\ h \in HeapSet /\ h.twice = FALSE /\ hd \subseteq DOMAIN h.w
        /\ \A x \in DOMAIN h.w :
             /\ h.w[x].form # "consumed" /\ h.w[x].root \in DOMAIN h.w /\ h.w[x].registry \subseteq DOMAIN h.w
             /\ h.w[x].form = "pending" => h.w[x].registry = {}
             /\ h.w[x].life = "live" /\ h.w[x].form \in {"pending", "owner"} => x \in hd /\ h.w[x].root = x
        /\ \A x \in hd : h.w[x].life = "live"
    BY DEF Kept, RootsHeld, WrappersSound
  <1>3. /\ h.ndocs \in Nat /\ Len(h.nodes) \in Nat /\ DOMAIN h.nodes = 1 .. Len(h.nodes)
        /\ DOMAIN q.nodes = 1 .. Len(q.nodes)
    BY <1>1, <1>2, HeapFields
  <1>4. N \in Nat /\ d \in Nat /\ N \in DOMAIN q.nodes /\ N \notin DOMAIN h.nodes /\ DOMAIN q.nodes = DOMAIN h.nodes \cup {N}
        /\ d \in 1 .. q.ndocs /\ 1 .. h.ndocs \subseteq 1 .. q.ndocs
    BY <1>1, <1>3
  <1>5. q.nodes[N].doc = d /\ DOMAIN q.nodes[N].kids = {}
    BY <1>1
  <1>6. /\ q.w[o].life = "live" /\ q.w[o].form = "owner" /\ q.w[o].doc = d /\ q.w[o].node = N
        /\ q.w[o].root = o /\ q.w[o].registry = {} /\ o \in DOMAIN h.w
    <2>1. h.w[o].root = o /\ o \in DOMAIN h.w
      BY <1>2
    <2> HIDE DEF d, N
    <2> QED
      BY <1>1, <2>1 DEF Wrapper
  <1>6b. d \notin 1 .. h.ndocs
    BY <1>3
  <1> HIDE DEF d, N
  <1>7. \A x \in DOMAIN h.w : OwnerIn(q, x) <=> x = o \/ OwnerIn(h, x)
    BY <1>1, <1>6 DEF OwnerIn
  <1>8. ~OwnerIn(h, o)
    BY DEF OwnerIn
  <1>9. NodesApart(q)
    <2>1. \A m \in DOMAIN h.nodes :
            /\ h.nodes[m].doc \in 1 .. h.ndocs
            /\ \A i \in DOMAIN h.nodes[m].kids :
                 /\ h.nodes[m].kids[i].node \in DOMAIN h.nodes
                 /\ h.nodes[h.nodes[m].kids[i].node].doc = h.nodes[m].doc
      BY DEF Kept, NodesApart
    <2>2. ASSUME NEW m \in DOMAIN q.nodes
          PROVE  /\ q.nodes[m].doc \in 1 .. q.ndocs
                 /\ \A i \in DOMAIN q.nodes[m].kids :
                      /\ q.nodes[m].kids[i].node \in DOMAIN q.nodes
                      /\ q.nodes[q.nodes[m].kids[i].node].doc = q.nodes[m].doc
      <3>1. CASE m = N
        BY <1>4, <1>5, <3>1
      <3>2. CASE m \in DOMAIN h.nodes
        BY <1>1, <1>4, <2>1, <3>2
      <3> QED
        BY <1>4, <3>1, <3>2
    <2> QED
      BY <2>2 DEF NodesApart
  <1>10. WrappersSound(q)
    <2>1. ASSUME NEW x \in DOMAIN h.w
          PROVE  /\ q.w[x].form # "consumed" /\ q.w[x].root \in DOMAIN h.w /\ q.w[x].registry \subseteq DOMAIN h.w
                 /\ q.w[x].form = "pending" => q.w[x].registry = {}
      <3>1. CASE x = o
        BY <1>6, <3>1
      <3>2. CASE x # o
        BY <1>1, <1>2, <3>2
      <3> QED
        BY <3>1, <3>2
    <2> QED
      BY <1>1, <2>1 DEF WrappersSound
  <1>11. RootsHeld(q, hd)
    <2>1. ASSUME NEW x \in DOMAIN h.w, q.w[x].life = "live", q.w[x].form \in {"pending", "owner"}
          PROVE  x \in hd /\ q.w[x].root = x
      <3>1. CASE x = o
        BY <1>6, <3>1
      <3>2. CASE x # o
        BY <1>1, <1>2, <2>1, <3>2
      <3> QED
        BY <3>1, <3>2
    <2>2. \A x \in hd : q.w[x].life = "live"
      BY <1>1, <1>2, <1>6
    <2> QED
      BY <1>1, <1>2, <2>1, <2>2 DEF RootsHeld
  <1>12. DocsOwned(q)
    <2>1. /\ h.docs \subseteq 1 .. h.ndocs
          /\ \A x \in DOMAIN h.w : OwnerIn(h, x) =>
               h.w[x].doc \in h.docs /\ h.w[x].node \in DOMAIN h.nodes /\ h.nodes[h.w[x].node].doc = h.w[x].doc
          /\ \A x, y \in DOMAIN h.w : OwnerIn(h, x) /\ OwnerIn(h, y) /\ h.w[x].doc = h.w[y].doc => x = y
          /\ \A e \in h.docs : \E x \in DOMAIN h.w : OwnerIn(h, x) /\ h.w[x].doc = e
      BY DEF Kept, DocsOwned
    <2>2. q.docs \subseteq 1 .. q.ndocs
      BY <1>1, <1>4, <2>1
    <2>3. ASSUME NEW x \in DOMAIN h.w, OwnerIn(q, x)
          PROVE  q.w[x].doc \in q.docs /\ q.w[x].node \in DOMAIN q.nodes /\ q.nodes[q.w[x].node].doc = q.w[x].doc
      <3>1. CASE x = o
        BY <1>1, <1>4, <1>5, <1>6, <3>1
      <3>2. CASE x # o
        BY <1>1, <1>4, <1>7, <2>1, <2>3, <3>2
      <3> QED
        BY <3>1, <3>2
    <2>4. ASSUME NEW x \in DOMAIN h.w, NEW y \in DOMAIN h.w, OwnerIn(q, x), OwnerIn(q, y), q.w[x].doc = q.w[y].doc
          PROVE  x = y
      <3>1. \A z \in DOMAIN h.w : z # o /\ OwnerIn(q, z) => q.w[z].doc = h.w[z].doc /\ h.w[z].doc # d /\ OwnerIn(h, z)
        BY <1>1, <1>6b, <1>7, <2>1
      <3> QED
        BY <1>6, <2>1, <2>4, <3>1
    <2>5. ASSUME NEW e \in q.docs
          PROVE  \E x \in DOMAIN h.w : OwnerIn(q, x) /\ q.w[x].doc = e
      <3>1. CASE e = d
        BY <1>6, <1>7, <3>1
      <3>2. CASE e \in h.docs
        <4>1. PICK x \in DOMAIN h.w : OwnerIn(h, x) /\ h.w[x].doc = e
          BY <2>1, <3>2
        <4> QED
          BY <1>1, <1>7, <1>8, <4>1
      <3> QED
        BY <1>1, <3>1, <3>2
    <2> QED
      BY <1>1, <2>2, <2>3, <2>4, <2>5 DEF DocsOwned
  <1>13. RegistriesExact(q)
    <2>1. /\ \A y \in DOMAIN h.w : OwnerIn(h, y) =>
               \A x \in h.w[y].registry : h.w[x].life = "live" /\ h.w[x].form = "attached" /\ h.w[x].root = y
          /\ \A x \in DOMAIN h.w : h.w[x].life = "live" /\ h.w[x].form = "attached" /\ h.w[x].listed =>
               OwnerIn(h, h.w[x].root) /\ x \in h.w[h.w[x].root].registry
      BY DEF Kept, RegistriesExact
    <2>2. ASSUME NEW y \in DOMAIN h.w, OwnerIn(q, y), NEW x \in q.w[y].registry
          PROVE  q.w[x].life = "live" /\ q.w[x].form = "attached" /\ q.w[x].root = y
      <3>1. y # o /\ OwnerIn(h, y) /\ x \in h.w[y].registry
        BY <1>1, <1>6, <1>7, <2>2
      <3>2. x \in DOMAIN h.w /\ h.w[x].form = "attached"
        BY <1>2, <2>1, <3>1
      <3> QED
        BY <1>1, <2>1, <3>1, <3>2
    <2>3. ASSUME NEW x \in DOMAIN h.w, q.w[x].life = "live", q.w[x].form = "attached", q.w[x].listed
          PROVE  OwnerIn(q, q.w[x].root) /\ x \in q.w[q.w[x].root].registry
      <3>1. q.w[x] = h.w[x]
        BY <1>1, <1>6, <2>3
      <3>2. OwnerIn(h, h.w[x].root) /\ x \in h.w[h.w[x].root].registry /\ h.w[x].root \in DOMAIN h.w
        BY <1>2, <2>1, <2>3, <3>1
      <3> QED
        BY <1>1, <1>7, <1>8, <3>1, <3>2
    <2> QED
      BY <1>1, <2>2, <2>3 DEF RegistriesExact
  <1>14. AttachedHeld(q, hd)
    <2>1. \A x \in hd : h.w[x].form = "attached" =>
            /\ OwnerIn(h, h.w[x].root) /\ h.w[h.w[x].root].doc = h.w[x].doc
            /\ h.w[x].node \in DOMAIN h.nodes /\ h.nodes[h.w[x].node].doc = h.w[x].doc
      BY DEF Kept, AttachedHeld
    <2>2. ASSUME NEW x \in hd, q.w[x].form = "attached"
          PROVE  /\ OwnerIn(q, q.w[x].root) /\ q.w[q.w[x].root].doc = q.w[x].doc
                 /\ q.w[x].node \in DOMAIN q.nodes /\ q.nodes[q.w[x].node].doc = q.w[x].doc
      <3>1. q.w[x] = h.w[x] /\ x \in DOMAIN h.w
        BY <1>1, <1>2, <1>6, <2>2
      <3>2. OwnerIn(h, h.w[x].root) /\ h.w[x].root \in DOMAIN h.w /\ h.w[x].root # o
        BY <1>2, <1>8, <2>1, <2>2, <3>1
      <3> QED
        BY <1>1, <1>4, <1>7, <2>1, <2>2, <3>1, <3>2
    <2> QED
      BY <2>2 DEF AttachedHeld
  <1> QED
    BY <1>1, <1>2, <1>9, <1>10, <1>11, <1>12, <1>13, <1>14 DEF Kept

\* ensure_materialized keeps ownership; the wrapper has a node after it.
LEMMA EnsureKeeps ==
  ASSUME NEW h, NEW hd, Kept(h, hd), NEW o \in hd
  PROVE  LET q == ensure_materialized(h, o)
         IN  /\ Kept(q, hd) /\ q.w[o].form \in {"owner", "attached"}
             /\ DOMAIN q.w = DOMAIN h.w /\ Len(q.w) = Len(h.w)
             /\ \A x \in DOMAIN h.w : q.w[x].root = h.w[x].root /\ q.w[x].kind = h.w[x].kind
             /\ \A x \in DOMAIN h.w : x # o => q.w[x] = h.w[x]
             /\ h.w[o].form = "pending" => MadeRoot(h, o, q) /\ q.w[o].form = "owner"
             /\ h.w[o].form # "pending" => q = h
  <1> DEFINE q == ensure_materialized(h, o)
  <1>1. h \in HeapSet /\ o \in DOMAIN h.w /\ h.w[o].form # "consumed"
    BY DEF Kept, RootsHeld, WrappersSound
  <1>2. CASE h.w[o].form = "pending"
    <2>1. q = materialize_root(h, o)
      BY <1>2 DEF ensure_materialized
    <2>2. MadeRoot(h, o, materialize_root(h, o))
      BY <1>1, MaterializeIs
    <2>3. MadeRoot(h, o, q)
      BY <2>1, <2>2
    <2> HIDE DEF q
    <2>4. Kept(q, hd)
      BY <1>2, <2>3, MaterializeKeeps
    <2>5. /\ q \in HeapSet /\ DOMAIN q.w = DOMAIN h.w /\ \A x \in DOMAIN h.w : x # o => q.w[x] = h.w[x]
          /\ q.w[o] = Wrapper("owner", h.w[o].kind, h.ndocs + 1, Len(h.nodes) + 1, h.w[o].root, TRUE)
      BY <2>3 DEF MadeRoot
    <2>6. q.w[o].form = "owner" /\ q.w[o].root = h.w[o].root /\ q.w[o].kind = h.w[o].kind
      BY <2>5 DEF Wrapper
    <2>7. Len(q.w) = Len(h.w)
      BY <1>1, <2>5, HeapFields
    <2> QED
      BY <1>2, <2>3, <2>4, <2>5, <2>6, <2>7 DEF q
  <1>3. CASE h.w[o].form # "pending"
    <2>1. q = h
      BY <1>3 DEF ensure_materialized
    <2>2. h.w[o] \in WrapperSet
      BY <1>1, HeapFields
    <2>3. h.w[o].form \in {"owner", "attached"}
      BY <1>1, <1>3, <2>2 DEF WrapperSet
    <2> QED
      BY <1>3, <2>1, <2>3
  <1> QED
    BY <1>2, <1>3

\* The heap with one more wrapper.
LEMMA HeapAppend ==
  ASSUME NEW h \in HeapSet, NEW W \in Seq(WrapperSet), Len(W) = Len(h.w), NEW Z \in WrapperSet
  PROVE  LET q == [h EXCEPT !.w = Append(W, Z)]
             o == Len(h.w) + 1
         IN  /\ q \in HeapSet /\ Len(q.w) = Len(h.w) + 1 /\ DOMAIN q.w = DOMAIN h.w \cup {o}
             /\ o \notin DOMAIN h.w /\ q.w[o] = Z /\ \A x \in DOMAIN h.w : q.w[x] = W[x]
             /\ q.nodes = h.nodes /\ q.docs = h.docs /\ q.ndocs = h.ndocs /\ q.twice = h.twice
  <1> DEFINE X == Append(W, Z)
             o == Len(h.w) + 1
  <1>1. Len(h.w) \in Nat /\ DOMAIN h.w = 1 .. Len(h.w)
    BY HeapFields
  <1>2. X \in Seq(WrapperSet) /\ Len(X) = Len(h.w) + 1 /\ X[o] = Z /\ DOMAIN X = 1 .. Len(h.w) + 1
        /\ \A x \in 1 .. Len(h.w) : X[x] = W[x]
    BY <1>1
  <1>3. DOMAIN X = DOMAIN h.w \cup {o} /\ o \notin DOMAIN h.w
    BY <1>1, <1>2
  <1> HIDE DEF X, o
  <1>4. LET q == [h EXCEPT !.w = X]
        IN  q \in HeapSet /\ q.w = X /\ q.nodes = h.nodes /\ q.docs = h.docs /\ q.ndocs = h.ndocs /\ q.twice = h.twice
    BY <1>2, HeapW
  <1> QED
    BY <1>1, <1>2, <1>3, <1>4 DEF X, o

\* The heap q is h with one more wrapper, z; r, if it is one, has it in its registry.
AddedAs(h, z, r, q) ==
  LET o == Len(h.w) + 1
  IN  /\ q \in HeapSet /\ Len(q.w) = Len(h.w) + 1 /\ DOMAIN q.w = DOMAIN h.w \cup {o} /\ o \notin DOMAIN h.w
      /\ q.w[o] = z
      /\ \A x \in DOMAIN h.w :
           /\ q.w[x].form = h.w[x].form /\ q.w[x].kind = h.w[x].kind /\ q.w[x].doc = h.w[x].doc
           /\ q.w[x].node = h.w[x].node /\ q.w[x].root = h.w[x].root /\ q.w[x].listed = h.w[x].listed
           /\ q.w[x].life = h.w[x].life
           /\ q.w[x].registry = IF x = r THEN h.w[x].registry \cup {o} ELSE h.w[x].registry
      /\ q.nodes = h.nodes /\ q.docs = h.docs /\ q.ndocs = h.ndocs /\ q.twice = h.twice

\* The new wrapper is a root without a document, or stands for a node of the root r.
FitsIn(h, hd, z, r) ==
  LET o == Len(h.w) + 1
  IN  /\ z.life = "live" /\ z.registry = {}
      /\ \/ z.form = "pending" /\ z.root = o /\ r = 0
         \/ /\ z.form = "attached" /\ z.root = r /\ r \in DOMAIN h.w /\ OwnerIn(h, r) /\ z.doc = h.w[r].doc
            /\ z.node \in DOMAIN h.nodes /\ h.nodes[z.node].doc = z.doc

\* A new wrapper keeps ownership.
LEMMA AddedKeeps ==
  ASSUME NEW h, NEW hd, Kept(h, hd), NEW z, NEW r, FitsIn(h, hd, z, r), NEW q, AddedAs(h, z, r, q)
  PROVE  Kept(q, hd \cup {Len(h.w) + 1})
  <1> DEFINE o == Len(h.w) + 1
             ld == hd \cup {o}
  <1>1. /\ q \in HeapSet /\ DOMAIN q.w = DOMAIN h.w \cup {o} /\ o \notin DOMAIN h.w /\ q.w[o] = z
        /\ q.nodes = h.nodes /\ q.docs = h.docs /\ q.ndocs = h.ndocs /\ q.twice = h.twice
    BY DEF AddedAs
  <1>2. \A x \in DOMAIN h.w :
           /\ q.w[x].form = h.w[x].form /\ q.w[x].doc = h.w[x].doc
           /\ q.w[x].node = h.w[x].node /\ q.w[x].root = h.w[x].root /\ q.w[x].listed = h.w[x].listed
           /\ q.w[x].life = h.w[x].life
           /\ q.w[x].registry = IF x = r THEN h.w[x].registry \cup {o} ELSE h.w[x].registry
    BY DEF AddedAs
  <1>3. /\ z.life = "live" /\ z.registry = {}
        /\ \/ z.form = "pending" /\ z.root = o /\ r = 0
           \/ /\ z.form = "attached" /\ z.root = r /\ r \in DOMAIN h.w /\ OwnerIn(h, r) /\ z.doc = h.w[r].doc
              /\ z.node \in DOMAIN h.nodes /\ h.nodes[z.node].doc = z.doc
    BY DEF FitsIn
  <1>4. /\ h \in HeapSet /\ h.twice = FALSE /\ hd \subseteq DOMAIN h.w
        /\ \A x \in DOMAIN h.w :
             /\ h.w[x].form # "consumed" /\ h.w[x].root \in DOMAIN h.w /\ h.w[x].registry \subseteq DOMAIN h.w
             /\ h.w[x].form = "pending" => h.w[x].registry = {}
             /\ h.w[x].life = "live" /\ h.w[x].form \in {"pending", "owner"} => x \in hd /\ h.w[x].root = x
        /\ \A x \in hd : h.w[x].life = "live"
    BY DEF Kept, RootsHeld, WrappersSound
  <1>4b. 0 \notin DOMAIN h.w
    BY <1>4, HeapFields
  <1>2a. \A x \in DOMAIN h.w :
           /\ q.w[x].form = h.w[x].form /\ q.w[x].doc = h.w[x].doc
           /\ q.w[x].node = h.w[x].node /\ q.w[x].root = h.w[x].root /\ q.w[x].listed = h.w[x].listed
           /\ q.w[x].life = h.w[x].life
    BY <1>2
  <1>2b. /\ \A x \in DOMAIN h.w : h.w[x].registry \subseteq q.w[x].registry
         /\ \A x \in DOMAIN h.w : x # r => q.w[x].registry = h.w[x].registry
         /\ r \in DOMAIN h.w => q.w[r].registry = h.w[r].registry \cup {o}
    BY <1>2
  <1>4a. \A x \in DOMAIN h.w :
             h.w[x].form # "consumed" /\ h.w[x].root \in DOMAIN h.w /\ h.w[x].registry \subseteq DOMAIN h.w
    BY <1>4
  <1> HIDE DEF o
  <1>5. \A x \in DOMAIN q.w : OwnerIn(q, x) <=> x \in DOMAIN h.w /\ OwnerIn(h, x)
    BY <1>1, <1>2, <1>3 DEF OwnerIn
  <1>6. NodesApart(q)
    BY <1>1 DEF Kept, NodesApart
  <1>7. WrappersSound(q)
    <2>1. ASSUME NEW x \in DOMAIN h.w
          PROVE  /\ q.w[x].form # "consumed" /\ q.w[x].root \in DOMAIN q.w /\ q.w[x].registry \subseteq DOMAIN q.w
                 /\ q.w[x].form = "pending" => q.w[x].registry = {}
      <3>1. CASE x = r
        <4>1. h.w[x].form = "owner"
          BY <1>3, <1>4b, <3>1 DEF OwnerIn
        <4>2. q.w[x].registry = h.w[x].registry \cup {o}
          BY <1>2b, <3>1
        <4>3. q.w[x].form = "owner" /\ q.w[x].root \in DOMAIN h.w /\ h.w[x].registry \subseteq DOMAIN h.w
          BY <1>2a, <1>4a, <4>1
        <4> QED
          BY <1>1, <4>2, <4>3
      <3>2. CASE x # r
        <4>1. q.w[x].registry = h.w[x].registry /\ q.w[x].form = h.w[x].form /\ q.w[x].root = h.w[x].root
          BY <1>2a, <1>2b, <3>2
        <4> QED
          BY <1>1, <1>4, <4>1
      <3> QED
        BY <3>1, <3>2
    <2>2. /\ q.w[o].form # "consumed" /\ q.w[o].root \in DOMAIN q.w /\ q.w[o].registry \subseteq DOMAIN q.w
          /\ q.w[o].form = "pending" => q.w[o].registry = {}
      BY <1>1, <1>3
    <2> QED
      BY <1>1, <2>1, <2>2 DEF WrappersSound
  <1>8. RootsHeld(q, ld)
    <2>1. ASSUME NEW x \in DOMAIN q.w, q.w[x].life = "live", q.w[x].form \in {"pending", "owner"}
          PROVE  x \in ld /\ q.w[x].root = x
      <3>1. CASE x = o
        BY <1>1, <1>3, <2>1, <3>1
      <3>2. CASE x \in DOMAIN h.w
        BY <1>2, <1>4, <2>1, <3>2
      <3> QED
        BY <1>1, <3>1, <3>2
    <2>2. ASSUME NEW x \in ld PROVE q.w[x].life = "live"
      <3>1. CASE x = o
        BY <1>1, <1>3, <3>1
      <3>2. CASE x \in hd
        <4>1. x \in DOMAIN h.w /\ h.w[x].life = "live"
          BY <1>4, <3>2
        <4> QED
          BY <1>2a, <4>1
      <3> QED
        BY <3>1, <3>2
    <2> QED
      BY <1>1, <1>4, <2>1, <2>2 DEF RootsHeld
  <1>9. DocsOwned(q)
    <2>1. /\ h.docs \subseteq 1 .. h.ndocs
          /\ \A x \in DOMAIN h.w : OwnerIn(h, x) =>
               h.w[x].doc \in h.docs /\ h.w[x].node \in DOMAIN h.nodes /\ h.nodes[h.w[x].node].doc = h.w[x].doc
          /\ \A x, y \in DOMAIN h.w : OwnerIn(h, x) /\ OwnerIn(h, y) /\ h.w[x].doc = h.w[y].doc => x = y
          /\ \A e \in h.docs : \E x \in DOMAIN h.w : OwnerIn(h, x) /\ h.w[x].doc = e
      BY DEF Kept, DocsOwned
    <2>2. \A x \in DOMAIN q.w : OwnerIn(q, x) =>
            q.w[x].doc \in q.docs /\ q.w[x].node \in DOMAIN q.nodes /\ q.nodes[q.w[x].node].doc = q.w[x].doc
      BY <1>1, <1>2, <1>5, <2>1
    <2>3. \A x, y \in DOMAIN q.w : OwnerIn(q, x) /\ OwnerIn(q, y) /\ q.w[x].doc = q.w[y].doc => x = y
      <3> SUFFICES ASSUME NEW x \in DOMAIN q.w, NEW y \in DOMAIN q.w, OwnerIn(q, x), OwnerIn(q, y),
                          q.w[x].doc = q.w[y].doc
                   PROVE  x = y
        OBVIOUS
      <3>1. x \in DOMAIN h.w /\ y \in DOMAIN h.w /\ OwnerIn(h, x) /\ OwnerIn(h, y)
        BY <1>5
      <3>2. h.w[x].doc = h.w[y].doc
        BY <1>2a, <3>1
      <3> QED
        BY <2>1, <3>1, <3>2
    <2>4. ASSUME NEW e \in q.docs
          PROVE  \E x \in DOMAIN q.w : OwnerIn(q, x) /\ q.w[x].doc = e
      <3>1. PICK x \in DOMAIN h.w : OwnerIn(h, x) /\ h.w[x].doc = e
        BY <1>1, <2>1
      <3> QED
        BY <1>1, <1>2, <1>5, <3>1
    <2> QED
      BY <1>1, <2>1, <2>2, <2>3, <2>4 DEF DocsOwned
  <1>10. RegistriesExact(q)
    <2>1. /\ \A y \in DOMAIN h.w : OwnerIn(h, y) =>
               \A x \in h.w[y].registry : h.w[x].life = "live" /\ h.w[x].form = "attached" /\ h.w[x].root = y
          /\ \A x \in DOMAIN h.w : h.w[x].life = "live" /\ h.w[x].form = "attached" /\ h.w[x].listed =>
               OwnerIn(h, h.w[x].root) /\ x \in h.w[h.w[x].root].registry
      BY DEF Kept, RegistriesExact
    <2>2. ASSUME NEW y \in DOMAIN q.w, OwnerIn(q, y), NEW x \in q.w[y].registry
          PROVE  q.w[x].life = "live" /\ q.w[x].form = "attached" /\ q.w[x].root = y
      <3>1. y \in DOMAIN h.w /\ OwnerIn(h, y)
        BY <1>5, <2>2
      <3>2. CASE y = r /\ x = o
        BY <1>1, <1>3, <1>4b, <3>1, <3>2
      <3>3. CASE ~(y = r /\ x = o)
        <4>1. x \in h.w[y].registry
          BY <1>2, <2>2, <3>1, <3>3
        <4>2. x \in DOMAIN h.w
          BY <1>4, <3>1, <4>1
        <4>3. h.w[x].life = "live" /\ h.w[x].form = "attached" /\ h.w[x].root = y
          BY <2>1, <3>1, <4>1
        <4> QED
          BY <1>2a, <4>2, <4>3
      <3> QED
        BY <3>2, <3>3
    <2>3. ASSUME NEW x \in DOMAIN q.w, q.w[x].life = "live", q.w[x].form = "attached", q.w[x].listed
          PROVE  OwnerIn(q, q.w[x].root) /\ x \in q.w[q.w[x].root].registry
      <3>1. CASE x = o
        <4>1. q.w[x].root = r /\ r \in DOMAIN h.w /\ OwnerIn(h, r)
          BY <1>1, <1>3, <2>3, <3>1
        <4>2. OwnerIn(q, r) /\ o \in q.w[r].registry
          BY <1>1, <1>2b, <1>5, <4>1
        <4> QED
          BY <3>1, <4>1, <4>2
      <3>2. CASE x \in DOMAIN h.w
        <4>1. OwnerIn(h, h.w[x].root) /\ x \in h.w[h.w[x].root].registry /\ h.w[x].root \in DOMAIN h.w
              /\ q.w[x].root = h.w[x].root
          <5>1. h.w[x].life = "live" /\ h.w[x].form = "attached" /\ h.w[x].listed
            BY <1>2a, <2>3, <3>2
          <5> QED
            BY <1>2a, <1>4a, <2>1, <3>2, <5>1
        <4> QED
          BY <1>1, <1>2b, <1>5, <4>1
      <3> QED
        BY <1>1, <3>1, <3>2
    <2> QED
      BY <2>2, <2>3 DEF RegistriesExact
  <1>11. AttachedHeld(q, ld)
    <2>1. \A x \in hd : h.w[x].form = "attached" =>
            /\ OwnerIn(h, h.w[x].root) /\ h.w[h.w[x].root].doc = h.w[x].doc
            /\ h.w[x].node \in DOMAIN h.nodes /\ h.nodes[h.w[x].node].doc = h.w[x].doc
      BY DEF Kept, AttachedHeld
    <2>2. ASSUME NEW x \in ld, q.w[x].form = "attached"
          PROVE  /\ OwnerIn(q, q.w[x].root) /\ q.w[q.w[x].root].doc = q.w[x].doc
                 /\ q.w[x].node \in DOMAIN q.nodes /\ q.nodes[q.w[x].node].doc = q.w[x].doc
      <3>1. CASE x = o
        <4>1. /\ q.w[x].root = r /\ r \in DOMAIN h.w /\ OwnerIn(h, r) /\ q.w[x].doc = h.w[r].doc
              /\ q.w[x].node \in DOMAIN h.nodes /\ h.nodes[q.w[x].node].doc = q.w[x].doc
          BY <1>1, <1>3, <2>2, <3>1
        <4> QED
          BY <1>1, <1>2, <1>5, <4>1
      <3>2. CASE x # o
        <4>1. x \in hd /\ x \in DOMAIN h.w /\ h.w[x].form = "attached" /\ q.w[x].root = h.w[x].root
              /\ q.w[x].doc = h.w[x].doc /\ q.w[x].node = h.w[x].node /\ h.w[x].root \in DOMAIN h.w
          <5>1. x \in hd
            BY <3>2 DEF ld
          <5>2. x \in DOMAIN h.w
            BY <1>4, <5>1
          <5> QED
            BY <1>2a, <1>4a, <2>2, <5>1, <5>2
        <4>2. OwnerIn(h, h.w[x].root) /\ h.w[h.w[x].root].doc = h.w[x].doc
              /\ h.w[x].node \in DOMAIN h.nodes /\ h.nodes[h.w[x].node].doc = h.w[x].doc
          BY <2>1, <4>1
        <4>3. OwnerIn(q, h.w[x].root) /\ q.w[h.w[x].root].doc = h.w[h.w[x].root].doc
          BY <1>1, <1>2a, <1>5, <4>1, <4>2
        <4> QED
          BY <1>1, <4>1, <4>2, <4>3
      <3> QED
        BY <3>1, <3>2
    <2> QED
      BY <2>2 DEF AttachedHeld
  <1> QED
    BY <1>1, <1>4, <1>6, <1>7, <1>8, <1>9, <1>10, <1>11 DEF Kept, o

\* Removing children keeps ownership.
LEMMA FewerKids ==
  ASSUME NEW h, NEW hd, Kept(h, hd), NEW n \in DOMAIN h.nodes, NEW K \in Seq(KidSet),
         \A j \in DOMAIN K : \E i \in DOMAIN h.nodes[n].kids : K[j] = h.nodes[n].kids[i]
  PROVE  Kept([h EXCEPT !.nodes[n].kids = K], hd)
  <1> DEFINE q == [h EXCEPT !.nodes[n].kids = K]
  <1>1. h \in HeapSet
    BY DEF Kept
  <1>2. /\ q \in HeapSet /\ DOMAIN q.nodes = DOMAIN h.nodes
        /\ q.nodes[n].kids = K /\ q.nodes[n].doc = h.nodes[n].doc
        /\ \A m \in DOMAIN h.nodes : m # n => q.nodes[m] = h.nodes[m]
        /\ q.w = h.w /\ q.docs = h.docs /\ q.ndocs = h.ndocs /\ q.twice = h.twice
    BY <1>1, HeapKids
  <1> HIDE DEF q
  <1>3. \A m \in DOMAIN h.nodes : q.nodes[m].doc = h.nodes[m].doc
    BY <1>2
  <1>4. NodesApart(q)
    <2>1. \A m \in DOMAIN h.nodes :
            /\ h.nodes[m].doc \in 1 .. h.ndocs
            /\ \A i \in DOMAIN h.nodes[m].kids :
                 /\ h.nodes[m].kids[i].node \in DOMAIN h.nodes
                 /\ h.nodes[h.nodes[m].kids[i].node].doc = h.nodes[m].doc
      BY DEF Kept, NodesApart
    <2>2. ASSUME NEW m \in DOMAIN h.nodes, NEW j \in DOMAIN q.nodes[m].kids
          PROVE  /\ q.nodes[m].kids[j].node \in DOMAIN h.nodes
                 /\ h.nodes[q.nodes[m].kids[j].node].doc = h.nodes[m].doc
      <3>1. CASE m = n
        <4>1. PICK i \in DOMAIN h.nodes[n].kids : K[j] = h.nodes[n].kids[i]
          BY <1>2, <2>2, <3>1
        <4> QED
          BY <1>2, <2>1, <3>1, <4>1
      <3>2. CASE m # n
        BY <1>2, <2>1, <2>2, <3>2
      <3> QED
        BY <3>1, <3>2
    <2> QED
      BY <1>2, <1>3, <2>1, <2>2 DEF NodesApart
  <1>5. WrappersSound(q)
    BY <1>2 DEF Kept, WrappersSound
  <1>6. RootsHeld(q, hd)
    BY <1>2 DEF Kept, RootsHeld
  <1>7. DocsOwned(q)
    BY <1>2, <1>3 DEF Kept, DocsOwned, OwnerIn
  <1>8. RegistriesExact(q)
    BY <1>2 DEF Kept, RegistriesExact, OwnerIn
  <1>9. AttachedHeld(q, hd)
    BY <1>2, <1>3 DEF Kept, AttachedHeld, OwnerIn
  <1>10. q.twice = FALSE
    BY <1>2 DEF Kept
  <1>11. Kept(q, hd)
    BY <1>2, <1>4, <1>5, <1>6, <1>7, <1>8, <1>9, <1>10 DEF Kept
  <1> QED
    BY <1>11 DEF q

\* The heap q is h without the root o.
ReleasedAs(h, o, q) ==
  /\ q \in HeapSet /\ DOMAIN q.w = DOMAIN h.w
  /\ \A x \in DOMAIN h.w :
       q.w[x] = IF x = o \/ x \in h.w[o].registry THEN [h.w[x] EXCEPT !.life = "freed"] ELSE h.w[x]
  /\ q.nodes = h.nodes /\ q.ndocs = h.ndocs /\ (q.twice <=> h.twice)
  /\ q.docs = IF h.w[o].form = "owner" THEN h.docs \ {h.w[o].doc} ELSE h.docs

\* What the owner gives up with itself.
LEMMA RootFacts ==
  ASSUME NEW h, NEW hd, Kept(h, hd), NEW o \in hd, h.w[o].form \in {"pending", "owner"}
  PROVE  /\ h \in HeapSet /\ o \in DOMAIN h.w /\ h.w[o].life = "live" /\ o \notin h.w[o].registry
         /\ h.w[o].form = "pending" => h.w[o].registry = {}
         /\ h.w[o].form = "owner" => OwnerIn(h, o) /\ h.w[o].doc \in h.docs
         /\ \A x \in h.w[o].registry : x \in DOMAIN h.w /\ h.w[x].life = "live" /\ h.w[x].form = "attached" /\ h.w[x].root = o
  <1>1. h \in HeapSet /\ o \in DOMAIN h.w /\ h.w[o].life = "live"
    BY DEF Kept, RootsHeld
  <1>2. /\ h.w[o].form = "pending" => h.w[o].registry = {}
        /\ h.w[o].registry \subseteq DOMAIN h.w
    BY <1>1 DEF Kept, WrappersSound
  <1>3. h.w[o].form = "owner" => OwnerIn(h, o) /\ h.w[o].doc \in h.docs
    BY <1>1 DEF Kept, DocsOwned, OwnerIn
  <1>4. \A x \in h.w[o].registry : x \in DOMAIN h.w /\ h.w[x].life = "live" /\ h.w[x].form = "attached" /\ h.w[x].root = o
    BY <1>1, <1>2, <1>3 DEF Kept, RegistriesExact
  <1> QED
    BY <1>1, <1>2, <1>3, <1>4

\* What json_object_put does to the heap for a pending wrapper.
LEMMA PutPendingIs ==
  ASSUME NEW h, NEW hd, Kept(h, hd), NEW o \in hd, h.w[o].form = "pending"
  PROVE  ReleasedAs(h, o, FreeAll(h, {o}))
  <1> DEFINE q == FreeAll(h, {o})
  <1>1. h \in HeapSet /\ o \in DOMAIN h.w /\ h.w[o].life = "live" /\ h.w[o].registry = {}
    BY RootFacts
  <1>2. /\ q \in HeapSet /\ DOMAIN q.w = DOMAIN h.w
        /\ \A x \in DOMAIN h.w : q.w[x] = IF x \in {o} THEN [h.w[x] EXCEPT !.life = "freed"] ELSE h.w[x]
        /\ q.nodes = h.nodes /\ q.docs = h.docs /\ q.ndocs = h.ndocs
        /\ q.twice <=> (h.twice \/ \E x \in {o} : h.w[x].life = "freed")
    BY <1>1, FreeAllIs
  <1> HIDE DEF q
  <1>3. \A x \in DOMAIN h.w : q.w[x] = IF x = o \/ x \in h.w[o].registry THEN [h.w[x] EXCEPT !.life = "freed"] ELSE h.w[x]
    BY <1>1, <1>2
  <1>4. q.twice <=> h.twice
    BY <1>1, <1>2
  <1> QED
    BY <1>2, <1>3, <1>4 DEF ReleasedAs, q

\* What json_object_put does to the heap for an owner.
LEMMA PutOwnerIs ==
  ASSUME NEW h, NEW hd, Kept(h, hd), NEW o \in hd, h.w[o].form = "owner"
  PROVE  ReleasedAs(h, o, FreeAll(FreeDoc(FreeAll(h, h.w[o].registry), h.w[o].doc), {o}))
  <1> DEFINE R == h.w[o].registry
             d == h.w[o].doc
             g1 == FreeAll(h, R)
             g2 == FreeDoc(g1, d)
             q == FreeAll(g2, {o})
  <1>1. /\ h \in HeapSet /\ o \in DOMAIN h.w /\ h.w[o].life = "live" /\ o \notin R /\ d \in h.docs
        /\ \A x \in R : h.w[x].life = "live"
    BY RootFacts
  <1>2. /\ g1 \in HeapSet /\ DOMAIN g1.w = DOMAIN h.w
        /\ \A x \in DOMAIN h.w : g1.w[x] = IF x \in R THEN [h.w[x] EXCEPT !.life = "freed"] ELSE h.w[x]
        /\ g1.nodes = h.nodes /\ g1.docs = h.docs /\ g1.ndocs = h.ndocs
        /\ g1.twice <=> (h.twice \/ \E x \in R : h.w[x].life = "freed")
    BY <1>1, FreeAllIs
  <1> HIDE DEF g1
  <1>3. /\ g2 \in HeapSet /\ g2.w = g1.w /\ g2.nodes = g1.nodes /\ g2.ndocs = g1.ndocs
        /\ g2.docs = g1.docs \ {d} /\ (g2.twice <=> (g1.twice \/ d \notin g1.docs))
    BY <1>2, FreeDocIs
  <1> HIDE DEF g2
  <1>4. /\ q \in HeapSet /\ DOMAIN q.w = DOMAIN g2.w
        /\ \A x \in DOMAIN g2.w : q.w[x] = IF x \in {o} THEN [g2.w[x] EXCEPT !.life = "freed"] ELSE g2.w[x]
        /\ q.nodes = g2.nodes /\ q.docs = g2.docs /\ q.ndocs = g2.ndocs
        /\ q.twice <=> (g2.twice \/ \E x \in {o} : g2.w[x].life = "freed")
    BY <1>3, FreeAllIs
  <1> HIDE DEF q
  <1>5. g2.w[o] = h.w[o]
    BY <1>1, <1>2, <1>3
  <1>6. q.twice <=> h.twice
    BY <1>1, <1>2, <1>3, <1>4, <1>5
  <1>7. ASSUME NEW x \in DOMAIN h.w
        PROVE  q.w[x] = IF x = o \/ x \in R THEN [h.w[x] EXCEPT !.life = "freed"] ELSE h.w[x]
    <2>1. CASE x = o
      BY <1>1, <1>2, <1>3, <1>4, <1>5, <2>1
    <2>2. CASE x # o
      BY <1>2, <1>3, <1>4, <2>2
    <2> QED
      BY <2>1, <2>2
  <1>8. q.docs = h.docs \ {d} /\ q.nodes = h.nodes /\ q.ndocs = h.ndocs /\ DOMAIN q.w = DOMAIN h.w /\ q \in HeapSet
    BY <1>2, <1>3, <1>4
  <1> QED
    BY <1>6, <1>7, <1>8 DEF ReleasedAs, q, g2, g1

\* Freeing a root keeps ownership, for the pointers that do not hang on it.
LEMMA ReleaseKeeps ==
  ASSUME NEW h, NEW hd, Kept(h, hd), NEW o \in hd, h.w[o].form \in {"pending", "owner"}, NEW q, ReleasedAs(h, o, q)
  PROVE  Kept(q, {x \in hd : x # o /\ h.w[x].root # o})
  <1> DEFINE ld == {x \in hd : x # o /\ h.w[x].root # o}
  <1>1. /\ q \in HeapSet /\ DOMAIN q.w = DOMAIN h.w
        /\ \A x \in DOMAIN h.w :
             q.w[x] = IF x = o \/ x \in h.w[o].registry THEN [h.w[x] EXCEPT !.life = "freed"] ELSE h.w[x]
        /\ q.nodes = h.nodes /\ q.ndocs = h.ndocs /\ (q.twice <=> h.twice)
        /\ q.docs = IF h.w[o].form = "owner" THEN h.docs \ {h.w[o].doc} ELSE h.docs
    BY DEF ReleasedAs
  <1>2. /\ h \in HeapSet /\ o \in DOMAIN h.w /\ h.w[o].life = "live"
        /\ (h.w[o].form = "owner" => OwnerIn(h, o))
        /\ \A x \in h.w[o].registry : x \in DOMAIN h.w /\ h.w[x].life = "live" /\ h.w[x].form = "attached" /\ h.w[x].root = o
    BY RootFacts
  <1>3. ASSUME NEW x \in DOMAIN h.w
        PROVE  /\ q.w[x].form = h.w[x].form /\ q.w[x].doc = h.w[x].doc /\ q.w[x].registry = h.w[x].registry
               /\ q.w[x].node = h.w[x].node /\ q.w[x].root = h.w[x].root /\ q.w[x].listed = h.w[x].listed
    <2>1. h.w[x] \in WrapperSet
      BY <1>2, HeapFields
    <2> QED
      BY <1>1, <2>1, FreedIs
  <1>4. \A x \in DOMAIN h.w : x = o \/ x \in h.w[o].registry => q.w[x].life = "freed"
    <2> SUFFICES ASSUME NEW x \in DOMAIN h.w, x = o \/ x \in h.w[o].registry PROVE q.w[x].life = "freed"
      OBVIOUS
    <2>1. h.w[x] \in WrapperSet
      BY <1>2, HeapFields
    <2> QED
      BY <1>1, <2>1, FreedIs
  <1>5. \A x \in DOMAIN h.w : x # o /\ x \notin h.w[o].registry => q.w[x] = h.w[x]
    BY <1>1
  <1>6. \A x \in DOMAIN h.w : OwnerIn(q, x) <=> x # o /\ OwnerIn(h, x)
    BY <1>2, <1>3, <1>4, <1>5 DEF OwnerIn
  <1>7. NodesApart(q)
    BY <1>1 DEF Kept, NodesApart
  <1>8. WrappersSound(q)
    BY <1>1, <1>3 DEF Kept, WrappersSound
  <1>9. RootsHeld(q, ld)
    <2>1. /\ hd \subseteq DOMAIN h.w /\ \A x \in hd : h.w[x].life = "live"
          /\ \A x \in DOMAIN h.w :
               h.w[x].life = "live" /\ h.w[x].form \in {"pending", "owner"} => x \in hd /\ h.w[x].root = x
      BY DEF Kept, RootsHeld
    <2>2. ASSUME NEW x \in DOMAIN h.w, q.w[x].life = "live", q.w[x].form \in {"pending", "owner"}
          PROVE  x \in ld /\ q.w[x].root = x
      <3>1. x # o /\ x \notin h.w[o].registry
        BY <1>4, <2>2
      <3>2. q.w[x] = h.w[x]
        BY <1>5, <3>1
      <3> QED
        BY <2>1, <2>2, <3>1, <3>2
    <2>3. ASSUME NEW x \in ld PROVE q.w[x].life = "live"
      <3>1. x \in hd /\ x \in DOMAIN h.w /\ x # o /\ h.w[x].root # o
        BY <2>1
      <3>2. x \notin h.w[o].registry
        BY <1>2, <3>1
      <3> QED
        BY <1>5, <2>1, <3>1, <3>2
    <2> QED
      BY <1>1, <2>1, <2>2, <2>3 DEF RootsHeld
  <1>10. DocsOwned(q)
    <2>1. /\ h.docs \subseteq 1 .. h.ndocs
          /\ \A x \in DOMAIN h.w : OwnerIn(h, x) =>
               h.w[x].doc \in h.docs /\ h.w[x].node \in DOMAIN h.nodes /\ h.nodes[h.w[x].node].doc = h.w[x].doc
          /\ \A x, y \in DOMAIN h.w : OwnerIn(h, x) /\ OwnerIn(h, y) /\ h.w[x].doc = h.w[y].doc => x = y
          /\ \A e \in h.docs : \E x \in DOMAIN h.w : OwnerIn(h, x) /\ h.w[x].doc = e
      BY DEF Kept, DocsOwned
    <2>2. q.docs \subseteq 1 .. q.ndocs
      BY <1>1, <2>1
    <2>3. ASSUME NEW x \in DOMAIN h.w, OwnerIn(q, x)
          PROVE  q.w[x].doc \in q.docs /\ q.w[x].node \in DOMAIN q.nodes /\ q.nodes[q.w[x].node].doc = q.w[x].doc
      <3>1. x # o /\ OwnerIn(h, x) /\ q.w[x].doc = h.w[x].doc /\ q.w[x].node = h.w[x].node
        BY <1>3, <1>6, <2>3
      <3>2. h.w[x].doc \in q.docs
        BY <1>1, <1>2, <2>1, <3>1
      <3> QED
        BY <1>1, <2>1, <3>1, <3>2
    <2>4. \A x, y \in DOMAIN h.w : OwnerIn(q, x) /\ OwnerIn(q, y) /\ q.w[x].doc = q.w[y].doc => x = y
      BY <1>3, <1>6, <2>1
    <2>5. ASSUME NEW e \in q.docs
          PROVE  \E x \in DOMAIN h.w : OwnerIn(q, x) /\ q.w[x].doc = e
      <3>1. e \in h.docs /\ (h.w[o].form = "owner" => e # h.w[o].doc)
        BY <1>1
      <3>2. PICK x \in DOMAIN h.w : OwnerIn(h, x) /\ h.w[x].doc = e
        BY <2>1, <3>1
      <3>3. x # o
        BY <3>1, <3>2 DEF OwnerIn
      <3> QED
        BY <1>3, <1>6, <3>2, <3>3
    <2> QED
      BY <1>1, <2>2, <2>3, <2>4, <2>5 DEF DocsOwned
  <1>11. RegistriesExact(q)
    <2>1. /\ \A y \in DOMAIN h.w : OwnerIn(h, y) =>
               \A x \in h.w[y].registry : h.w[x].life = "live" /\ h.w[x].form = "attached" /\ h.w[x].root = y
          /\ \A x \in DOMAIN h.w : h.w[x].life = "live" /\ h.w[x].form = "attached" /\ h.w[x].listed =>
               OwnerIn(h, h.w[x].root) /\ x \in h.w[h.w[x].root].registry
          /\ \A y \in DOMAIN h.w : h.w[y].registry \subseteq DOMAIN h.w /\ h.w[y].root \in DOMAIN h.w
      BY DEF Kept, RegistriesExact, WrappersSound
    <2>2. ASSUME NEW y \in DOMAIN h.w, OwnerIn(q, y), NEW x \in q.w[y].registry
          PROVE  q.w[x].life = "live" /\ q.w[x].form = "attached" /\ q.w[x].root = y
      <3>1. y # o /\ OwnerIn(h, y) /\ x \in h.w[y].registry
        BY <1>3, <1>6, <2>2
      <3>2. x \in DOMAIN h.w /\ h.w[x].life = "live" /\ h.w[x].form = "attached" /\ h.w[x].root = y
        BY <2>1, <3>1
      <3>3. x # o /\ x \notin h.w[o].registry
        BY <1>2, <3>1, <3>2
      <3> QED
        BY <1>5, <3>2, <3>3
    <2>3. ASSUME NEW x \in DOMAIN h.w, q.w[x].life = "live", q.w[x].form = "attached", q.w[x].listed
          PROVE  OwnerIn(q, q.w[x].root) /\ x \in q.w[q.w[x].root].registry
      <3>1. x # o /\ x \notin h.w[o].registry
        BY <1>4, <2>3
      <3>2. q.w[x] = h.w[x]
        BY <1>5, <3>1
      <3>3. OwnerIn(h, h.w[x].root) /\ x \in h.w[h.w[x].root].registry /\ h.w[x].root \in DOMAIN h.w
        BY <2>1, <2>3, <3>2
      <3>4. h.w[x].root # o
        BY <3>1, <3>3
      <3> QED
        BY <1>3, <1>6, <3>2, <3>3, <3>4
    <2> QED
      BY <1>1, <2>2, <2>3 DEF RegistriesExact
  <1>12. AttachedHeld(q, ld)
    <2>1. /\ hd \subseteq DOMAIN h.w /\ \A x \in DOMAIN h.w : h.w[x].root \in DOMAIN h.w
          /\ \A x \in hd : h.w[x].form = "attached" =>
               /\ OwnerIn(h, h.w[x].root) /\ h.w[h.w[x].root].doc = h.w[x].doc
               /\ h.w[x].node \in DOMAIN h.nodes /\ h.nodes[h.w[x].node].doc = h.w[x].doc
      BY DEF Kept, AttachedHeld, RootsHeld, WrappersSound
    <2>2. ASSUME NEW x \in ld, q.w[x].form = "attached"
          PROVE  /\ OwnerIn(q, q.w[x].root) /\ q.w[q.w[x].root].doc = q.w[x].doc
                 /\ q.w[x].node \in DOMAIN q.nodes /\ q.nodes[q.w[x].node].doc = q.w[x].doc
      <3>1. x \in hd /\ x \in DOMAIN h.w /\ h.w[x].root # o /\ h.w[x].root \in DOMAIN h.w
        BY <2>1, <2>2
      <3>2. q.w[x].root = h.w[x].root /\ q.w[x].doc = h.w[x].doc /\ q.w[x].node = h.w[x].node /\ h.w[x].form = "attached"
        BY <1>3, <2>2, <3>1
      <3>3. OwnerIn(q, h.w[x].root) /\ q.w[h.w[x].root].doc = h.w[x].doc
        BY <1>3, <1>6, <2>1, <3>1, <3>2
      <3> QED
        BY <1>1, <2>1, <3>1, <3>2, <3>3
    <2> QED
      BY <2>2 DEF AttachedHeld
  <1>13. q.twice = FALSE
    <2>1. q.twice \in BOOLEAN /\ h.twice = FALSE
      BY <1>1, HeapFields DEF Kept
    <2> QED
      BY <1>1, <2>1
  <1> HIDE DEF ld
  <1> QED
    BY <1>1, <1>7, <1>8, <1>9, <1>10, <1>11, <1>12, <1>13 DEF Kept, ld

-----------------------------------------------------------------------------
(* Every step keeps ownership.                                             *)

\* A sequence one longer.
LEMMA AppendIs ==
  ASSUME NEW S, NEW s \in Seq(S), NEW e
  PROVE  /\ Append(s, e) \in Seq(S \cup {e}) /\ Len(Append(s, e)) = Len(s) + 1
         /\ Append(s, e)[Len(s) + 1] = e /\ \A i \in DOMAIN s : Append(s, e)[i] = s[i]
  <1>1. s \in Seq(S \cup {e}) /\ e \in S \cup {e}
    OBVIOUS
  <1> DEFINE T == S \cup {e}
  <1> HIDE DEF T
  <1>2. s \in Seq(T) /\ e \in T
    BY <1>1 DEF T
  <1>3. /\ Append(s, e) \in Seq(T) /\ Len(Append(s, e)) = Len(s) + 1
        /\ Append(s, e)[Len(s) + 1] = e /\ \A i \in DOMAIN s : Append(s, e)[i] = s[i]
    BY <1>2
  <1> QED
    BY <1>3 DEF T

\* A new pending wrapper.
LEMMA NewIs ==
  ASSUME NEW h, NEW hd, Kept(h, hd), NEW kind \in NewKinds
  PROVE  LET o == Len(h.w) + 1
             z == Wrapper("pending", kind, 0, 0, o, TRUE)
             q == [h EXCEPT !.w = Append(@, z)]
         IN  AddedAs(h, z, 0, q) /\ FitsIn(h, hd, z, 0)
  <1> DEFINE o == Len(h.w) + 1
             z == Wrapper("pending", kind, 0, 0, o, TRUE)
             q == [h EXCEPT !.w = Append(@, z)]
  <1>1. h \in HeapSet
    BY DEF Kept
  <1>2. o \in Nat /\ h.w \in Seq(WrapperSet) /\ 0 \notin DOMAIN h.w
    BY <1>1, HeapFields
  <1> HIDE DEF o
  <1>3. z \in WrapperSet /\ z.life = "live" /\ z.form = "pending" /\ z.root = o /\ z.registry = {}
    BY <1>2 DEF Wrapper, WrapperSet
  <1>4. FitsIn(h, hd, z, 0)
    BY <1>3 DEF FitsIn, o
  <1> HIDE DEF z
  <1>5. /\ q \in HeapSet /\ Len(q.w) = Len(h.w) + 1 /\ DOMAIN q.w = DOMAIN h.w \cup {o}
        /\ o \notin DOMAIN h.w /\ q.w[o] = z /\ \A x \in DOMAIN h.w : q.w[x] = h.w[x]
        /\ q.nodes = h.nodes /\ q.docs = h.docs /\ q.ndocs = h.ndocs /\ q.twice = h.twice
    BY <1>1, <1>2, <1>3, HeapAppend DEF o
  <1> HIDE DEF q
  <1>6. AddedAs(h, z, 0, q)
    BY <1>2, <1>5 DEF AddedAs, o
  <1> QED
    BY <1>4, <1>6 DEF q, z, o

\* A pointer with a node: its root and its node.
LEMMA HolderRoot ==
  ASSUME NEW h, NEW hd, Kept(h, hd), NEW p \in hd, h.w[p].form \in {"owner", "attached"}
  PROVE  /\ h \in HeapSet /\ p \in DOMAIN h.w /\ h.w[p].root \in DOMAIN h.w /\ OwnerIn(h, h.w[p].root)
         /\ h.w[p].node \in DOMAIN h.nodes /\ h.nodes[h.w[p].node].doc = h.w[h.w[p].root].doc
         /\ h.w[p].doc = h.w[h.w[p].root].doc /\ h.w[p].doc \in h.docs
  <1>1. h \in HeapSet /\ p \in DOMAIN h.w /\ h.w[p].life = "live"
    BY DEF Kept, RootsHeld
  <1>2. h.w[p].root \in DOMAIN h.w
    BY <1>1 DEF Kept, WrappersSound
  <1>3. /\ OwnerIn(h, h.w[p].root) /\ h.w[p].node \in DOMAIN h.nodes
        /\ h.nodes[h.w[p].node].doc = h.w[h.w[p].root].doc /\ h.w[p].doc = h.w[h.w[p].root].doc
    <2>1. CASE h.w[p].form = "owner"
      <3>1. h.w[p].root = p
        BY <1>1, <2>1 DEF Kept, RootsHeld
      <3> QED
        BY <1>1, <2>1, <3>1 DEF OwnerIn, Kept, DocsOwned
    <2>2. CASE h.w[p].form = "attached"
      BY <2>2 DEF Kept, AttachedHeld
    <2> QED
      BY <2>1, <2>2
  <1>4. h.w[h.w[p].root].doc \in h.docs
    BY <1>2, <1>3 DEF Kept, DocsOwned
  <1> QED
    BY <1>1, <1>2, <1>3, <1>4

\* child_of, its inner update of one wrapper spelled out.
LEMMA ChildOf ==
  ASSUME NEW h, NEW p, NEW n
  PROVE  LET r == h.w[p].root
             V == [h.w EXCEPT ![r].registry = @ \cup {Len(h.w) + 1}]
         IN  child_of(h, p, n) = [h EXCEPT !.w = Append(V, Wrapper("attached", h.nodes[n].kind, h.w[r].doc, n, r, TRUE))]
  BY DEF child_of

\* What child_of does.
LEMMA ChildIs ==
  ASSUME NEW h, NEW hd, Kept(h, hd), NEW p \in hd, h.w[p].form \in {"owner", "attached"},
         NEW i \in DOMAIN h.nodes[h.w[p].node].kids
  PROVE  LET n == h.nodes[h.w[p].node].kids[i].node
             r == h.w[p].root
             z == Wrapper("attached", h.nodes[n].kind, h.w[r].doc, n, r, TRUE)
         IN  /\ n \in DOMAIN h.nodes /\ h.nodes[n].doc \in h.docs
             /\ AddedAs(h, z, r, child_of(h, p, n)) /\ FitsIn(h, hd, z, r)
  <1> DEFINE n == h.nodes[h.w[p].node].kids[i].node
             r == h.w[p].root
             D == h.w[r].doc
             kd == h.nodes[n].kind
             o == Len(h.w) + 1
             z == Wrapper("attached", kd, D, n, r, TRUE)
             Y == [h.w[r] EXCEPT !.registry = h.w[r].registry \cup {o}]
             W == [h.w EXCEPT ![r] = Y]
             q == [h EXCEPT !.w = Append(W, z)]
  <1>1. /\ h \in HeapSet /\ r \in DOMAIN h.w /\ OwnerIn(h, r) /\ h.w[p].node \in DOMAIN h.nodes
        /\ h.nodes[h.w[p].node].doc = D /\ h.w[p].doc = D /\ h.w[p].doc \in h.docs
    BY HolderRoot
  <1>2. n \in DOMAIN h.nodes /\ h.nodes[n].doc = D /\ D \in h.docs
    <2> DEFINE t == h.w[p].node
    <2>1. t \in DOMAIN h.nodes /\ h.nodes[t].doc = D /\ i \in DOMAIN h.nodes[t].kids /\ n = h.nodes[t].kids[i].node
          /\ D \in h.docs
      BY <1>1
    <2> HIDE DEF t, n, D
    <2>2. n \in DOMAIN h.nodes /\ h.nodes[n].doc = h.nodes[t].doc
      BY <2>1 DEF Kept, NodesApart
    <2> QED
      BY <2>1, <2>2
  <1>3. child_of(h, p, n) = q
    <2> DEFINE V == [h.w EXCEPT ![r].registry = @ \cup {o}]
    <2>1. V = W
      OBVIOUS
    <2> HIDE DEF n, W
    <2>2. child_of(h, p, n) = [h EXCEPT !.w = Append(V, z)]
      BY ChildOf
    <2> HIDE DEF V, z
    <2> QED
      BY <2>1, <2>2
  <1>4. h.w[r] \in WrapperSet /\ h.nodes[n] \in NodeSet /\ n \in Nat /\ r \in Nat /\ o \in Nat /\ h.w \in Seq(WrapperSet)
    <2> HIDE DEF n, r, D
    <2> QED
      BY <1>1, <1>2, HeapFields
  <1>5. D \in Nat /\ kd \in NewKinds /\ h.w[r].registry \in SUBSET Nat
    <2>1. D \in Nat /\ h.w[r].registry \in SUBSET Nat
      BY <1>4 DEF WrapperSet
    <2>2. kd \in NewKinds
      BY <1>4 DEF NodeSet
    <2> QED
      BY <2>1, <2>2
  <1>6. FitsIn(h, hd, z, r)
    <2>1. z.life = "live" /\ z.registry = {} /\ z.form = "attached" /\ z.root = r /\ z.doc = D /\ z.node = n
      BY DEF Wrapper
    <2> HIDE DEF z, n, r, D
    <2> QED
      BY <1>1, <1>2, <2>1 DEF FitsIn, D
  <1> HIDE DEF kd, D, r, n, o
  <1>7. z \in WrapperSet
    BY <1>4, <1>5, WrapperIs
  <1>8. /\ Y \in WrapperSet /\ Y.registry = h.w[r].registry \cup {o}
        /\ Y.form = h.w[r].form /\ Y.kind = h.w[r].kind /\ Y.doc = h.w[r].doc /\ Y.node = h.w[r].node
        /\ Y.root = h.w[r].root /\ Y.life = h.w[r].life /\ Y.listed = h.w[r].listed
    <2> DEFINE R == h.w[r].registry \cup {o}
               v == h.w[r]
    <2>1. R \in SUBSET Nat /\ v \in WrapperSet
      BY <1>4, <1>5
    <2> HIDE DEF R, v
    <2>2. LET u == [v EXCEPT !.registry = R]
          IN  /\ u \in WrapperSet /\ u.registry = R
              /\ u.form = v.form /\ u.kind = v.kind /\ u.doc = v.doc /\ u.node = v.node
              /\ u.root = v.root /\ u.life = v.life /\ u.listed = v.listed
      BY <2>1, RegistryIs
    <2> QED
      BY <2>2 DEF R, v
  <1> HIDE DEF z, Y
  <1>9. W \in Seq(WrapperSet) /\ Len(W) = Len(h.w) /\ W[r] = Y /\ \A x \in DOMAIN h.w : x # r => W[x] = h.w[x]
    BY <1>1, <1>4, <1>8
  <1> HIDE DEF W
  <1>10. /\ q \in HeapSet /\ Len(q.w) = Len(h.w) + 1 /\ DOMAIN q.w = DOMAIN h.w \cup {o}
         /\ o \notin DOMAIN h.w /\ q.w[o] = z /\ \A x \in DOMAIN h.w : q.w[x] = W[x]
         /\ q.nodes = h.nodes /\ q.docs = h.docs /\ q.ndocs = h.ndocs /\ q.twice = h.twice
    BY <1>1, <1>7, <1>9, HeapAppend DEF o
  <1> HIDE DEF q
  <1>11. ASSUME NEW x \in DOMAIN h.w
         PROVE  /\ q.w[x].form = h.w[x].form /\ q.w[x].kind = h.w[x].kind /\ q.w[x].doc = h.w[x].doc
                /\ q.w[x].node = h.w[x].node /\ q.w[x].root = h.w[x].root /\ q.w[x].listed = h.w[x].listed
                /\ q.w[x].life = h.w[x].life
                /\ q.w[x].registry = IF x = r THEN h.w[x].registry \cup {o} ELSE h.w[x].registry
    <2>1. CASE x = r
      <3>1. q.w[x] = Y
        BY <1>9, <1>10, <2>1
      <3> QED
        BY <1>8, <2>1, <3>1
    <2>2. CASE x # r
      BY <1>9, <1>10, <2>2
    <2> QED
      BY <2>1, <2>2
  <1>12. AddedAs(h, z, r, q)
    BY <1>10, <1>11 DEF AddedAs, o
  <1> QED
    BY <1>2, <1>3, <1>6, <1>12 DEF z, kd, D, r, n

\* The heap with the documents AddValue makes before it moves the value.
ReadiedAs(p, v, h) ==
  LET h0 == ensure_materialized(heap, p)
  IN  h = h0 \/ h = ensure_materialized(h0, v)

\* What AddValue does: nothing more than make documents, or move the value.
MovedAs(p, v, key, idx, listed, h) ==
  /\ Movable(h, pointers, p, v) /\ AttachedAs(h, p, v, key, idx, listed, heap')
  /\ pointers' = LeftBy(h, pointers, v)
  /\ asked' = [asked EXCEPT ![ident[p]].kids = Put(@, key, idx, ident[v])]

LeftAs(h) == heap' = h /\ pointers' = pointers /\ asked' = asked

\* Making documents keeps ownership.
LEMMA ReadyKeeps ==
  ASSUME Kept(heap, pointers), NEW p \in pointers, NEW v \in pointers, p # v, NEW h, ReadiedAs(p, v, h)
  PROVE  /\ Kept(h, pointers) /\ DOMAIN h.w = DOMAIN heap.w /\ Len(h.w) = Len(heap.w)
         /\ h.w[p].form \in {"owner", "attached"}
         /\ \A x \in DOMAIN heap.w : h.w[x].root = heap.w[x].root
         /\ heap.w[v].form = "attached" => h.w[v].form = "attached"
  <1> DEFINE h0 == ensure_materialized(heap, p)
  <1>1. /\ Kept(h0, pointers) /\ h0.w[p].form \in {"owner", "attached"}
        /\ DOMAIN h0.w = DOMAIN heap.w /\ Len(h0.w) = Len(heap.w)
        /\ \A x \in DOMAIN heap.w : h0.w[x].root = heap.w[x].root /\ h0.w[x].kind = heap.w[x].kind
        /\ \A x \in DOMAIN heap.w : x # p => h0.w[x] = heap.w[x]
    BY EnsureKeeps
  <1>2. p \in DOMAIN heap.w /\ v \in DOMAIN heap.w
    BY DEF Kept, RootsHeld
  <1> HIDE DEF h0
  <1>3. CASE h = h0
    BY <1>1, <1>2, <1>3
  <1>4. CASE h = ensure_materialized(h0, v)
    <2>1. /\ Kept(h, pointers) /\ DOMAIN h.w = DOMAIN h0.w /\ Len(h.w) = Len(h0.w)
          /\ \A x \in DOMAIN h0.w : h.w[x].root = h0.w[x].root /\ h.w[x].kind = h0.w[x].kind
          /\ \A x \in DOMAIN h0.w : x # v => h.w[x] = h0.w[x]
          /\ h0.w[v].form # "pending" => h = h0
      BY <1>1, <1>4, EnsureKeeps
    <2>2. h.w[p].form \in {"owner", "attached"}
      BY <1>1, <1>2, <2>1
    <2>3. heap.w[v].form = "attached" => h.w[v].form = "attached"
      BY <1>1, <1>2, <2>1
    <2> QED
      BY <1>1, <2>1, <2>2, <2>3
  <1> QED
    BY <1>3, <1>4 DEF ReadiedAs, h0

\* The value is not below itself.
LEMMA NotBelow ==
  ASSUME Kept(heap, pointers), NEW p \in pointers, NEW v \in pointers, p # v,
         heap.w[v].form = "owner" => heap.w[p].root # v, heap.w[v].form # "attached"
  PROVE  /\ heap.w[p].root # v
         /\ heap.w[v].form # "owner" => \A x \in pointers : x # v => heap.w[x].root # v
  <1>1. heap.w[v].form \in {"pending", "owner"}
    <2>1. heap \in HeapSet /\ v \in DOMAIN heap.w /\ heap.w[v].form # "consumed"
      BY DEF Kept, RootsHeld, WrappersSound
    <2>2. heap.w[v] \in WrapperSet
      BY <2>1, HeapFields
    <2> QED
      BY <2>1, <2>2 DEF WrapperSet
  <1>2. ASSUME heap.w[v].form = "pending", NEW x \in pointers, x # v
        PROVE  heap.w[x].root # v
    <2>1. heap \in HeapSet /\ x \in DOMAIN heap.w /\ heap.w[x].form # "consumed" /\ heap.w[x].life = "live"
      BY DEF Kept, RootsHeld, WrappersSound
    <2>2. heap.w[x] \in WrapperSet
      BY <2>1, HeapFields
    <2>3. CASE heap.w[x].form = "attached"
      <3>1. OwnerIn(heap, heap.w[x].root)
        BY <2>3 DEF Kept, AttachedHeld
      <3> QED
        BY <1>2, <3>1 DEF OwnerIn
    <2>4. CASE heap.w[x].form \in {"pending", "owner"}
      <3>1. heap.w[x].root = x
        BY <2>1, <2>4 DEF Kept, RootsHeld
      <3> QED
        BY <1>2, <3>1
    <2> QED
      BY <2>1, <2>2, <2>3, <2>4 DEF WrapperSet
  <1> QED
    BY <1>1, <1>2

\* The shape of AddValue.
LEMMA AddShape ==
  ASSUME Edges = {}, Kept(heap, pointers), NEW p \in pointers, NEW v \in pointers, NEW key \in KeySet, NEW idx \in Nat,
         NEW fail \in Fails, AddValue(p, v, key, idx, fail)
  PROVE  /\ p # v /\ Len(heap'.nodes) <= MaxNodes /\ ident' = ident
         /\ \E h : ReadiedAs(p, v, h) /\ (LeftAs(h) \/ MovedAs(p, v, key, idx, fail # "list", h))
  <1> DEFINE h0 == ensure_materialized(heap, p)
             replaces == key = "" /\ idx <= Len(h0.nodes[h0.w[p].node].kids)
             h == IF replaces THEN ensure_materialized(h0, v) ELSE h0
             a == attach(h, p, v, key, idx, fail)
             refused == h.w[v].form \in {"attached", "consumed"}
             after == IF refused THEN h ELSE a
  <1>1. /\ p # v /\ (heap.w[v].form = "owner" => heap.w[p].root # v)
        /\ Len(after.nodes) <= MaxNodes /\ (refused => fail = "none")
        /\ heap' = after
        /\ pointers' = IF refused \/ fail = "node" THEN pointers ELSE pointers \ Borrowed(v)
        /\ IF refused \/ fail \in {"node", "insert"} THEN UNCHANGED asked
           ELSE asked' = [asked EXCEPT ![ident[p]].kids = Put(@, key, idx, ident[v])]
        /\ ident' = ident
    BY DEF AddValue
  <1>2. fail \in {"none", "node", "list"}
    BY DEF Fails
  <1>3. ReadiedAs(p, v, h)
    BY DEF ReadiedAs
  <1>4. fail = "node" => a = h
    BY DEF attach
  <1> DEFINE aa == attach(h, p, v, key, idx, fail)
  <1>5. a = aa
    OBVIOUS
  <1> HIDE DEF a, h, h0, replaces
  <1>6. /\ Kept(h, pointers) /\ DOMAIN h.w = DOMAIN heap.w /\ h.w[p].form \in {"owner", "attached"}
        /\ \A x \in DOMAIN heap.w : h.w[x].root = heap.w[x].root
        /\ heap.w[v].form = "attached" => h.w[v].form = "attached"
    BY <1>1, <1>3, ReadyKeeps
  <1>7. CASE refused \/ fail = "node"
    <2>1. heap' = h /\ pointers' = pointers /\ asked' = asked
      BY <1>1, <1>4, <1>7
    <2> QED
      BY <1>1, <1>3, <2>1 DEF LeftAs
  <1>8. CASE ~refused /\ fail # "node"
    <2>1. /\ heap' = a /\ pointers' = pointers \ Borrowed(v)
          /\ asked' = [asked EXCEPT ![ident[p]].kids = Put(@, key, idx, ident[v])]
      BY <1>1, <1>2, <1>8
    <2>2. h.w[v].form \in {"pending", "owner"} /\ heap.w[v].form # "attached"
      <3>1. h \in HeapSet /\ v \in DOMAIN h.w
        BY <1>6 DEF Kept, RootsHeld
      <3>2. h.w[v] \in WrapperSet
        BY <3>1, HeapFields
      <3>3. h.w[v].form \in {"pending", "consumed", "owner", "attached"}
        BY <3>2 DEF WrapperSet
      <3> QED
        BY <1>6, <1>8, <3>3
    <2>3. heap.w[p].root # v /\ (heap.w[v].form # "owner" => \A x \in pointers : x # v => heap.w[x].root # v)
      BY <1>1, <2>2, NotBelow
    <2>4. pointers \subseteq DOMAIN heap.w
      BY DEF Kept, RootsHeld
    <2>5. Movable(h, pointers, p, v)
      BY <1>1, <1>6, <2>2, <2>3, <2>4 DEF Movable
    <2>6. fail \in {"none", "list"}
      BY <1>2, <1>8
    <2>7. AttachedAs(h, p, v, key, idx, fail # "list", aa)
      <3> HIDE DEF aa
      <3>1. AttachedAs(h, p, v, key, idx, fail # "list", attach(h, p, v, key, idx, fail))
        BY <2>5, <2>6, AttachIs
      <3> QED
        BY <3>1 DEF aa
    <2>8. pointers \ Borrowed(v) = LeftBy(h, pointers, v)
      <3>1. ASSUME NEW x \in pointers
            PROVE  x \in Borrowed(v) <=> ~(x = v \/ h.w[x].root # v)
        <4>1. h.w[x].root = heap.w[x].root /\ x \in DOMAIN heap.w
          BY <1>6, <2>4
        <4>2. x \in Borrowed(v) <=> heap.w[v].form = "owner" /\ x # v /\ heap.w[x].root = v
          BY <4>1 DEF Borrowed, Wrappers
        <4> QED
          BY <2>3, <4>1, <4>2
      <3> QED
        BY <3>1 DEF LeftBy
    <2>9. MovedAs(p, v, key, idx, fail # "list", h)
      BY <1>5, <2>1, <2>5, <2>7, <2>8 DEF MovedAs
    <2> QED
      BY <1>1, <1>3, <2>9
  <1> QED
    BY <1>7, <1>8

\* The inductive invariant of ownership.
Keeping ==
  /\ Kept(heap, pointers) /\ Len(heap.w) <= MaxWrappers /\ Len(heap.nodes) <= MaxNodes
  /\ \E S : ident \in Seq(S)
  /\ Len(ident) = Len(heap.w)

\* What json_object_put does.
LEMMA PutShape ==
  ASSUME Kept(heap, pointers), NEW o \in pointers, json_object_put(o)
  PROVE  /\ ident' = ident /\ asked' = asked
         /\ \/ heap' = heap /\ pointers' = pointers \ {o} /\ heap.w[o].form = "attached"
            \/ /\ heap.w[o].form \in {"pending", "owner"} /\ ReleasedAs(heap, o, heap')
               /\ pointers' = {x \in pointers : x # o /\ heap.w[x].root # o}
  <1>0. heap \in HeapSet /\ o \in DOMAIN heap.w /\ heap.w[o].form # "consumed"
    BY DEF Kept, RootsHeld, WrappersSound
  <1>1. heap.w[o] \in WrapperSet
    BY <1>0, HeapFields
  <1>2. heap.w[o].form \in {"pending", "owner", "attached"}
    BY <1>0, <1>1 DEF WrapperSet
  <1>3. ident' = ident /\ asked' = asked
    BY DEF json_object_put
  <1>4. CASE heap.w[o].form = "pending"
    <2>1. heap' = FreeAll(heap, {o}) /\ pointers' = {x \in pointers : x # o /\ heap.w[x].root # o}
      BY <1>4 DEF json_object_put
    <2> QED
      BY <1>3, <1>4, <2>1, PutPendingIs
  <1>5. CASE heap.w[o].form = "owner"
    <2>1. /\ heap' = FreeAll(FreeDoc(FreeAll(heap, heap.w[o].registry), heap.w[o].doc), {o})
          /\ pointers' = {x \in pointers : x # o /\ heap.w[x].root # o}
      BY <1>5 DEF json_object_put
    <2> QED
      BY <1>3, <1>5, <2>1, PutOwnerIs
  <1>6. CASE heap.w[o].form = "attached"
    <2>1. heap' = heap /\ pointers' = pointers \ {o}
      BY <1>6 DEF json_object_put
    <2> QED
      BY <1>3, <1>6, <2>1
  <1> QED
    BY <1>2, <1>4, <1>5, <1>6

\* A pointer given up.
LEMMA ForgetKeeps ==
  ASSUME NEW h, NEW hd, Kept(h, hd), NEW o \in hd, h.w[o].form = "attached"
  PROVE  Kept(h, hd \ {o})
  <1>1. RootsHeld(h, hd \ {o})
    BY DEF Kept, RootsHeld
  <1>2. AttachedHeld(h, hd \ {o})
    BY DEF Kept, AttachedHeld
  <1> QED
    BY <1>1, <1>2 DEF Kept

\* What DelValue does.
LEMMA DelShape ==
  ASSUME Kept(heap, pointers), NEW p \in pointers, NEW i \in Nat, DelValue(p, i)
  PROVE  LET h == ensure_materialized(heap, p)
             n == h.w[p].node
             K == RemoveAt(h.nodes[n].kids, i)
         IN  /\ Kept(h, pointers) /\ n \in DOMAIN h.nodes /\ h.nodes[n].kids \in Seq(KidSet)
             /\ i \in DOMAIN h.nodes[n].kids /\ K \in Seq(KidSet) /\ Len(h.nodes) <= MaxNodes
             /\ \A j \in DOMAIN K : \E m \in DOMAIN h.nodes[n].kids : K[j] = h.nodes[n].kids[m]
             /\ heap' = [h EXCEPT !.nodes[n].kids = K]
             /\ asked' = [asked EXCEPT ![ident[p]].kids = RemoveAt(@, i)]
             /\ ident' = ident /\ pointers' = pointers
  <1> DEFINE h == ensure_materialized(heap, p)
             n == h.w[p].node
             ks == h.nodes[n].kids
             K == RemoveAt(ks, i)
  <1>1. /\ Len(h.nodes) <= MaxNodes /\ i \in DOMAIN ks /\ heap' = [h EXCEPT !.nodes[n].kids = K]
        /\ asked' = [asked EXCEPT ![ident[p]].kids = RemoveAt(@, i)]
        /\ ident' = ident /\ pointers' = pointers
    BY DEF DelValue
  <1>2. Kept(h, pointers) /\ h.w[p].form \in {"owner", "attached"}
    BY EnsureKeeps
  <1> HIDE DEF h
  <1>3. h \in HeapSet /\ n \in DOMAIN h.nodes
    BY <1>2, HolderRoot
  <1>4. h.nodes[n] \in NodeSet
    BY <1>3, HeapFields
  <1>5. ks \in Seq(KidSet)
    BY <1>4 DEF NodeSet
  <1> HIDE DEF n, ks
  <1>6. /\ K \in Seq(KidSet)
        /\ \A j \in DOMAIN K : LET s == IF j < i THEN j ELSE j + 1 IN s \in DOMAIN ks /\ K[j] = ks[s]
    BY <1>1, <1>5, RemoveAtIs
  <1> HIDE DEF K
  <1>7. \A j \in DOMAIN K : \E m \in DOMAIN ks : K[j] = ks[m]
    BY <1>6
  <1> QED
    BY <1>1, <1>2, <1>3, <1>5, <1>6, <1>7 DEF K, ks, n, h

\* Every step keeps ownership.
LEMMA KeepingStep ==
  ASSUME Edges = {}, Keeping, [JsonNext]_JsonVars
  PROVE  Keeping'
  <1>0. /\ Kept(heap, pointers) /\ Len(heap.w) <= MaxWrappers /\ Len(heap.nodes) <= MaxNodes
        /\ Len(ident) = Len(heap.w) /\ heap \in HeapSet /\ Len(heap.w) \in Nat /\ Len(heap.nodes) \in Nat
    BY HeapFields DEF Keeping, Kept
  <1>0b. PICK S : ident \in Seq(S)
    BY DEF Keeping
  <1>w. MaxWrappers \in Nat /\ MaxNodes \in Nat
    BY WrapperBounds
  <1>1. CASE UNCHANGED JsonVars
    BY <1>1 DEF JsonVars, Keeping
  <1>2. ASSUME NEW kind \in NewKinds, new_pending(kind) PROVE Keeping'
    <2> DEFINE o == Len(heap.w) + 1
               z == Wrapper("pending", kind, 0, 0, o, TRUE)
               q == [heap EXCEPT !.w = Append(@, z)]
    <2>1. Len(heap.w) < MaxWrappers /\ heap' = q /\ pointers' = pointers \cup {o} /\ ident' = Append(ident, Len(asked) + 1)
      BY <1>2 DEF new_pending, New
    <2>2. AddedAs(heap, z, 0, q) /\ FitsIn(heap, pointers, z, 0)
      BY <1>0, NewIs
    <2> HIDE DEF z, q
    <2>3. Kept(q, pointers \cup {o})
      BY <1>0, <2>2, AddedKeeps
    <2>4. Len(q.w) = Len(heap.w) + 1 /\ q.nodes = heap.nodes
      BY <2>2 DEF AddedAs
    <2>5. ident' \in Seq(S \cup {Len(asked) + 1}) /\ Len(ident') = Len(ident) + 1
      BY <1>0b, <2>1, AppendIs
    <2>6. \E T : ident' \in Seq(T)
      BY <2>5
    <2> QED
      BY <1>0, <1>w, <2>1, <2>3, <2>4, <2>5, <2>6 DEF Keeping
  <1>3. ASSUME NEW kind \in {"object", "array"}, json_tokener_parse_ex(kind) PROVE Keeping'
    <2> DEFINE o == Len(heap.w) + 1
               z == Wrapper("pending", kind, 0, 0, o, TRUE)
               q == [heap EXCEPT !.w = Append(@, z)]
               u == materialize_root(q, o)
    <2>1. /\ Len(heap.w) < MaxWrappers /\ Len(heap.nodes) < MaxNodes
          /\ heap' = u /\ pointers' = pointers \cup {o} /\ ident' = Append(ident, Len(asked) + 1)
      BY <1>3 DEF json_tokener_parse_ex
    <2>k. kind \in NewKinds
      BY DEF NewKinds
    <2>2. AddedAs(heap, z, 0, q) /\ FitsIn(heap, pointers, z, 0)
      BY <1>0, <2>k, NewIs
    <2>2b. z.form = "pending"
      BY DEF Wrapper
    <2> HIDE DEF z, q
    <2>3. Kept(q, pointers \cup {o})
      BY <1>0, <2>2, AddedKeeps
    <2>4. Len(q.w) = Len(heap.w) + 1 /\ q.nodes = heap.nodes /\ q.w[o] = z /\ q \in HeapSet /\ o \in DOMAIN q.w
      BY <2>2 DEF AddedAs
    <2>5. MadeRoot(q, o, u)
      BY <2>4, MaterializeIs
    <2> HIDE DEF u
    <2>6. Kept(u, pointers \cup {o})
      BY <2>2b, <2>3, <2>4, <2>5, MaterializeKeeps
    <2>7. u \in HeapSet /\ DOMAIN u.w = DOMAIN q.w /\ Len(u.nodes) = Len(heap.nodes) + 1
      BY <2>4, <2>5 DEF MadeRoot
    <2>8. Len(u.w) = Len(heap.w) + 1
      BY <2>4, <2>7, HeapFields
    <2>9. ident' \in Seq(S \cup {Len(asked) + 1}) /\ Len(ident') = Len(ident) + 1
      BY <1>0b, <2>1, AppendIs
    <2>10. \E T : ident' \in Seq(T)
      BY <2>9
    <2> QED
      BY <1>0, <1>w, <2>1, <2>6, <2>7, <2>8, <2>9, <2>10 DEF Keeping
  <1>4. ASSUME NEW p \in pointers, NEW v \in pointers, NEW key \in KeySet, NEW idx \in Nat, NEW fail \in Fails,
               AddValue(p, v, key, idx, fail)
        PROVE  Keeping'
    <2>1. p # v /\ Len(heap'.nodes) <= MaxNodes /\ ident' = ident
      BY <1>0, <1>4, AddShape
    <2>2. PICK h : ReadiedAs(p, v, h) /\ (LeftAs(h) \/ MovedAs(p, v, key, idx, fail # "list", h))
      BY <1>0, <1>4, AddShape
    <2>3. Kept(h, pointers) /\ DOMAIN h.w = DOMAIN heap.w /\ Len(h.w) = Len(heap.w)
      BY <1>0, <2>1, <2>2, ReadyKeeps
    <2>4. CASE LeftAs(h)
      BY <1>0, <1>0b, <2>1, <2>3, <2>4 DEF LeftAs, Keeping
    <2>5. CASE MovedAs(p, v, key, idx, fail # "list", h)
      <3> DEFINE listed == fail # "list"
      <3>1. Movable(h, pointers, p, v) /\ AttachedAs(h, p, v, key, idx, listed, heap') /\ pointers' = LeftBy(h, pointers, v)
        BY <2>5 DEF MovedAs
      <3>2. listed \in BOOLEAN
        OBVIOUS
      <3> HIDE DEF listed
      <3>3. Kept(heap', LeftBy(h, pointers, v))
        BY <3>1, <3>2, AttachKeeps
      <3>4. heap' \in HeapSet /\ DOMAIN heap'.w = DOMAIN h.w
        BY <3>1 DEF AttachedAs
      <3>5. Len(heap'.w) = Len(heap.w)
        BY <1>0, <2>3, <3>4, HeapFields
      <3> QED
        BY <1>0, <1>0b, <2>1, <3>1, <3>3, <3>5 DEF Keeping
    <2> QED
      BY <2>2, <2>4, <2>5
  <1>5. ASSUME NEW p \in pointers, NEW i \in Nat, DelValue(p, i) PROVE Keeping'
    <2> DEFINE h == ensure_materialized(heap, p)
               n == h.w[p].node
               K == RemoveAt(h.nodes[n].kids, i)
    <2>1. /\ Kept(h, pointers) /\ n \in DOMAIN h.nodes /\ K \in Seq(KidSet) /\ Len(h.nodes) <= MaxNodes
          /\ \A j \in DOMAIN K : \E m \in DOMAIN h.nodes[n].kids : K[j] = h.nodes[n].kids[m]
          /\ heap' = [h EXCEPT !.nodes[n].kids = K] /\ ident' = ident /\ pointers' = pointers
      BY <1>0, <1>5, DelShape
    <2>2. DOMAIN h.w = DOMAIN heap.w /\ Len(h.w) = Len(heap.w)
      BY <1>0, EnsureKeeps
    <2> HIDE DEF h, n, K
    <2>3. Kept(heap', pointers)
      BY <2>1, FewerKids
    <2>4. heap'.w = h.w /\ Len(heap'.nodes) = Len(h.nodes)
      <3>1. h \in HeapSet
        BY <2>1 DEF Kept
      <3> QED
        BY <2>1, <3>1, HeapKids
    <2> QED
      BY <1>0, <1>0b, <2>1, <2>2, <2>3, <2>4 DEF Keeping
  <1>6. ASSUME NEW p \in pointers, NEW i \in Nat, GetChild(p, i) PROVE Keeping'
    <2> DEFINE n == heap.nodes[heap.w[p].node].kids[i].node
               r == heap.w[p].root
               z == Wrapper("attached", heap.nodes[n].kind, heap.w[r].doc, n, r, TRUE)
    <2>1. /\ heap.w[p].form \in {"owner", "attached"} /\ Len(heap.w) < MaxWrappers
          /\ i \in DOMAIN heap.nodes[heap.w[p].node].kids
          /\ heap' = child_of(heap, p, n) /\ pointers' = pointers \cup {Len(heap.w) + 1}
          /\ ident' = Append(ident, asked[ident[p]].kids[i].node)
      BY <1>6 DEF GetChild
    <2>2. AddedAs(heap, z, r, child_of(heap, p, n)) /\ FitsIn(heap, pointers, z, r)
      BY <1>0, <2>1, ChildIs
    <2> HIDE DEF n, r, z
    <2>3. AddedAs(heap, z, r, heap')
      BY <2>1, <2>2
    <2>4. Kept(heap', pointers \cup {Len(heap.w) + 1})
      BY <1>0, <2>2, <2>3, AddedKeeps
    <2>5. Len(heap'.w) = Len(heap.w) + 1 /\ heap'.nodes = heap.nodes
      BY <2>3 DEF AddedAs
    <2>6. ident' \in Seq(S \cup {asked[ident[p]].kids[i].node}) /\ Len(ident') = Len(ident) + 1
      BY <1>0b, <2>1, AppendIs
    <2>7. \E T : ident' \in Seq(T)
      BY <2>6
    <2> QED
      BY <1>0, <1>w, <2>1, <2>4, <2>5, <2>6, <2>7 DEF Keeping
  <1>7. ASSUME NEW o \in pointers, Query(o) PROVE Keeping'
    <2>1. /\ heap.w[o].form = "pending" /\ Len(heap.nodes) < MaxNodes /\ heap' = materialize_root(heap, o)
          /\ ident' = ident /\ pointers' = pointers
      BY <1>7 DEF Query
    <2>2. o \in DOMAIN heap.w
      BY <1>0 DEF Kept, RootsHeld
    <2>3. MadeRoot(heap, o, heap')
      BY <1>0, <2>1, <2>2, MaterializeIs
    <2>4. Kept(heap', pointers)
      BY <1>0, <2>1, <2>3, MaterializeKeeps
    <2>5. heap' \in HeapSet /\ DOMAIN heap'.w = DOMAIN heap.w /\ Len(heap'.nodes) = Len(heap.nodes) + 1
      BY <2>3 DEF MadeRoot
    <2>6. Len(heap'.w) = Len(heap.w)
      BY <1>0, <2>5, HeapFields
    <2> QED
      BY <1>0, <1>0b, <1>w, <2>1, <2>4, <2>5, <2>6 DEF Keeping
  <1>8. ASSUME NEW o \in pointers, json_object_put(o) PROVE Keeping'
    <2>0. ident' = ident
      BY <1>0, <1>8, PutShape
    <2>1. CASE heap' = heap /\ pointers' = pointers \ {o} /\ heap.w[o].form = "attached"
      <3>1. Kept(heap, pointers \ {o})
        BY <1>0, <2>1, ForgetKeeps
      <3> QED
        BY <1>0, <1>0b, <2>0, <2>1, <3>1 DEF Keeping
    <2>2. CASE /\ heap.w[o].form \in {"pending", "owner"} /\ ReleasedAs(heap, o, heap')
               /\ pointers' = {x \in pointers : x # o /\ heap.w[x].root # o}
      <3>1. Kept(heap', {x \in pointers : x # o /\ heap.w[x].root # o})
        BY <1>0, <2>2, ReleaseKeeps
      <3>2. heap' \in HeapSet /\ DOMAIN heap'.w = DOMAIN heap.w /\ heap'.nodes = heap.nodes
        BY <2>2 DEF ReleasedAs
      <3>3. Len(heap'.w) = Len(heap.w)
        BY <1>0, <3>2, HeapFields
      <3> QED
        BY <1>0, <1>0b, <2>0, <2>2, <3>1, <3>2, <3>3 DEF Keeping
    <2> QED
      BY <1>0, <1>8, <2>1, <2>2, PutShape
  <1>9. Key \in KeySet /\ "" \in KeySet /\ 0 \in Nat /\ \A i \in 1 .. MaxNodes : i \in Nat
    BY DEF KeySet
  <1> QED
    BY <1>1, <1>2, <1>3, <1>4, <1>5, <1>6, <1>7, <1>8, <1>9 DEF JsonNext

\* At the start nothing is owned.
LEMMA KeepingInit ==
  ASSUME JsonInit
  PROVE  Keeping
  <1>1. /\ heap.w = <<>> /\ heap.nodes = <<>> /\ heap.docs = {} /\ heap.ndocs = 0 /\ heap.twice = FALSE
        /\ ident = <<>> /\ pointers = {} /\ heap \in HeapSet
    BY DEF JsonInit, HeapSet
  <1>2. DOMAIN heap.w = {} /\ DOMAIN heap.nodes = {} /\ Len(heap.w) = 0 /\ Len(heap.nodes) = 0 /\ Len(ident) = 0
        /\ ident \in Seq({})
    BY <1>1
  <1>3. Kept(heap, pointers)
    BY <1>1, <1>2 DEF Kept, NodesApart, WrappersSound, RootsHeld, DocsOwned, RegistriesExact, AttachedHeld
  <1> QED
    BY <1>2, <1>3, WrapperBounds DEF Keeping

\* Ownership makes the wrappers the caller holds valid.
LEMMA KeepingValid ==
  ASSUME Keeping
  PROVE  WrappersStayValid /\ ReleasedOnce
  <1>0. Kept(heap, pointers) /\ heap \in HeapSet
    BY DEF Keeping, Kept
  <1>1. DOMAIN ident = Wrappers
    <2>1. PICK S : ident \in Seq(S)
      BY DEF Keeping
    <2> QED
      BY <1>0, <2>1, HeapFields DEF Keeping, Wrappers
  <1>2. \A x \in DOMAIN heap.w : heap.w[x] \in WrapperSet
    BY <1>0, HeapFields
  <1>3. \A x \in DOMAIN heap.w : heap.w[x].form \in {"pending", "consumed", "owner", "attached"}
    BY <1>2 DEF WrapperSet
  <1>4. JsonTypeOK
    BY <1>0, <1>1, <1>3 DEF JsonTypeOK, Keeping, Kept, WrappersSound, RootsHeld, Wrappers
  <1>5. ASSUME NEW x \in pointers
        PROVE  /\ heap.w[x].life = "live"
               /\ heap.w[x].form \in {"owner", "attached"} =>
                    /\ heap.w[x].doc \in heap.docs /\ heap.nodes[heap.w[x].node].doc = heap.w[x].doc
                    /\ heap.w[heap.w[x].root].life = "live" /\ heap.w[heap.w[x].root].form = "owner"
                    /\ heap.w[heap.w[x].root].doc = heap.w[x].doc
    <2>1. heap.w[x].life = "live"
      BY <1>0 DEF Kept, RootsHeld
    <2>2. ASSUME heap.w[x].form \in {"owner", "attached"}
          PROVE  /\ heap.w[x].doc \in heap.docs /\ heap.nodes[heap.w[x].node].doc = heap.w[x].doc
                 /\ OwnerIn(heap, heap.w[x].root) /\ heap.w[heap.w[x].root].doc = heap.w[x].doc
      BY <1>0, <2>2, HolderRoot
    <2> QED
      BY <2>1, <2>2 DEF OwnerIn
  <1>6. PointersStayValid
    BY <1>5 DEF PointersStayValid
  <1>7. ReleasedOnce
    <2>1. heap.twice = FALSE
      BY <1>0 DEF Kept
    <2>2. ASSUME pointers = {} PROVE heap.docs = {}
      BY <1>0, <2>2 DEF Kept, DocsOwned, RootsHeld, OwnerIn
    <2>3. ASSUME pointers = {}, NEW x \in DOMAIN heap.w, heap.w[x].life # "freed", heap.w[x].listed PROVE FALSE
      <3>1. heap.w[x].life = "live" /\ heap.w[x].form \in {"pending", "owner", "attached"}
        BY <1>0, <1>2, <2>3 DEF WrapperSet, Kept, WrappersSound
      <3>2. CASE heap.w[x].form \in {"pending", "owner"}
        BY <1>0, <2>3, <3>1, <3>2 DEF Kept, RootsHeld
      <3>3. CASE heap.w[x].form = "attached"
        <4>1. OwnerIn(heap, heap.w[x].root) /\ heap.w[x].root \in DOMAIN heap.w
          BY <1>0, <2>3, <3>1, <3>3 DEF Kept, RegistriesExact, WrappersSound
        <4>2. heap.w[x].root \in pointers
          BY <1>0, <4>1 DEF Kept, RootsHeld, OwnerIn
        <4> QED
          BY <2>3, <4>2
      <3> QED
        BY <3>1, <3>2, <3>3
    <2> QED
      BY <2>1, <2>2, <2>3 DEF ReleasedOnce, Wrappers
  <1> QED
    BY <1>4, <1>6, <1>7 DEF WrappersStayValid

\* The wrappers the caller holds stay valid (jsonc_compat.c:12-13): for every number of
\* wrappers and of nodes, whatever is added, replaced, deleted, read and put and
\* whichever of the three allocations fails, no pointer the caller may use has been freed
\* or has lost its document.
THEOREM WrappersValid ==
  ASSUME Edges = {}
  PROVE  JsonSpec => []WrappersStayValid
  <1>1. JsonInit => Keeping
    BY KeepingInit
  <1>2. Keeping /\ [JsonNext]_JsonVars => Keeping'
    BY KeepingStep
  <1>3. Keeping => WrappersStayValid
    BY KeepingValid
  <1> QED
    BY <1>1, <1>2, <1>3, PTL DEF JsonSpec

\* json_object_put and attach free nothing twice, and once every root is put nothing is
\* left but wrappers a full registry could not take.
THEOREM FreedOnce ==
  ASSUME Edges = {}
  PROVE  JsonSpec => []ReleasedOnce
  <1>1. JsonInit => Keeping
    BY KeepingInit
  <1>2. Keeping /\ [JsonNext]_JsonVars => Keeping'
    BY KeepingStep
  <1>3. Keeping => ReleasedOnce
    BY KeepingValid
  <1> QED
    BY <1>1, <1>2, <1>3, PTL DEF JsonSpec

-----------------------------------------------------------------------------
(* What the nodes stand for.                                               *)

\* The node n shows the value st[n], and its children those of the value.
StandsFor(ns, vals, st, n) ==
  /\ ns[n].kind = vals[st[n]].kind /\ Len(ns[n].kids) = Len(vals[st[n]].kids)
  /\ \A i \in DOMAIN ns[n].kids :
       /\ ns[n].kids[i].key = vals[st[n]].kids[i].key
       /\ st[ns[n].kids[i].node] = vals[st[n]].kids[i].node

\* A pending wrapper's value is empty and no node and no other pending wrapper shows it.
PendingShows(h, id, vals, hd, st) ==
  \A x \in hd : h.w[x].form = "pending" =>
    /\ vals[id[x]].kind = h.w[x].kind /\ vals[id[x]].kids = <<>>
    /\ \A n \in LiveNodes(h) : st[n] # id[x]
    /\ \A y \in hd : h.w[y].form = "pending" /\ id[y] = id[x] => y = x

\* The live nodes show different values, the pointers theirs.
Shows(h, id, vals, hd, st) ==
  /\ st \in [DOMAIN h.nodes -> DOMAIN vals]
  /\ \A n \in LiveNodes(h) : StandsFor(h.nodes, vals, st, n)
  /\ \A n, m \in LiveNodes(h) : st[n] = st[m] => n = m
  /\ \A x \in hd : h.w[x].form # "pending" => st[h.w[x].node] = id[x]
  /\ PendingShows(h, id, vals, hd, st)

\* What the caller has built.
Built(h, id, vals) ==
  /\ vals \in Seq(ValueSet) /\ id \in Seq(Nat) /\ Len(id) = Len(h.w)
  /\ \A x \in DOMAIN id : id[x] \in DOMAIN vals

\* A pointer's node is live.
LEMMA HolderLive ==
  ASSUME NEW h, NEW hd, Kept(h, hd), NEW x \in hd, h.w[x].form # "pending"
  PROVE  /\ h \in HeapSet /\ h.w[x].form \in {"owner", "attached"} /\ h.w[x].node \in DOMAIN h.nodes
         /\ h.w[x].node \in LiveNodes(h)
  <1>1. h \in HeapSet /\ x \in DOMAIN h.w /\ h.w[x].form # "consumed"
    BY DEF Kept, RootsHeld, WrappersSound
  <1>2. h.w[x] \in WrapperSet
    BY <1>1, HeapFields
  <1>3. h.w[x].form \in {"owner", "attached"}
    BY <1>1, <1>2 DEF WrapperSet
  <1>4. h.w[x].node \in DOMAIN h.nodes /\ h.nodes[h.w[x].node].doc = h.w[x].doc /\ h.w[x].doc \in h.docs
    BY <1>3, HolderRoot
  <1> QED
    BY <1>1, <1>3, <1>4 DEF LiveNodes

\* The children of a live node are live.
LEMMA KidsLive ==
  ASSUME NEW h, NodesApart(h), NEW n \in LiveNodes(h), NEW i \in DOMAIN h.nodes[n].kids
  PROVE  h.nodes[n].kids[i].node \in LiveNodes(h)
  BY DEF NodesApart, LiveNodes

\* A wrapper that gets a document shows its value there.
LEMMA MaterializeShows ==
  ASSUME NEW h, NEW hd, Kept(h, hd), NEW o \in hd, h.w[o].form = "pending", NEW q, MadeRoot(h, o, q),
         NEW id, NEW vals, Built(h, id, vals), NEW st, Shows(h, id, vals, hd, st)
  PROVE  \E su : Shows(q, id, vals, hd, su)
  <1> DEFINE d == h.ndocs + 1
             N == Len(h.nodes) + 1
             su == [m \in DOMAIN q.nodes |-> IF m = N THEN id[o] ELSE st[m]]
  <1>1. /\ q \in HeapSet /\ DOMAIN q.w = DOMAIN h.w /\ \A x \in DOMAIN h.w : x # o => q.w[x] = h.w[x]
        /\ q.w[o] = Wrapper("owner", h.w[o].kind, d, N, h.w[o].root, TRUE)
        /\ q.docs = h.docs \cup {d} /\ Len(q.nodes) = N /\ \A m \in DOMAIN h.nodes : q.nodes[m] = h.nodes[m]
        /\ q.nodes[N] = [doc |-> d, kind |-> h.w[o].kind, kids |-> <<>>]
    BY DEF MadeRoot
  <1>2. /\ h \in HeapSet /\ hd \subseteq DOMAIN h.w /\ NodesApart(h)
        /\ \A m \in DOMAIN h.nodes : h.nodes[m].doc \in 1 .. h.ndocs
    BY DEF Kept, RootsHeld, NodesApart
  <1>3. /\ h.ndocs \in Nat /\ Len(h.nodes) \in Nat /\ DOMAIN h.nodes = 1 .. Len(h.nodes)
        /\ DOMAIN q.nodes = 1 .. Len(q.nodes) /\ DOMAIN h.w = 1 .. Len(h.w)
    BY <1>1, <1>2, HeapFields
  <1>4. N \notin DOMAIN h.nodes /\ DOMAIN q.nodes = DOMAIN h.nodes \cup {N} /\ d \notin 1 .. h.ndocs
    BY <1>1, <1>3
  <1>5. q.nodes[N].doc = d /\ q.nodes[N].kind = h.w[o].kind /\ q.nodes[N].kids = <<>>
    BY <1>1
  <1>6. q.w[o].form = "owner" /\ q.w[o].node = N
    BY <1>1 DEF Wrapper
  <1> HIDE DEF d, N
  <1>7. LiveNodes(q) = LiveNodes(h) \cup {N}
    BY <1>1, <1>2, <1>4, <1>5 DEF LiveNodes
  <1>8. /\ st \in [DOMAIN h.nodes -> DOMAIN vals]
        /\ \A n \in LiveNodes(h) : StandsFor(h.nodes, vals, st, n)
        /\ \A n, m \in LiveNodes(h) : st[n] = st[m] => n = m
        /\ \A x \in hd : h.w[x].form # "pending" => st[h.w[x].node] = id[x]
    BY DEF Shows
  <1>9. \A x \in hd : h.w[x].form = "pending" =>
          /\ vals[id[x]].kind = h.w[x].kind /\ vals[id[x]].kids = <<>>
          /\ \A n \in LiveNodes(h) : st[n] # id[x]
          /\ \A y \in hd : h.w[y].form = "pending" /\ id[y] = id[x] => y = x
    BY DEF Shows, PendingShows
  <1>10. id[o] \in DOMAIN vals
    <2>1. DOMAIN id = DOMAIN h.w
      BY <1>3 DEF Built
    <2> QED
      BY <1>2, <2>1 DEF Built
  <1>11. su \in [DOMAIN q.nodes -> DOMAIN vals] /\ su[N] = id[o] /\ \A m \in DOMAIN h.nodes : su[m] = st[m]
    BY <1>4, <1>8, <1>10
  <1> HIDE DEF su
  <1>12. LiveNodes(h) \subseteq DOMAIN h.nodes
    BY DEF LiveNodes
  <1>13. ASSUME NEW n \in LiveNodes(q) PROVE StandsFor(q.nodes, vals, su, n)
    <2>1. CASE n = N
      <3>1. vals[id[o]].kind = h.w[o].kind /\ vals[id[o]].kids = <<>>
        BY <1>9
      <3> QED
        BY <1>5, <1>11, <2>1, <3>1 DEF StandsFor
    <2>2. CASE n \in LiveNodes(h)
      <3>1. q.nodes[n] = h.nodes[n] /\ su[n] = st[n] /\ StandsFor(h.nodes, vals, st, n)
        BY <1>1, <1>8, <1>11, <1>12, <2>2
      <3>2. \A i \in DOMAIN h.nodes[n].kids : h.nodes[n].kids[i].node \in DOMAIN h.nodes
        BY <1>2, <1>12, <2>2 DEF NodesApart
      <3> QED
        BY <1>11, <3>1, <3>2 DEF StandsFor
    <2> QED
      BY <1>7, <2>1, <2>2
  <1>14. \A n, m \in LiveNodes(q) : su[n] = su[m] => n = m
    <2>1. \A n \in LiveNodes(h) : su[n] = st[n] /\ st[n] # id[o]
      BY <1>9, <1>11, <1>12
    <2> QED
      BY <1>7, <1>8, <1>11, <2>1
  <1>15. ASSUME NEW x \in hd, q.w[x].form # "pending" PROVE su[q.w[x].node] = id[x]
    <2>1. CASE x = o
      BY <1>6, <1>11, <2>1
    <2>2. CASE x # o
      <3>1. q.w[x] = h.w[x]
        BY <1>1, <1>2, <2>2
      <3>2. h.w[x].node \in DOMAIN h.nodes
        BY <1>15, <3>1, HolderLive
      <3> QED
        BY <1>8, <1>11, <1>15, <3>1, <3>2
    <2> QED
      BY <2>1, <2>2
  <1>16. PendingShows(q, id, vals, hd, su)
    <2>1. ASSUME NEW x \in hd, q.w[x].form = "pending"
          PROVE  /\ vals[id[x]].kind = q.w[x].kind /\ vals[id[x]].kids = <<>>
                 /\ \A n \in LiveNodes(q) : su[n] # id[x]
                 /\ \A y \in hd : q.w[y].form = "pending" /\ id[y] = id[x] => y = x
      <3>1. x # o /\ q.w[x] = h.w[x]
        BY <1>1, <1>2, <1>6, <2>1
      <3>2. \A n \in LiveNodes(q) : su[n] # id[x]
        BY <1>7, <1>9, <1>11, <1>12, <2>1, <3>1
      <3>3. \A y \in hd : q.w[y].form = "pending" => h.w[y].form = "pending"
        BY <1>1, <1>2, <1>6
      <3> QED
        BY <1>9, <2>1, <3>1, <3>2, <3>3
    <2> QED
      BY <2>1 DEF PendingShows
  <1>17. Shows(q, id, vals, hd, su)
    BY <1>11, <1>13, <1>14, <1>15, <1>16 DEF Shows
  <1> QED
    BY <1>17

\* ensure_materialized, likewise.
LEMMA EnsureShows ==
  ASSUME NEW h, NEW hd, Kept(h, hd), NEW o \in hd,
         NEW id, NEW vals, Built(h, id, vals), NEW st, Shows(h, id, vals, hd, st)
  PROVE  /\ \E su : Shows(ensure_materialized(h, o), id, vals, hd, su)
         /\ Built(ensure_materialized(h, o), id, vals)
  <1> DEFINE q == ensure_materialized(h, o)
  <1>1. /\ Len(q.w) = Len(h.w) /\ (h.w[o].form = "pending" => MadeRoot(h, o, q))
        /\ (h.w[o].form # "pending" => q = h)
    BY EnsureKeeps
  <1> HIDE DEF q
  <1>2. Built(q, id, vals)
    BY <1>1 DEF Built
  <1>3. \E su : Shows(q, id, vals, hd, su)
    <2>1. CASE h.w[o].form = "pending"
      BY <1>1, <2>1, MaterializeShows
    <2>2. CASE h.w[o].form # "pending"
      BY <1>1, <2>2
    <2> QED
      BY <2>1, <2>2
  <1> QED
    BY <1>2, <1>3 DEF q

\* Fewer live nodes and fewer pointers show what they showed.
LEMMA LessShows ==
  ASSUME NEW h, NEW hd, NEW id, NEW vals, NEW st, Shows(h, id, vals, hd, st),
         NEW q, NEW ld \in SUBSET hd, q.nodes = h.nodes, LiveNodes(q) \subseteq LiveNodes(h),
         \A x \in ld : q.w[x] = h.w[x]
  PROVE  Shows(q, id, vals, ld, st)
  <1>1. PendingShows(q, id, vals, ld, st)
    BY DEF Shows, PendingShows
  <1> QED
    BY <1>1 DEF Shows

-----------------------------------------------------------------------------
(* What a graph reads as.                                                  *)

\* The readings of the nodes to the depth k, from those to the depth k - 1.
Level(graph, live, f, k) ==
  [n \in DOMAIN graph |->
     IF n \notin live THEN <<"freed">>
     ELSE IF k = 0 THEN <<graph[n].kind>>
     ELSE <<graph[n].kind, [i \in DOMAIN graph[n].kids |->
                              <<graph[n].kids[i].key, f[k - 1][graph[n].kids[i].node]>>]>>]

Levels(graph, live, M, f) == f = [k \in 0 .. M |-> Level(graph, live, f, k)]

\* A level reads the one before it only.
LEMMA LevelSame ==
  ASSUME NEW graph, NEW live, NEW f, NEW g, NEW k, k # 0 => f[k - 1] = g[k - 1]
  PROVE  Level(graph, live, f, k) = Level(graph, live, g, k)
  <1>1. CASE k = 0
    BY <1>1 DEF Level
  <1>2. CASE k # 0
    BY <1>2 DEF Level
  <1> QED
    BY <1>1, <1>2

\* The levels exist.
LEMMA LevelsExist ==
  ASSUME NEW graph, NEW live, NEW M \in Nat
  PROVE  \E f : Levels(graph, live, M, f)
  <1> DEFINE T == {m \in Nat : \E f : Levels(graph, live, m, f)}
  <1>1. 0 \in T
    <2> DEFINE f == [k \in 0 .. 0 |-> Level(graph, live, <<>>, 0)]
    <2>1. ASSUME NEW k \in 0 .. 0 PROVE Level(graph, live, f, k) = Level(graph, live, <<>>, 0)
      <3>1. k = 0
        OBVIOUS
      <3> HIDE DEF f
      <3> QED
        BY <3>1, LevelSame
    <2>2. Levels(graph, live, 0, f)
      <3> DEFINE e == Level(graph, live, <<>>, 0)
      <3>1. f = [k \in 0 .. 0 |-> e]
        OBVIOUS
      <3>2. \A k \in 0 .. 0 : Level(graph, live, f, k) = e
        BY <2>1
      <3> HIDE DEF f, e
      <3> QED
        BY <3>1, <3>2 DEF Levels
    <2> QED
      BY <2>2
  <1>2. ASSUME NEW m \in Nat, m \in T PROVE m + 1 \in T
    <2>1. PICK f : Levels(graph, live, m, f)
      BY <1>2
    <2> DEFINE e == Level(graph, live, f, m + 1)
               g == [k \in 0 .. (m + 1) |-> IF k <= m THEN f[k] ELSE e]
    <2> HIDE DEF e
    <2>2. \A k \in 0 .. m : f[k] = Level(graph, live, f, k)
      BY <2>1 DEF Levels
    <2>3. (\A k \in 0 .. m : g[k] = f[k]) /\ g[m + 1] = e
      OBVIOUS
    <2>4. ASSUME NEW k \in 0 .. (m + 1)
          PROVE  (IF k <= m THEN f[k] ELSE e) = Level(graph, live, g, k)
      <3> HIDE DEF g
      <3>1. k # 0 => f[k - 1] = g[k - 1]
        <4>1. k # 0 => k - 1 \in 0 .. m
          OBVIOUS
        <4> QED
          BY <2>3, <4>1
      <3>2. Level(graph, live, f, k) = Level(graph, live, g, k)
        BY <3>1, LevelSame
      <3>3. CASE k <= m
        BY <2>2, <3>2, <3>3
      <3>4. CASE ~(k <= m)
        <4>1. k = m + 1
          BY <3>4
        <4> QED
          BY <3>2, <3>4, <4>1 DEF e
      <3> QED
        BY <3>3, <3>4
    <2>5. g = [k \in 0 .. (m + 1) |-> Level(graph, live, g, k)]
      <3> DEFINE B(k) == IF k <= m THEN f[k] ELSE e
                 A(k) == Level(graph, live, g, k)
      <3>1. g = [k \in 0 .. (m + 1) |-> B(k)]
        OBVIOUS
      <3>2. \A k \in 0 .. (m + 1) : B(k) = A(k)
        BY <2>4
      <3> HIDE DEF A, B, g
      <3>3. g = [k \in 0 .. (m + 1) |-> A(k)]
        BY <3>1, <3>2
      <3> QED
        BY <3>3 DEF A
    <2> HIDE DEF g
    <2>6. Levels(graph, live, m + 1, g)
      BY <2>5 DEF Levels
    <2>7. \E u : Levels(graph, live, m + 1, u)
      BY <2>6
    <2> QED
      BY <2>7
  <1>3. Nat \subseteq T
    <2> HIDE DEF T
    <2> QED
      BY <1>1, <1>2, SetInduction
  <1> QED
    BY <1>3

\* Reading is the last level.
LEMMA ReadingIs ==
  ASSUME NEW graph, NEW live
  PROVE  \E f : Levels(graph, live, MaxNodes, f) /\ Reading(graph, live) = f[MaxNodes]
  <1> DEFINE f == CHOOSE u : Levels(graph, live, MaxNodes, u)
  <1>1. Levels(graph, live, MaxNodes, f)
    BY LevelsExist, WrapperBounds
  <1>2. Reading(graph, live) = f[MaxNodes]
    BY DEF Reading, Levels, Level
  <1> QED
    BY <1>1, <1>2

\* Nodes that stand for values read as they do.
LEMMA SameReading ==
  ASSUME NEW h, h \in HeapSet, NodesApart(h), NEW vals \in Seq(ValueSet), NEW st \in [DOMAIN h.nodes -> DOMAIN vals],
         \A n \in LiveNodes(h) : StandsFor(h.nodes, vals, st, n), NEW n \in LiveNodes(h)
  PROVE  Reading(h.nodes, LiveNodes(h))[n] = Reading(vals, DOMAIN vals)[st[n]]
  <1> DEFINE ns == h.nodes
             L == LiveNodes(h)
  <1>1. PICK f : Levels(ns, L, MaxNodes, f) /\ Reading(ns, L) = f[MaxNodes]
    BY ReadingIs
  <1>2. PICK g : Levels(vals, DOMAIN vals, MaxNodes, g) /\ Reading(vals, DOMAIN vals) = g[MaxNodes]
    BY ReadingIs
  <1>3. MaxNodes \in Nat
    BY WrapperBounds
  <1>4. L \subseteq DOMAIN ns /\ \A m \in L : st[m] \in DOMAIN vals
    BY DEF LiveNodes
  <1>5. \A m \in L : \A i \in DOMAIN ns[m].kids : ns[m].kids[i].node \in L
    BY KidsLive
  <1>6. \A m \in L : StandsFor(ns, vals, st, m)
    OBVIOUS
  <1>6b. \A m \in L : DOMAIN ns[m].kids = DOMAIN vals[st[m]].kids
    <2> SUFFICES ASSUME NEW m \in L PROVE DOMAIN ns[m].kids = DOMAIN vals[st[m]].kids
      OBVIOUS
    <2>1. ns[m] \in NodeSet /\ vals[st[m]] \in ValueSet
      BY <1>4, HeapFields
    <2>2. ns[m].kids \in Seq(KidSet) /\ vals[st[m]].kids \in Seq(KidSet)
      BY <2>1 DEF NodeSet, ValueSet
    <2>3. Len(ns[m].kids) = Len(vals[st[m]].kids)
      BY <1>6 DEF StandsFor
    <2> QED
      BY <2>2, <2>3
  <1> HIDE DEF ns, L
  <1> DEFINE T == {k \in Nat : k <= MaxNodes => \A m \in L : f[k][m] = g[k][st[m]]}
  <1>7. ASSUME NEW k \in 0 .. MaxNodes, NEW m \in L
        PROVE  /\ f[k][m] = IF k = 0 THEN <<ns[m].kind>>
                  ELSE <<ns[m].kind, [i \in DOMAIN ns[m].kids |-> <<ns[m].kids[i].key, f[k - 1][ns[m].kids[i].node]>>]>>
               /\ g[k][st[m]] = IF k = 0 THEN <<vals[st[m]].kind>>
                  ELSE <<vals[st[m]].kind, [i \in DOMAIN vals[st[m]].kids |->
                          <<vals[st[m]].kids[i].key, g[k - 1][vals[st[m]].kids[i].node]>>]>>
    <2>1. f[k] = Level(ns, L, f, k) /\ g[k] = Level(vals, DOMAIN vals, g, k)
      BY <1>1, <1>2 DEF Levels
    <2>2. m \in DOMAIN ns /\ st[m] \in DOMAIN vals
      BY <1>4
    <2>3. f[k][m] = IF k = 0 THEN <<ns[m].kind>>
                  ELSE <<ns[m].kind, [i \in DOMAIN ns[m].kids |-> <<ns[m].kids[i].key, f[k - 1][ns[m].kids[i].node]>>]>>
      <3>1. Level(ns, L, f, k)[m] = IF k = 0 THEN <<ns[m].kind>>
                  ELSE <<ns[m].kind, [i \in DOMAIN ns[m].kids |-> <<ns[m].kids[i].key, f[k - 1][ns[m].kids[i].node]>>]>>
        BY <2>2 DEF Level
      <3> QED
        BY <2>1, <3>1
    <2>4. g[k][st[m]] = IF k = 0 THEN <<vals[st[m]].kind>>
                  ELSE <<vals[st[m]].kind, [i \in DOMAIN vals[st[m]].kids |->
                          <<vals[st[m]].kids[i].key, g[k - 1][vals[st[m]].kids[i].node]>>]>>
      <3> DEFINE v == st[m]
      <3>0. v \in DOMAIN vals
        BY <2>2
      <3> HIDE DEF v
      <3>1. Level(vals, DOMAIN vals, g, k)[v] = IF k = 0 THEN <<vals[v].kind>>
                  ELSE <<vals[v].kind, [i \in DOMAIN vals[v].kids |->
                          <<vals[v].kids[i].key, g[k - 1][vals[v].kids[i].node]>>]>>
        BY <3>0 DEF Level
      <3> QED
        BY <2>1, <3>1 DEF v
    <2> QED
      BY <2>3, <2>4
  <1>8. \A m \in L : ns[m].kind = vals[st[m]].kind
    BY <1>6 DEF StandsFor
  <1>9. 0 \in T
    <2>1. ASSUME NEW m \in L PROVE f[0][m] = <<ns[m].kind>> /\ g[0][st[m]] = <<vals[st[m]].kind>>
      <3>1. 0 \in 0 .. MaxNodes
        BY <1>3
      <3>2. \A k \in 0 .. MaxNodes : k = 0 => f[k][m] = <<ns[m].kind>> /\ g[k][st[m]] = <<vals[st[m]].kind>>
        BY <1>7
      <3> QED
        BY <3>1, <3>2
    <2> QED
      BY <1>8, <2>1
  <1>10. ASSUME NEW k \in Nat, k \in T PROVE k + 1 \in T
    <2> SUFFICES ASSUME k + 1 <= MaxNodes, NEW m \in L PROVE f[k + 1][m] = g[k + 1][st[m]]
      OBVIOUS
    <2>1. k + 1 \in 0 .. MaxNodes /\ k + 1 # 0 /\ (k + 1) - 1 = k /\ k <= MaxNodes
      BY <1>3
    <2> DEFINE A == [i \in DOMAIN ns[m].kids |-> <<ns[m].kids[i].key, f[k][ns[m].kids[i].node]>>]
               B == [i \in DOMAIN vals[st[m]].kids |-> <<vals[st[m]].kids[i].key, g[k][vals[st[m]].kids[i].node]>>]
    <2>2. f[k + 1][m] = <<ns[m].kind, A>> /\ g[k + 1][st[m]] = <<vals[st[m]].kind, B>>
      <3> DEFINE e == k + 1
      <3>1. e \in 0 .. MaxNodes /\ e # 0 /\ e - 1 = k
        BY <2>1
      <3> HIDE DEF e
      <3>2. f[e][m] = <<ns[m].kind, A>>
        BY <1>7, <3>1
      <3>3. g[e][st[m]] = <<vals[st[m]].kind, B>>
        BY <1>7, <3>1
      <3> QED
        BY <3>2, <3>3 DEF e
    <2>3. ASSUME NEW i \in DOMAIN ns[m].kids
          PROVE  /\ ns[m].kids[i].key = vals[st[m]].kids[i].key
                 /\ f[k][ns[m].kids[i].node] = g[k][vals[st[m]].kids[i].node]
      <3>1. ns[m].kids[i].key = vals[st[m]].kids[i].key /\ st[ns[m].kids[i].node] = vals[st[m]].kids[i].node
        BY <1>6 DEF StandsFor
      <3>2. ns[m].kids[i].node \in L
        BY <1>5
      <3> QED
        BY <1>10, <2>1, <3>1, <3>2
    <2>4. A = B
      BY <1>6b, <2>3
    <2> HIDE DEF A, B
    <2> QED
      BY <1>8, <2>2, <2>4
  <1>11. Nat \subseteq T
    <2> HIDE DEF T
    <2> QED
      BY <1>9, <1>10, SetInduction
  <1>12. f[MaxNodes][n] = g[MaxNodes][st[n]]
    <2>1. n \in L
      BY DEF L
    <2> QED
      BY <1>3, <1>11, <2>1
  <1> QED
    BY <1>1, <1>2, <1>12 DEF ns, L

-----------------------------------------------------------------------------
(* Every step leaves the nodes showing what the caller built.              *)

\* The values of the caller with the children of one replaced.
LEMMA ValueKids ==
  ASSUME NEW vals \in Seq(ValueSet), NEW e \in DOMAIN vals, NEW W \in Seq(KidSet)
  PROVE  LET u == [vals EXCEPT ![e].kids = W]
         IN  /\ u \in Seq(ValueSet) /\ Len(u) = Len(vals) /\ DOMAIN u = DOMAIN vals
             /\ u[e].kids = W /\ u[e].kind = vals[e].kind
             /\ \A j \in DOMAIN vals : j # e => u[j] = vals[j]
  <1> DEFINE X == [vals[e] EXCEPT !.kids = W]
             u == [vals EXCEPT ![e] = X]
  <1>1. vals[e] \in ValueSet /\ DOMAIN vals = 1 .. Len(vals) /\ Len(vals) \in Nat
    OBVIOUS
  <1>2. X \in ValueSet /\ X.kids = W /\ X.kind = vals[e].kind
    BY <1>1 DEF ValueSet
  <1>3. u = [vals EXCEPT ![e].kids = W]
    OBVIOUS
  <1> HIDE DEF X
  <1>4. u = [j \in 1 .. Len(vals) |-> IF j = e THEN X ELSE vals[j]]
    BY <1>1
  <1>5. \A j \in 1 .. Len(vals) : (IF j = e THEN X ELSE vals[j]) \in ValueSet
    BY <1>1, <1>2
  <1>6. u[e] = X /\ \A j \in DOMAIN vals : j # e => u[j] = vals[j]
    OBVIOUS
  <1> HIDE DEF u
  <1>7. u \in Seq(ValueSet) /\ Len(u) = Len(vals) /\ DOMAIN u = DOMAIN vals
    BY <1>1, <1>4, <1>5
  <1>8. /\ u \in Seq(ValueSet) /\ Len(u) = Len(vals) /\ DOMAIN u = DOMAIN vals
        /\ u[e].kids = W /\ u[e].kind = vals[e].kind
        /\ \A j \in DOMAIN vals : j # e => u[j] = vals[j]
    BY <1>2, <1>6, <1>7
  <1> QED
    BY <1>3, <1>8

\* A pending wrapper and its value are new.
LEMMA NewShows ==
  ASSUME NEW h, NEW hd, Kept(h, hd), NEW id, NEW vals, Built(h, id, vals), NEW st, Shows(h, id, vals, hd, st),
         NEW kind \in NewKinds, NEW z, z.form = "pending", z.kind = kind, NEW q, AddedAs(h, z, 0, q)
  PROVE  LET us == Append(vals, [kind |-> kind, kids |-> <<>>])
             is == Append(id, Len(vals) + 1)
         IN  Built(q, is, us) /\ Shows(q, is, us, hd \cup {Len(h.w) + 1}, st)
  <1> DEFINE e == [kind |-> kind, kids |-> <<>>]
             V == Len(vals) + 1
             us == Append(vals, e)
             is == Append(id, V)
             o == Len(h.w) + 1
             ld == hd \cup {o}
  <1>1. /\ vals \in Seq(ValueSet) /\ id \in Seq(Nat) /\ Len(id) = Len(h.w)
        /\ \A x \in DOMAIN id : id[x] \in DOMAIN vals
    BY DEF Built
  <1>2. h \in HeapSet /\ hd \subseteq DOMAIN h.w
    BY DEF Kept, RootsHeld
  <1>3. Len(h.w) \in Nat /\ DOMAIN h.w = 1 .. Len(h.w)
    BY <1>2, HeapFields
  <1>4. DOMAIN id = DOMAIN h.w /\ DOMAIN id = 1 .. Len(id) /\ V \in Nat /\ DOMAIN vals = 1 .. Len(vals) /\ Len(vals) \in Nat
    BY <1>1, <1>3
  <1>5. e \in ValueSet /\ e.kind = kind /\ e.kids = <<>>
    <2>1. <<>> \in Seq(KidSet)
      OBVIOUS
    <2> QED
      BY <2>1 DEF ValueSet
  <1>6. /\ Len(q.w) = Len(h.w) + 1 /\ DOMAIN q.w = DOMAIN h.w \cup {o} /\ o \notin DOMAIN h.w /\ q.w[o] = z
        /\ \A x \in DOMAIN h.w : q.w[x].form = h.w[x].form /\ q.w[x].kind = h.w[x].kind /\ q.w[x].node = h.w[x].node
        /\ q.nodes = h.nodes /\ q.docs = h.docs
    BY DEF AddedAs
  <1> HIDE DEF e
  <1>7. /\ us \in Seq(ValueSet) /\ Len(us) = V /\ us[V] = e /\ DOMAIN us = 1 .. V
        /\ \A j \in DOMAIN vals : us[j] = vals[j]
    BY <1>1, <1>4, <1>5
  <1>8. /\ is \in Seq(Nat) /\ Len(is) = Len(id) + 1 /\ is[o] = V /\ DOMAIN is = 1 .. Len(id) + 1
        /\ \A j \in DOMAIN id : is[j] = id[j]
    BY <1>1, <1>4
  <1> HIDE DEF us, is
  <1>9. DOMAIN vals \subseteq DOMAIN us /\ V \in DOMAIN us /\ V \notin DOMAIN vals
    BY <1>4, <1>7
  <1> HIDE DEF V
  <1>10. Built(q, is, us)
    <2>1. ASSUME NEW x \in DOMAIN is PROVE is[x] \in DOMAIN us
      <3>1. x \in DOMAIN id \/ x = o
        BY <1>1, <1>3, <1>4, <1>8
      <3> QED
        BY <1>1, <1>8, <1>9, <3>1
    <2>2. Len(is) = Len(q.w)
      BY <1>1, <1>6, <1>8
    <2> QED
      BY <1>7, <1>8, <2>1, <2>2 DEF Built
  <1> HIDE DEF o
  <1>11. LiveNodes(q) = LiveNodes(h) /\ LiveNodes(h) \subseteq DOMAIN h.nodes
    BY <1>6 DEF LiveNodes
  <1>12. /\ st \in [DOMAIN h.nodes -> DOMAIN vals]
         /\ \A n \in LiveNodes(h) : StandsFor(h.nodes, vals, st, n)
         /\ \A n, m \in LiveNodes(h) : st[n] = st[m] => n = m
         /\ \A x \in hd : h.w[x].form # "pending" => st[h.w[x].node] = id[x]
    BY DEF Shows
  <1>13. \A x \in hd : h.w[x].form = "pending" =>
           /\ vals[id[x]].kind = h.w[x].kind /\ vals[id[x]].kids = <<>>
           /\ \A n \in LiveNodes(h) : st[n] # id[x]
           /\ \A y \in hd : h.w[y].form = "pending" /\ id[y] = id[x] => y = x
    BY DEF Shows, PendingShows
  <1>14. st \in [DOMAIN q.nodes -> DOMAIN us] /\ \A n \in LiveNodes(h) : st[n] \in DOMAIN vals
    BY <1>6, <1>9, <1>11, <1>12
  <1>15. ASSUME NEW n \in LiveNodes(q) PROVE StandsFor(q.nodes, us, st, n)
    <2>1. us[st[n]] = vals[st[n]] /\ StandsFor(h.nodes, vals, st, n)
      BY <1>7, <1>11, <1>12, <1>14
    <2> QED
      BY <1>6, <2>1 DEF StandsFor
  <1>16. \A x \in hd : is[x] = id[x] /\ id[x] \in DOMAIN vals /\ x # o /\ q.w[x].form = h.w[x].form /\ q.w[x].kind = h.w[x].kind
                       /\ q.w[x].node = h.w[x].node
    BY <1>1, <1>2, <1>4, <1>6, <1>8
  <1>17. ASSUME NEW x \in ld, q.w[x].form # "pending" PROVE st[q.w[x].node] = is[x]
    <2>1. x \in hd
      BY <1>6, <1>17
    <2> QED
      BY <1>12, <1>16, <1>17, <2>1
  <1>18. ASSUME NEW x \in ld, q.w[x].form = "pending"
         PROVE  /\ us[is[x]].kind = q.w[x].kind /\ us[is[x]].kids = <<>>
                /\ \A n \in LiveNodes(q) : st[n] # is[x]
                /\ \A y \in ld : q.w[y].form = "pending" /\ is[y] = is[x] => y = x
    <2>1. CASE x = o
      <3>1. us[is[x]] = e /\ q.w[x].kind = kind /\ is[x] = V
        BY <1>6, <1>7, <1>8, <2>1
      <3>2. \A n \in LiveNodes(q) : st[n] # V
        BY <1>9, <1>11, <1>14
      <3>3. \A y \in ld : is[y] = V => y = o
        BY <1>9, <1>16
      <3> QED
        BY <1>5, <2>1, <3>1, <3>2, <3>3
    <2>2. CASE x \in hd
      <3>1. us[is[x]] = vals[id[x]] /\ is[x] = id[x] /\ is[x] # V /\ h.w[x].form = "pending"
        BY <1>7, <1>9, <1>16, <1>18, <2>2
      <3>2. \A n \in LiveNodes(q) : st[n] # is[x]
        BY <1>11, <1>13, <2>2, <3>1
      <3>3. ASSUME NEW y \in ld, q.w[y].form = "pending", is[y] = is[x] PROVE y = x
        <4>1. y \in hd
          BY <1>8, <3>1, <3>3
        <4> QED
          BY <1>13, <1>16, <2>2, <3>1, <3>3, <4>1
      <3>4. us[is[x]].kind = q.w[x].kind /\ us[is[x]].kids = <<>>
        BY <1>13, <1>16, <2>2, <3>1
      <3> QED
        BY <3>2, <3>3, <3>4
    <2> QED
      BY <2>1, <2>2
  <1>19. PendingShows(q, is, us, ld, st)
    BY <1>18 DEF PendingShows
  <1>20. Shows(q, is, us, ld, st)
    <2> HIDE DEF ld
    <2> QED
      BY <1>11, <1>12, <1>14, <1>15, <1>17, <1>19 DEF Shows
  <1> QED
    BY <1>10, <1>20 DEF us, is, e, V, o

\* A wrapper for a child shows the child's value.
LEMMA ChildShows ==
  ASSUME NEW h, NEW hd, Kept(h, hd), NEW id, NEW vals, Built(h, id, vals), NEW st, Shows(h, id, vals, hd, st),
         NEW n \in LiveNodes(h), NEW r, NEW z, z.form = "attached", z.node = n, NEW q, AddedAs(h, z, r, q)
  PROVE  LET is == Append(id, st[n])
         IN  Built(q, is, vals) /\ Shows(q, is, vals, hd \cup {Len(h.w) + 1}, st)
  <1> DEFINE V == st[n]
             is == Append(id, V)
             o == Len(h.w) + 1
             ld == hd \cup {o}
  <1>1. /\ vals \in Seq(ValueSet) /\ id \in Seq(Nat) /\ Len(id) = Len(h.w)
        /\ \A x \in DOMAIN id : id[x] \in DOMAIN vals
    BY DEF Built
  <1>2. h \in HeapSet /\ hd \subseteq DOMAIN h.w
    BY DEF Kept, RootsHeld
  <1>3. Len(h.w) \in Nat /\ DOMAIN h.w = 1 .. Len(h.w)
    BY <1>2, HeapFields
  <1>4. DOMAIN id = DOMAIN h.w /\ DOMAIN id = 1 .. Len(id) /\ DOMAIN vals = 1 .. Len(vals) /\ Len(vals) \in Nat
    BY <1>1, <1>3
  <1>6. /\ Len(q.w) = Len(h.w) + 1 /\ DOMAIN q.w = DOMAIN h.w \cup {o} /\ o \notin DOMAIN h.w /\ q.w[o] = z
        /\ \A x \in DOMAIN h.w : q.w[x].form = h.w[x].form /\ q.w[x].kind = h.w[x].kind /\ q.w[x].node = h.w[x].node
        /\ q.nodes = h.nodes /\ q.docs = h.docs
    BY DEF AddedAs
  <1>11. LiveNodes(q) = LiveNodes(h) /\ LiveNodes(h) \subseteq DOMAIN h.nodes
    BY <1>6 DEF LiveNodes
  <1>12. /\ st \in [DOMAIN h.nodes -> DOMAIN vals]
         /\ \A m \in LiveNodes(h) : StandsFor(h.nodes, vals, st, m)
         /\ \A k, m \in LiveNodes(h) : st[k] = st[m] => k = m
         /\ \A x \in hd : h.w[x].form # "pending" => st[h.w[x].node] = id[x]
    BY DEF Shows
  <1>13. \A x \in hd : h.w[x].form = "pending" =>
           /\ vals[id[x]].kind = h.w[x].kind /\ vals[id[x]].kids = <<>>
           /\ \A m \in LiveNodes(h) : st[m] # id[x]
           /\ \A y \in hd : h.w[y].form = "pending" /\ id[y] = id[x] => y = x
    BY DEF Shows, PendingShows
  <1>14. V \in DOMAIN vals /\ V \in Nat
    BY <1>4, <1>11, <1>12
  <1> HIDE DEF V
  <1>8. /\ is \in Seq(Nat) /\ Len(is) = Len(id) + 1 /\ is[o] = V /\ DOMAIN is = 1 .. Len(id) + 1
        /\ \A j \in DOMAIN id : is[j] = id[j]
    <2>1. o = Len(id) + 1
      BY <1>1
    <2>2. /\ is \in Seq(Nat) /\ Len(is) = Len(id) + 1 /\ is[Len(id) + 1] = V
          /\ \A j \in 1 .. Len(id) : is[j] = id[j]
      BY <1>1, <1>14
    <2> HIDE DEF is, o
    <2> QED
      BY <1>4, <2>1, <2>2
  <1> HIDE DEF is
  <1>10. Built(q, is, vals)
    <2>1. ASSUME NEW x \in DOMAIN is PROVE is[x] \in DOMAIN vals
      <3>1. x \in DOMAIN id \/ x = o
        BY <1>1, <1>3, <1>4, <1>8
      <3> QED
        BY <1>1, <1>8, <1>14, <3>1
    <2>2. Len(is) = Len(q.w)
      BY <1>1, <1>6, <1>8
    <2> QED
      BY <1>1, <1>8, <2>1, <2>2 DEF Built
  <1> HIDE DEF o
  <1>16. \A x \in hd : is[x] = id[x] /\ x # o /\ q.w[x].form = h.w[x].form /\ q.w[x].kind = h.w[x].kind
                       /\ q.w[x].node = h.w[x].node
    BY <1>2, <1>4, <1>6, <1>8
  <1>17. ASSUME NEW x \in ld, q.w[x].form # "pending" PROVE st[q.w[x].node] = is[x]
    <2>1. CASE x \in hd
      BY <1>12, <1>16, <1>17, <2>1
    <2>2. CASE x = o
      BY <1>6, <1>8, <2>2 DEF V
    <2> QED
      BY <2>1, <2>2
  <1>18. ASSUME NEW x \in ld, q.w[x].form = "pending"
         PROVE  /\ vals[is[x]].kind = q.w[x].kind /\ vals[is[x]].kids = <<>>
                /\ \A m \in LiveNodes(q) : st[m] # is[x]
                /\ \A y \in ld : q.w[y].form = "pending" /\ is[y] = is[x] => y = x
    <2>1. x \in hd /\ h.w[x].form = "pending" /\ is[x] = id[x] /\ q.w[x].kind = h.w[x].kind
      BY <1>6, <1>16, <1>18
    <2>2. \A y \in ld : q.w[y].form = "pending" => y \in hd /\ h.w[y].form = "pending" /\ is[y] = id[y]
      BY <1>6, <1>16
    <2> QED
      BY <1>11, <1>13, <2>1, <2>2
  <1>19. PendingShows(q, is, vals, ld, st)
    BY <1>18 DEF PendingShows
  <1>20. Shows(q, is, vals, ld, st)
    <2> HIDE DEF ld
    <2> QED
      BY <1>6, <1>11, <1>12, <1>17, <1>19 DEF Shows
  <1> QED
    BY <1>10, <1>20 DEF is, V, o

\* The children K show the children W of a value.
KidsShow(K, W, su) ==
  Len(K) = Len(W) /\ \A i \in DOMAIN K : K[i].key = W[i].key /\ su[K[i].node] = W[i].node

\* The heap a is b with other children of the node n.
Edited(b, a, n) ==
  /\ a.w = b.w /\ LiveNodes(a) = LiveNodes(b) /\ DOMAIN a.nodes = DOMAIN b.nodes
  /\ a.nodes[n].kind = b.nodes[n].kind
  /\ \A m \in DOMAIN b.nodes : m # n => a.nodes[m] = b.nodes[m]

\* The same children given to a node and to the value it shows leave the nodes showing
\* the values.
LEMMA EditShows ==
  ASSUME NEW b, NEW a, NEW at \in LiveNodes(b), Edited(b, a, at),
         NEW id, NEW vals \in Seq(ValueSet), NEW hd, \A x \in hd : id[x] \in DOMAIN vals,
         NEW su, Shows(b, id, vals, hd, su), NEW W \in Seq(KidSet), KidsShow(a.nodes[at].kids, W, su)
  PROVE  LET us == [vals EXCEPT ![su[at]].kids = W]
         IN  us \in Seq(ValueSet) /\ DOMAIN us = DOMAIN vals /\ Shows(a, id, us, hd, su)
  <1> DEFINE e == su[at]
             us == [vals EXCEPT ![e].kids = W]
  <1>0. /\ a.w = b.w /\ LiveNodes(a) = LiveNodes(b) /\ DOMAIN a.nodes = DOMAIN b.nodes
        /\ a.nodes[at].kind = b.nodes[at].kind
        /\ \A m \in DOMAIN b.nodes : m # at => a.nodes[m] = b.nodes[m]
    BY DEF Edited
  <1>1. LiveNodes(b) \subseteq DOMAIN b.nodes
    BY DEF LiveNodes
  <1>2. /\ su \in [DOMAIN b.nodes -> DOMAIN vals]
        /\ \A n \in LiveNodes(b) : StandsFor(b.nodes, vals, su, n)
        /\ \A n, m \in LiveNodes(b) : su[n] = su[m] => n = m
        /\ \A x \in hd : b.w[x].form # "pending" => su[b.w[x].node] = id[x]
    BY DEF Shows
  <1>3. \A x \in hd : b.w[x].form = "pending" =>
          /\ vals[id[x]].kind = b.w[x].kind /\ vals[id[x]].kids = <<>>
          /\ \A m \in LiveNodes(b) : su[m] # id[x]
          /\ \A y \in hd : b.w[y].form = "pending" /\ id[y] = id[x] => y = x
    BY DEF Shows, PendingShows
  <1>4. e \in DOMAIN vals
    BY <1>1, <1>2
  <1> HIDE DEF e
  <1>5. /\ us \in Seq(ValueSet) /\ DOMAIN us = DOMAIN vals
        /\ us[e].kids = W /\ us[e].kind = vals[e].kind
        /\ \A j \in DOMAIN vals : j # e => us[j] = vals[j]
    BY <1>4, ValueKids
  <1> HIDE DEF us
  <1>6. \A n \in LiveNodes(b) : StandsFor(a.nodes, us, su, n)
    <2> SUFFICES ASSUME NEW n \in LiveNodes(b) PROVE StandsFor(a.nodes, us, su, n)
      OBVIOUS
    <2>1. CASE n = at
      <3>1. a.nodes[at].kind = us[su[at]].kind /\ us[su[at]].kids = W
        BY <1>0, <1>2, <1>5 DEF StandsFor, e
      <3> QED
        BY <2>1, <3>1 DEF StandsFor, KidsShow
    <2>2. CASE n # at
      <3>1. su[n] \in DOMAIN vals /\ su[n] # e
        BY <1>1, <1>2, <2>2 DEF e
      <3>2. a.nodes[n] = b.nodes[n] /\ us[su[n]] = vals[su[n]] /\ StandsFor(b.nodes, vals, su, n)
        BY <1>0, <1>1, <1>2, <1>5, <2>2, <3>1
      <3> QED
        BY <3>2 DEF StandsFor
    <2> QED
      BY <2>1, <2>2
  <1>7. ASSUME NEW x \in hd, a.w[x].form = "pending"
        PROVE  /\ us[id[x]].kind = a.w[x].kind /\ us[id[x]].kids = <<>>
               /\ \A m \in LiveNodes(a) : su[m] # id[x]
               /\ \A y \in hd : a.w[y].form = "pending" /\ id[y] = id[x] => y = x
    <2>1. id[x] # e
      BY <1>0, <1>3, <1>7 DEF e
    <2>2. us[id[x]] = vals[id[x]]
      BY <1>5, <2>1
    <2> QED
      BY <1>0, <1>3, <1>7, <2>2
  <1>8. PendingShows(a, id, us, hd, su)
    BY <1>7 DEF PendingShows
  <1>9. su \in [DOMAIN a.nodes -> DOMAIN us]
    BY <1>0, <1>2, <1>5
  <1>10. Shows(a, id, us, hd, su)
    BY <1>0, <1>2, <1>6, <1>8, <1>9 DEF Shows
  <1> QED
    BY <1>5, <1>10 DEF us, e

\* A child deleted from a node and from the value it shows.
LEMMA DelShows ==
  ASSUME NEW h, NEW hd, Kept(h, hd), NEW id, NEW vals, Built(h, id, vals), NEW st, Shows(h, id, vals, hd, st),
         NEW p \in hd, h.w[p].form \in {"owner", "attached"}, NEW i \in DOMAIN h.nodes[h.w[p].node].kids
  PROVE  LET n == h.w[p].node
             q == [h EXCEPT !.nodes[n].kids = RemoveAt(h.nodes[n].kids, i)]
             us == [vals EXCEPT ![id[p]].kids = RemoveAt(vals[id[p]].kids, i)]
         IN  Built(q, id, us) /\ Shows(q, id, us, hd, st)
  <1> DEFINE n == h.w[p].node
             ks == h.nodes[n].kids
             K == RemoveAt(ks, i)
             e == id[p]
             vs == vals[e].kids
             W == RemoveAt(vs, i)
             q == [h EXCEPT !.nodes[n].kids = K]
             us == [vals EXCEPT ![e].kids = W]
  <1>1. /\ vals \in Seq(ValueSet) /\ id \in Seq(Nat) /\ Len(id) = Len(h.w)
        /\ \A x \in DOMAIN id : id[x] \in DOMAIN vals
    BY DEF Built
  <1>2. h \in HeapSet /\ hd \subseteq DOMAIN h.w /\ NodesApart(h)
    BY DEF Kept, RootsHeld
  <1>3. Len(h.w) \in Nat /\ DOMAIN h.w = 1 .. Len(h.w)
    BY <1>2, HeapFields
  <1>4. DOMAIN id = DOMAIN h.w
    BY <1>1, <1>3
  <1>5. n \in LiveNodes(h) /\ n \in DOMAIN h.nodes
    BY HolderLive
  <1>6. e = st[n] /\ StandsFor(h.nodes, vals, st, n) /\ e \in DOMAIN vals
    BY <1>1, <1>2, <1>4, <1>5 DEF Shows
  <1>7. h.nodes[n] \in NodeSet /\ vals[e] \in ValueSet
    BY <1>1, <1>2, <1>5, <1>6, HeapFields
  <1>8. ks \in Seq(KidSet) /\ vs \in Seq(KidSet) /\ i \in DOMAIN ks
    BY <1>7 DEF NodeSet, ValueSet
  <1>9. Len(ks) = Len(vs) /\ \A j \in DOMAIN ks : ks[j].key = vs[j].key /\ st[ks[j].node] = vs[j].node
    BY <1>6 DEF StandsFor
  <1> HIDE DEF ks, vs, e
  <1>10. i \in DOMAIN vs /\ DOMAIN ks = DOMAIN vs
    BY <1>8, <1>9
  <1>11. /\ K \in Seq(KidSet) /\ Len(K) = Len(ks) - 1
         /\ \A j \in DOMAIN K : LET s == IF j < i THEN j ELSE j + 1 IN s \in DOMAIN ks /\ K[j] = ks[s]
    BY <1>8, RemoveAtIs
  <1>12. /\ W \in Seq(KidSet) /\ Len(W) = Len(vs) - 1
         /\ \A j \in DOMAIN W : LET s == IF j < i THEN j ELSE j + 1 IN s \in DOMAIN vs /\ W[j] = vs[s]
    BY <1>8, <1>10, RemoveAtIs
  <1> HIDE DEF K, W, n
  <1>13. Len(K) = Len(W) /\ DOMAIN K = DOMAIN W
    BY <1>9, <1>11, <1>12
  <1>14. \A j \in DOMAIN K : K[j].key = W[j].key /\ st[K[j].node] = W[j].node
    BY <1>9, <1>11, <1>12, <1>13
  <1>15. /\ DOMAIN q.nodes = DOMAIN h.nodes /\ q.nodes[n].kids = K
         /\ q.nodes[n].doc = h.nodes[n].doc /\ q.nodes[n].kind = h.nodes[n].kind
         /\ \A m \in DOMAIN h.nodes : m # n => q.nodes[m] = h.nodes[m]
         /\ q.w = h.w /\ q.docs = h.docs
    BY <1>2, <1>5, <1>11, HeapKids
  <1> HIDE DEF q
  <1>16. LiveNodes(q) = LiveNodes(h)
    BY <1>15 DEF LiveNodes
  <1>17. \A x \in hd : id[x] \in DOMAIN vals
    BY <1>1, <1>2, <1>4
  <1>18. us = [vals EXCEPT ![st[n]].kids = W]
    BY <1>6
  <1> HIDE DEF us
  <1>18b. Edited(h, q, n) /\ KidsShow(q.nodes[n].kids, W, st)
    BY <1>13, <1>14, <1>15, <1>16 DEF Edited, KidsShow
  <1>19. us \in Seq(ValueSet) /\ DOMAIN us = DOMAIN vals /\ Shows(q, id, us, hd, st)
    BY <1>1, <1>5, <1>12, <1>17, <1>18, <1>18b, EditShows
  <1>20. Built(q, id, us)
    BY <1>1, <1>15, <1>19 DEF Built
  <1> QED
    BY <1>19, <1>20 DEF q, us, K, W, n, ks, vs, e

\* What the new nodes M of a value that moves stand for: the value's own, which nothing
\* that stays shows.
MovedStands(h, hd, v, id, vals, st, M, su) ==
  /\ su \in [DOMAIN M.nodes -> DOMAIN vals] /\ su[Len(h.nodes) + 1] = id[v]
  /\ \A m \in DOMAIN h.nodes : su[m] = st[m]
  /\ \A m \in DOMAIN M.nodes \ DOMAIN h.nodes :
       /\ StandsFor(M.nodes, vals, su, m)
       /\ \A k \in DOMAIN M.nodes \ DOMAIN h.nodes : su[k] = su[m] => k = m
       /\ \A k \in LiveNodes(h) :
            (h.w[v].form = "owner" => h.nodes[k].doc # h.w[v].doc) => su[m] # st[k]
       /\ \A x \in hd : x # v /\ h.w[x].form = "pending" => su[m] # id[x]

\* The new node of a pending wrapper.
LEMMA PendingMoves ==
  ASSUME NEW h, NEW hd, Kept(h, hd), NEW id, NEW vals, Built(h, id, vals), NEW st, Shows(h, id, vals, hd, st),
         NEW v \in hd, h.w[v].form = "pending", NEW doc \in Nat
  PROVE  \E su : MovedStands(h, hd, v, id, vals, st, NewNode(h, doc, h.w[v].kind), su)
  <1> DEFINE kd == h.w[v].kind
             M == NewNode(h, doc, kd)
             N == Len(h.nodes) + 1
             su == [m \in DOMAIN M.nodes |-> IF m = N THEN id[v] ELSE st[m]]
  <1>1. /\ vals \in Seq(ValueSet) /\ id \in Seq(Nat) /\ Len(id) = Len(h.w)
        /\ \A x \in DOMAIN id : id[x] \in DOMAIN vals
    BY DEF Built
  <1>2. h \in HeapSet /\ hd \subseteq DOMAIN h.w
    BY DEF Kept, RootsHeld
  <1>3. /\ Len(h.w) \in Nat /\ DOMAIN h.w = 1 .. Len(h.w) /\ h.w[v] \in WrapperSet
        /\ Len(h.nodes) \in Nat /\ DOMAIN h.nodes = 1 .. Len(h.nodes)
    BY <1>2, HeapFields
  <1>4. id[v] \in DOMAIN vals
    BY <1>1, <1>2, <1>3
  <1>5. kd \in NewKinds
    BY <1>3 DEF WrapperSet
  <1> HIDE DEF kd
  <1>6. /\ M \in HeapSet /\ Len(M.nodes) = N /\ \A m \in DOMAIN h.nodes : M.nodes[m] = h.nodes[m]
        /\ M.nodes[N] = [doc |-> doc, kind |-> kd, kids |-> <<>>]
    BY <1>2, <1>5, NewNodeIs
  <1> HIDE DEF M
  <1>7. DOMAIN M.nodes = 1 .. Len(M.nodes)
    BY <1>6, HeapFields
  <1>8. DOMAIN M.nodes = DOMAIN h.nodes \cup {N} /\ N \notin DOMAIN h.nodes
    BY <1>3, <1>6, <1>7
  <1>9. M.nodes[N].kind = kd /\ M.nodes[N].kids = <<>>
    BY <1>6
  <1> HIDE DEF N
  <1>10. /\ vals[id[v]].kind = kd /\ vals[id[v]].kids = <<>>
         /\ \A n \in LiveNodes(h) : st[n] # id[v]
         /\ \A y \in hd : h.w[y].form = "pending" /\ id[y] = id[v] => y = v
    BY DEF Shows, PendingShows, kd
  <1>11. st \in [DOMAIN h.nodes -> DOMAIN vals]
    BY DEF Shows
  <1>12. su \in [DOMAIN M.nodes -> DOMAIN vals] /\ su[N] = id[v] /\ \A m \in DOMAIN h.nodes : su[m] = st[m]
    BY <1>4, <1>8, <1>11
  <1> HIDE DEF su
  <1>13. StandsFor(M.nodes, vals, su, N)
    BY <1>9, <1>10, <1>12 DEF StandsFor
  <1>14. MovedStands(h, hd, v, id, vals, st, M, su)
    BY <1>8, <1>10, <1>12, <1>13 DEF MovedStands, N
  <1> QED
    BY <1>14 DEF M, kd

\* The copy of an owner's nodes.
LEMMA OwnerMoves ==
  ASSUME NEW h, NEW hd, Kept(h, hd), NEW id, NEW vals, Built(h, id, vals), NEW st, Shows(h, id, vals, hd, st),
         NEW v \in hd, h.w[v].form = "owner", NEW doc \in Nat, NEW M, NEW s, CopiedAs(h, doc, h.w[v].node, M, s)
  PROVE  \E su : MovedStands(h, hd, v, id, vals, st, M, su)
  <1> DEFINE n == h.w[v].node
             L == Len(h.nodes)
             k == Len(M.nodes) - L
             su == [m \in DOMAIN M.nodes |-> IF m \in DOMAIN h.nodes THEN st[m] ELSE st[s[m - L]]]
             new == DOMAIN M.nodes \ DOMAIN h.nodes
  <1>1. h \in HeapSet /\ hd \subseteq DOMAIN h.w /\ NodesApart(h)
    BY DEF Kept, RootsHeld
  <1>2. n \in LiveNodes(h) /\ n \in DOMAIN h.nodes /\ h.nodes[n].doc = h.w[v].doc /\ h.w[v].doc \in h.docs
    BY HolderLive, HolderRoot
  <1>3. /\ M \in HeapSet /\ k \in Nat \ {0} /\ s \in [1 .. k -> DOMAIN h.nodes] /\ s[1] = n
        /\ \A a, b \in 1 .. k : s[a] = s[b] => a = b
        /\ \A i \in 1 .. k :
             /\ h.nodes[s[i]].doc = h.nodes[n].doc /\ M.nodes[L + i].kind = h.nodes[s[i]].kind
             /\ Len(M.nodes[L + i].kids) = Len(h.nodes[s[i]].kids)
             /\ \A j \in DOMAIN h.nodes[s[i]].kids :
                  /\ M.nodes[L + i].kids[j].key = h.nodes[s[i]].kids[j].key
                  /\ M.nodes[L + i].kids[j].node - L \in 1 .. k
                  /\ s[M.nodes[L + i].kids[j].node - L] = h.nodes[s[i]].kids[j].node
    BY DEF CopiedAs
  <1>4. /\ L \in Nat /\ Len(M.nodes) \in Nat /\ DOMAIN h.nodes = 1 .. L /\ DOMAIN M.nodes = 1 .. Len(M.nodes)
        /\ \A m \in DOMAIN h.nodes : h.nodes[m] \in NodeSet
        /\ \A m \in DOMAIN M.nodes : M.nodes[m] \in NodeSet
    BY <1>1, <1>3, HeapFields
  <1> HIDE DEF L
  <1>5. Len(M.nodes) = L + k
    BY <1>3, <1>4
  <1> HIDE DEF k, n
  <1>6. \A m \in new : m - L \in 1 .. k /\ m = L + (m - L)
    BY <1>3, <1>4, <1>5
  <1>7. \A i \in 1 .. k : L + i \in new /\ (L + i) - L = i
    BY <1>3, <1>4, <1>5
  <1>8. \A i \in 1 .. k : s[i] \in DOMAIN h.nodes /\ s[i] \in LiveNodes(h) /\ h.nodes[s[i]].doc = h.w[v].doc
    BY <1>2, <1>3 DEF LiveNodes
  <1>9. /\ st \in [DOMAIN h.nodes -> DOMAIN vals]
        /\ \A m \in LiveNodes(h) : StandsFor(h.nodes, vals, st, m)
        /\ \A a, b \in LiveNodes(h) : st[a] = st[b] => a = b
        /\ st[n] = id[v]
        /\ \A x \in hd : h.w[x].form = "pending" => \A m \in LiveNodes(h) : st[m] # id[x]
    BY DEF Shows, PendingShows, n
  <1>10. su \in [DOMAIN M.nodes -> DOMAIN vals]
    <2>1. ASSUME NEW m \in DOMAIN M.nodes PROVE (IF m \in DOMAIN h.nodes THEN st[m] ELSE st[s[m - L]]) \in DOMAIN vals
      BY <1>6, <1>8, <1>9
    <2> QED
      BY <2>1
  <1>11. (\A m \in new : su[m] = st[s[m - L]]) /\ \A m \in DOMAIN h.nodes : su[m] = st[m]
    <2>1. DOMAIN h.nodes \subseteq DOMAIN M.nodes
      BY <1>3, <1>4, <1>5
    <2> QED
      BY <2>1
  <1> HIDE DEF su
  <1>12. su[L + 1] = id[v]
    <2>1. 1 \in 1 .. k
      BY <1>3
    <2> QED
      BY <1>3, <1>7, <1>9, <1>11, <2>1
  <1>13. ASSUME NEW m \in new PROVE StandsFor(M.nodes, vals, su, m)
    <2> DEFINE i == m - L
               t == s[i]
    <2>1. i \in 1 .. k /\ L + i = m
      BY <1>6
    <2> HIDE DEF i
    <2>2. t \in LiveNodes(h) /\ t \in DOMAIN h.nodes
      BY <1>8, <2>1
    <2>3. /\ M.nodes[m].kind = h.nodes[t].kind /\ Len(M.nodes[m].kids) = Len(h.nodes[t].kids)
          /\ \A j \in DOMAIN h.nodes[t].kids :
                  /\ M.nodes[m].kids[j].key = h.nodes[t].kids[j].key
                  /\ M.nodes[m].kids[j].node - L \in 1 .. k
                  /\ s[M.nodes[m].kids[j].node - L] = h.nodes[t].kids[j].node
      BY <1>3, <2>1
    <2>4. su[m] = st[t]
      BY <1>11 DEF i
    <2> HIDE DEF t
    <2>5. StandsFor(h.nodes, vals, st, t)
      BY <1>9, <2>2
    <2>6. M.nodes[m].kids \in Seq(KidSet) /\ h.nodes[t].kids \in Seq(KidSet)
      BY <1>4, <2>2 DEF NodeSet
    <2>7. DOMAIN M.nodes[m].kids = DOMAIN h.nodes[t].kids
      BY <2>3, <2>6
    <2>8. ASSUME NEW j \in DOMAIN M.nodes[m].kids
          PROVE  M.nodes[m].kids[j].key = vals[su[m]].kids[j].key /\ su[M.nodes[m].kids[j].node] = vals[su[m]].kids[j].node
      <3> DEFINE c == M.nodes[m].kids[j].node
      <3>1. M.nodes[m].kids[j] \in KidSet
        BY <2>6
      <3>2. c \in Nat
        BY <3>1 DEF KidSet
      <3>3. c - L \in 1 .. k /\ s[c - L] = h.nodes[t].kids[j].node /\ M.nodes[m].kids[j].key = h.nodes[t].kids[j].key
        BY <2>3, <2>7
      <3> HIDE DEF c
      <3>4. c \in new
        <4>1. c = L + (c - L)
          BY <1>4, <3>2
        <4> QED
          BY <1>7, <3>3, <4>1
      <3>5. su[c] = st[h.nodes[t].kids[j].node]
        BY <1>11, <3>3, <3>4
      <3>6. h.nodes[t].kids[j].key = vals[st[t]].kids[j].key /\ st[h.nodes[t].kids[j].node] = vals[st[t]].kids[j].node
        BY <2>5, <2>7 DEF StandsFor
      <3> QED
        BY <2>4, <3>3, <3>5, <3>6 DEF c
    <2>9. M.nodes[m].kind = vals[su[m]].kind /\ Len(M.nodes[m].kids) = Len(vals[su[m]].kids)
      BY <2>3, <2>4, <2>5 DEF StandsFor
    <2> QED
      BY <2>8, <2>9 DEF StandsFor
  <1>14. ASSUME NEW m \in new, NEW a \in new, su[a] = su[m] PROVE a = m
    <2>1. m - L \in 1 .. k /\ a - L \in 1 .. k /\ m = L + (m - L) /\ a = L + (a - L)
      BY <1>6
    <2>2. s[a - L] = s[m - L]
      BY <1>8, <1>9, <1>11, <1>14, <2>1
    <2>3. a - L = m - L
      BY <1>3, <2>1, <2>2
    <2> QED
      BY <2>1, <2>3
  <1>15. ASSUME NEW m \in new, NEW a \in LiveNodes(h), h.nodes[a].doc # h.w[v].doc PROVE su[m] # st[a]
    <2>1. s[m - L] \in LiveNodes(h) /\ s[m - L] # a /\ su[m] = st[s[m - L]]
      BY <1>6, <1>8, <1>11, <1>15
    <2> QED
      BY <1>9, <2>1
  <1>16. ASSUME NEW m \in new, NEW x \in hd, h.w[x].form = "pending" PROVE su[m] # id[x]
    <2>1. s[m - L] \in LiveNodes(h) /\ su[m] = st[s[m - L]]
      BY <1>6, <1>8, <1>11
    <2> QED
      BY <1>9, <1>16, <2>1
  <1>17. MovedStands(h, hd, v, id, vals, st, M, su)
    BY <1>10, <1>11, <1>12, <1>13, <1>14, <1>15, <1>16 DEF MovedStands, L
  <1> QED
    BY <1>17

\* What the nodes of a value that moves stand for.
LEMMA MovedShows ==
  ASSUME NEW h, NEW hd, NEW p, NEW v, Movable(h, hd, p, v),
         NEW id, NEW vals, Built(h, id, vals), NEW st, Shows(h, id, vals, hd, st)
  PROVE  \E su : MovedStands(h, hd, v, id, vals, st, Moved(h, p, v), su)
  <1> DEFINE D == h.w[h.w[p].root].doc
  <1>1. h \in HeapSet /\ D \in Nat /\ h.w[v] \in WrapperSet
    BY MovableRoot
  <1>0. Kept(h, hd) /\ v \in hd /\ h.w[v].form \in {"pending", "owner"} /\ NodesApart(h)
    BY DEF Movable, Kept
  <1>2. CASE h.w[v].form = "pending"
    <2>1. Moved(h, p, v) = NewNode(h, D, h.w[v].kind)
      BY <1>2 DEF Moved
    <2> HIDE DEF D
    <2>2. \E su : MovedStands(h, hd, v, id, vals, st, NewNode(h, D, h.w[v].kind), su)
      BY <1>0, <1>1, <1>2, PendingMoves
    <2> QED
      BY <2>1, <2>2
  <1>3. CASE h.w[v].form = "owner"
    <2>1. Moved(h, p, v) = dup_into(h, D, h.w[v].node)
      BY <1>3 DEF Moved
    <2>2. h.w[v].node \in DOMAIN h.nodes
      BY <1>3, MovableRoot
    <2> HIDE DEF D
    <2> DEFINE n == h.w[v].node
               M == dup_into(h, D, n)
    <2>3. n \in DOMAIN h.nodes
      BY <2>2
    <2> HIDE DEF n
    <2>4. PICK s : CopiedAs(h, D, n, M, s)
      BY <1>0, <1>1, <2>3, DupIs
    <2> HIDE DEF M
    <2>5. CopiedAs(h, D, h.w[v].node, M, s)
      BY <2>4 DEF n
    <2>6. \E su : MovedStands(h, hd, v, id, vals, st, M, su)
      BY <1>0, <1>1, <1>3, <2>5, OwnerMoves
    <2>7. M = Moved(h, p, v)
      BY <2>1 DEF M, n
    <2> QED
      BY <2>6, <2>7
  <1> QED
    BY <1>0, <1>2, <1>3

\* The children of a node and of the value it shows, with one more or another.
LEMMA PutShows ==
  ASSUME NEW ks \in Seq(KidSet), NEW vs \in Seq(KidSet), NEW st, KidsShow(ks, vs, st), NEW su,
         \A i \in DOMAIN ks : su[ks[i].node] = st[ks[i].node],
         NEW key \in KeySet, NEW idx \in Nat, NEW node \in Nat, NEW e \in Nat, su[node] = e
  PROVE  KidsShow(Put(ks, key, idx, node), Put(vs, key, idx, e), su)
  <1> DEFINE K == Put(ks, key, idx, node)
             W == Put(vs, key, idx, e)
             pk == Place(ks, key, idx)
             pw == Place(vs, key, idx)
  <1>1. Len(ks) = Len(vs) /\ DOMAIN ks = DOMAIN vs /\ \A i \in DOMAIN ks : ks[i].key = vs[i].key /\ st[ks[i].node] = vs[i].node
    BY DEF KidsShow
  <1>2. pk = pw
    BY <1>1, PlaceSame
  <1>3. /\ K \in Seq(KidSet) /\ Len(K) = IF pk > Len(ks) THEN Len(ks) + 1 ELSE Len(ks)
        /\ \A i \in DOMAIN K : IF i = pk THEN K[i] = Kid(key, node) ELSE i \in DOMAIN ks /\ K[i] = ks[i]
    BY PutIs
  <1>4. /\ W \in Seq(KidSet) /\ Len(W) = IF pw > Len(vs) THEN Len(vs) + 1 ELSE Len(vs)
        /\ \A i \in DOMAIN W : IF i = pw THEN W[i] = Kid(key, e) ELSE i \in DOMAIN vs /\ W[i] = vs[i]
    BY PutIs
  <1>5. Kid(key, node).key = key /\ Kid(key, node).node = node /\ Kid(key, e).key = key /\ Kid(key, e).node = e
    BY KidIs
  <1> HIDE DEF K, W, pk, pw
  <1>6. Len(K) = Len(W)
    BY <1>1, <1>2, <1>3, <1>4
  <1>7. DOMAIN K = DOMAIN W
    BY <1>3, <1>4, <1>6
  <1>8. ASSUME NEW i \in DOMAIN K PROVE K[i].key = W[i].key /\ su[K[i].node] = W[i].node
    <2>1. CASE i = pk
      BY <1>2, <1>3, <1>4, <1>5, <1>7, <2>1
    <2>2. CASE i # pk
      <3>1. i \in DOMAIN ks /\ K[i] = ks[i] /\ W[i] = vs[i]
        BY <1>2, <1>3, <1>4, <1>7, <2>2
      <3> QED
        BY <1>1, <3>1
    <2> QED
      BY <2>1, <2>2
  <1>9. KidsShow(K, W, su)
    BY <1>6, <1>8 DEF KidsShow
  <1> QED
    BY <1>9 DEF K, W

\* A value that moves reads as it did, and its parent has it.
LEMMA AttachShows ==
  ASSUME NEW h, NEW hd, NEW p, NEW v, Movable(h, hd, p, v), NEW key \in KeySet, NEW idx \in Nat,
         NEW listed \in BOOLEAN, NEW a, AttachedAs(h, p, v, key, idx, listed, a),
         NEW id, NEW vals, Built(h, id, vals), NEW st, Shows(h, id, vals, hd, st)
  PROVE  LET us == [vals EXCEPT ![id[p]].kids = Put(vals[id[p]].kids, key, idx, id[v])]
         IN  Built(a, id, us) /\ \E su : Shows(a, id, us, LeftBy(h, hd, v), su)
  <1> DEFINE r == h.w[p].root
             D == h.w[r].doc
             at == h.w[p].node
             N == Len(h.nodes) + 1
             M == Moved(h, p, v)
             ld == LeftBy(h, hd, v)
             b == [a EXCEPT !.nodes = M.nodes]
             e == id[p]
             W == Put(vals[e].kids, key, idx, id[v])
             us == [vals EXCEPT ![e].kids = W]
             new == DOMAIN M.nodes \ DOMAIN h.nodes
  <1>0. /\ Kept(h, hd) /\ p \in hd /\ v \in hd /\ p # v /\ r # v /\ h.w[p].form # "pending"
        /\ h.w[v].form \in {"pending", "owner"} /\ hd \subseteq DOMAIN h.w /\ NodesApart(h)
    BY DEF Movable, Kept, RootsHeld
  <1>1. /\ h \in HeapSet /\ r \in DOMAIN h.w /\ v \in DOMAIN h.w /\ D \in h.docs
        /\ at \in DOMAIN h.nodes /\ h.nodes[at].doc = D
    BY MovableRoot
  <1>2. h.w[v].form = "owner" => D # h.w[v].doc
    <2>1. OwnerIn(h, r) /\ h.w[v].life = "live"
      BY MovableRoot
    <2>2. \A x, y \in DOMAIN h.w : OwnerIn(h, x) /\ OwnerIn(h, y) /\ h.w[x].doc = h.w[y].doc => x = y
      BY <1>0 DEF Kept, DocsOwned
    <2> QED
      BY <1>0, <1>1, <2>1, <2>2 DEF OwnerIn
  <1>3. Grown(h, D, M)
    BY MovedIs
  <1>4. PICK su : MovedStands(h, hd, v, id, vals, st, M, su)
    BY MovedShows
  <1>5. /\ a \in HeapSet /\ a.docs = (IF h.w[v].form = "owner" THEN h.docs \ {h.w[v].doc} ELSE h.docs)
        /\ DOMAIN a.nodes = DOMAIN M.nodes /\ DOMAIN a.w = DOMAIN h.w
        /\ a.nodes[at].kids = Put(h.nodes[at].kids, key, idx, N)
        /\ a.nodes[at].doc = h.nodes[at].doc /\ a.nodes[at].kind = h.nodes[at].kind
        /\ \A m \in DOMAIN M.nodes : m # at => a.nodes[m] = M.nodes[m]
    BY DEF AttachedAs
  <1>6. a.w[v].form = "attached" /\ a.w[v].node = N
    BY AttachedParts
  <1>7. \A x \in DOMAIN h.w : x # v => a.w[x].form = h.w[x].form /\ a.w[x].kind = h.w[x].kind /\ a.w[x].node = h.w[x].node
    <2>1. RestAfter(h, r, v, listed, a)
      BY AttachedParts
    <2> QED
      BY <2>1 DEF RestAfter
  <1> HIDE DEF M
  <1>8. /\ M \in HeapSet /\ Len(M.nodes) > Len(h.nodes) /\ \A m \in DOMAIN h.nodes : M.nodes[m] = h.nodes[m]
        /\ \A m \in new : M.nodes[m].doc = D
    BY <1>3 DEF Grown
  <1>9. /\ Len(h.nodes) \in Nat /\ Len(M.nodes) \in Nat /\ DOMAIN h.nodes = 1 .. Len(h.nodes)
        /\ DOMAIN M.nodes = 1 .. Len(M.nodes) /\ M.nodes \in Seq(NodeSet) /\ h.nodes[at] \in NodeSet
        /\ Len(h.w) \in Nat /\ DOMAIN h.w = 1 .. Len(h.w) /\ Len(a.w) \in Nat /\ DOMAIN a.w = 1 .. Len(a.w)
    BY <1>1, <1>5, <1>8, HeapFields
  <1>10. N \in new /\ N \in Nat /\ DOMAIN h.nodes \subseteq DOMAIN M.nodes
    BY <1>8, <1>9
  <1>11. /\ su \in [DOMAIN M.nodes -> DOMAIN vals] /\ su[N] = id[v]
         /\ \A m \in DOMAIN h.nodes : su[m] = st[m]
         /\ \A m \in new :
              /\ StandsFor(M.nodes, vals, su, m)
              /\ \A k \in new : su[k] = su[m] => k = m
              /\ \A k \in LiveNodes(h) : (h.w[v].form = "owner" => h.nodes[k].doc # h.w[v].doc) => su[m] # st[k]
              /\ \A x \in hd : x # v /\ h.w[x].form = "pending" => su[m] # id[x]
    BY <1>4 DEF MovedStands
  <1> HIDE DEF N
  <1>12. b.nodes = M.nodes /\ b.w = a.w /\ b.docs = a.docs
    BY <1>5, <1>9, HeapNodes
  <1> HIDE DEF b
  <1>13. D \in a.docs /\ \A d \in a.docs : d \in h.docs /\ (h.w[v].form = "owner" => d # h.w[v].doc)
    BY <1>1, <1>2, <1>5
  <1>14. \A m \in DOMAIN M.nodes : a.nodes[m].doc = M.nodes[m].doc
    BY <1>1, <1>5, <1>8
  <1>15. LiveNodes(a) = LiveNodes(b) /\ at \in LiveNodes(b) /\ LiveNodes(b) \subseteq DOMAIN M.nodes
    <2>0. DOMAIN a.nodes = DOMAIN M.nodes /\ b.nodes = M.nodes /\ b.docs = a.docs
      BY <1>5, <1>12
    <2>1. LiveNodes(a) = LiveNodes(b) /\ LiveNodes(b) \subseteq DOMAIN M.nodes
      BY <1>14, <2>0 DEF LiveNodes
    <2>2. M.nodes[at].doc = D /\ at \in DOMAIN M.nodes
      BY <1>1, <1>8, <1>10
    <2> QED
      BY <1>12, <1>13, <2>1, <2>2 DEF LiveNodes
  <1>16. ASSUME NEW n \in LiveNodes(b), n \in DOMAIN h.nodes
         PROVE  n \in LiveNodes(h) /\ (h.w[v].form = "owner" => h.nodes[n].doc # h.w[v].doc)
    <2>1. M.nodes[n].doc \in a.docs /\ M.nodes[n] = h.nodes[n]
      BY <1>8, <1>12, <1>16 DEF LiveNodes
    <2> QED
      BY <1>13, <1>16, <2>1 DEF LiveNodes
  <1>17. /\ \A m \in LiveNodes(h) : StandsFor(h.nodes, vals, st, m)
         /\ \A k, m \in LiveNodes(h) : st[k] = st[m] => k = m
         /\ \A x \in hd : h.w[x].form # "pending" => st[h.w[x].node] = id[x]
    BY DEF Shows
  <1>18. \A x \in hd : h.w[x].form = "pending" =>
           /\ vals[id[x]].kind = h.w[x].kind /\ vals[id[x]].kids = <<>>
           /\ \A m \in LiveNodes(h) : st[m] # id[x]
           /\ \A y \in hd : h.w[y].form = "pending" /\ id[y] = id[x] => y = x
    BY DEF Shows, PendingShows
  <1>19. ASSUME NEW n \in LiveNodes(b) PROVE StandsFor(b.nodes, vals, su, n)
    <2>1. CASE n \in new
      BY <1>11, <1>12, <2>1
    <2>2. CASE n \in DOMAIN h.nodes
      <3>1. n \in LiveNodes(h) /\ M.nodes[n] = h.nodes[n] /\ su[n] = st[n]
        BY <1>8, <1>11, <1>16, <2>2
      <3>2. \A i \in DOMAIN h.nodes[n].kids : su[h.nodes[n].kids[i].node] = st[h.nodes[n].kids[i].node]
        BY <1>0, <1>11, <2>2 DEF NodesApart
      <3>3. StandsFor(h.nodes, vals, st, n)
        BY <1>17, <3>1
      <3>4. StandsFor(M.nodes, vals, su, n)
        BY <3>1, <3>2, <3>3 DEF StandsFor
      <3> QED
        BY <1>12, <3>4
    <2> QED
      BY <1>15, <2>1, <2>2
  <1>20. ASSUME NEW n \in LiveNodes(b), NEW m \in LiveNodes(b), su[n] = su[m] PROVE n = m
    <2>1. CASE n \in new /\ m \in new
      BY <1>11, <1>20, <2>1
    <2>2. CASE n \in new /\ m \in DOMAIN h.nodes
      BY <1>11, <1>16, <1>20, <2>2
    <2>3. CASE n \in DOMAIN h.nodes /\ m \in new
      BY <1>11, <1>16, <1>20, <2>3
    <2>4. CASE n \in DOMAIN h.nodes /\ m \in DOMAIN h.nodes
      BY <1>11, <1>16, <1>17, <1>20, <2>4
    <2> QED
      BY <1>15, <2>1, <2>2, <2>3, <2>4
  <1>21. ld \subseteq hd
    BY DEF LeftBy
  <1>22. ASSUME NEW x \in ld, b.w[x].form # "pending" PROVE su[b.w[x].node] = id[x]
    <2>1. CASE x = v
      BY <1>6, <1>11, <1>12, <2>1
    <2>2. CASE x # v
      <3>1. x \in hd /\ h.w[x].form # "pending" /\ b.w[x].node = h.w[x].node
        BY <1>0, <1>7, <1>12, <1>21, <1>22, <2>2
      <3>2. h.w[x].node \in DOMAIN h.nodes
        BY <1>0, <3>1, HolderLive
      <3> QED
        BY <1>11, <1>17, <3>1, <3>2
    <2> QED
      BY <2>1, <2>2
  <1>23. \A x \in ld : b.w[x].form = "pending" => x # v /\ x \in hd /\ h.w[x].form = "pending" /\ b.w[x].kind = h.w[x].kind
    BY <1>0, <1>6, <1>7, <1>12, <1>21
  <1> HIDE DEF ld
  <1>24. ASSUME NEW x \in ld, b.w[x].form = "pending"
         PROVE  /\ vals[id[x]].kind = b.w[x].kind /\ vals[id[x]].kids = <<>>
                /\ \A m \in LiveNodes(b) : su[m] # id[x]
                /\ \A y \in ld : b.w[y].form = "pending" /\ id[y] = id[x] => y = x
    <2>1. x # v /\ x \in hd /\ h.w[x].form = "pending" /\ b.w[x].kind = h.w[x].kind
      BY <1>23, <1>24
    <2>2. ASSUME NEW m \in LiveNodes(b) PROVE su[m] # id[x]
      <3>1. CASE m \in new
        BY <1>11, <2>1, <3>1
      <3>2. CASE m \in DOMAIN h.nodes
        BY <1>11, <1>16, <1>18, <2>1, <3>2
      <3> QED
        BY <1>15, <3>1, <3>2
    <2> QED
      BY <1>18, <1>23, <2>1, <2>2
  <1>25. Shows(b, id, vals, ld, su)
    <2>1. PendingShows(b, id, vals, ld, su)
      BY <1>24 DEF PendingShows
    <2>2. su \in [DOMAIN b.nodes -> DOMAIN vals]
      BY <1>11, <1>12
    <2> QED
      BY <1>19, <1>20, <1>22, <2>1, <2>2 DEF Shows
  <1>26. /\ vals \in Seq(ValueSet) /\ id \in Seq(Nat) /\ Len(id) = Len(h.w)
         /\ \A x \in DOMAIN id : id[x] \in DOMAIN vals
    BY DEF Built
  <1>27. DOMAIN id = DOMAIN h.w /\ DOMAIN vals \subseteq Nat
    BY <1>9, <1>26
  <1>28. \A x \in ld : id[x] \in DOMAIN vals
    BY <1>0, <1>21, <1>26, <1>27
  <1>29. e = su[at] /\ e = st[at] /\ e \in DOMAIN vals /\ id[v] \in Nat /\ id[v] \in DOMAIN vals
    BY <1>0, <1>1, <1>11, <1>17, <1>26, <1>27
  <1>30. Edited(b, a, at)
    <2>1. a.nodes[at].kind = b.nodes[at].kind
      BY <1>1, <1>5, <1>8, <1>12
    <2> QED
      BY <1>5, <1>12, <1>15, <2>1 DEF Edited
  <1>31. KidsShow(a.nodes[at].kids, W, su) /\ W \in Seq(KidSet)
    <2> DEFINE ks == h.nodes[at].kids
               vs == vals[e].kids
               iv == id[v]
    <2>1. at \in LiveNodes(h)
      BY <1>1, <1>15, <1>16
    <2>2. StandsFor(h.nodes, vals, st, at) /\ vals[e] \in ValueSet
      BY <1>17, <1>26, <1>29, <2>1
    <2>3. KidsShow(ks, vs, st)
      BY <1>29, <2>2 DEF StandsFor, KidsShow
    <2>4. ks \in Seq(KidSet) /\ vs \in Seq(KidSet)
      BY <1>9, <2>2 DEF NodeSet, ValueSet
    <2>5. \A i \in DOMAIN ks : su[ks[i].node] = st[ks[i].node]
      BY <1>0, <1>1, <1>11 DEF NodesApart
    <2>6. iv \in Nat /\ su[N] = iv /\ N \in Nat
      BY <1>10, <1>11, <1>29
    <2>7. a.nodes[at].kids = Put(ks, key, idx, N) /\ W = Put(vs, key, idx, iv)
      BY <1>5
    <2> HIDE DEF ks, vs, iv, W
    <2>8. KidsShow(Put(ks, key, idx, N), Put(vs, key, idx, iv), su)
      BY <2>3, <2>4, <2>5, <2>6, PutShows
    <2>9. Put(vs, key, idx, iv) \in Seq(KidSet)
      BY <2>4, <2>6, PutIs
    <2> QED
      BY <2>7, <2>8, <2>9
  <1>32. us = [vals EXCEPT ![su[at]].kids = W]
    BY <1>29
  <1> HIDE DEF us, W, e
  <1>33. us \in Seq(ValueSet) /\ DOMAIN us = DOMAIN vals /\ Shows(a, id, us, ld, su)
    BY <1>15, <1>25, <1>26, <1>28, <1>30, <1>31, <1>32, EditShows
  <1>34. Built(a, id, us)
    BY <1>5, <1>9, <1>26, <1>33 DEF Built
  <1> QED
    BY <1>33, <1>34 DEF us, W, e, ld

\* What is left when a root goes shows what it showed.
LEMMA ReleaseShows ==
  ASSUME NEW h, NEW hd, Kept(h, hd), NEW o \in hd, h.w[o].form \in {"pending", "owner"}, NEW q, ReleasedAs(h, o, q),
         NEW id, NEW vals, NEW st, Shows(h, id, vals, hd, st)
  PROVE  Shows(q, id, vals, {x \in hd : x # o /\ h.w[x].root # o}, st)
  <1> DEFINE ld == {x \in hd : x # o /\ h.w[x].root # o}
  <1>1. /\ \A x \in DOMAIN h.w :
             q.w[x] = IF x = o \/ x \in h.w[o].registry THEN [h.w[x] EXCEPT !.life = "freed"] ELSE h.w[x]
        /\ q.nodes = h.nodes /\ q.docs = IF h.w[o].form = "owner" THEN h.docs \ {h.w[o].doc} ELSE h.docs
    BY DEF ReleasedAs
  <1>2. \A x \in h.w[o].registry : h.w[x].root = o
    BY RootFacts
  <1>3. hd \subseteq DOMAIN h.w
    BY DEF Kept, RootsHeld
  <1>4. \A x \in ld : q.w[x] = h.w[x]
    BY <1>1, <1>2, <1>3
  <1>5. LiveNodes(q) \subseteq LiveNodes(h)
    BY <1>1 DEF LiveNodes
  <1>6. ld \in SUBSET hd
    OBVIOUS
  <1> HIDE DEF ld
  <1>7. Shows(q, id, vals, ld, st)
    BY <1>1, <1>4, <1>5, <1>6, LessShows
  <1> QED
    BY <1>7 DEF ld

\* The documents AddValue makes show the values of their wrappers.
LEMMA ReadyShows ==
  ASSUME Kept(heap, pointers), NEW p \in pointers, NEW v \in pointers, p # v, NEW h, ReadiedAs(p, v, h),
         NEW id, NEW vals, Built(heap, id, vals), NEW st, Shows(heap, id, vals, pointers, st)
  PROVE  Built(h, id, vals) /\ \E su : Shows(h, id, vals, pointers, su)
  <1> DEFINE h0 == ensure_materialized(heap, p)
  <1>1. Kept(h0, pointers)
    BY EnsureKeeps
  <1>2. Built(h0, id, vals) /\ \E su : Shows(h0, id, vals, pointers, su)
    BY EnsureShows
  <1> HIDE DEF h0
  <1>3. PICK su : Shows(h0, id, vals, pointers, su)
    BY <1>2
  <1>4. CASE h = h0
    BY <1>2, <1>4
  <1>5. CASE h = ensure_materialized(h0, v)
    BY <1>1, <1>2, <1>3, <1>5, EnsureShows
  <1> QED
    BY <1>4, <1>5 DEF ReadiedAs, h0

\* The nodes show what the caller built.
AsBuilt == Built(heap, ident, asked) /\ \E st : Shows(heap, ident, asked, pointers, st)

\* The inductive invariant of what the caller reads.
Mirrored == Keeping /\ AsBuilt

\* Every step leaves the nodes showing what the caller built.
LEMMA MirroredStep ==
  ASSUME Edges = {}, Mirrored, [JsonNext]_JsonVars
  PROVE  Mirrored'
  <1> DEFINE Goal == Built(heap', ident', asked') /\ \E su : Shows(heap', ident', asked', pointers', su)
  <1>0. Kept(heap, pointers) /\ Built(heap, ident, asked) /\ heap \in HeapSet
    BY DEF Mirrored, AsBuilt, Keeping, Kept
  <1>k. Keeping'
    BY KeepingStep DEF Mirrored
  <1>p. PICK st : Shows(heap, ident, asked, pointers, st)
    BY DEF Mirrored, AsBuilt
  <1>1. ASSUME UNCHANGED JsonVars PROVE Goal
    BY <1>0, <1>p, <1>1 DEF JsonVars
  <1>2. ASSUME NEW kind \in NewKinds, new_pending(kind) PROVE Goal
    <2> DEFINE o == Len(heap.w) + 1
               z == Wrapper("pending", kind, 0, 0, o, TRUE)
               q == [heap EXCEPT !.w = Append(@, z)]
    <2>1. /\ heap' = q /\ pointers' = pointers \cup {o} /\ ident' = Append(ident, Len(asked) + 1)
          /\ asked' = Append(asked, [kind |-> kind, kids |-> <<>>])
      BY <1>2 DEF new_pending, New
    <2>2. AddedAs(heap, z, 0, q)
      BY <1>0, NewIs
    <2>3. z.form = "pending" /\ z.kind = kind
      BY DEF Wrapper
    <2> HIDE DEF z, q
    <2> QED
      BY <1>0, <1>p, <2>1, <2>2, <2>3, NewShows
  <1>3. ASSUME NEW kind \in {"object", "array"}, json_tokener_parse_ex(kind) PROVE Goal
    <2> DEFINE o == Len(heap.w) + 1
               z == Wrapper("pending", kind, 0, 0, o, TRUE)
               q == [heap EXCEPT !.w = Append(@, z)]
               u == materialize_root(q, o)
               us == Append(asked, [kind |-> kind, kids |-> <<>>])
               is == Append(ident, Len(asked) + 1)
               ld == pointers \cup {o}
    <2>1. heap' = u /\ pointers' = ld /\ ident' = is /\ asked' = us
      BY <1>3 DEF json_tokener_parse_ex
    <2>k. kind \in NewKinds
      BY DEF NewKinds
    <2>2. AddedAs(heap, z, 0, q) /\ FitsIn(heap, pointers, z, 0)
      BY <1>0, <2>k, NewIs
    <2>2b. z.form = "pending" /\ z.kind = kind
      BY DEF Wrapper
    <2> HIDE DEF z, q
    <2>3. Kept(q, ld)
      BY <1>0, <2>2, AddedKeeps
    <2>4. q.w[o] = z /\ q \in HeapSet /\ o \in DOMAIN q.w
      BY <2>2 DEF AddedAs
    <2>5. Built(q, is, us) /\ Shows(q, is, us, ld, st)
      BY <1>0, <1>p, <2>k, <2>2, <2>2b, NewShows
    <2>6. MadeRoot(q, o, u)
      BY <2>4, MaterializeIs
    <2>l. o \in ld
      OBVIOUS
    <2> HIDE DEF u, us, is, ld
    <2>7. \E su : Shows(u, is, us, ld, su)
      BY <2>2b, <2>3, <2>4, <2>5, <2>6, <2>l, MaterializeShows
    <2>8. Len(u.w) = Len(q.w)
      <3>1. u \in HeapSet /\ DOMAIN u.w = DOMAIN q.w
        BY <2>6 DEF MadeRoot
      <3> QED
        BY <2>4, <3>1, HeapFields
    <2>9. Built(u, is, us)
      BY <2>5, <2>8 DEF Built
    <2> QED
      BY <2>1, <2>7, <2>9
  <1>4. ASSUME NEW p \in pointers, NEW v \in pointers, NEW key \in KeySet, NEW idx \in Nat, NEW fail \in Fails,
               AddValue(p, v, key, idx, fail)
        PROVE  Goal
    <2>1. p # v /\ ident' = ident
      BY <1>0, <1>4, AddShape
    <2>2. PICK h : ReadiedAs(p, v, h) /\ (LeftAs(h) \/ MovedAs(p, v, key, idx, fail # "list", h))
      BY <1>0, <1>4, AddShape
    <2>3. Built(h, ident, asked) /\ \E su : Shows(h, ident, asked, pointers, su)
      BY <1>0, <1>p, <2>1, <2>2, ReadyShows
    <2>4. CASE LeftAs(h)
      BY <2>1, <2>3, <2>4 DEF LeftAs
    <2>5. CASE MovedAs(p, v, key, idx, fail # "list", h)
      <3> DEFINE listed == fail # "list"
                 us == [asked EXCEPT ![ident[p]].kids = Put(asked[ident[p]].kids, key, idx, ident[v])]
                 a == heap'
      <3>1. /\ Movable(h, pointers, p, v) /\ AttachedAs(h, p, v, key, idx, listed, a)
            /\ pointers' = LeftBy(h, pointers, v) /\ asked' = us
        BY <2>5 DEF MovedAs
      <3>2. listed \in BOOLEAN
        OBVIOUS
      <3>3. PICK su : Shows(h, ident, asked, pointers, su)
        BY <2>3
      <3> HIDE DEF listed, a
      <3>4. Built(a, ident, us) /\ \E sv : Shows(a, ident, us, LeftBy(h, pointers, v), sv)
        BY <2>3, <3>1, <3>2, <3>3, AttachShows
      <3> HIDE DEF us
      <3> QED
        BY <2>1, <3>1, <3>4 DEF a
    <2> QED
      BY <2>2, <2>4, <2>5
  <1>5. ASSUME NEW p \in pointers, NEW i \in Nat, DelValue(p, i) PROVE Goal
    <2> DEFINE h == ensure_materialized(heap, p)
               n == h.w[p].node
               us == [asked EXCEPT ![ident[p]].kids = RemoveAt(asked[ident[p]].kids, i)]
               q == [h EXCEPT !.nodes[n].kids = RemoveAt(h.nodes[n].kids, i)]
    <2>1. /\ i \in DOMAIN h.nodes[n].kids /\ heap' = q /\ asked' = us
          /\ ident' = ident /\ pointers' = pointers
      BY <1>0, <1>5, DelShape
    <2>2. Kept(h, pointers) /\ h.w[p].form \in {"owner", "attached"}
      BY <1>0, EnsureKeeps
    <2>3. Built(h, ident, asked) /\ \E su : Shows(h, ident, asked, pointers, su)
      BY <1>0, <1>p, EnsureShows
    <2> HIDE DEF h
    <2>4. PICK su : Shows(h, ident, asked, pointers, su)
      BY <2>3
    <2>5. Built(q, ident, us) /\ Shows(q, ident, us, pointers, su)
      BY <2>1, <2>2, <2>3, <2>4, DelShows
    <2> HIDE DEF q, us
    <2> QED
      BY <2>1, <2>5
  <1>6. ASSUME NEW p \in pointers, NEW i \in Nat, GetChild(p, i) PROVE Goal
    <2> DEFINE at == heap.w[p].node
               n == heap.nodes[at].kids[i].node
               r == heap.w[p].root
               kd == heap.nodes[n].kind
               z == Wrapper("attached", kd, heap.w[r].doc, n, r, TRUE)
    <2>1. /\ heap.w[p].form \in {"owner", "attached"} /\ i \in DOMAIN heap.nodes[at].kids
          /\ heap' = child_of(heap, p, n) /\ pointers' = pointers \cup {Len(heap.w) + 1}
          /\ ident' = Append(ident, asked[ident[p]].kids[i].node) /\ asked' = asked
      BY <1>6 DEF GetChild
    <2>2. AddedAs(heap, z, r, child_of(heap, p, n))
      BY <1>0, <2>1, ChildIs
    <2>3. z.form = "attached" /\ z.node = n
      BY DEF Wrapper
    <2> HIDE DEF z
    <2>4. at \in LiveNodes(heap)
      BY <1>0, <2>1, HolderLive
    <2>5. NodesApart(heap)
      BY <1>0 DEF Kept
    <2>6. n \in LiveNodes(heap)
      BY <2>1, <2>4, <2>5, KidsLive
    <2>7. st[at] = ident[p] /\ StandsFor(heap.nodes, asked, st, at)
      BY <1>p, <2>1, <2>4 DEF Shows
    <2>8. st[n] = asked[ident[p]].kids[i].node
      BY <2>1, <2>7 DEF StandsFor
    <2>9. AddedAs(heap, z, r, heap') /\ ident' = Append(ident, st[n])
      BY <2>1, <2>2, <2>8
    <2> HIDE DEF n, r, at
    <2> DEFINE a == heap'
    <2>10. AddedAs(heap, z, r, a)
      BY <2>9
    <2> HIDE DEF a
    <2>11. /\ Built(a, Append(ident, st[n]), asked)
           /\ Shows(a, Append(ident, st[n]), asked, pointers \cup {Len(heap.w) + 1}, st)
      BY <1>0, <1>p, <2>3, <2>6, <2>10, ChildShows
    <2> QED
      BY <2>1, <2>9, <2>11 DEF a
  <1>7. ASSUME NEW o \in pointers, Query(o) PROVE Goal
    <2>1. /\ heap.w[o].form = "pending" /\ heap' = ensure_materialized(heap, o)
          /\ ident' = ident /\ pointers' = pointers /\ asked' = asked
      BY <1>7 DEF Query, ensure_materialized
    <2>2. /\ Built(ensure_materialized(heap, o), ident, asked)
          /\ \E su : Shows(ensure_materialized(heap, o), ident, asked, pointers, su)
      BY <1>0, <1>p, EnsureShows
    <2> QED
      BY <2>1, <2>2
  <1>8. ASSUME NEW o \in pointers, json_object_put(o) PROVE Goal
    <2>0. ident' = ident /\ asked' = asked
      BY <1>0, <1>8, PutShape
    <2>1. CASE heap' = heap /\ pointers' = pointers \ {o} /\ heap.w[o].form = "attached"
      <3>1. Shows(heap, ident, asked, pointers \ {o}, st)
        BY <1>p, LessShows
      <3> QED
        BY <1>0, <2>0, <2>1, <3>1
    <2>2. CASE /\ heap.w[o].form \in {"pending", "owner"} /\ ReleasedAs(heap, o, heap')
               /\ pointers' = {x \in pointers : x # o /\ heap.w[x].root # o}
      <3> DEFINE a == heap'
                 ld == {x \in pointers : x # o /\ heap.w[x].root # o}
      <3>1. ReleasedAs(heap, o, a) /\ pointers' = ld
        BY <2>2
      <3> HIDE DEF a
      <3>2. Shows(a, ident, asked, ld, st)
        BY <1>0, <1>p, <2>2, <3>1, ReleaseShows
      <3>3. a \in HeapSet /\ DOMAIN a.w = DOMAIN heap.w
        BY <3>1 DEF ReleasedAs
      <3>4. Len(a.w) = Len(heap.w)
        BY <1>0, <3>3, HeapFields
      <3>5. Built(a, ident, asked)
        BY <1>0, <3>4 DEF Built
      <3> HIDE DEF ld
      <3> QED
        BY <2>0, <3>1, <3>2, <3>5 DEF a
    <2> QED
      BY <1>0, <1>8, <2>1, <2>2, PutShape
  <1>9. Key \in KeySet /\ "" \in KeySet /\ 0 \in Nat /\ \A i \in 1 .. MaxNodes : i \in Nat
    BY DEF KeySet
  <1>10. Goal => AsBuilt'
    BY DEF AsBuilt
  <1> HIDE DEF Goal
  <1>11. AsBuilt'
    BY <1>1, <1>2, <1>3, <1>4, <1>5, <1>6, <1>7, <1>8, <1>9, <1>10 DEF JsonNext
  <1> QED
    BY <1>k, <1>11 DEF Mirrored

\* At the start there is nothing to show.
LEMMA MirroredInit ==
  ASSUME JsonInit
  PROVE  Mirrored
  <1>1. /\ heap.w = <<>> /\ heap.nodes = <<>> /\ heap.docs = {} /\ ident = <<>> /\ asked = <<>> /\ pointers = {}
    BY DEF JsonInit
  <1>2. /\ DOMAIN heap.nodes = {} /\ DOMAIN ident = {} /\ Len(ident) = Len(heap.w) /\ ident \in Seq(Nat)
        /\ asked \in Seq(ValueSet) /\ LiveNodes(heap) = {}
    BY <1>1 DEF LiveNodes
  <1>3. Built(heap, ident, asked)
    BY <1>2 DEF Built
  <1> DEFINE st == [n \in DOMAIN heap.nodes |-> 0]
  <1>4. st \in [DOMAIN heap.nodes -> DOMAIN asked]
    BY <1>2
  <1> HIDE DEF st
  <1>5. Shows(heap, ident, asked, pointers, st)
    BY <1>1, <1>2, <1>4 DEF Shows, PendingShows
  <1> QED
    BY <1>3, <1>5, KeepingInit DEF Mirrored, AsBuilt

\* What the nodes show is what the caller reads.
LEMMA MirroredReads ==
  ASSUME Mirrored
  PROVE  ReadsAsBuilt
  <1>0. Kept(heap, pointers) /\ heap \in HeapSet /\ NodesApart(heap) /\ asked \in Seq(ValueSet)
    BY DEF Mirrored, AsBuilt, Keeping, Kept, Built
  <1>1. PICK st : Shows(heap, ident, asked, pointers, st)
    BY DEF Mirrored, AsBuilt
  <1>2. ASSUME NEW x \in pointers, heap.w[x].form \in {"owner", "attached"}
        PROVE  Reading(heap.nodes, LiveNodes(heap))[heap.w[x].node] = Reading(asked, DOMAIN asked)[ident[x]]
    <2> DEFINE n == heap.w[x].node
    <2>1. heap.w[x].form # "pending"
      BY <1>2
    <2>2. n \in LiveNodes(heap)
      BY <1>0, <2>1, HolderLive
    <2>3. st[n] = ident[x]
      BY <1>1, <2>1 DEF Shows
    <2>4. st \in [DOMAIN heap.nodes -> DOMAIN asked] /\ \A m \in LiveNodes(heap) : StandsFor(heap.nodes, asked, st, m)
      BY <1>1 DEF Shows
    <2> HIDE DEF n
    <2>5. Reading(heap.nodes, LiveNodes(heap))[n] = Reading(asked, DOMAIN asked)[st[n]]
      BY <1>0, <2>2, <2>4, SameReading
    <2> QED
      BY <2>3, <2>5 DEF n
  <1> QED
    BY <1>2 DEF ReadsAsBuilt

\* Every pointer shows what was built through any other (jsonc_compat.c, attach and
\* dup_into): for every number of wrappers and of nodes, a value moved by copying, read
\* through a child, changed below or partly deleted reads as the caller built it.
THEOREM ReadsTrue ==
  ASSUME Edges = {}
  PROVE  JsonSpec => []ReadsAsBuilt
  <1>1. JsonInit => Mirrored
    BY MirroredInit
  <1>2. Mirrored /\ [JsonNext]_JsonVars => Mirrored'
    BY MirroredStep
  <1>3. Mirrored => ReadsAsBuilt
    BY MirroredReads
  <1> QED
    BY <1>1, <1>2, <1>3, PTL DEF JsonSpec
=============================================================================

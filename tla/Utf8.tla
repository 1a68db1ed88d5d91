-------------------------------- MODULE Utf8 --------------------------------
(***************************************************************************)
(* Well-formedness of UTF-8 (encoding/utf8_validate.c): the walk over lead *)
(* bytes and the continuation bytes each of them asks for. Sequences of    *)
(* numbers 0..255 stand for bytes.                                         *)
(***************************************************************************)
EXTENDS Integers, Sequences, SequencesExt

\* How many continuation bytes a lead byte asks for, and the range of the first: no overlong
\* form, no surrogate, nothing past U+10FFFF.
Need(b) == IF b \in 194..223 THEN 1 ELSE IF b \in 224..239 THEN 2 ELSE IF b \in 240..244 THEN 3 ELSE 0
FirstRange(b) == CASE b = 224 -> 160..191
                   [] b = 237 -> 128..159
                   [] b = 240 -> 144..191
                   [] b = 244 -> 128..143
                   [] OTHER -> 128..191

\* One byte of the walk; need bytes are still owed and the next must be in range.
Utf8Step(w, b) ==
  IF w.need > 0 THEN [ok |-> w.ok /\ b \in w.range, need |-> w.need - 1, range |-> 128..191]
  ELSE [ok |-> w.ok /\ (b < 128 \/ Need(b) > 0), need |-> Need(b), range |-> FirstRange(b)]

Utf8Valid(s) ==
  LET start == [ok |-> TRUE, need |-> 0, range |-> 128..191]
      after[k \in 0..Len(s)] == IF k = 0 THEN start ELSE Utf8Step(after[k - 1], s[k])
      whole(w) == w.ok /\ w.need = 0
  IN  whole(after[Len(s)])
=============================================================================

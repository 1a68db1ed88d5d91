------------------------------- MODULE JsonLex -------------------------------
(***************************************************************************)
(* The token kernels of the strict JSON lane (scan/json.c) and the fused   *)
(* number and string arms of the tape walks (tape.c), over short sequences *)
(* of character classes.                                                   *)
(*                                                                         *)
(* A number is spelt with the classes "-" "+" "." "e", the digits 0, 1 and *)
(* 9, ";" (any byte that may follow a JSON number) and "x" (any  *)
(* other byte).  A string is spelt with "q" (the quote), "b" (backslash),  *)
(* "c" (a C0 control), "h" (a byte above 0x7F), "n" (a letter that may     *)
(* follow a backslash), "a" (one that may not) and "uB", "uH", "uL": the   *)
(* letter u and four hexadecimal digits of an ordinary code point, of a    *)
(* high and of a low surrogate.                                            *)
(***************************************************************************)
EXTENDS Integers, Sequences, FiniteSetsExt

CONSTANTS
  Short,    \* digits of the short-integer path (3 in the code)
  Block,    \* digits of one SWAR block of the number scan (8)
  UMax,     \* UINT64_MAX
  IMax,     \* INT64_MAX
  Window,   \* bytes of one SWAR window of the string arm (8)
  Rounds    \* windows tried before the kernels are called (4)

Digit == {"0", "1", "9"}
DigitValue == [d \in Digit |-> CASE d = "0" -> 0 [] d = "1" -> 1 [] d = "9" -> 9]
NumberUnits == Digit \cup {"-", "+", ".", "e", ";", "x"}
StringUnits == {"q", "b", "c", "h", "n", "a", "uB", "uH", "uL"}

At(s, k) == IF k \in 1..Len(s) THEN s[k] ELSE "end"

(* The first position from k on whose class is not in S.                   *)
SkipIn(s, k, S) == Min({j \in k..(Len(s) + 1) : At(s, j) \notin S})

Refused == [ok |-> FALSE, end |-> 0, flt |-> FALSE]

-----------------------------------------------------------------------------
(* Numbers.                                                                *)

(* The fraction and exponent tail shared by the two scans: from k, the end *)
(* of the number, or 0 when a mandatory digit is missing.                  *)
NumberTail(s, k) ==
  LET frac == IF At(s, k) # "." THEN k
              ELSE LET d == SkipIn(s, k + 1, Digit) IN IF d = k + 1 THEN 0 ELSE d
      sign == IF At(s, frac + 1) \in {"-", "+"} THEN frac + 2 ELSE frac + 1
  IN  IF frac = 0 \/ At(s, frac) # "e" THEN frac
      ELSE LET d == SkipIn(s, sign, Digit) IN IF d = sign THEN 0 ELSE d

(* The validating scan of the lazy tape: grammar and text shape, no value. *)
yep_json_number_shape(s) ==
  LET k == IF At(s, 1) = "-" THEN 2 ELSE 1
      int == IF At(s, k) = "0" THEN k + 1 ELSE SkipIn(s, k, Digit)
      end == NumberTail(s, int)
  IN  IF At(s, k) \notin Digit \/ end = 0 \/ At(s, end) \notin {";", "end"} THEN Refused
      ELSE [ok |-> TRUE, end |-> end, flt |-> end # int]

(* mag after the digits s[k .. last], a block at a time while a block fits *)
(* and digit by digit after that; over is set by a digit that does not fit.*)
Magnitude(s, first, last) ==
  LET Val(a, b) == FoldSet(LAMBDA j, v : v + DigitValue[s[j]] * 10 ^ (b - j), 0, a..b)
      Blocked(b) ==    \* the SWAR loop takes b blocks
        /\ first + b * Block - 1 <= last
        /\ \A i \in 0..(b - 1) :
             (IF i = 0 THEN 0 ELSE Val(first, first + i * Block - 1))
               <= (UMax - (10 ^ Block - 1)) \div (10 ^ Block)
      m == Max({b \in 0..Len(s) : Blocked(b)})
      mag[j \in (first - 1)..last] ==
        IF j = first + m * Block - 1
        THEN [v |-> IF m = 0 THEN 0 ELSE Val(first, j), over |-> FALSE]
        ELSE IF j < first + m * Block - 1 THEN [v |-> 0, over |-> FALSE]
        ELSE IF mag[j - 1].v > (UMax - DigitValue[s[j]]) \div 10 THEN [mag[j - 1] EXCEPT !.over = TRUE]
        ELSE [mag[j - 1] EXCEPT !.v = mag[j - 1].v * 10 + DigitValue[s[j]]]
  IN  mag[last]

(* The converting scan: text shape 0 (integer, iv exact), 1 (float text)   *)
(* or 2 (integer text past int64).  The short path settles up to Short     *)
(* digits without an overflow check.                                       *)
yep_json_number_scan(s) ==
  LET neg == At(s, 1) = "-"
      k == IF neg THEN 2 ELSE 1
      int == IF At(s, k) = "0" THEN k + 1 ELSE SkipIn(s, k, Digit)
      short == IF At(s, k) = "0" THEN k + 1 ELSE Min({int, k + Short})
      end == NumberTail(s, int)
      m == Magnitude(s, k, int - 1)
      limit == IF neg THEN IMax + 1 ELSE IMax
      Whole(v) == IF neg THEN -v ELSE v
      Accept(e, shape, iv) == [ok |-> TRUE, end |-> e, flt |-> shape = 1, shape |-> shape, iv |-> iv]
      Fail == [ok |-> FALSE, end |-> 0, flt |-> FALSE, shape |-> 0, iv |-> 0]
  IN  IF At(s, k) \notin Digit THEN Fail
      ELSE IF At(s, short) \notin {".", "e"} \cup Digit
      THEN IF At(s, short) \notin {";", "end"} THEN Fail
           ELSE Accept(short, 0, Whole(Magnitude(s, k, short - 1).v))
      ELSE IF end = 0 \/ At(s, end) \notin {";", "end"} THEN Fail
      ELSE IF end # int THEN Accept(end, 1, 0)
      ELSE IF m.over \/ m.v > limit THEN Accept(end, 2, 0)
      ELSE Accept(end, 0, Whole(m.v))

(* The strict check of one number-ish run, which must be consumed whole.   *)
tape_num_ok(run) ==
  LET k == IF At(run, 1) = "-" THEN 2 ELSE 1
      int == SkipIn(run, k, Digit)
  IN  /\ int # k
      /\ ~(int - k > 1 /\ run[k] = "0")
      /\ NumberTail(run, int) = Len(run) + 1

(* The fused walks' number arm: a run of number-ish bytes; digits alone    *)
(* settle with the leading-zero rule, anything else with tape_num_ok.      *)
FusedNumber(s, strict_nums) ==
  LET k == SkipIn(s, 2, Digit \cup {"-", "+", ".", "e"})
      rest == {s[j] : j \in 2..(k - 1)}
      digits_only == rest \subseteq Digit /\ (At(s, 1) \in Digit \/ rest # {})
      d0 == IF At(s, 1) = "-" THEN 2 ELSE 1
      ok == IF digits_only THEN k - d0 = 1 \/ s[d0] # "0"
            ELSE tape_num_ok(SubSeq(s, 1, k - 1))
  IN  IF At(s, 1) \notin Digit \cup {"-"} \/ (strict_nums /\ ~ok) THEN Refused
      ELSE [ok |-> TRUE, end |-> k, flt |-> ~digits_only]

-----------------------------------------------------------------------------
(* Strings.  s[1] is the opening quote; a result carries the position of   *)
(* the closing quote (0: refused).                                         *)

(* One escape at position k: the position after it, 0 when it is not JSON. *)
yep_json_escape(s, k) ==
  IF At(s, k + 1) = "uH"
  THEN IF At(s, k + 2) = "b" /\ At(s, k + 3) = "uL" THEN k + 4 ELSE 0
  ELSE IF At(s, k + 1) \in {"q", "b", "n", "uB"} THEN k + 2 ELSE 0

(* The kernel loop: to the first quote, backslash or control from j on.    *)
StringScan(s, j0) ==
  LET go[j \in 1..(Len(s) + 2)] ==
        LET at == SkipIn(s, j, StringUnits \ {"q", "b", "c"})
        IN  CASE At(s, at) = "q" -> at
              [] At(s, at) = "b" -> LET next == yep_json_escape(s, at)
                                    IN  IF next = 0 THEN 0 ELSE go[next]
              [] OTHER -> 0
  IN  go[j0]

yep_json_string(s) ==
  LET near == SkipIn(s, 2, StringUnits \ {"q", "b", "c"})
  IN  IF near <= 1 + Window /\ At(s, near) = "q" THEN near ELSE StringScan(s, 2)

(* quote_scan: the close with escaped pairs skipped, and whether any was.  *)
quote_scan(s) ==
  LET go[j \in 1..(Len(s) + 2)] ==
        IF j > Len(s) THEN 0
        ELSE IF s[j] = "q" THEN j ELSE go[j + (IF s[j] = "b" THEN 2 ELSE 1)]
  IN  [at |-> go[2], esc |-> \E j \in 2..(go[2] - 1) : s[j] = "b"]

LSTR_SCAN_NoSweep(s, clean) ==    \* mutant: the span quote_scan found is not swept
  LET qs == quote_scan(s) IN IF qs.at # 0 /\ ~qs.esc THEN qs.at ELSE StringScan(s, 2)

(* LSTR_SCAN: up to Rounds windows settle a plain span, quote_scan and a   *)
(* sweep for controls a longer one, and the kernel whatever has escapes.   *)
LSTR_SCAN(s, clean) ==
  LET bad == {"c"} \cup (IF clean THEN {"h"} ELSE {})
      stop == SkipIn(s, 2, StringUnits \ ({"q", "b"} \cup bad))
      window == (stop - 2) \div Window    \* the window stop lies in, from 0
      inWindows == /\ At(s, stop) = "q" /\ window < Rounds
                   /\ 1 + (window + 1) * Window <= Len(s)
      qs == quote_scan(s)
      Sweep(close) == \E j \in 2..(close - 1) : s[j] \in bad
      kernel == StringScan(s, 2)
  IN  IF inWindows THEN stop
      ELSE IF qs.at # 0 /\ ~qs.esc THEN IF Sweep(qs.at) THEN 0 ELSE qs.at
      ELSE IF kernel # 0 /\ clean /\ Sweep(kernel) THEN 0 ELSE kernel

(* The columns walk's own copy of the macro, called with clean set.        *)
ColumnsString(s) == LSTR_SCAN(s, TRUE)

-----------------------------------------------------------------------------
(* What the kernels are held to.                                           *)

(* The RFC 8259 number, as a set of digit positions rather than a scan.    *)
IsNumber(s) ==
  \E sg, ip, fp \in 0..Len(s) :
    LET ds(a, b) == a <= b /\ \A j \in a..b : s[j] \in Digit
        expo == SubSeq(s, fp + 1, Len(s))
    IN  /\ sg <= ip /\ ip <= fp
        /\ sg = (IF At(s, 1) = "-" THEN 1 ELSE 0)
        /\ ds(sg + 1, ip) /\ (s[sg + 1] = "0" => ip = sg + 1)
        /\ fp = ip \/ (s[ip + 1] = "." /\ ds(ip + 2, fp))
        /\ \/ expo = <<>>
           \/ /\ expo[1] = "e"
              /\ LET d == IF At(expo, 2) \in {"-", "+"} THEN fp + 3 ELSE fp + 2
                 IN  ds(d, Len(s))

(* The number s begins with, up to a byte that may follow one.             *)
NumberPart(s) == SubSeq(s, 1, SkipIn(s, 1, NumberUnits \ {";"}) - 1)

(* Numbers are read the same way by every scan: the shape scan, the        *)
(* converting scan and the fused arm (with the delimiter the walk asks for *)
(* next) accept exactly the RFC numbers, end them at the same byte and     *)
(* agree on what is float text; an integer inside int64 is exact and one   *)
(* outside is reported as shape 2, never wrapped.                          *)
NumberReadAlike(s, shape, scan, arm) ==
  LET part == NumberPart(s)
      first == IF At(part, 1) = "-" THEN 2 ELSE 1
      v == FoldSet(LAMBDA j, acc : acc + DigitValue[part[j]] * 10 ^ (Len(part) - j), 0, first..Len(part))
  IN  /\ shape.ok <=> IsNumber(part)
      /\ scan.ok <=> shape.ok
      /\ shape.ok => scan.end = shape.end /\ scan.flt = shape.flt
      /\ shape.ok <=> arm.ok /\ At(s, arm.end) \in {";", "end"}
      /\ shape.ok => arm.end = shape.end /\ arm.flt = shape.flt
      /\ shape.ok /\ ~shape.flt =>
           IF (IF first = 2 THEN v <= IMax + 1 ELSE v <= IMax)
           THEN scan.shape = 0 /\ scan.iv = (IF first = 2 THEN -v ELSE v)
           ELSE scan.shape = 2
NumberKernelsAgree(s) ==
  NumberReadAlike(s, yep_json_number_shape(s), yep_json_number_scan(s), FusedNumber(s, TRUE))

(* A string closes at the same quote whichever path of the fused arm       *)
(* settles it, and the clean walk refuses exactly the strings that hold a  *)
(* non-ASCII byte besides.                                                 *)
StringKernelsAgree(s) ==
  LET close == yep_json_string(s)
      hi(c) == \E j \in 2..(c - 1) : s[j] = "h"
  IN  At(s, 1) = "q" =>
        /\ close = StringScan(s, 2)
        /\ LSTR_SCAN(s, FALSE) = close
        /\ ColumnsString(s) = (IF close # 0 /\ hi(close) THEN 0 ELSE close)
=============================================================================

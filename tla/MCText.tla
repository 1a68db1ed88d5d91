------------------------------- MODULE MCText -------------------------------
(***************************************************************************)
(* What reads text, for TLC: the pattern kernel (Regexp), the strict JSON  *)
(* lane (JsonTape) and the text kernels (TextKernels). A text grows a      *)
(* token or a byte at a time and the reader says who is given it.          *)
(***************************************************************************)
EXTENDS Regexp

CONSTANTS
  Short, Digits8, UMax, IMax, Window, Rounds, Depth, JsonTokens, MaxTokens, MaxChars,
  AChunk, NChunk, Batch, U16, Swar, Cap, Block, Nibble, Group,
  MaxFind, MaxStats, MaxQuote, MaxLine, MaxStop, MaxStage

ASSUME LexBounds ==
  /\ {Short, Digits8, UMax, IMax, Window, Rounds} \subseteq Nat \ {0}
  /\ UMax = 2 * IMax + 1 /\ 10 ^ Short <= IMax
ASSUME TapeBounds == {Depth, MaxTokens, MaxChars} \subseteq Nat \ {0}
ASSUME KernelBounds ==
  /\ Batch \in Nat /\ {AChunk, NChunk, U16, Swar, Cap, Block, Nibble, Group} \subseteq Nat \ {0}
  /\ Batch % NChunk = 0 /\ Batch + NChunk < U16
  /\ {MaxFind, MaxStats, MaxQuote, MaxLine, MaxStop, MaxStage} \subseteq Nat

VARIABLES reader, doc, walk, chain, cols, recs, flow, tree

J == INSTANCE JsonTape WITH Block <- Digits8, Tokens <- JsonTokens
K == INSTANCE TextKernels

machines == <<doc, walk, chain, cols, recs, flow, tree>>
every == <<reader, vars, machines>>

NoMachines ==
  doc = "" /\ walk = "" /\ chain = "" /\ cols = "" /\ recs = "" /\ flow = "" /\ tree = ""

TextInit ==
  \/ reader = "json" /\ J!Init /\ table = EmptyTable
  \/ reader = "kernels" /\ K!Init /\ NoMachines /\ table = EmptyTable
  \/ reader = "pattern" /\ Init /\ NoMachines

JsonReads == reader = "json" /\ J!Next /\ UNCHANGED <<reader, table>>
KernelsRead == reader = "kernels" /\ K!Next /\ UNCHANGED <<reader, machines, table>>
PatternReads == reader = "pattern" /\ Next /\ UNCHANGED <<reader, machines>>

TextSpec == TextInit /\ [][JsonReads \/ KernelsRead \/ PatternReads]_every



\* A number is read alike and exactly by the three scans, and a string closes at one quote on
\* every path of the fused arm (scan/json.c, tape.c).
JsonLexersAgree == reader = "json" => J!NumbersAgree /\ J!StringsAgree

\* The scalar, AVX2 and NEON tables answer alike for every text, at every chunk seam, and line
\* facts, stop sets and stage 1 masks are what their definitions say (common/simd_text*.c).
KernelsAgree ==
  reader = "kernels" =>
    /\ K!SearchesAgree /\ K!ClassesAgree /\ K!QuotesAgree
    /\ K!LineFactsRight /\ K!StopsetExact /\ K!Stage1Right

=============================================================================

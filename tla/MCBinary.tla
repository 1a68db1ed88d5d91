------------------------------ MODULE MCBinary ------------------------------
(***************************************************************************)
(* The binary formats for TLC: Ruby Marshal streams (Marshal) and CBOR     *)
(* items (Cbor). An input grows token by token; format says of which.      *)
(***************************************************************************)
EXTENDS Marshal

CONSTANTS
  MaxDepth, MaxLinks, MaxTokens, MaxSeqTokens, MaxPairs,
  HalfExp, HalfMan, DoubleExp, DoubleMan, CborEdges

ASSUME CborAssumption ==
  /\ {MaxDepth, MaxLinks, MaxTokens, MaxSeqTokens, MaxPairs} \subseteq Nat \ {0}
  /\ HalfExp < DoubleExp /\ HalfMan + 1 < DoubleMan
  /\ CborEdges \subseteq {"simple_key", "negative_key", "tag_before_break", "below_int_min", "bool_key"}

VARIABLE format

C == INSTANCE Cbor WITH Edges <- CborEdges

every == <<format, vars>>

BinaryInit ==
  \/ format = "marshal" /\ Init
  \/ format = "cbor" /\ C!Init

MarshalGrows == format = "marshal" /\ Next /\ UNCHANGED format
CborGrows == format = "cbor" /\ C!Next /\ UNCHANGED format

BinarySpec == BinaryInit /\ [][MarshalGrows \/ CborGrows]_every

\* The iterative decoder accepts exactly the well-formed items and builds the tree a direct
\* reading gives; a sequence is handed over item by item up to the first ill-formed one, and
\* a refusing callback ends the walk at once (cbor/decode.c).
CborDecodes ==
  format = "cbor" => C!DecodesAsWritten /\ C!RefusalEndsWalk /\ C!SequenceDelivers

\* What is encoded decodes to the same tree; the sizing pass announces the bytes the write
\* pass produces, canonical keys stand in order with every pair kept, and halves round to
\* even (cbor/encode.c).
CborRoundTrips ==
  format = "cbor" => C!EncodesRight /\ C!RoundsToEven


\* A document written as a stream loads as the value it stands for, aliases shared, by the
\* event route and the tree route alike, and longs read back (marshal.c, events/values.c).
MarshalWrites == format = "marshal" => EmittedLoads /\ RoutesAgree /\ LongsRoundTrip

=============================================================================

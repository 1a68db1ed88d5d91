------------------------------ MODULE MCHandles ------------------------------
(***************************************************************************)
(* What a host holds, for TLC: the documents a stream iterator gave it     *)
(* (StreamIter) or the wrappers of the json-c face (JsonC). face says      *)
(* which; the two share no state.                                          *)
(***************************************************************************)
EXTENDS StreamIter, JsonC

VARIABLE face

every == <<face, vars, JsonVars>>

HandlesInit ==
  /\ JsonInit
  /\ \/ face = "stream" /\ Init
     \/ /\ face = "json"
        /\ buf = << >> /\ space = "caller" /\ gated = TRUE /\ cursor = 1 /\ done = TRUE
        /\ index = 0 /\ last = [status |-> "OK", off |-> 0, len |-> 0] /\ out = "over"
        /\ log = << >> /\ held = {} /\ freed = TRUE

StreamStep == face = "stream" /\ Next /\ UNCHANGED <<face, JsonVars>>
JsonStep == face = "json" /\ JsonNext /\ UNCHANGED <<face, vars>>

HandlesSpec == HandlesInit /\ [][StreamStep \/ JsonStep]_every
==============================================================================

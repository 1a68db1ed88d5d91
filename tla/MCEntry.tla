------------------------------- MODULE MCEntry -------------------------------
(***************************************************************************)
(* The entry points of a parse for TLC: one stream under one of the event  *)
(* front ends (EventFeeds), or a history of document parses (ParseDoc).    *)
(* entry says which; the two share no state, so a behaviour of one leaves  *)
(* the variables of the other as they were.                                *)
(***************************************************************************)
EXTENDS ParseDoc, EventFeeds

VARIABLE entry

ASSUME ParseBounds == MayFail \subseteq Sites /\ Calls \in Nat

every == <<entry, vars, feeding>>

Unfed ==
  /\ mode = "" /\ stream = "" /\ rec = "" /\ it = "" /\ cursor = "" /\ got = ""
  /\ verdict = "" /\ channel = "" /\ done = FALSE /\ flaw = ""

EntryInit ==
  /\ Init
  /\ \/ entry = "document" /\ Unfed
     \/ entry = "events" /\ FeedsInit

DocumentStep == entry = "document" /\ Next /\ UNCHANGED <<entry, feeding>>
EventStep == entry = "events" /\ FeedsNext /\ UNCHANGED <<entry, vars>>
Goes(A) == entry = "events" /\ A /\ UNCHANGED <<entry, vars>>

\* A parse call that has begun runs on; a caller that has begun to pull or to iterate goes
\* on, and nothing relies on an allocation failing.
EntrySpec ==
  /\ EntryInit /\ [][DocumentStep \/ EventStep]_every
  /\ WF_every(DocumentStep /\ pc # "idle")
  /\ WF_every(Goes(PullNew)) /\ WF_every(Goes(PullNext)) /\ WF_every(Goes(IterGoesOn))


\* However a stream is cut into chunks and whichever front end reads it, the caller receives
\* the events of the whole stream from the first on: none twice, none left out, none of a
\* document torn in two (engine.c, yep_engine_step; iterparse.c).
DeliversInOrder == entry = "events" => FeedsTypeOK /\ EventsInOrder

\* A front end that is through says what happened: memory is not malformed input, malformed
\* input is refused in every chunking, the rest is handed over to the last event, and the
\* thread's error slot is about this parse (recorder.c, pull.c, push.c, iterparse.c).
AnswersTruly == entry = "events" => VerdictRight /\ ChannelSpeaks
==============================================================================

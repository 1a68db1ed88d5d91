------------------------------ MODULE JsonTape ------------------------------
(***************************************************************************)
(* The strict JSON lane: the document validator and the span walker of     *)
(* scan/json.c, the tape walks of tape.c, the two routes that combine them *)
(* and the two tree builders behind them (dom/dom.c).                      *)
(*                                                                         *)
(* A document arrives one token at a time and every machine reads it in    *)
(* step, so a state is a prefix together with what each machine makes of   *)
(* it.  Tokens are classes:                                                *)
(*   { } [ ] , :   the punctuation         num   a number                  *)
(*   str    a short ASCII string           bad   a number-ish run that is  *)
(*   long   an ASCII string past the             not a number ("01")       *)
(*          simple-key limit               lit   true, false or null       *)
(*   wide   a non-ASCII string past the    x     anything no arm takes, a  *)
(*          limit in bytes only                  refused string included   *)
(*   ill    a string of ill-formed UTF-8   nl, tab  white space            *)
(* How a number or a string is recognised is module JsonLex.               *)
(***************************************************************************)
EXTENDS JsonLex, SequencesExt, FiniteSets

CONSTANTS
  Depth,      \* YEP_JSON_WALK_DEPTH and JX_MAX_DEPTH (256)
  Tokens,     \* the tokens a document is made of
  MaxTokens,  \* bound on the length of a document
  MaxChars    \* bound on the spelling of a number or a string

VARIABLES
  part,     \* what is read: "document", "number" or "string"
  text,     \* the prefix read so far
  doc,      \* yep_json_document
  walk,     \* yep_json_walk_next, strict (the flow routes)
  chain,    \* tape_walk
  cols,     \* yep_tape_walk_columns_fused, strict numbers, clean only
  recs,     \* yep_tape_walk_lenient_fused, deferred numbers
  flow,     \* the same walk with strict numbers (the flow recorder's call)
  tree      \* jb_value, the tree builder that reads the text

machines == <<doc, walk, chain, cols, recs, flow, tree>>
vars == <<part, text, doc, walk, chain, cols, recs, flow, tree>>

-----------------------------------------------------------------------------
(* A machine: its verdict so far, the kinds of the open collections, what  *)
(* it expects next, whether the last token may not be followed by any but  *)
(* a delimiter, and the tape with the indices of the open records.         *)

White == {"nl", "tab"}
Openers == {"{", "["}
Closers == {"}", "]"}
Strings == {"str", "long", "wide", "ill"}
NonAscii == {"wide", "ill"}
Values == Strings \cup {"num", "lit"} \cup Openers

KindOf == [b \in Openers \cup Closers |-> IF b \in {"{", "}"} THEN "map" ELSE "seq"]

Rec(kind, at) == [kind |-> kind, at |-> at]
Fresh == [st |-> "lead", stack |-> <<>>, expect |-> "value", glued |-> FALSE,
          tape |-> <<>>, opens |-> <<>>, known |-> FALSE, long |-> FALSE]

Stop(w) == [w EXCEPT !.st = "reject", !.tape = <<>>]
Put(w, kind, at) == [w EXCEPT !.tape = Append(@, Rec(kind, at))]
Expect(w, e) == [w EXCEPT !.expect = e]
InMap(w) == w.stack # <<>> /\ Last(w.stack) = "map"
KeySlot(w) == InMap(w) /\ w.expect \in {"key", "key?"}

(* A collection opens: its frame, what its first member is and, in a     *)
(* walk, its record.                                                       *)
OpenFrame(w, kind) ==
  [w EXCEPT !.st = "on", !.stack = Append(@, kind),
            !.expect = IF kind = "map" THEN "key?" ELSE "value?"]
Open(w, kind) ==
  [OpenFrame(w, kind) EXCEPT !.opens = Append(@, Len(w.tape)),
                             !.tape = Append(@, Rec(kind, 0))]

CloseFrame(w) ==
  [w EXCEPT !.st = IF Len(w.stack) = 1 THEN "tail" ELSE "on",
            !.stack = Front(@), !.expect = "comma"]

(* A collection closes: CLOSE and OPEN records point at each other.        *)
Close(w) ==
  LET o == Last(w.opens)
  IN  [CloseFrame(w) EXCEPT
         !.opens = Front(@),
         !.tape = Append([@ EXCEPT ![o + 1].at = Len(w.tape)], Rec("close", o))]

(* The walks hold Depth frames.                                            *)
NoRoom(w) == Len(w.stack) >= Depth

(* What may follow a separator, a key and a value.                         *)
AfterComma(w) == Expect(w, IF InMap(w) THEN "key" ELSE "value")
AfterScalar(w) == Expect(w, IF KeySlot(w) THEN "colon" ELSE "comma")


(* A closer is taken in an empty collection and behind a member.           *)
ClosesHere(w, u) ==
  w.stack # <<>> /\ KindOf[u] = Last(w.stack) /\ w.expect \in {"value?", "key?", "comma"}

(* A number or a literal is followed by white space or punctuation.        *)
BadNeighbour(w, u) == w.glued /\ u \notin White \cup Closers \cup {",", ":"}
Glue(w, u) == [w EXCEPT !.glued = u \in {"num", "bad", "lit"}]

-----------------------------------------------------------------------------
(* yep_json_document: one value under a virtual root frame, which takes    *)
(* one of the JX_MAX_DEPTH frames.                                         *)
DocumentArm(w, u) ==
  IF u \in Closers THEN IF ClosesHere(w, u) THEN CloseFrame(w) ELSE Stop(w)
  ELSE IF w.expect = "colon" THEN IF u = ":" THEN Expect(w, "value") ELSE Stop(w)
  ELSE IF w.expect = "comma" THEN IF u = "," THEN AfterComma(w) ELSE Stop(w)
  ELSE IF u \in Openers
       THEN IF Len(w.stack) + 1 >= Depth \/ KeySlot(w) THEN Stop(w) ELSE OpenFrame(w, KindOf[u])
  ELSE IF u \notin Values \/ (KeySlot(w) /\ u \notin Strings) THEN Stop(w)
  ELSE IF w.stack = <<>> THEN [w EXCEPT !.st = "tail"]
  ELSE AfterScalar(w)

yep_json_document(w, u) ==
  IF w.st = "reject" \/ u \in White THEN [w EXCEPT !.glued = FALSE]
  ELSE IF w.st = "tail" \/ BadNeighbour(w, u) THEN Stop(w)
  ELSE Glue(DocumentArm(w, u), u)

-----------------------------------------------------------------------------
(* The walks start at a collection; a scalar root is not theirs.           *)
Lead(w, u) ==
  IF u \in Openers THEN Open([w EXCEPT !.tape = <<Rec("doc", 0)>>], KindOf[u])
  ELSE Stop(w)

(* yep_json_walk_next with the strict flag every caller sets: a tab is     *)
(* left to the engine, and long_key counts bytes.                          *)
WalkArm(w, u, n) ==
  IF u \in Closers THEN IF ClosesHere(w, u) THEN Close(w) ELSE Stop(w)
  ELSE IF w.expect = "colon" THEN IF u = ":" THEN Expect(w, "value") ELSE Stop(w)
  ELSE IF w.expect = "comma" THEN IF u = "," THEN AfterComma(w) ELSE Stop(w)
  ELSE IF u \in Openers
       THEN IF NoRoom(w) \/ KeySlot(w) THEN Stop(w) ELSE Open(w, KindOf[u])
  ELSE IF u \notin Values \/ (KeySlot(w) /\ u \notin Strings) THEN Stop(w)
  ELSE [AfterScalar(Put(w, IF u \in Strings THEN "str" ELSE u, n)) EXCEPT
          !.long = @ \/ (KeySlot(w) /\ u \in {"long", "wide"})]

yep_json_walk_next(w, u, n) ==
  IF w.st \in {"reject", "tail"} THEN w    \* DONE: the caller judges what follows
  ELSE IF w.st = "lead" THEN IF u \in White THEN w ELSE Lead(w, u)
  ELSE IF u = "tab" THEN Stop(w)
  ELSE IF u = "nl" THEN [w EXCEPT !.glued = FALSE]
  ELSE IF BadNeighbour(w, u) THEN Stop(w)
  ELSE Glue(WalkArm(w, u, n), u)

(* tape_walk: the same machine fused with the tape.  The key slot is asked *)
(* for by the number and the collection arm, not by the literal arm, whose *)
(* successor is always a separator.                                        *)
ChainArm(w, u, n) ==
  IF w.expect = "colon" THEN IF u = ":" THEN Expect(w, "value") ELSE Stop(w)
  ELSE IF w.expect = "comma" /\ u = "," THEN AfterComma(w)
  ELSE IF u \in Closers THEN IF ClosesHere(w, u) THEN Close(w) ELSE Stop(w)
  ELSE IF w.expect = "comma" THEN Stop(w)
  ELSE IF u = "num" THEN IF KeySlot(w) THEN Stop(w) ELSE Expect(Put(w, u, n), "comma")
  ELSE IF u \in Strings THEN AfterScalar(Put(w, "str", n))
  ELSE IF u \in Openers
       THEN IF NoRoom(w) \/ KeySlot(w) THEN Stop(w) ELSE Open(w, KindOf[u])
  ELSE IF u = "lit" THEN Expect(Put(w, u, n), "comma")
  ELSE Stop(w)

tape_walk(w, u, n) ==
  IF w.st = "reject" \/ u \in White THEN [w EXCEPT !.glued = FALSE]
  ELSE IF w.st = "lead" THEN Lead(w, u)
  ELSE IF w.st = "tail" \/ BadNeighbour(w, u) THEN Stop(w)
  ELSE Glue(ChainArm(w, u, n), u)

-----------------------------------------------------------------------------
(* The fused walks: a cycle of labels per kind of collection.  The labels  *)
(* are named by what they wait for: lmap1 key?, lmap key, lmapcolon colon, *)
(* lmapval and lseq value, lseq1 value?, lmapafter and lseqafter comma.    *)

Number(w, u, n, strict_nums) ==
  IF strict_nums /\ u = "bad" THEN Stop(w)
  ELSE Expect(Put(w, IF strict_nums THEN u ELSE "NUM", n), "comma")

(* lmapcolon: the first key past the byte limit settles the verdict.       *)
KeyVerdict(w, u) ==
  IF w.known \/ u \notin {"long", "wide"} THEN w
  ELSE [w EXCEPT !.known = TRUE, !.long = u = "long"]

Member(w, u, n, strict_nums) ==
  IF u \in Strings THEN AfterScalar(Put(w, "str", n))
  ELSE IF u \in {"num", "bad"} THEN Number(w, u, n, strict_nums)
  ELSE IF u = "lit" THEN Expect(Put(w, u, n), "comma")
  ELSE IF u \in Openers /\ ~NoRoom(w) THEN Open(w, KindOf[u])
  ELSE Stop(w)

MapCycle(w, u, n, strict_nums) ==
  CASE w.expect \in {"key?", "comma"} /\ u = "}" -> Close(w)
    [] w.expect \in {"key", "key?"} /\ u \in Strings -> KeyVerdict(Expect(Put(w, "str", n), "colon"), u)
    [] w.expect = "colon" /\ u = ":" -> Expect(w, "value")
    [] w.expect = "comma" /\ u = "," -> Expect(w, "key")
    [] w.expect = "value" -> Member(w, u, n, strict_nums)
    [] OTHER -> Stop(w)

SeqCycle(w, u, n, strict_nums) ==
  CASE w.expect \in {"value?", "comma"} /\ u = "]" -> Close(w)
    [] w.expect = "comma" /\ u = "," -> Expect(w, "value")
    [] w.expect \in {"value", "value?"} -> Member(w, u, n, strict_nums)
    [] OTHER -> Stop(w)

(* The columns edition repeats both cycles: no key verdict, strict numbers.*)
ColumnsMapCycle(w, u, n) ==
  CASE w.expect \in {"key?", "comma"} /\ u = "}" -> Close(w)
    [] w.expect \in {"key", "key?"} /\ u \in Strings -> Expect(Put(w, "str", n), "colon")
    [] w.expect = "colon" /\ u = ":" -> Expect(w, "value")
    [] w.expect = "comma" /\ u = "," -> Expect(w, "key")
    [] w.expect = "value" -> Member(w, u, n, TRUE)
    [] OTHER -> Stop(w)

ColumnsSeqCycle(w, u, n) ==
  CASE w.expect \in {"value?", "comma"} /\ u = "]" -> Close(w)
    [] w.expect = "comma" /\ u = "," -> Expect(w, "value")
    [] w.expect \in {"value", "value?"} -> Member(w, u, n, TRUE)
    [] OTHER -> Stop(w)

(* The record edition.  A tab led line inside the span is refused when the *)
(* walk is done (the engine owns that law), so it is refused on sight.     *)
yep_tape_walk_lenient_fused(w, u, n, strict_nums) ==
  IF w.st = "reject" THEN w
  ELSE IF w.st = "lead" THEN IF u \in White THEN w ELSE Lead(w, u)
  ELSE IF u = "tab" /\ Last(text) = "nl" THEN Stop(w)
  ELSE IF u \in White THEN [w EXCEPT !.glued = FALSE]
  ELSE IF w.st = "tail" \/ BadNeighbour(w, u) THEN Stop(w)
  ELSE Glue(IF InMap(w) THEN MapCycle(w, u, n, strict_nums) ELSE SeqCycle(w, u, n, strict_nums), u)

(* The columns edition, called with strict numbers and clean input only.   *)
yep_tape_walk_columns_fused(w, u, n) ==
  IF w.st = "reject" THEN w
  ELSE IF w.st = "lead" THEN IF u \in White THEN w ELSE Lead(w, u)
  ELSE IF u = "tab" \/ u \in NonAscii THEN Stop(w)
  ELSE IF u = "nl" THEN [w EXCEPT !.glued = FALSE]
  ELSE IF w.st = "tail" \/ BadNeighbour(w, u) THEN Stop(w)
  ELSE Glue(IF InMap(w) THEN ColumnsMapCycle(w, u, n) ELSE ColumnsSeqCycle(w, u, n), u)

-----------------------------------------------------------------------------
(* The tree builders.  A tree is the list of its nodes in document order,  *)
(* each with its parent, and the list of the links in the order made.      *)

NoTree == [st |-> "on", stack |-> <<>>, keys |-> <<>>, nodes |-> <<>>,
           links |-> <<>>, expect |-> "value", glued |-> FALSE, long |-> FALSE]

(* dom_place: a root, a sequence entry, a key that waits for its value, or *)
(* the value that links the pair.                                          *)
dom_place(d, kind) ==
  LET id == Len(d.nodes) + 1
      e == [d EXCEPT !.nodes = Append(@, kind)]
      top == Len(d.stack)
  IN  IF top = 0 THEN e
      ELSE IF d.nodes[Last(d.stack)] # "map" THEN [e EXCEPT !.links = Append(@, <<Last(d.stack), id>>)]
      ELSE IF d.keys[top] = 0 THEN [e EXCEPT !.keys[top] = id]
      ELSE [e EXCEPT !.links = @ \o << <<Last(d.stack), d.keys[top]>>, <<Last(d.stack), id>> >>,
                     !.keys[top] = 0]

OpenNode(d, kind) ==
  LET e == dom_place(d, kind)
  IN  [e EXCEPT !.stack = Append(@, Len(e.nodes)), !.keys = Append(@, 0)]
CloseNode(d) == [d EXCEPT !.stack = Front(@), !.keys = Front(@)]

(* jb_value, entered for every value and resumed after it: expect is       *)
(* "first" after an opener, "value" on entry and "after" behind a member.  *)
jb_value(d, u) ==
  LET top == Len(d.stack)
      inMap == top > 0 /\ d.nodes[Last(d.stack)] = "map"
      Refuse == [d EXCEPT !.st = "reject"]
      Done(e) == [e EXCEPT !.expect = IF Len(e.stack) = 0 THEN "end" ELSE "after"]
      Leaves == u \in Closers /\ top > 0 /\ KindOf[u] = d.nodes[Last(d.stack)]
  IN  IF d.st = "reject" \/ u \in White THEN [d EXCEPT !.glued = FALSE]
      ELSE IF d.expect = "end" \/ BadNeighbour(d, u) THEN Refuse
      ELSE IF d.expect = "after" /\ u = ":" /\ inMap /\ d.keys[top] # 0
      THEN IF d.long THEN Refuse ELSE Glue(Expect(d, "value"), u)
      ELSE IF d.expect = "after" /\ u = "," THEN Glue(Expect(d, "value"), u)
      ELSE IF d.expect \in {"first", "after"} /\ Leaves THEN Glue(Done(CloseNode(d)), u)
      ELSE IF d.expect = "after" THEN Refuse
      ELSE IF u \in Openers THEN Expect(OpenNode(d, KindOf[u]), "first")
      ELSE IF u \notin Strings \cup {"num", "lit"} THEN Refuse
      ELSE Glue([Done(dom_place(d, IF u \in Strings THEN "str" ELSE u)) EXCEPT
                   !.long = u = "long"], u)

(* yt_flow_scan: the key law and the nesting read off the tape.  A frame   *)
(* alternates keys and values; a collection takes a slot of its parent.    *)
yt_flow_scan(t) ==
  LET Flip(f) == IF f # <<>> /\ Last(f).map THEN [f EXCEPT ![Len(f)].key = ~@] ELSE f
      Take(a, r) ==
        IF r.kind = "doc" THEN a
        ELSE IF r.kind \in {"seq", "map"}
        THEN LET f == Append(Flip(a.frames), [map |-> r.kind = "map", key |-> TRUE])
             IN  [a EXCEPT !.frames = f, !.maxd = Max({@, Len(f)})]
        ELSE IF r.kind = "close" THEN [a EXCEPT !.frames = Front(@)]
        ELSE [a EXCEPT !.frames = Flip(@),
                       !.long = @ \/ (Last(a.frames).map /\ Last(a.frames).key
                                       /\ text[r.at] = "long")]
  IN  FoldLeft(Take, [frames |-> <<>>, maxd |-> 0, long |-> FALSE], t)

(* dom_from_tape: the records drive the same placement; a mapping closed   *)
(* behind a lone key pairs it with a null, and a deferred number is        *)
(* classified here.                                                        *)
dom_from_tape(t) ==
  LET Null(d) == LET id == Len(d.nodes) + 1
                 IN  [d EXCEPT !.nodes = Append(@, "null"), !.keys[Len(d.stack)] = 0,
                               !.links = @ \o << <<Last(d.stack), Last(d.keys)>>, <<Last(d.stack), id>> >>]
      Take(d, r) ==
        IF d.st = "reject" \/ r.kind = "doc" THEN d
        ELSE IF r.kind \in {"seq", "map"} THEN OpenNode(d, r.kind)
        ELSE IF r.kind = "close"
             THEN CloseNode(IF Last(d.keys) # 0 THEN Null(d) ELSE d)
        ELSE IF r.kind = "NUM" /\ text[r.at] # "num" THEN [d EXCEPT !.st = "reject"]
        ELSE dom_place(d, IF r.kind = "NUM" THEN "num" ELSE r.kind)
  IN  FoldLeft(Take, NoTree, t)

-----------------------------------------------------------------------------
(* The routes, over the prefix as a whole document.                        *)

Bare == SelectSeq(text, LAMBDA u : u \notin White)
Has(S) == \E i \in DOMAIN text : text[i] \in S
Container == Bare # <<>> /\ Head(Bare) \in Openers
Ends(w) == w.st = "tail"
FirstAt == CHOOSE i \in DOMAIN text : text[i] \notin White /\ \A j \in 1..(i - 1) : text[j] \in White

RootRecord == <<Rec("doc", 0), Rec(IF Bare[1] \in Strings THEN "str" ELSE Bare[1], FirstAt)>>
Result(st, tape) == [st |-> st, tape |-> tape]


(* yeptris_parse_json_tape: the columns walk, the record walk when nothing *)
(* in the input is gated, then the validating sequence.                    *)
yeptris_parse_json_tape ==
  IF Container /\ Ends(cols) THEN Result("ok", cols.tape)
  ELSE IF Container /\ ~Has(NonAscii) /\ Ends(chain) THEN Result("ok", chain.tape)
  ELSE IF ~Ends(doc) THEN Result("parse", <<>>)
  ELSE IF Has({"ill"}) THEN Result("encoding", <<>>)
  ELSE IF ~Container THEN Result("ok", RootRecord)
  ELSE IF Ends(chain) THEN Result("ok", chain.tape)
  ELSE Result("internal", <<>>)

(* yeptris_parse_json_tape_lenient: gated input takes the strict route; a  *)
(* root that is neither a string nor a literal is one deferred run.        *)
yeptris_parse_json_tape_lenient ==
  IF Has(NonAscii) THEN yeptris_parse_json_tape
  ELSE IF Bare = <<>> THEN Result("parse", <<>>)
  ELSE IF Container
       THEN IF Ends(recs) /\ ~recs.long THEN Result("ok", recs.tape) ELSE Result("parse", <<>>)
  ELSE IF Bare[1] \in Strings \cup {"lit"}
       THEN IF Len(Bare) = 1 THEN Result("ok", RootRecord) ELSE Result("parse", <<>>)
  ELSE Result("ok", <<Rec("doc", 0), Rec("NUM", FirstAt)>>)

(* yeptris_tape_convert over the whole tape: every number span is scanned  *)
(* again and must be consumed whole; a root span runs to the end.          *)
yeptris_tape_convert(t) ==
  \A i \in DOMAIN t : t[i].kind = "NUM" =>
    text[t[i].at] = "num" /\ (Len(t) = 2 => Bare = <<"num">>)

-----------------------------------------------------------------------------
Init ==
  /\ part \in {"document", "number", "string"}
  /\ text = IF part = "string" THEN <<"q">> ELSE <<>>
  /\ doc = Fresh /\ walk = Fresh /\ chain = Fresh
  /\ cols = Fresh /\ recs = Fresh /\ flow = Fresh
  /\ tree = NoTree

(* The next token of the document.  Two numbers never touch, and a prefix  *)
(* that every machine has refused is not continued.                        *)
ReadToken(u) ==
  LET n == Len(text) + 1
  IN  /\ part = "document"
      /\ Len(text) < MaxTokens
      /\ {doc.st, walk.st, chain.st, recs.st} # {"reject"}
      /\ ~(u \in {"num", "bad"} /\ text # <<>> /\ Last(text) \in {"num", "bad"})
      /\ text' = Append(text, u)
      /\ doc' = yep_json_document(doc, u)
      /\ walk' = yep_json_walk_next(walk, u, n)
      /\ chain' = tape_walk(chain, u, n)
      /\ cols' = yep_tape_walk_columns_fused(cols, u, n)
      /\ recs' = yep_tape_walk_lenient_fused(recs, u, n, FALSE)
      /\ flow' = yep_tape_walk_lenient_fused(flow, u, n, TRUE)
      /\ tree' = jb_value(tree, u)
      /\ UNCHANGED part

(* The next character of a number or of a string.                          *)
ReadChar(c) ==
  /\ part # "document"
  /\ c \in (IF part = "number" THEN NumberUnits ELSE StringUnits)
  /\ Len(text) < MaxChars
  /\ text' = Append(text, c)
  /\ UNCHANGED <<part, machines>>

Next == \/ \E u \in Tokens : ReadToken(u)
        \/ \E c \in NumberUnits \cup StringUnits : ReadChar(c)

Spec == Init /\ [][Next]_vars

-----------------------------------------------------------------------------
(* The grammar the machines are held to: JSON over tokens, at most d       *)
(* collections deep, with the scalars S; loose also lets a member of a     *)
(* mapping be a lone literal.                                              *)
RECURSIVE IsValue(_, _, _, _), IsEntries(_, _, _, _), IsMembers(_, _, _, _)
IsValue(s, d, S, loose) ==
  \/ Len(s) = 1 /\ s[1] \in S
  \/ /\ d > 0 /\ Len(s) >= 2
     /\ LET inner == SubSeq(s, 2, Len(s) - 1)
        IN  \/ s[1] = "[" /\ Last(s) = "]" /\ (inner = <<>> \/ IsEntries(inner, d - 1, S, loose))
            \/ s[1] = "{" /\ Last(s) = "}" /\ (inner = <<>> \/ IsMembers(inner, d - 1, S, loose))
IsEntries(s, d, S, loose) ==
  \/ IsValue(s, d, S, loose)
  \/ \E k \in DOMAIN s : /\ s[k] = "," /\ IsValue(SubSeq(s, 1, k - 1), d, S, loose)
                          /\ IsEntries(SubSeq(s, k + 1, Len(s)), d, S, loose)
IsMembers(s, d, S, loose) ==
  LET Member1(m) ==
        \/ Len(m) > 2 /\ m[1] \in Strings /\ m[2] = ":" /\ IsValue(SubSeq(m, 3, Len(m)), d, S, loose)
        \/ loose /\ m = <<"lit">>
  IN  \/ Member1(s)
      \/ \E k \in DOMAIN s : s[k] = "," /\ Member1(SubSeq(s, 1, k - 1))
                              /\ IsMembers(SubSeq(s, k + 1, Len(s)), d, S, loose)

Scalars == Strings \cup {"num", "lit"}
IsJson(d) == IsValue(Bare, d, Scalars, FALSE)
Inside(i) == \E j \in 1..(i - 1) : text[j] \in Openers
TabInside == \E i \in DOMAIN text : text[i] = "tab" /\ Inside(i)
TabLedLine == \E i \in DOMAIN text : i > 1 /\ text[i] = "tab" /\ text[i - 1] = "nl" /\ Inside(i)
Document == part = "document"

TypeOK ==
  /\ part \in {"document", "number", "string"}
  /\ text \in Seq(IF Document THEN Tokens ELSE NumberUnits \cup StringUnits)
  /\ \A w \in {doc, walk, chain, cols, recs, flow} :
       /\ w.st \in {"lead", "on", "tail", "reject"}
       /\ w.stack \in Seq({"seq", "map"}) /\ Len(w.stack) <= Depth
       /\ w.expect \in {"value", "value?", "key", "key?", "colon", "comma"}
       /\ w.st # "reject" /\ w # doc => Len(w.opens) = Len(w.stack)
  /\ tree.st \in {"on", "reject"} /\ Len(tree.keys) = Len(tree.stack)

(* Every machine of the lane decides one grammar.  The validator accepts   *)
(* JSON of up to Depth - 1 collections (its root frame takes one), the     *)
(* fused walks JSON of up to Depth, the columns walk only without tabs and *)
(* non-ASCII, the deferred walk with any number-ish run for a number; the  *)
(* record walk accepts, besides, a lone literal for a member of a mapping. *)
(* The comments of tape.c and scan/json.c say that the grammar never       *)
(* diverges between them.                                                  *)
WalkersAgree ==
  Document =>
    /\ Ends(doc) <=> IsJson(Depth - 1)
    /\ Ends(flow) <=> Container /\ IsJson(Depth) /\ ~TabLedLine
    /\ Ends(cols) <=> Container /\ IsJson(Depth) /\ ~TabInside /\ ~Has(NonAscii)
    /\ Ends(recs) <=> /\ Container /\ ~TabLedLine
                      /\ IsValue(Bare, Depth, Scalars \cup {"bad"}, FALSE)
    /\ Ends(chain) <=> Container /\ IsValue(Bare, Depth, Scalars, TRUE)
    /\ Ends(walk) <=>
         \E k \in DOMAIN text :
           LET span == SelectSeq(SubSeq(text, 1, k), LAMBDA u : u \notin White)
           IN  /\ Container /\ IsValue(span, Depth, Scalars, FALSE)
               /\ \A i \in 1..k : text[i] = "tab" => ~Inside(i)

(* Two walks that accept a document give the same tape, up to the deferred *)
(* kind of a number, and OPEN and CLOSE records point at each other around *)
(* a balanced span; no walk writes past the len + 2 records of the carve.  *)
TapesAgree ==
  Document =>
    LET Plain(t) == [i \in DOMAIN t |-> IF t[i].kind \in {"NUM", "bad"} THEN [t[i] EXCEPT !.kind = "num"]
                                        ELSE t[i]]
        walks == {walk, chain, cols, recs, flow}
        Opens(t, i) == Cardinality({j \in 1..i : t[j].kind \in {"seq", "map"}})
                         - Cardinality({j \in 1..i : t[j].kind = "close"})
    IN  \A v, w \in walks :
          /\ Len(w.tape) <= Len(text) + 2
          /\ Ends(v) /\ Ends(w) /\ Ends(flow) => Plain(v.tape) = Plain(w.tape)
          /\ Ends(w) => \A i \in DOMAIN w.tape : w.tape[i].kind = "close" =>
               LET o == w.tape[i].at + 1
               IN  /\ w.tape[o].kind \in {"seq", "map"} /\ w.tape[o].at + 1 = i
                   /\ Opens(w.tape, o) = Opens(w.tape, i) + 1
                   /\ \A j \in o..(i - 1) : Opens(w.tape, j) >= Opens(w.tape, o)

(* The strict route: a JSON document of valid UTF-8 gives its tape, one of *)
(* ill-formed UTF-8 the encoding error, anything else the grammar error,   *)
(* and a validated document is never refused by the walk behind the        *)
(* validation.  (The edges: a lone literal as a member is let through, and *)
(* a document Depth collections deep is let through only when it is ASCII.)*)
StrictRouteRight ==
  Document =>
    LET r == yeptris_parse_json_tape
        edge == Container /\ IsJson(Depth) /\ ~IsJson(Depth - 1)
        loose == Container /\ ~Has(NonAscii) /\ IsValue(Bare, Depth, Scalars, TRUE)
    IN  /\ r.st # "internal"
        /\ r.st = "ok" <=> (IsJson(Depth - 1) /\ ~Has({"ill"})) \/ (edge /\ ~Has(NonAscii)) \/ loose
        /\ r.st = "encoding" <=> IsJson(Depth - 1) /\ Has({"ill"})

(* Deferring the numbers changes when a document is refused, not whether:  *)
(* without non-ASCII, long keys and tab-led lines, a document that the     *)
(* lenient route takes and yeptris_tape_convert drains is one the strict   *)
(* fused walk takes, with the same tape, and the other way round; a key    *)
(* past the simple-key limit is refused wherever it stands.                *)
LenientDefersOnly ==
  Document =>
    LET r == yeptris_parse_json_tape_lenient
        key(i) == i < Len(Bare) /\ Bare[i] = "long" /\ Bare[i + 1] = ":"
        anyLong == \E i \in DOMAIN Bare : key(i)
    IN  ~Has(NonAscii) /\ Bare # <<>> =>
          /\ Ends(recs) => (r.st = "ok" <=> ~anyLong)
          /\ ~anyLong /\ ~TabLedLine =>
               ((r.st = "ok" /\ yeptris_tape_convert(r.tape)) <=> IsJson(Depth))
          /\ Ends(flow) => yt_flow_scan(flow.tape).long = anyLong
          /\ Ends(flow) => (yt_flow_scan(flow.tape).maxd = Depth => ~IsJson(Depth - 1))

(* The tree a validated document gets is the same whether it is built from *)
(* the text (jb_value) or, later, from the tape of any walk that accepted  *)
(* it: the same nodes, linked in the same order, every key with its value. *)
BuildersAgree ==
  Document /\ Ends(doc) /\ tree.expect = "end" =>
    /\ tree.st = "on" => Len(tree.links) % 2 = 0 \/ Has({"["})
    /\ \A w \in {chain, cols, recs, flow} :
         Ends(w) => LET d == dom_from_tape(w.tape)
                    IN  /\ d.st = "on"
                        /\ d.nodes = tree.nodes /\ d.links = tree.links

(* A number is read alike by the three scans, exactly up to int64.         *)
NumbersAgree == part = "number" => NumberKernelsAgree(text)

(* A string closes at the same quote on every path of the fused arm.       *)
StringsAgree == part = "string" => StringKernelsAgree(text)
=============================================================================
